------------------------------ MODULE LiveStats ------------------------------
(***************************************************************************)
(* The in-process live statistics store (observability/store.py) and the   *)
(* request trackers that write it (observability/collect/requests.py).     *)
(*                                                                         *)
(* A tracker follows one dispatched request.  Its calls run on the event   *)
(* loop, except for finish_open_tracker, which a response's background     *)
(* task runs on a pool thread, and for snapshot, which a metrics reader    *)
(* runs on its export thread.  Every store method holds the store's lock,  *)
(* so it is one action; a tracker method that calls two store methods is   *)
(* two actions, and the event loop runs nothing else in between.           *)
(*                                                                         *)
(* The server type of a key is left out: a server has one type.  Rates,    *)
(* tokens, latencies and rollups are left out too.                         *)
(***************************************************************************)
EXTENDS Integers, FiniteSets

CONSTANTS
  Req,            \* requests, one tracker each
  Server,         \* server names
  Model,          \* model names, the overflow name among them
  Overflow,       \* OVERFLOW_MODEL
  MaxModels,      \* MAX_MODELS_PER_SERVER
  IdleEvict,      \* IDLE_EVICT_S
  ReaderThread,   \* TRUE: snapshot may run between two store calls of the loop
  MaxClock,       \* bound of the exploration: the last instant
  MaxBytes        \* bound of the exploration: body bytes of a response

ASSUME LiveStatsAssumption ==
  /\ IsFiniteSet(Req)
  /\ Server # {}
  /\ Overflow \in Model
  /\ MaxModels \in Nat \ {0}
  /\ IdleEvict \in Nat
  /\ ReaderThread \in BOOLEAN
  /\ MaxClock \in Nat
  /\ MaxBytes \in Nat

VARIABLES
  clock,
  keys,         \* the keys of LiveStats._keys
  waiting,      \* _KeyState.waiting, 0 for a key without state
  generating,   \* _KeyState.generating
  bytes,        \* _KeyState.inflight_bytes
  lastActive,   \* _KeyState.last_active
  phase,        \* where each tracker is, see Phase
  key,          \* RequestTracker.key
  pending,      \* the resolved key a dispatch or retarget is about to use
  held,         \* RequestTracker._inflight
  busy          \* the requests whose store calls the loop is in the middle of

vars == <<clock, keys, waiting, generating, bytes, lastActive,
          phase, key, pending, held, busy>>

Key == Server \X Model

Phase == {"new", "resolved", "waiting", "retargeting", "served",
          "generating", "closing", "givingBack", "finished"}
WaitPhase == {"waiting", "retargeting", "served"}   \* no first byte yet

TypeOK ==
  /\ clock \in Nat
  /\ keys \in SUBSET Key
  /\ waiting \in [Key -> Nat]
  /\ generating \in [Key -> Nat]
  /\ bytes \in [Key -> Nat]
  /\ lastActive \in [Key -> Nat]
  /\ phase \in [Req -> Phase]
  /\ key \in [Req -> Key]
  /\ pending \in [Req -> Key]
  /\ held \in [Req -> 0..MaxBytes]
  /\ busy \in SUBSET Req

Init ==
  /\ clock = 0
  /\ keys = {}
  /\ waiting = [k \in Key |-> 0]
  /\ generating = [k \in Key |-> 0]
  /\ bytes = [k \in Key |-> 0]
  /\ lastActive = [k \in Key |-> 0]
  /\ phase = [r \in Req |-> "new"]
  /\ key = [r \in Req |-> CHOOSE k \in Key : TRUE]
  /\ pending = key
  /\ held = [r \in Req |-> 0]
  /\ busy = {}

-----------------------------------------------------------------------------
(* The store's helpers, over a set of keys K and their activity times la.  *)

KeysOf(K, s) == {k \in K : k[1] = s}

Resolve(K, k) ==
  IF k \in K \/ Cardinality(KeysOf(K, k[1])) < MaxModels
    THEN k
    ELSE <<k[1], Overflow>>

\* Bug: eviction looks at the activity time alone.
IdleByTimeOnly(K, la) == {k \in K : clock - la[k] > IdleEvict}

Idle(K, la) ==
  {k \in K : /\ clock - la[k] > IdleEvict
             /\ waiting[k] = 0
             /\ generating[k] = 0
             /\ bytes[k] = 0}

\* _state(k): the key whose state is returned, the keys it leaves behind and
\* their activity times.  Only a missing key evicts and resolves again.
StateKey(K, la, k) == IF k \in K THEN k ELSE Resolve(K \ Idle(K, la), k)
StateKeys(K, la, k) ==
  IF k \in K THEN K ELSE (K \ Idle(K, la)) \cup {StateKey(K, la, k)}
Touched(K, la, k) == [la EXCEPT ![StateKey(K, la, k)] = clock]

\* The state a store method works on.
Here(k) == StateKey(keys, lastActive, k)
Touch(k) ==
  /\ keys' = StateKeys(keys, lastActive, k)
  /\ lastActive' = Touched(keys, lastActive, k)

Dec(n) == IF n > 0 THEN n - 1 ELSE 0

-----------------------------------------------------------------------------
(* Trackers.                                                               *)

\* track_dispatch: resolve the key, then dispatch under it.
DispatchResolve(r, k) ==
  /\ busy = {}
  /\ phase[r] = "new"
  /\ phase' = [phase EXCEPT ![r] = "resolved"]
  /\ pending' = [pending EXCEPT ![r] = Resolve(keys, k)]
  /\ busy' = {r}
  /\ UNCHANGED <<clock, keys, waiting, generating, bytes, lastActive, key, held>>

Dispatch(r) ==
  /\ phase[r] = "resolved"
  /\ Touch(pending[r])
  /\ waiting' = [waiting EXCEPT ![Here(pending[r])] = @ + 1]
  /\ key' = [key EXCEPT ![r] = pending[r]]
  /\ phase' = [phase EXCEPT ![r] = "waiting"]
  /\ busy' = {}
  /\ UNCHANGED <<clock, generating, bytes, pending, held>>

\* RequestTracker.retarget: nothing when the fallback chose the same key.
RetargetResolve(r, k) ==
  /\ busy = {}
  /\ phase[r] = "waiting"
  /\ LET new == Resolve(keys, k) IN
       IF new = key[r]
         THEN /\ phase' = [phase EXCEPT ![r] = "served"]
              /\ UNCHANGED <<pending, busy>>
         ELSE /\ phase' = [phase EXCEPT ![r] = "retargeting"]
              /\ pending' = [pending EXCEPT ![r] = new]
              /\ busy' = {r}
  /\ UNCHANGED <<clock, keys, waiting, generating, bytes, lastActive, key, held>>

\* Bug: the count moves but the tracker keeps its old key.
RetargetKeepsKey(r) ==
  /\ phase[r] = "retargeting"
  /\ Touch(pending[r])
  /\ waiting' = [[waiting EXCEPT ![key[r]] = Dec(@)]
                          EXCEPT ![Here(pending[r])] = @ + 1]
  /\ phase' = [phase EXCEPT ![r] = "served"]
  /\ busy' = {}
  /\ UNCHANGED <<clock, generating, bytes, key, pending, held>>

Retarget(r) ==
  /\ phase[r] = "retargeting"
  /\ LET from == Here(key[r])
         keys1 == StateKeys(keys, lastActive, key[r])
         last1 == Touched(keys, lastActive, key[r])
         to == StateKey(keys1, last1, pending[r])
     IN  /\ keys' = StateKeys(keys1, last1, pending[r])
         /\ lastActive' = Touched(keys1, last1, pending[r])
         /\ waiting' = [[waiting EXCEPT ![from] = Dec(@)] EXCEPT ![to] = @ + 1]
  /\ key' = [key EXCEPT ![r] = pending[r]]
  /\ phase' = [phase EXCEPT ![r] = "served"]
  /\ busy' = {}
  /\ UNCHANGED <<clock, generating, bytes, pending, held>>

FirstToken(r) ==
  /\ busy = {}
  /\ phase[r] = "served"
  /\ Touch(key[r])
  /\ waiting' = [waiting EXCEPT ![Here(key[r])] = Dec(@)]
  /\ generating' = [generating EXCEPT ![Here(key[r])] = @ + 1]
  /\ phase' = [phase EXCEPT ![r] = "generating"]
  /\ UNCHANGED <<clock, bytes, key, pending, held, busy>>

SetInflightBytes(r, total) ==
  /\ busy = {}
  /\ phase[r] = "generating"
  /\ total > held[r]
  /\ Touch(key[r])
  /\ bytes' = [bytes EXCEPT ![Here(key[r])] = @ + (total - held[r])]
  /\ held' = [held EXCEPT ![r] = total]
  /\ UNCHANGED <<clock, waiting, generating, phase, key, pending, busy>>

\* RequestTracker.finish closes the request in the store, then gives back the
\* bytes it held.
FinishStore(r) ==
  /\ Touch(key[r])
  /\ IF phase[r] = "generating"
       THEN /\ generating' = [generating EXCEPT ![Here(key[r])] = Dec(@)]
            /\ UNCHANGED waiting
       ELSE /\ waiting' = [waiting EXCEPT ![Here(key[r])] = Dec(@)]
            /\ UNCHANGED generating

\* Bug: the bytes a response holds are never given back.
FinishKeepsBytes(r) ==
  /\ busy = {}
  /\ phase[r] \in {"waiting", "served", "generating"}
  /\ FinishStore(r)
  /\ phase' = [phase EXCEPT ![r] = "finished"]
  /\ UNCHANGED <<clock, bytes, key, pending, held, busy>>

Finish(r) ==
  /\ busy = {}
  /\ phase[r] \in {"waiting", "served", "generating"}
  /\ FinishStore(r)
  /\ IF held[r] > 0
       THEN /\ phase' = [phase EXCEPT ![r] = "closing"]
            /\ busy' = {r}
       ELSE /\ phase' = [phase EXCEPT ![r] = "finished"]
            /\ UNCHANGED busy
  /\ UNCHANGED <<clock, bytes, key, pending, held>>

GiveBack(r) ==
  /\ Touch(key[r])
  /\ bytes' = [bytes EXCEPT ![Here(key[r])] =
                 IF @ > held[r] THEN @ - held[r] ELSE 0]
  /\ held' = [held EXCEPT ![r] = 0]
  /\ phase' = [phase EXCEPT ![r] = "finished"]

FinishBytes(r) ==
  /\ phase[r] = "closing"
  /\ GiveBack(r)
  /\ busy' = {}
  /\ UNCHANGED <<clock, waiting, generating, key, pending>>

\* finish_open_tracker, on a pool thread: the client left before the response
\* generator started, or while it was suspended at a yield, so nothing else
\* moves this tracker; the loop goes on with the others.
FinishOpen(r) ==
  /\ phase[r] \in {"served", "generating"}
  /\ FinishStore(r)
  /\ phase' = [phase EXCEPT ![r] = IF held[r] > 0 THEN "givingBack" ELSE "finished"]
  /\ UNCHANGED <<clock, bytes, key, pending, held, busy>>

FinishOpenBytes(r) ==
  /\ phase[r] = "givingBack"
  /\ GiveBack(r)
  /\ UNCHANGED <<clock, waiting, generating, key, pending, busy>>

-----------------------------------------------------------------------------
(* Readers and time.                                                       *)

\* snapshot drops the idle keys.  A metrics reader calls it from its thread.
Snapshot ==
  /\ ReaderThread \/ busy = {}
  /\ keys' = keys \ Idle(keys, lastActive)
  /\ UNCHANGED <<clock, waiting, generating, bytes, lastActive,
                 phase, key, pending, held, busy>>

Tick ==
  /\ clock < MaxClock
  /\ clock' = clock + 1
  /\ UNCHANGED <<keys, waiting, generating, bytes, lastActive,
                 phase, key, pending, held, busy>>

Next ==
  \/ \E r \in Req, k \in Key : DispatchResolve(r, k)
  \/ \E r \in Req : Dispatch(r)
  \/ \E r \in Req, k \in Key : RetargetResolve(r, k)
  \/ \E r \in Req : Retarget(r)
  \/ \E r \in Req : FirstToken(r)
  \/ \E r \in Req, total \in 1..MaxBytes : SetInflightBytes(r, total)
  \/ \E r \in Req : Finish(r)
  \/ \E r \in Req : FinishBytes(r)
  \/ \E r \in Req : FinishOpen(r)
  \/ \E r \in Req : FinishOpenBytes(r)
  \/ Snapshot
  \/ Tick

Spec == Init /\ [][Next]_vars

-----------------------------------------------------------------------------
(* Properties.                                                             *)

WaitingOn(k) == {r \in Req : phase[r] \in WaitPhase /\ key[r] = k}
GeneratingOn(k) == {r \in Req : phase[r] = "generating" /\ key[r] = k}
BytesOn(k) ==            \* one element for each byte a tracker of k holds
  UNION {{r} \X (1..held[r]) : r \in {q \in Req : key[q] = k}}
Open(r) == phase[r] \notin {"new", "resolved", "finished"}

\* A key's waiting count is the number of requests dispatched under it that
\* have no first byte yet, and its generating count the number that have one
\* and are not finished: no path through fallback, disconnects and error
\* handlers counts a request twice or forgets one, and no clamp at zero ever
\* hides a mistake.  Least-busy routing trusts these counts.
CountsMatch ==
  \A k \in Key : /\ waiting[k] = Cardinality(WaitingOn(k))
                 /\ generating[k] = Cardinality(GeneratingOn(k))

\* A key's in-flight bytes are the bytes its trackers hold, and a finished
\* tracker holds none: fallback, disconnects and the two-step close of a
\* request, on the loop or on a pool thread, lose no byte and keep none.
BytesMatch ==
  /\ \A k \in Key : bytes[k] = Cardinality(BytesOn(k))
  /\ \A r \in Req : phase[r] = "finished" => held[r] = 0

\* The key an open request is accounted under keeps its state: idle eviction
\* never takes it, so no later update starts over from zero.
OpenKeyKept == \A r \in Req : Open(r) => key[r] \in keys

\* Once every dispatched request has finished, nothing is left in the counts.
NoResidue ==
  (\A r \in Req : phase[r] \in {"new", "finished"})
    => \A k \in Key : waiting[k] = 0 /\ generating[k] = 0 /\ bytes[k] = 0

\* However many model names clients invent, a server has at most MaxModels
\* keys and the overflow key.
KeysBounded ==
  \A s \in Server : Cardinality(KeysOf(keys, s)) <= MaxModels + 1

\* The inductive form: apart from the overflow key, at most MaxModels.
Named(K, s) == KeysOf(K, s) \ {<<s, Overflow>>}
FewNamed(K) == \A s \in Server : Cardinality(Named(K, s)) <= MaxModels

-----------------------------------------------------------------------------
(* The inductive invariant behind CountsMatch and BytesMatch.              *)

\* Only one request's store calls can be under way on the event loop.
OneMidway ==
  \A r \in Req : phase[r] \in {"resolved", "retargeting", "closing"} => busy = {r}

\* The key a dispatch or a retarget has resolved will still resolve to itself
\* when the next store call uses it.
PendingStays ==
  \A r \in Req :
    phase[r] \in {"resolved", "retargeting"} =>
      \/ pending[r] \in keys
      \/ pending[r][2] = Overflow
      \/ Cardinality(KeysOf(keys, pending[r][1])) < MaxModels

\* A tracker holds bytes only between its first byte and the call that gives
\* them back, and one that is about to give back does hold some.
HeldWhile ==
  \A r \in Req :
    /\ phase[r] \notin {"generating", "closing", "givingBack"} => held[r] = 0
    /\ phase[r] \in {"closing", "givingBack"} => held[r] > 0

IInv ==
  /\ TypeOK
  /\ IsFiniteSet(keys)
  /\ OneMidway
  /\ CountsMatch
  /\ BytesMatch
  /\ HeldWhile
  /\ OpenKeyKept
  /\ PendingStays
=============================================================================
