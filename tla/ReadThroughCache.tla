--------------------------- MODULE ReadThroughCache ---------------------------
(***************************************************************************)
(* One entry of the in-memory caches that stand before the database: an    *)
(* API key (services/auth_service.py), a setting, or the backend list      *)
(* (services/config_service.py).  Each worker has caches of its own; the   *)
(* row is shared.                                                          *)
(*                                                                         *)
(* A reader that misses awaits the database and stores what it read when   *)
(* it resumes.  A writer commits the row and drops the entry of its own    *)
(* worker, in one order or the other, or not at all, and awaits the        *)
(* database in between.  The database is external: it executes a query or  *)
(* a commit at one instant, some time before the caller resumes.           *)
(*                                                                         *)
(* A row is its version, counted from 0.  An API key is version 0 until it *)
(* is revoked, and has an expiry; what its cache holds for a key that is   *)
(* revoked or expired, None, is version 1.                                 *)
(***************************************************************************)
EXTENDS Integers, Sequences

CONSTANTS
  Reader, Writer, Worker,
  ApiKeys,     \* whether the entry may be, or not be, an API key
  Ttl,         \* the cache's ttl
  Expiry,      \* APIKey.expires_at
  MaxDelay,    \* how long the answer to a query may be under way
  MaxClock     \* bound of the exploration: the last instant

ASSUME CacheAssumption ==
  /\ ApiKeys \subseteq BOOLEAN
  /\ Ttl \in Nat /\ Expiry \in Nat /\ MaxDelay \in Nat /\ MaxClock \in Nat

VARIABLES
  clock,
  apiKey,
  until,     \* when each version but the last was replaced
  cache,     \* the entry in each worker's TTLCache
  home,      \* the worker of a reader or a writer
  phase,     \* where a reader is: "idle", "asking" or "answered"
  found,     \* the version its query returned
  since,     \* ... and when it did
  served,    \* the version the reader was last given
  servedAt,  \* ... and when it was
  order,     \* how a writer invalidates, see Order
  step,      \* where it is, see Step
  wrote      \* the version it committed

readerVars == <<phase, found, since, served, servedAt>>
writerVars == <<order, step, wrote>>
vars == <<clock, apiKey, until, cache, home, readerVars, writerVars>>

\* After the commit: revoke_key, _save_setting, set_server_gpu, delete_gpu_host.
\* Before it: register_backend, update_backend, delete_backend.  Never: the
\* settings route.
Order == {"after", "before", "never"}
\* A writer has "raced" when it is done but a reader of its worker, at that
\* moment, had an older row in hand.
Step == {"new", "cleared", "committed", "done", "raced"}

row == Len(until)      \* the version that is committed
Absent == [value |-> 0, expires |-> -1]

TypeOK ==
  /\ clock \in Nat
  /\ apiKey \in BOOLEAN
  /\ until \in Seq(Nat)
  /\ apiKey => row <= 1
  /\ cache \in [Worker -> [value : Nat, expires : Nat \cup {-1}]]
  /\ home \in [Reader \cup Writer -> Worker]
  /\ phase \in [Reader -> {"idle", "asking", "answered"}]
  /\ found \in [Reader -> Nat]
  /\ since \in [Reader -> Nat]
  /\ served \in [Reader -> Nat]
  /\ servedAt \in [Reader -> Nat]
  /\ order \in [Writer -> Order]
  /\ step \in [Writer -> Step]
  /\ wrote \in [Writer -> Nat]

Init ==
  /\ clock = 0
  /\ apiKey \in ApiKeys
  /\ until = <<>>
  /\ cache = [w \in Worker |-> Absent]
  /\ home \in [Reader \cup Writer -> Worker]
  /\ phase = [r \in Reader |-> "idle"]
  /\ found = [r \in Reader |-> 0]
  /\ since = [r \in Reader |-> 0]
  /\ served = [r \in Reader |-> 0]
  /\ servedAt = [r \in Reader |-> 0]
  /\ order \in [Writer -> IF apiKey THEN {"after"} ELSE Order]
  /\ step = [x \in Writer |-> "new"]
  /\ wrote = [x \in Writer |-> 0]

-----------------------------------------------------------------------------
(* TTLCache.                                                               *)

\* Bug: what has expired is served until something evicts it.
LiveForever(w) == cache[w].expires >= 0

\* get's answer: an entry is served up to and at its last instant.
Live(w) == cache[w].expires >= clock

Set(w, v) == cache' = [cache EXCEPT ![w] = [value |-> v, expires |-> clock + Ttl]]
Drop(w) == cache' = [cache EXCEPT ![w] = Absent]

\* set, of another key, in a cache that is full.
EvictExpired(w) ==
  /\ cache[w] # Absent /\ ~Live(w)
  /\ Drop(w)
  /\ UNCHANGED <<clock, apiKey, until, home, readerVars, writerVars>>

-----------------------------------------------------------------------------
(* Readers: validate_key, get_setting, list_backends.                      *)

Give(r, v) ==
  /\ served' = [served EXCEPT ![r] = v]
  /\ servedAt' = [servedAt EXCEPT ![r] = clock]

Hit(r) ==
  /\ phase[r] = "idle" /\ Live(home[r])
  /\ Give(r, cache[home[r]].value)
  /\ UNCHANGED <<clock, apiKey, until, cache, home, phase, found, since, writerVars>>

Miss(r) ==
  /\ phase[r] = "idle" /\ ~Live(home[r])
  /\ Drop(home[r])
  /\ phase' = [phase EXCEPT ![r] = "asking"]
  /\ UNCHANGED <<clock, apiKey, until, home, found, since, served, servedAt, writerVars>>

\* The database executes the query.
Query(r) ==
  /\ phase[r] = "asking"
  /\ found' = [found EXCEPT ![r] = row]
  /\ since' = [since EXCEPT ![r] = clock]
  /\ phase' = [phase EXCEPT ![r] = "answered"]
  /\ UNCHANGED <<clock, apiKey, until, cache, home, served, servedAt, writerVars>>

Rest(r) ==
  /\ phase' = [phase EXCEPT ![r] = "idle"]
  /\ found' = [found EXCEPT ![r] = 0]
  /\ since' = [since EXCEPT ![r] = 0]

\* What validate_key makes of the row, when it resumes.
Value(r) == IF apiKey /\ clock > Expiry THEN 1 ELSE found[r]

Store(r) ==
  /\ phase[r] = "answered"
  /\ Set(home[r], Value(r))
  /\ Give(r, Value(r))
  /\ Rest(r)
  /\ UNCHANGED <<clock, apiKey, until, home, writerVars>>

\* The query raises, and so does the reader.
ReadFails(r) ==
  /\ phase[r] \in {"asking", "answered"}
  /\ Rest(r)
  /\ UNCHANGED <<clock, apiKey, until, cache, home, served, servedAt, writerVars>>

-----------------------------------------------------------------------------
(* Writers.                                                                *)

Go(x, s) == step' = [step EXCEPT ![x] = s]

\* register_backend, update_backend and delete_backend clear the cache; their
\* routes commit.
ClearFirst(x) ==
  /\ step[x] = "new" /\ order[x] = "before"
  /\ Drop(home[x])
  /\ Go(x, "cleared")
  /\ UNCHANGED <<clock, apiKey, until, home, readerVars, order, wrote>>

\* A key that is revoked stays so.
Write == until' = IF apiKey /\ row = 1 THEN until ELSE Append(until, clock)

Commit(x) ==
  /\ step[x] = IF order[x] = "before" THEN "cleared" ELSE "new"
  /\ Write
  /\ wrote' = [wrote EXCEPT ![x] = row']
  /\ Go(x, IF order[x] = "after" THEN "committed" ELSE "done")
  /\ UNCHANGED <<clock, apiKey, cache, home, readerVars, order>>

\* A reader of w has an older row than v in hand.
Behind(w, v) == \E r \in Reader : home[r] = w /\ phase[r] = "answered" /\ found[r] < v

\* Bug: only what has expired is dropped.
InvalidateExpired(x) ==
  /\ step[x] = "committed"
  /\ IF Live(home[x]) THEN UNCHANGED cache ELSE Drop(home[x])
  /\ Go(x, IF Behind(home[x], wrote[x]) THEN "raced" ELSE "done")
  /\ UNCHANGED <<clock, apiKey, until, home, readerVars, order, wrote>>

Invalidate(x) ==
  /\ step[x] = "committed"
  /\ Drop(home[x])
  /\ Go(x, IF Behind(home[x], wrote[x]) THEN "raced" ELSE "done")
  /\ UNCHANGED <<clock, apiKey, until, home, readerVars, order, wrote>>

\* No answer is under way for longer than MaxDelay.
Tick ==
  /\ clock < MaxClock
  /\ \A r \in Reader : phase[r] = "answered" => clock < since[r] + MaxDelay
  /\ clock' = clock + 1
  /\ UNCHANGED <<apiKey, until, cache, home, readerVars, writerVars>>

Next ==
  \/ \E r \in Reader : Hit(r) \/ Miss(r) \/ Query(r) \/ Store(r) \/ ReadFails(r)
  \/ \E x \in Writer : ClearFirst(x) \/ Commit(x) \/ Invalidate(x)
  \/ \E w \in Worker : EvictExpired(w)
  \/ Tick

Spec == Init /\ [][Next]_vars

-----------------------------------------------------------------------------
(* Properties.                                                             *)

\* Whichever worker serves it, and however reads, commits and invalidations
\* interleave, a row that was replaced is served for at most the ttl and the time
\* an answer is under way: a revoked key stops working everywhere.
BoundedStaleness ==
  \A r \in Reader :
    served[r] < row => servedAt[r] <= until[served[r] + 1] + Ttl + MaxDelay

\* A key that has expired is accepted for at most the ttl, however long the query
\* took: its expiry is compared when the answer is there.
ExpiredRejected ==
  apiKey => \A r \in Reader : served[r] = 0 => servedAt[r] <= Expiry + Ttl

\* Invalidating after the commit takes effect at once in the writer's worker:
\* unless a reader had the older row in hand at that moment, the older row is never
\* in that worker's cache again.
InvalidationHolds ==
  \A x \in Writer :
    step[x] = "done" /\ order[x] = "after" =>
      \/ cache[home[x]] = Absent
      \/ cache[home[x]].value >= wrote[x]

-----------------------------------------------------------------------------
(* The inductive invariant behind them.                                    *)

\* Versions were replaced before now.
PastUntil == \A v \in 1..row : until[v] <= clock

\* A reader's answer is not older than MaxDelay, and its row was replaced, if it
\* was, after the query.
AnswerFresh ==
  \A r \in Reader : phase[r] = "answered" =>
    /\ since[r] <= clock /\ clock <= since[r] + MaxDelay
    /\ found[r] <= row
    /\ found[r] < row => since[r] <= until[found[r] + 1]

\* No entry outlives its row by more than the ttl and the delay, nor the key's
\* expiry by more than the ttl.
EntryFresh ==
  \A w \in Worker : cache[w] # Absent =>
    /\ cache[w].expires <= clock + Ttl
    /\ cache[w].value < row => cache[w].expires <= until[cache[w].value + 1] + Ttl + MaxDelay
    /\ apiKey /\ cache[w].value = 0 => cache[w].expires <= Expiry + Ttl

\* What a reader was served, it was served before now.
ServedPast == \A r \in Reader : servedAt[r] <= clock

\* After an invalidation that no reader raced, no reader of that worker has the
\* older row in hand.
NoneBehind ==
  \A x \in Writer :
    /\ step[x] \in {"committed", "done", "raced"} => wrote[x] <= row
    /\ step[x] = "done" /\ order[x] = "after" => ~Behind(home[x], wrote[x])

IInv ==
  /\ TypeOK
  /\ PastUntil /\ AnswerFresh /\ EntryFresh /\ ServedPast /\ NoneBehind
  /\ BoundedStaleness /\ ExpiredRejected /\ InvalidationHolds
=============================================================================
