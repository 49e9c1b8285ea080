------------------------------ MODULE RedisSlots ------------------------------
(***************************************************************************)
(* The concurrency slots of one API key when Redis is configured: several  *)
(* gateway workers share one counter in Redis, each with an in-process     *)
(* counter it falls back to.                                               *)
(*                                                                         *)
(* Acquiring is INCR, then DECR when the limit was passed and EXPIRE       *)
(* otherwise; releasing is DECR, then DELETE when nothing was left.  Each  *)
(* is a call of its own, made after a look at _healthy; the in-process     *)
(* counter is read in one step and written in another.  Acquisitions run   *)
(* on a worker's event loop, one at a time.  A release runs there or, as   *)
(* a background task, on a pool thread, which interleaves with everything; *)
(* every release here is taken to be one of those, as they can do all that *)
(* the others can.                                                         *)
(*                                                                         *)
(* Redis is external: a counter that may be absent, with a time to live.   *)
(* DELETE removes both; INCR and DECR create an absent counter without a   *)
(* time to live, and keep the one that is there; EXPIRE on an absent       *)
(* counter does nothing.                                                   *)
(***************************************************************************)
EXTENDS Integers, FiniteSets

CONSTANTS
  Caller,        \* clients, each of which sends requests to one worker, one at a
                 \* time
  Worker,
  Limits,        \* what APIKey.max_concurrency may be
  MaxMishaps     \* bound on the calls that fail, the crashes and the overwritten
                 \* changes of a behaviour

ASSUME RedisAssumption ==
  /\ IsFiniteSet(Caller)
  /\ Limits \subseteq Nat \ {0}
  /\ MaxMishaps \in Nat

VARIABLES
  conc,      \* the counter in Redis, 0 when absent
  exists,    \* whether the counter is there
  expires,   \* whether it has a time to live
  healthy,   \* RedisRateLimiter._healthy of each worker
  local,     \* the counter of each worker's fallback limiter
  limit,     \* APIKey.max_concurrency
  at,        \* the worker a client's requests come to
  pc,        \* where its request is in the limiter, "idle" when there is none
  read,      \* what it has read of its worker's own counter
  counted,   \* history: whether it has incremented the counter in Redis, and has
             \* not decremented it
  overtaken,    \* history: the writes of that counter since
  forgotten, \* history: the most requests that were counted in Redis when the
             \* counter was deleted or expired
  slips,     \* history: the changes of a worker's own counter that others have
             \* overwritten, and the slots given back to it after Redis had got
             \* them back
  mishaps    \* how many mishaps there were

redisVars == <<conc, exists, expires, counted, forgotten>>
localVars == <<local, read, overtaken, slips>>
given == <<limit, at>>
limiterVars == <<redisVars, healthy, localVars, given, pc, mishaps>>

\* Where a request is before a call of an acquisition in Redis, and in the
\* fallback limiter: about to read, or about to write.
Calling == {"incr", "undo", "arm"}
Acquiring == Calling \cup {"turned", "taking"}
\* The same for a release.
Leaving == {"decr", "delete", "returned", "giving"}
PC == Acquiring \cup Leaving
        \cup {"idle", "holding", "holdingLocal"}

RedisTypeOK ==
  /\ conc \in Int
  /\ exists \in BOOLEAN
  /\ expires \in BOOLEAN
  /\ healthy \in [Worker -> BOOLEAN]
  /\ local \in [Worker -> 0..limit]
  /\ limit \in Limits
  /\ at \in [Caller -> Worker]
  /\ pc \in [Caller -> PC]
  /\ read \in [Caller -> 0..limit]
  /\ overtaken \in [Caller -> 0..MaxMishaps]
  /\ counted \in [Caller -> BOOLEAN]
  /\ forgotten \in Nat
  /\ slips \in [Worker -> Nat]
  /\ mishaps \in 0..MaxMishaps

RedisInit ==
  /\ conc = 0 /\ exists = FALSE /\ expires = FALSE
  /\ healthy = [w \in Worker |-> TRUE]
  /\ local = [w \in Worker |-> 0]
  /\ limit \in Limits
  /\ at \in [Caller -> Worker]
  /\ pc = [r \in Caller |-> "idle"]
  /\ read = [r \in Caller |-> 0]
  /\ overtaken = [r \in Caller |-> 0]
  /\ counted = [r \in Caller |-> FALSE]
  /\ forgotten = 0
  /\ slips = [w \in Worker |-> 0]
  /\ mishaps = 0

-----------------------------------------------------------------------------
(* Redis (external).                                                       *)

\* The requests counted in Redis.
InCounter == {r \in Caller : counted[r]}

INCR(r) ==
  /\ conc' = conc + 1 /\ exists' = TRUE
  /\ counted' = [counted EXCEPT ![r] = TRUE]
  /\ UNCHANGED <<expires, forgotten>>
DECR(r) ==
  /\ conc' = conc - 1 /\ exists' = TRUE
  /\ counted' = [counted EXCEPT ![r] = FALSE]
  /\ UNCHANGED <<expires, forgotten>>
EXPIRE == expires' = exists /\ UNCHANGED <<conc, exists, counted, forgotten>>
DELETE ==
  /\ conc' = 0 /\ exists' = FALSE /\ expires' = FALSE
  /\ forgotten' = IF Cardinality(InCounter) > forgotten THEN Cardinality(InCounter)
                                                        ELSE forgotten
  /\ UNCHANGED counted

\* The counter's hour is over, under requests that are longer than that or not.
HourEnds ==
  /\ expires
  /\ DELETE
  /\ UNCHANGED <<healthy, localVars, given, pc, mishaps>>

-----------------------------------------------------------------------------
(* RedisRateLimiter.acquire_concurrency and release_concurrency.           *)

Goes(r, p) == pc' = [pc EXCEPT ![r] = p]

\* The event loop of r's worker is in no acquisition.
LoopFree(r) == \A q \in Caller : at[q] = at[r] => pc[q] \notin Acquiring

\* _healthy is found TRUE.
TurnToRedis(r) ==
  /\ healthy[at[r]]
  /\ \/ pc[r] = "idle" /\ LoopFree(r) /\ Goes(r, "incr")
     \/ pc[r] = "holding" /\ Goes(r, "decr")
  /\ UNCHANGED <<redisVars, healthy, localVars, given, mishaps>>

Take(r) ==
  /\ pc[r] = "incr"
  /\ INCR(r)
  /\ Goes(r, IF conc + 1 > limit THEN "undo" ELSE "arm")
  /\ UNCHANGED <<healthy, localVars, given, mishaps>>

\* Bug: a refused request leaves its increment behind.
UndoForgotten(r) ==
  /\ pc[r] = "undo"
  /\ UNCHANGED redisVars
  /\ Goes(r, "idle")
  /\ UNCHANGED <<healthy, localVars, given, mishaps>>

Undo(r) ==
  /\ pc[r] = "undo"
  /\ DECR(r)
  /\ Goes(r, "idle")
  /\ UNCHANGED <<healthy, localVars, given, mishaps>>

Arm(r) ==
  /\ pc[r] = "arm"
  /\ EXPIRE
  /\ Goes(r, "holding")
  /\ UNCHANGED <<healthy, localVars, given, mishaps>>

Leave(r) ==
  /\ pc[r] = "decr"
  /\ DECR(r)
  /\ Goes(r, IF conc - 1 <= 0 THEN "delete" ELSE "idle")
  /\ UNCHANGED <<healthy, localVars, given, mishaps>>

Delete(r) ==
  /\ pc[r] = "delete"
  /\ DELETE
  /\ Goes(r, "idle")
  /\ UNCHANGED <<healthy, localVars, given, mishaps>>

\* A call raises, after it took effect or not: the worker stops using Redis and
\* the operation starts over on the fallback limiter.
Fail(r) ==
  /\ mishaps < MaxMishaps
  /\ \/ pc[r] \in Calling /\ Goes(r, "turned")
     \/ pc[r] \in {"decr", "delete"} /\ Goes(r, "returned")
  /\ \/ UNCHANGED redisVars
     \/ CASE pc[r] = "incr" -> INCR(r)
          [] pc[r] \in {"undo", "decr"} -> DECR(r)
          [] pc[r] = "arm" -> EXPIRE
          [] pc[r] = "delete" -> DELETE
  /\ healthy' = [healthy EXCEPT ![at[r]] = FALSE]
  /\ slips' = [slips EXCEPT ![at[r]] =
                 IF pc[r] \in {"decr", "delete"} /\ ~counted'[r] THEN @ + 1 ELSE @]
  /\ mishaps' = mishaps + 1
  /\ UNCHANGED <<local, read, overtaken, given>>

-----------------------------------------------------------------------------
(* The fallback limiter.                                                   *)

ReadsLocal(r, p) ==
  /\ Goes(r, p)
  /\ read' = [read EXCEPT ![r] = local[at[r]]]
  /\ UNCHANGED <<redisVars, healthy, local, overtaken, slips, given, mishaps>>

WritesLocal(r, n, p) ==
  /\ mishaps' = mishaps + overtaken[r]
  /\ slips' = [slips EXCEPT ![at[r]] = @ + overtaken[r]]
  /\ local' = [local EXCEPT ![at[r]] = n]
  /\ overtaken' = [q \in Caller |->
       IF q = r THEN 0
       ELSE IF at[q] = at[r] /\ pc[q] \in {"taking", "giving"} THEN overtaken[q] + 1
       ELSE overtaken[q]]
  /\ mishaps' <= MaxMishaps /\ \A q \in Caller : overtaken'[q] <= MaxMishaps
  /\ Goes(r, p)
  /\ read' = [read EXCEPT ![r] = 0]
  /\ counted' = [counted EXCEPT ![r] = @ /\ p # "idle"]
  /\ UNCHANGED <<conc, exists, expires, forgotten, healthy, given>>

\* The operation turns to the fallback limiter because _healthy is FALSE, or
\* because a call failed.
Turned(r) ==
  \/ pc[r] = "turned"
  \/ pc[r] = "idle" /\ LoopFree(r) /\ ~healthy[at[r]]
Returned(r) ==
  \/ pc[r] = "returned"
  \/ pc[r] \in {"holding", "holdingLocal"} /\ ~healthy[at[r]]

RefuseLocal(r) ==
  /\ Turned(r)
  /\ local[at[r]] >= limit
  /\ Goes(r, "idle")
  /\ counted' = [counted EXCEPT ![r] = FALSE]
  /\ UNCHANGED <<conc, exists, expires, forgotten, healthy, localVars, given, mishaps>>

\* Bug: one request too many is let in.
ReadToTakeOneTooMany(r) ==
  /\ Turned(r)
  /\ local[at[r]] <= limit
  /\ ReadsLocal(r, "taking")

ReadToTake(r) ==
  /\ Turned(r)
  /\ local[at[r]] < limit
  /\ ReadsLocal(r, "taking")

WriteTaken(r) == pc[r] = "taking" /\ WritesLocal(r, read[r] + 1, "holdingLocal")

ReadToGive(r) == Returned(r) /\ ReadsLocal(r, "giving")

\* Bug: nothing is given back.
GiveForgotten(r) == pc[r] = "giving" /\ WritesLocal(r, read[r], "idle")

WriteGiven(r) ==
  pc[r] = "giving" /\ WritesLocal(r, IF read[r] > 1 THEN read[r] - 1 ELSE 0, "idle")

-----------------------------------------------------------------------------
\* A worker is killed with its requests and restarts.
Kill(w) ==
  /\ mishaps < MaxMishaps
  /\ LET struck == {r \in Caller : at[r] = w}
     IN /\ pc' = [r \in Caller |-> IF r \in struck THEN "idle" ELSE pc[r]]
        /\ read' = [r \in Caller |-> IF r \in struck THEN 0 ELSE read[r]]
        /\ overtaken' = [r \in Caller |-> IF r \in struck THEN 0 ELSE overtaken[r]]
        /\ counted' = [r \in Caller |-> counted[r] /\ r \notin struck]
  /\ healthy' = [healthy EXCEPT ![w] = TRUE]
  /\ local' = [local EXCEPT ![w] = 0]
  /\ slips' = [slips EXCEPT ![w] = 0]
  /\ mishaps' = mishaps + 1
  /\ UNCHANGED <<conc, exists, expires, forgotten, given>>

-----------------------------------------------------------------------------
RedisStep(r) == TurnToRedis(r) \/ Take(r) \/ Undo(r) \/ Arm(r) \/ Leave(r) \/ Delete(r)
LocalStep(r) ==
  RefuseLocal(r) \/ ReadToTake(r) \/ WriteTaken(r) \/ ReadToGive(r) \/ WriteGiven(r)

RedisNext ==
  \/ \E r \in Caller : RedisStep(r) \/ LocalStep(r) \/ Fail(r)
  \/ \E w \in Worker : Kill(w)
  \/ HourEnds

RedisSpec == RedisInit /\ [][RedisNext]_limiterVars

-----------------------------------------------------------------------------
(* Properties.                                                             *)

\* The requests that a worker's own counter stands for, those that are about to
\* change it included, and all that the worker has let in and that have not given
\* their slot back.
LocalHolders(w) == {r \in Caller : at[r] = w /\ pc[r] \in {"holdingLocal", "giving"}}
HoldersAt(w) == {r \in Caller :
  at[r] = w /\ pc[r] \in {"arm", "holding", "decr", "holdingLocal", "returned", "giving"}}

\* Until a call fails or a worker is killed the shared counter never exceeds the
\* requests it stands for: no order of the workers' calls, of releases on pool
\* threads and of requests that outlive the counter's hour costs the key a slot
\* for good.
NoLostSlot == mishaps = 0 => conc <= Cardinality(InCounter)

\* A worker's own counter exceeds the requests it has let in itself by no more
\* than the changes of it that were overwritten.
LocalNoLostSlot == \A w \in Worker : local[w] <= Cardinality(LocalHolders(w)) + slips[w]

\* What falling back costs: however calls fail, workers restart and releases on
\* pool threads interleave, a worker has twice the limit under way at most, but
\* for the requests that a deletion or the end of the hour made Redis forget, and
\* the changes of the worker's own counter that were overwritten.
FallbackBound ==
  \A w \in Worker : Cardinality(HoldersAt(w)) <= 2 * limit + forgotten + slips[w]

-----------------------------------------------------------------------------
(* The inductive invariants behind the properties.                         *)

\* A request is counted in Redis from its increment to its decrement, and it lets
\* itself in by its worker's own counter only below the limit.
StepsInPlace ==
  \A r \in Caller :
    /\ pc[r] \in {"undo", "arm", "holding", "decr"} => counted[r]
    /\ pc[r] \in {"idle", "incr", "delete"} => ~counted[r]
    /\ pc[r] = "taking" => read[r] < limit

\* Before the first mishap nobody turns to a worker's own counter.
InRedis ==
  mishaps = 0 =>
    /\ conc <= Cardinality(InCounter)
    /\ \A w \in Worker : healthy[w]
    /\ \A r \in Caller : pc[r] \in {"idle", "incr", "undo", "arm", "holding", "decr", "delete"}

SharedInv == RedisTypeOK /\ StepsInPlace /\ InRedis

\* What is about to be written to a worker's own counter exceeds the requests it
\* stands for by no more than the changes overwritten, this one's included.
LocalReads ==
  \A r \in Caller : pc[r] \in {"taking", "giving"} =>
    read[r] <= Cardinality(LocalHolders(at[r])) + slips[at[r]] + overtaken[r]

LocalInv == LocalNoLostSlot /\ LocalReads

\* Redis counts no fewer requests than there are, but for those it forgot.
NoneMissing == Cardinality(InCounter) <= conc + forgotten

\* A worker makes one acquisition at a time, and uses its own counter once it has
\* found that Redis fails.
FallenBack ==
  \A r \in Caller :
    /\ \A q \in Caller :
         at[q] = at[r] /\ pc[q] \in Acquiring /\ pc[r] \in Acquiring => q = r
    /\ pc[r] \in {"turned", "taking", "holdingLocal", "returned", "giving"} => ~healthy[at[r]]

\* The requests a worker has let in that Redis does not count.  There are none, but
\* for those that are about to give their slot back again, while the worker may
\* yet let a request in by Redis.
Untold(w) == {r \in Caller :
  at[r] = w /\ pc[r] \in {"holdingLocal", "returned", "giving"} /\ ~counted[r]}
UsesRedis(w) == healthy[w] \/ \E r \in Caller : at[r] = w /\ pc[r] \in Calling
FewUntold == \A w \in Worker : UsesRedis(w) => Cardinality(Untold(w)) <= slips[w]

\* A worker's own counter, and what is read of it, fall short of the requests by
\* what Redis lets in at most.
BoundNear ==
  /\ \A w \in Worker :
       Cardinality(HoldersAt(w)) <= limit + forgotten + local[w] + slips[w]
  /\ \A r \in Caller : pc[r] \in {"taking", "giving"} =>
       Cardinality(HoldersAt(at[r]))
         <= limit + forgotten + read[r] + slips[at[r]] + overtaken[r]

FallbackInv == NoneMissing /\ FallenBack /\ FewUntold /\ BoundNear
=============================================================================
