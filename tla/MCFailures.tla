----------------------------- MODULE MCFailures -----------------------------
(* What the gateway does when that which it depends on fails.  A behaviour  *)
(* is about one subject: two requests over upstreams that fail (see         *)
(* MCFailover), or the slots of one key, with three requests and a limit of *)
(* one or two on two workers that share Redis.                              *)
EXTENDS MCFailover, RedisSlots, TLC

CONSTANTS q1, q2, q3, w1, w2

VARIABLE subject

MCCaller == {q1, q2, q3}
MCWorker == {w1, w2}

Renaming == Permutations(MCCaller) \cup Permutations(MCWorker)

MCInit ==
  /\ subject \in {"upstreams", "slots"}
  /\ Init /\ RedisInit
  /\ subject # "slots" => limit = 1 /\ \A q \in MCCaller : at[q] = w1
MCNext ==
  \/ subject = "upstreams" /\ Next /\ UNCHANGED <<subject, limiterVars>>
  \/ subject = "slots" /\ RedisNext /\ UNCHANGED <<subject, vars>>
MCSpec == MCInit /\ [][MCNext]_<<subject, vars, limiterVars>>
=============================================================================
