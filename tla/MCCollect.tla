----------------------------- MODULE MCCollect ------------------------------
(* What the live store says.  A behaviour is about one subject: its live    *)
(* counts, with three requests, one server, two model names and the         *)
(* overflow name; or its seconds and minutes, with two requests, two keys,  *)
(* the poller loop and a history query, a minute of two seconds and a ring  *)
(* of two.                                                                  *)
EXTENDS LiveStats, Rollups, TLC

CONSTANTS r1, r2, r3, k1, k2, poller, query

VARIABLE subject

MCReq3 == {r1, r2, r3}
MCServer == {"s"}
MCModel == {"a", "b", "other"}
MCOverflow == "other"
MCRequest == {r1, r2}
MCPair == {k1, k2}
MCFlusher == {poller, query}

MCInit == subject \in {"counts", "rollups"} /\ Init /\ RollupsInit
\* What a poll adds are rows of zero, which a fallback takes for rows that are not
\* there: one of the two per behaviour.
MCNext ==
  \/ subject = "counts" /\ Next /\ UNCHANGED <<subject, rollupVars>>
  \/ subject = "rollups" /\ RollupsNext /\ moves' + polls' <= 1 /\ UNCHANGED <<subject, vars>>
MCSpec == MCInit /\ [][MCNext]_<<subject, vars, rollupVars>>

\* The third request is in the live counts alone.
MCSym == Permutations(MCRequest) \cup Permutations(MCPair) \cup Permutations(MCFlusher)
=============================================================================
