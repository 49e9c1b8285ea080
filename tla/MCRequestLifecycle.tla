------------------------- MODULE MCRequestLifecycle -------------------------
(* Small instances of RequestLifecycle: two to four requests of one key     *)
(* with a limit of one or two, over all endpoints or the catch-all route.   *)
EXTENDS RequestLifecycle, TLC

CONSTANTS r1, r2, r3, r4

MCReq2 == {r1, r2}
MCReq3 == {r1, r2, r3}
MCReq4 == {r1, r2, r3, r4}
Sym4 == Permutations(MCReq4)

ProxyOnly == {"proxy"}

\* Of three requests one is on the catch-all route, the others anywhere, up to
\* renaming them.
Place == [proxy |-> 1, listing |-> 2, messages |-> 3, speech |-> 4, v2 |-> 5]
MCInit ==
  /\ Init
  /\ kind[r1] = "proxy"
  /\ Place[kind[r2]] <= Place[kind[r3]]
MCSpec == MCInit /\ [][Next]_vars /\ Fairness
=============================================================================
