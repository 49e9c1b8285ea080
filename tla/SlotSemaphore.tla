---------------------------- MODULE SlotSemaphore ----------------------------
(***************************************************************************)
(* What a concurrency limit promises: a semaphore of Max slots.  A request *)
(* takes a slot or is refused, once, and gives back the slot it holds,     *)
(* once.  The semaphore may slip: how often it has is known, and it lets   *)
(* in or keeps out no more requests than that.                             *)
(***************************************************************************)
EXTENDS Integers, FiniteSets

CONSTANTS Req, Max

VARIABLES
  slips,     \* how often the semaphore has slipped
  holders,   \* the requests that hold a slot
  past,      \* the requests that have given theirs back
  refused    \* the requests that got none

Init == slips = 0 /\ holders = {} /\ past = {} /\ refused = {}

Slip == slips' \in Nat /\ slips' >= slips

Acquire(r) ==
  /\ r \notin holders \cup past \cup refused
  /\ Slip
  /\ Cardinality(holders) < Max + slips'
  /\ holders' = holders \cup {r}
  /\ UNCHANGED <<past, refused>>

Refuse(r) ==
  /\ r \notin holders \cup past \cup refused
  /\ Cardinality(holders) + slips >= Max
  /\ refused' = refused \cup {r}
  /\ UNCHANGED <<slips, holders, past>>

Release(r) ==
  /\ r \in holders
  /\ Slip
  /\ holders' = holders \ {r}
  /\ past' = past \cup {r}
  /\ UNCHANGED refused

Next == \E r \in Req : Acquire(r) \/ Refuse(r) \/ Release(r)

Spec == Init /\ [][Next]_<<slips, holders, past, refused>>
=============================================================================
