------------------------------ MODULE Sessions ------------------------------
(***************************************************************************)
(* Requests to the admin API.  Each one has a database session of its own  *)
(* (database.get_session): it reads rows, decides on what it has read, and *)
(* writes when it commits.  Nothing is locked in between, a commit writes  *)
(* only the columns whose value differs from the one that was read, and it *)
(* fails on a row that is gone or a key that is taken.                     *)
(***************************************************************************)
EXTENDS Integers, FiniteSets, TLC

CONSTANTS
  Session,      \* requests that can be in hand at once
  MaxRequests   \* bound of the exploration: requests that are made

ASSUME SessionsAssumption == IsFiniteSet(Session) /\ MaxRequests \in Nat

VARIABLES
  hand,         \* what each session is at: a record with its operation, its
                \* stage and what it has read
  requests,     \* requests made so far
  overlapped    \* history: two of them were in hand at the same time

sessionVars == <<hand, requests, overlapped>>

NoRequest == [op |-> "none", at |-> "none"]

InHand(op, at) == {s \in Session : hand[s].op = op /\ hand[s].at = at}

Accept(s, request) ==
  /\ hand[s] = NoRequest
  /\ requests < MaxRequests
  /\ requests' = requests + 1
  /\ hand' = [hand EXCEPT ![s] = request]
  /\ overlapped' = (overlapped \/ \E other \in Session \ {s} : hand[other] # NoRequest)

Proceed(s, request) ==
  /\ hand' = [hand EXCEPT ![s] = request]
  /\ UNCHANGED <<requests, overlapped>>

Stage(s, at) == Proceed(s, [hand[s] EXCEPT !.at = at])
Finish(s) == Proceed(s, NoRequest)

\* The value a column has after a commit that sets it to v, having read seen.
Column(row, seen, v) == IF v = seen THEN row ELSE v

\* made of the MaxRequests requests are not made at all.
SessionsInit(made) ==
  /\ hand = [s \in Session |-> NoRequest]
  /\ requests = made
  /\ overlapped = FALSE
=============================================================================
