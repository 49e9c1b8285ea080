------------------------------- MODULE Failover -------------------------------
(***************************************************************************)
(* How a request finds an upstream: the URLs of a backend in order, each   *)
(* behind a circuit breaker and tried up to three times, then the targets  *)
(* of the fallback chain in order, each behind a quarantine.               *)
(*                                                                         *)
(* Circuits and quarantines are shared by all requests of a worker, and    *)
(* requests interleave only where they await: the upstream's answer, the   *)
(* closing of a refused answer, the backoff, the reading of the chain.     *)
(* What runs between two awaits is one action here, however many URLs and  *)
(* targets it passes over.                                                 *)
(*                                                                         *)
(* Timestamps are kept as ages and remaining times, in ticks, which saturate*)
(* where the code stops telling them apart; so does the failure count.     *)
(***************************************************************************)
EXTENDS Integers, Sequences, FiniteSets, FiniteSetsExt

CONSTANTS
  Req,
  Url,
  Place,             \* (backend, model) pairs
  Urls,              \* the URLs of a place's backend: base_url, then fallback_urls
  Primary,           \* the place the request was routed to
  Chain,             \* the places of the fallback chain's targets
  HasChain,          \* whether the model alias names a chain
  Retrying,          \* the requests that came while ENABLE_RETRY_BACKOFF was on
  MaxAttempts,       \* three
  FailureThreshold,
  RecoveryTimeout,
  RateLimit, Overloaded, ServerErr,  \* QUARANTINE_RATE_LIMIT and so on
  Answers            \* what upstreams do, see Answer

\* A good status, a status of 400 or more that no chain is tried for, 403 among
\* them, those a chain is tried for, an exception the URLs are tried for, and
\* any other exception of the client.
Answer == {"good", "rejected", "forbidden", "429", "503", "500",
           "unreachable", "broken"}

ASSUME FailoverAssumption ==
  /\ Urls \in [Place -> Seq(Url)] /\ \A p \in Place : Urls[p] # <<>>
  /\ Primary \in Place /\ Chain \in Seq(Place)
  /\ HasChain \in BOOLEAN /\ Retrying \subseteq Req
  /\ MaxAttempts \in Nat \ {0}
  /\ FailureThreshold \in Nat \ {0} /\ RecoveryTimeout \in Nat
  /\ {RateLimit, Overloaded, ServerErr} \subseteq Nat \ {0}
  /\ Answers \subseteq Answer

VARIABLES
  circuit,   \* CircuitBreaker._circuits: failures, state, age of last_failure
  left,      \* what is left of each place's quarantine, 0 when there is none
  phase,     \* where a request is, see Phase
  pos,       \* the place it tries: 0 the primary, else an index of Chain
  url,       \* the index of the URL it tries
  attempt,
  answer,    \* the last thing an upstream answered
  unclosed   \* how many upstream responses it has not closed

vars == <<circuit, left, phase, pos, url, attempt, answer, unclosed>>

\* Awaiting an answer, the backoff, the closing of an answer, the chain.
Phase == {"new", "sent", "backoff", "closing", "chain", "served", "failed"}

Circuit == [failures : 0..FailureThreshold,
            state : {"closed", "open", "half_open"},
            age : 0..(RecoveryTimeout + 1)]

TypeOK ==
  /\ circuit \in [Url -> Circuit]
  /\ left \in [Place -> Nat]
  /\ phase \in [Req -> Phase]
  /\ pos \in [Req -> 0..Len(Chain)]
  /\ url \in [Req -> Nat]
  /\ attempt \in [Req -> 0..MaxAttempts]
  /\ answer \in [Req -> Answer \cup {"none"}]
  /\ unclosed \in [Req -> 0..1]

Init ==
  /\ circuit = [u \in Url |-> [failures |-> 0, state |-> "closed",
                               age |-> RecoveryTimeout + 1]]
  /\ left = [p \in Place |-> 0]
  /\ phase = [r \in Req |-> "new"]
  /\ pos = [r \in Req |-> 0]
  /\ url = [r \in Req |-> 1]
  /\ attempt = [r \in Req |-> 0]
  /\ answer = [r \in Req |-> "none"]
  /\ unclosed = [r \in Req |-> 0]

-----------------------------------------------------------------------------
(* CircuitBreaker, on the circuits c of all URLs.                          *)

Recovered(c, u) == c[u].age > RecoveryTimeout

\* Bug: the timeout is compared the wrong way round at its edge.
BlocksOffByOne(c, u) == c[u].state = "open" /\ c[u].age < RecoveryTimeout

\* is_open's answer, and what it does to the circuit when it answers no.
Blocks(c, u) == c[u].state = "open" /\ ~Recovered(c, u)
Probe(c, u) == IF c[u].state = "open" THEN [c EXCEPT ![u].state = "half_open"] ELSE c

\* Bug: the count starts over and the state stays.
SucceededKeepsState(c, u) == [c EXCEPT ![u].failures = 0]

Succeeded(c, u) ==
  [c EXCEPT ![u] = [failures |-> 0, age |-> @.age, state |-> "closed"]]

Failed(c, u) ==
  LET n == c[u].failures + 1
  IN  [c EXCEPT ![u] = IF n < FailureThreshold
         THEN [failures |-> n, age |-> 0, state |-> @.state]
         ELSE [failures |-> FailureThreshold, age |-> 0, state |-> "open"]]

-----------------------------------------------------------------------------
(* Between two awaits.                                                     *)

PlaceOf(k) == IF k = 0 THEN Primary ELSE Chain[k]

\* The URLs of a place, from index i on, that is_open lets through.
Usable(c, k, i) == {j \in i..Len(Urls[PlaceOf(k)]) : ~Blocks(c, Urls[PlaceOf(k)][j])}

\* quarantine_model: whatever was left before.
Bench(q, p, d) == [q EXCEPT ![p] = d]

Duration(a) == CASE a = "429" -> RateLimit [] a = "503" -> Overloaded [] a = "500" -> ServerErr

\* try_backend_with_fallback sends to URL j of place k.
SendTo(r, c, q, k, j) ==
  /\ circuit' = Probe(c, Urls[PlaceOf(k)][j])
  /\ left' = q
  /\ phase' = [phase EXCEPT ![r] = "sent"]
  /\ pos' = [pos EXCEPT ![r] = k]
  /\ url' = [url EXCEPT ![r] = j]
  /\ attempt' = [attempt EXCEPT ![r] = 1]

Stop(r, c, q, p) ==
  /\ circuit' = c
  /\ left' = q
  /\ phase' = [phase EXCEPT ![r] = p]
  /\ UNCHANGED <<pos, url, attempt>>

\* Bug: the loop goes on behind the next target.
GoOnSkipsOne(r, c, q, k) ==
  LET tried == {t \in (k + 1)..Len(Chain) : q[Chain[t]] = 0 /\ Usable(c, t, 1) # {}}
  IN  IF tried = {}
        THEN Stop(r, c, q, "failed")
        ELSE SendTo(r, c, q, Min(tried), Min(Usable(c, Min(tried), 1)))

\* The targets from k on: the first that is not quarantined and has a usable URL
\* is sent to.  One whose URLs are all blocked raises without an upstream and is
\* quarantined for it.
GoOn(r, c, q, k) ==
  LET tried == {t \in k..Len(Chain) : q[Chain[t]] = 0 /\ Usable(c, t, 1) # {}}
      last == IF tried = {} THEN Len(Chain) ELSE Min(tried) - 1
      benched == [p \in Place |->
        IF q[p] = 0 /\ \E t \in k..last : Chain[t] = p THEN ServerErr ELSE q[p]]
  IN  IF tried = {}
        THEN Stop(r, c, benched, "failed")
        ELSE SendTo(r, c, benched, Min(tried), Min(Usable(c, Min(tried), 1)))

\* An exception out of the place at position k.
RaiseFrom(r, c, k) ==
  LET q == Bench(left, PlaceOf(k), ServerErr)
  IN  IF k > 0 THEN GoOn(r, c, q, k + 1)
               ELSE Stop(r, c, q, IF HasChain THEN "chain" ELSE "failed")

\* The URLs of the place at position k from index i on.
TryUrls(r, c, k, i) ==
  IF Usable(c, k, i) = {}
    THEN RaiseFrom(r, c, k)
    ELSE SendTo(r, c, left, k, Min(Usable(c, k, i)))

-----------------------------------------------------------------------------
(* Actions.                                                                *)

Start(r) ==
  /\ phase[r] = "new"
  /\ IF HasChain /\ left[Primary] > 0
       THEN Stop(r, circuit, left, "chain")
       ELSE TryUrls(r, circuit, 0, 1)
  /\ UNCHANGED <<answer, unclosed>>

Here(r) == Urls[PlaceOf(pos[r])][url[r]]

Again(r) == r \in Retrying /\ attempt[r] < MaxAttempts
Heard(r, a) == answer' = [answer EXCEPT ![r] = a]

\* No connection, or no answer in time: three attempts, then the next URL.
Unreachable(r) ==
  /\ phase[r] = "sent" /\ "unreachable" \in Answers
  /\ Heard(r, "unreachable")
  /\ LET c == Failed(circuit, Here(r))
     IN  IF Again(r) THEN Stop(r, c, left, "backoff")
                     ELSE TryUrls(r, c, pos[r], url[r] + 1)
  /\ UNCHANGED unclosed

\* Another exception of the client leaves the URLs of the place.
Broken(r) ==
  /\ phase[r] = "sent" /\ "broken" \in Answers
  /\ Heard(r, "broken")
  /\ RaiseFrom(r, circuit, pos[r])
  /\ UNCHANGED unclosed

ServerError == {"500", "503"}
Chained == {"429"} \cup ServerError

\* Bug: the answer that is tried again is not closed.
RetryKeepsAnswer(r, a) ==
  /\ phase[r] = "sent" /\ a \in Answers \cap ServerError /\ Again(r)
  /\ Heard(r, a)
  /\ Stop(r, Failed(circuit, Here(r)), left, "backoff")
  /\ unclosed' = [unclosed EXCEPT ![r] = 1]

\* A server error that is tried again, once its answer is closed.
Retry(r, a) ==
  /\ phase[r] = "sent" /\ a \in Answers \cap ServerError /\ Again(r)
  /\ Heard(r, a)
  /\ Stop(r, Failed(circuit, Here(r)), left, "backoff")
  /\ UNCHANGED unclosed

\* The circuits after an answer that is not tried again: with retries, a server
\* error is counted as a failure and then as a success.
Counted(r, a) ==
  Succeeded(IF r \in Retrying /\ a \in ServerError THEN Failed(circuit, Here(r))
                                                  ELSE circuit, Here(r))

\* Any answer that is given to the client.
Serve(r, a) ==
  /\ phase[r] = "sent"
  /\ a \in Answers \ {"unreachable", "broken"}
  /\ a \in Chained => pos[r] = 0 /\ ~HasChain
  /\ a \in ServerError => ~Again(r)
  /\ Heard(r, a)
  /\ Stop(r, Counted(r, a), left, "served")
  /\ unclosed' = [unclosed EXCEPT ![r] = 1]

\* An answer that the chain is tried for: the place is quarantined and the
\* answer closed.
PassOver(r, a) ==
  /\ phase[r] = "sent"
  /\ a \in Answers \cap Chained
  /\ pos[r] > 0 \/ HasChain
  /\ a \in ServerError => ~Again(r)
  /\ Heard(r, a)
  /\ Stop(r, Counted(r, a), Bench(left, PlaceOf(pos[r]), Duration(a)), "closing")
  /\ unclosed' = [unclosed EXCEPT ![r] = 1]

Close(r) ==
  /\ phase[r] = "closing"
  /\ unclosed' = [unclosed EXCEPT ![r] = 0]
  /\ IF pos[r] = 0 THEN Stop(r, circuit, left, "chain")
                   ELSE GoOn(r, circuit, left, pos[r] + 1)
  /\ UNCHANGED answer

ReadChain(r) ==
  /\ phase[r] = "chain"
  /\ GoOn(r, circuit, left, 1)
  /\ UNCHANGED <<answer, unclosed>>

\* Bug: the attempts are not counted.
ResumeUncounted(r) ==
  /\ phase[r] = "backoff"
  /\ phase' = [phase EXCEPT ![r] = "sent"]
  /\ UNCHANGED <<circuit, left, pos, url, attempt, answer, unclosed>>

\* After the backoff: is_open is not asked again.
Resume(r) ==
  /\ phase[r] = "backoff"
  /\ phase' = [phase EXCEPT ![r] = "sent"]
  /\ attempt' = [attempt EXCEPT ![r] = @ + 1]
  /\ UNCHANGED <<circuit, left, pos, url, answer, unclosed>>

\* The client has had its answer, and another request comes.
ComeAgain(r) ==
  /\ phase[r] \in {"served", "failed"}
  /\ phase' = [phase EXCEPT ![r] = "new"]
  /\ pos' = [pos EXCEPT ![r] = 0]
  /\ url' = [url EXCEPT ![r] = 1]
  /\ attempt' = [attempt EXCEPT ![r] = 0]
  /\ answer' = [answer EXCEPT ![r] = "none"]
  /\ unclosed' = [unclosed EXCEPT ![r] = 0]
  /\ UNCHANGED <<circuit, left>>

\* The poller asks is_open of a server it is about to poll.
PollerAsks(u) ==
  /\ circuit[u].state = "open" /\ Recovered(circuit, u)
  /\ circuit' = Probe(circuit, u)
  /\ UNCHANGED <<left, phase, pos, url, attempt, answer, unclosed>>

Tick ==
  /\ circuit' = [u \in Url |->
       [circuit[u] EXCEPT !.age = IF @ > RecoveryTimeout THEN @ ELSE @ + 1]]
  /\ left' = [p \in Place |-> IF left[p] > 0 THEN left[p] - 1 ELSE 0]
  /\ UNCHANGED <<phase, pos, url, attempt, answer, unclosed>>

Upstream(r) ==
  \/ Unreachable(r) \/ Broken(r)
  \/ \E a \in Answer : Retry(r, a) \/ Serve(r, a) \/ PassOver(r, a)

Handler(r) == Close(r) \/ ReadChain(r) \/ Resume(r)

Next ==
  \/ \E r \in Req : Start(r) \/ Upstream(r) \/ Handler(r) \/ ComeAgain(r)
  \/ \E u \in Url : PollerAsks(u)
  \/ Tick

Spec == Init /\ [][Next]_vars

\* Every upstream call has a timeout, and the event loop keeps running.
FairSpec ==
  Spec /\ \A r \in Req : WF_vars(Upstream(r)) /\ WF_vars(Handler(r))

-----------------------------------------------------------------------------
(* Properties.                                                             *)

\* A circuit is closed exactly while fewer failures than the threshold came in a
\* row: no failure, success or probe, in whatever order concurrent requests
\* report them, leaves a tripped circuit closed or trips one early.
CircuitConsistent ==
  \A u \in Url : circuit[u].state = "closed" <=> circuit[u].failures < FailureThreshold

\* A request is in one place's queue of answers: an answer is open only while it
\* is being closed or is given to the client, and a failed request has none.
AnswersClosed ==
  \A r \in Req : unclosed[r] = 1 <=> phase[r] \in {"closing", "served"}

\* A step in which r's request first goes out to where it then is.
GoesOut(r) ==
  /\ phase'[r] = "sent"
  /\ phase[r] \notin {"sent", "backoff"} \/ <<pos[r], url[r]>>' # <<pos[r], url[r]>>

\* No request turns to a URL whose circuit is open, however late in its handling
\* it comes to it; the retries of one that already has do not ask again.
NoHammering ==
  [][\A r \in Req : GoesOut(r) =>
       LET u == Here(r)'
       IN  circuit[u].state = "open" => circuit[u].age > RecoveryTimeout]_vars

\* The chain is tried in order: a target is passed over, or the request given up
\* before it, only if the target is in quarantine by then.
NoTargetSkipped ==
  [][\A r \in Req : \A k \in 1..Len(Chain) :
       /\ HasChain /\ phase'[r] \in {"sent", "failed"}
       /\ pos[r] < k
       /\ k < pos'[r] \/ (phase[r] # "failed" /\ phase'[r] = "failed")
       => left'[Chain[k]] > 0]_vars

\* A target in quarantine is bypassed.
QuarantineRespected ==
  [][\A r \in Req : HasChain /\ phase'[r] = "sent"
       /\ (phase[r] = "new" \/ pos'[r] # pos[r] \/ phase[r] = "chain")
       => left[PlaceOf(pos'[r])] = 0]_vars

\* The chain is honoured: tried in order, with the quarantined targets, and only
\* those, passed over.
ChainHonoured == NoTargetSkipped /\ QuarantineRespected

\* Every request gets an answer or fails.
Answered == \A r \in Req : phase[r] = "sent" ~> phase[r] \in {"served", "failed"}

\* Half-open lets one probe through: while a request tries a URL whose circuit
\* is half open, no other is sent there.
OneProbe ==
  [][\A r, q \in Req :
       LET u == Here(r)'
       IN  r # q /\ GoesOut(r) /\ circuit[u].state = "half_open"
             => ~(phase[q] \in {"sent", "backoff"} /\ Here(q) = u)]_vars
=============================================================================
