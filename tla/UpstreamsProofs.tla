---------------------------- MODULE UpstreamsProofs ----------------------------
(* Proofs about Failover, for any backends, chain, thresholds and numbers   *)
(* of concurrent requests, and about Poller, for any servers, hosts,        *)
(* processes and places.                                                    *)
EXTENDS Failover, Poller, SumsProofs, FiniteSetTheorems, NaturalsInduction, WellFoundedInduction, TLAPS

\* Circuits that are well typed and closed exactly below the threshold.
Sound(c) ==
  /\ c \in [Url -> Circuit]
  /\ \A u \in Url : c[u].state = "closed" <=> c[u].failures < FailureThreshold

CircuitInv == Sound(circuit)

\* The constants the circuits depend on.
LEMMA Thresholds ==
  FailureThreshold \in Nat /\ FailureThreshold > 0 /\ RecoveryTimeout \in Nat
BY FailoverAssumption

\* A probe, a success and a failure each keep the circuits sound, whatever state
\* the circuit was in when it was reported.
LEMMA ReportsSound ==
  ASSUME NEW c, Sound(c), NEW u
  PROVE  /\ Sound(Probe(c, u))
         /\ Sound(Succeeded(c, u))
         /\ Sound(Failed(c, u))
<1>1. CASE u \in Url
  <2>1. c[u] \in Circuit
    BY <1>1 DEF Sound
  <2>2. Sound(Probe(c, u))
    BY <1>1, <2>1 DEF Sound, Probe, Circuit
  <2>3. Sound(Succeeded(c, u))
    <3> DEFINE d == [failures |-> 0, state |-> "closed", age |-> c[u].age]
    <3>1. d \in Circuit /\ d.state = "closed" /\ d.failures < FailureThreshold
      BY <2>1, Thresholds DEF Circuit
    <3>2. Succeeded(c, u) = [c EXCEPT ![u] = d]
      BY DEF Succeeded
    <3> QED
      BY <1>1, <3>1, <3>2 DEF Sound
  <2>4. Sound(Failed(c, u))
    <3> DEFINE n == c[u].failures + 1
               d == IF n < FailureThreshold
                      THEN [failures |-> n, age |-> 0, state |-> c[u].state]
                      ELSE [failures |-> FailureThreshold, age |-> 0, state |-> "open"]
    <3>1. d \in Circuit /\ (d.state = "closed" <=> d.failures < FailureThreshold)
      BY <1>1, <2>1, Thresholds DEF Sound, Circuit
    <3>2. Failed(c, u) = [c EXCEPT ![u] = d]
      BY DEF Failed
    <3> QED
      BY <1>1, <3>1, <3>2 DEF Sound
  <2> QED
    BY <2>2, <2>3, <2>4
<1>2. CASE u \notin Url
  BY <1>2 DEF Sound, Probe, Succeeded, Failed
<1> QED
  BY <1>1, <1>2

\* What runs between two awaits keeps sound circuits sound, however many URLs
\* and targets it passes over.
LEMMA GoOnSound ==
  ASSUME NEW r, NEW c, NEW q, NEW k, Sound(c), GoOn(r, c, q, k)
  PROVE  Sound(circuit')
BY ReportsSound DEF GoOn, Stop, SendTo

\* The same of an exception and of the URLs of a place.
LEMMA TryUrlsSound ==
  ASSUME NEW r, NEW c, NEW k, NEW i, Sound(c), RaiseFrom(r, c, k) \/ TryUrls(r, c, k, i)
  PROVE  Sound(circuit')
<1>1. ASSUME RaiseFrom(r, c, k)
      PROVE  Sound(circuit')
  BY <1>1, GoOnSound DEF RaiseFrom, Stop
<1> QED
  BY <1>1, ReportsSound DEF TryUrls, SendTo

\* The circuits start sound.
LEMMA InitSound == Init => CircuitInv
BY Thresholds DEF Init, CircuitInv, Sound, Circuit

\* Every step keeps them sound.
LEMMA StepSound == CircuitInv /\ [Next]_vars => CircuitInv'
<1> SUFFICES ASSUME Sound(circuit), [Next]_vars
             PROVE  Sound(circuit')
  BY DEF CircuitInv
<1>1. ASSUME NEW r \in Req, Start(r)
      PROVE  Sound(circuit')
  BY <1>1, TryUrlsSound DEF Start, Stop
<1>2. ASSUME NEW r \in Req, Upstream(r)
      PROVE  Sound(circuit')
  <2>1. CASE Unreachable(r)
    BY <2>1, ReportsSound, TryUrlsSound DEF Unreachable, Stop
  <2>2. CASE Broken(r)
    BY <2>2, TryUrlsSound DEF Broken
  <2>3. ASSUME NEW a \in Answer
        PROVE  Sound(Counted(r, a))
    BY ReportsSound DEF Counted
  <2>4. ASSUME NEW a \in Answer, Retry(r, a) \/ Serve(r, a) \/ PassOver(r, a)
        PROVE  Sound(circuit')
    BY <2>3, <2>4, ReportsSound DEF Retry, Serve, PassOver, Stop
  <2> QED
    BY <1>2, <2>1, <2>2, <2>4 DEF Upstream
<1>3. ASSUME NEW r \in Req, Handler(r)
      PROVE  Sound(circuit')
  BY <1>3, GoOnSound DEF Handler, Close, ReadChain, Resume, Stop
<1>4. ASSUME NEW r \in Req, ComeAgain(r)
      PROVE  Sound(circuit')
  BY <1>4 DEF ComeAgain
<1>5. ASSUME NEW u \in Url, PollerAsks(u)
      PROVE  Sound(circuit')
  BY <1>5, ReportsSound DEF PollerAsks
<1>6. CASE Tick
  <2>1. ASSUME NEW u \in Url
        PROVE  LET d == [circuit[u] EXCEPT !.age = IF @ > RecoveryTimeout THEN @ ELSE @ + 1]
               IN  /\ d \in Circuit
                   /\ d.state = circuit[u].state /\ d.failures = circuit[u].failures
    BY <2>1, Thresholds DEF Sound, Circuit
  <2> QED
    BY <1>6, <2>1 DEF Tick, Sound
<1>7. CASE UNCHANGED vars
  BY <1>7 DEF vars
<1> QED
  BY <1>1, <1>2, <1>3, <1>4, <1>5, <1>6, <1>7 DEF Next

\* A circuit is closed exactly while fewer failures than the threshold came in a
\* row, in every reachable state: no order in which concurrent requests report
\* successes, failures and probes leaves a tripped circuit closed or trips one
\* early.
THEOREM CircuitsConsistent == Spec => []CircuitConsistent
<1>1. CircuitInv => CircuitConsistent
  BY DEF CircuitInv, Sound, CircuitConsistent
<1> QED
  BY <1>1, InitSound, StepSound, PTL DEF Spec

-----------------------------------------------------------------------------
(* Where a request goes.                                                   *)

\* What the numbers of the code are.
LEMMA ConstantTypes ==
  /\ Urls \in [Place -> Seq(Url)] /\ \A p \in Place : Len(Urls[p]) \in Nat /\ Len(Urls[p]) > 0
  /\ Primary \in Place /\ Chain \in Seq(Place) /\ Len(Chain) \in Nat
  /\ HasChain \in BOOLEAN
  /\ MaxAttempts \in Nat \ {0}
  /\ RateLimit \in Nat \ {0} /\ Overloaded \in Nat \ {0} /\ ServerErr \in Nat \ {0}
BY FailoverAssumption

\* Of some positions, one is the first.
LEMMA LeastPosition ==
  ASSUME NEW S \in SUBSET Nat, S # {}
  PROVE  Foremost(S) \in S /\ \A n \in S : Foremost(S) <= n
<1> DEFINE R == {ss \in Nat \X Nat : ss[1] < ss[2]}
<1>1. IsWellFoundedOn(R, Nat)
  BY NatLessThanWellFounded, Zenon DEF OpToRel
<1>2. PICK m \in S : \A n \in S : ~(<<n, m>> \in R)
  BY <1>1, WFMin
<1>3. ASSUME NEW n \in S
      PROVE  m <= n
  <2>1. m \in Nat /\ n \in Nat
    OBVIOUS
  <2>2. <<n, m>> \in Nat \X Nat /\ <<n, m>>[1] = n /\ <<n, m>>[2] = m
    BY <2>1
  <2>3. n < m => <<n, m>> \in R
    BY <2>2
  <2> QED
    BY <1>2, <2>1, <2>3
<1> QED
  BY <1>3 DEF Foremost

LEMMA FirstIndex ==
  ASSUME NEW S \in SUBSET Nat, S # {}
  PROVE  Min(S) \in S /\ \A n \in S : Min(S) <= n
<1>1. Foremost(S) \in S /\ \A n \in S : Foremost(S) <= n
  BY LeastPosition
<1> QED
  BY <1>1 DEF Min

\* A target is a place.
LEMMA PlaceType == \A k \in 0..Len(Chain) : PlaceOf(k) \in Place
BY ConstantTypes DEF PlaceOf

\* The URLs let through are URLs of the place, from the index on.
LEMMA UsableType ==
  ASSUME NEW c, NEW k \in 0..Len(Chain), NEW i \in Nat, Usable(c, k, i) # {}
  PROVE  /\ Usable(c, k, i) \subseteq i..Len(Urls[PlaceOf(k)])
         /\ Min(Usable(c, k, i)) \in Usable(c, k, i)
<1>1. Usable(c, k, i) \subseteq i..Len(Urls[PlaceOf(k)])
  BY DEF Usable
<1>2. Len(Urls[PlaceOf(k)]) \in Nat
  BY PlaceType, ConstantTypes
<1>3. Usable(c, k, i) \in SUBSET Nat
  BY <1>1, <1>2
<1> QED
  BY <1>1, <1>3, FirstIndex

\* r is sent to URL j of position k; r stops in phase p.
SentTo(r, k, j) ==
  /\ phase' = [phase EXCEPT ![r] = "sent"]
  /\ pos' = [pos EXCEPT ![r] = k]
  /\ url' = [url EXCEPT ![r] = j]
  /\ attempt' = [attempt EXCEPT ![r] = 1]
StopsIn(r, p) ==
  /\ phase' = [phase EXCEPT ![r] = p]
  /\ UNCHANGED <<pos, url, attempt>>

Targets(k) == k..Len(Chain)

\* Going on from a target ends at the first that is in no quarantine and has a
\* usable URL; every target before it, or every target, is in quarantine then.
LEMMA GoOnResult ==
  ASSUME NEW r \in Req, NEW c, NEW q \in [Place -> Nat],
         NEW k \in 1..(Len(Chain) + 1), GoOn(r, c, q, k)
  PROVE  /\ left' \in [Place -> Nat]
         /\ \/ \E n \in Targets(k) : \E j \in Usable(c, n, 1) :
                 /\ SentTo(r, n, j)
                 /\ q[Chain[n]] = 0
                 /\ \A s \in k..(n - 1) : left'[Chain[s]] > 0
            \/ StopsIn(r, "failed") /\ \A s \in Targets(k) : left'[Chain[s]] > 0
<1> DEFINE tried == {n \in k..Len(Chain) : q[Chain[n]] = 0 /\ Usable(c, n, 1) # {}}
           last == IF tried = {} THEN Len(Chain) ELSE Min(tried) - 1
           benched == [p \in Place |->
             IF q[p] = 0 /\ \E s \in k..last : Chain[s] = p THEN ServerErr ELSE q[p]]
<1>0. Len(Chain) \in Nat /\ ServerErr \in Nat /\ ServerErr > 0
      /\ \A s \in 1..Len(Chain) : Chain[s] \in Place
  BY ConstantTypes
<1>1. left' = benched
  BY DEF GoOn, Stop, SendTo
<1>2. benched \in [Place -> Nat]
  BY <1>0
<1>3. last \in Int /\ last <= Len(Chain)
  <2>1. tried \in SUBSET Nat
    BY <1>0
  <2>2. CASE tried # {}
    <3>1. Min(tried) \in tried
      BY <2>1, <2>2, FirstIndex
    <3> QED
      BY <1>0, <2>2, <3>1
  <2> QED
    BY <1>0, <2>2
<1>4. \A s \in k..last : left'[Chain[s]] > 0
  <2> SUFFICES ASSUME NEW s \in k..last
               PROVE  benched[Chain[s]] > 0
    BY <1>1
  <2>1. s \in 1..Len(Chain)
    BY <1>0, <1>3
  <2>2. Chain[s] \in Place /\ q[Chain[s]] \in Nat
    BY <1>0, <2>1
  <2>3. benched[Chain[s]] = IF q[Chain[s]] = 0 THEN ServerErr ELSE q[Chain[s]]
    BY <2>2
  <2> HIDE DEF benched
  <2> QED
    BY <1>0, <2>2, <2>3
<1>5. CASE tried = {}
  BY <1>1, <1>2, <1>4, <1>5 DEF GoOn, Stop, StopsIn, Targets
<1>6. CASE tried # {}
  <2>1. tried \in SUBSET Nat
    BY <1>0
  <2>2. Min(tried) \in tried
    BY <1>6, <2>1, FirstIndex
  <2>3. Min(Usable(c, Min(tried), 1)) \in Usable(c, Min(tried), 1)
    <3>0. \A n \in tried : n \in 0..Len(Chain) /\ Usable(c, n, 1) # {}
      BY <1>0
    <3>1. Min(tried) \in 0..Len(Chain) /\ Usable(c, Min(tried), 1) # {}
      BY <2>2, <3>0
    <3> QED
      BY <3>1, UsableType
  <2>4. SentTo(r, Min(tried), Min(Usable(c, Min(tried), 1)))
    BY <1>6 DEF GoOn, SendTo, SentTo
  <2>5. q[Chain[Min(tried)]] = 0 /\ Min(tried) \in Targets(k)
    BY <2>2 DEF Targets
  <2>6. \A s \in k..(Min(tried) - 1) : left'[Chain[s]] > 0
    BY <1>4, <1>6
  <2> QED
    BY <1>1, <1>2, <2>3, <2>4, <2>5, <2>6
<1> QED
  BY <1>5, <1>6

\* A circuit that the handler has just counted a failure of blocks at least what
\* blocked before: an open one stays open and is as young as can be.
LEMMA FailureBlocks ==
  ASSUME NEW c, Sound(c), NEW h, NEW u \in Url, Blocks(c, u)
  PROVE  Blocks(Failed(c, h), u)
<1>1. c[u] \in Circuit /\ DOMAIN c = Url
  BY DEF Sound
<1>2. CASE u = h
  BY <1>1, <1>2, Thresholds DEF Failed, Blocks, Recovered, Circuit
<1>3. CASE u # h
  BY <1>1, <1>3 DEF Failed, Blocks, Recovered
<1> QED
  BY <1>2, <1>3

-----------------------------------------------------------------------------
(* What a request's turn does.                                             *)

\* Circuits that let nothing through that the circuits of the state block.
AsStrict(c) == \A u \in Url : Blocks(circuit, u) => Blocks(c, u)

\* r is sent to URL j of position k, which no open circuit forbids.
Reaches(r, k, j) ==
  /\ j \in 1..Len(Urls[PlaceOf(k)])
  /\ ~Blocks(circuit, Urls[PlaceOf(k)][j])
  /\ SentTo(r, k, j)

\* r tries the next URLs of its place; r goes past it, to the first target behind
\* that is in no quarantine or to the end of the chain.
Stays(r) ==
  /\ phase[r] \in {"new", "sent"}
  /\ phase[r] = "new" /\ HasChain => left[Primary] = 0
  /\ \E j \in Nat : Reaches(r, pos[r], j)
Passes(r) ==
  \E n \in Targets(pos[r] + 1) : \E j \in Nat :
     /\ Reaches(r, n, j)
     /\ left[Chain[n]] = 0
     /\ \A s \in (pos[r] + 1)..(n - 1) : left'[Chain[s]] > 0
GivesUp(r) ==
  /\ StopsIn(r, "failed")
  /\ HasChain => \A s \in Targets(pos[r] + 1) : left'[Chain[s]] > 0
Waits(r) ==
  \/ StopsIn(r, "chain") /\ pos[r] = 0
  \/ StopsIn(r, "backoff") /\ attempt[r] < MaxAttempts
Finds(r) == StopsIn(r, "closing") \/ StopsIn(r, "served")

\* Everything that a handler does between two awaits, but for the answer it holds.
Turn(r) ==
  /\ left' \in [Place -> Nat]
  /\ Stays(r) \/ Passes(r) \/ GivesUp(r) \/ Waits(r)

\* A URL that is let through by circuits as strict is one that no open circuit of
\* the state forbids.
LEMMA UsableReached ==
  ASSUME NEW c, AsStrict(c), NEW k \in 0..Len(Chain), NEW i \in Nat \ {0},
         NEW j \in Usable(c, k, i), NEW r, SentTo(r, k, j)
  PROVE  j \in Nat /\ Reaches(r, k, j)
<1>1. Urls[PlaceOf(k)] \in Seq(Url) /\ Len(Urls[PlaceOf(k)]) \in Nat
  BY PlaceType, ConstantTypes
<1>2. j \in 1..Len(Urls[PlaceOf(k)]) /\ ~Blocks(c, Urls[PlaceOf(k)][j])
  BY <1>1 DEF Usable
<1>3. Urls[PlaceOf(k)][j] \in Url
  BY <1>1, <1>2
<1> QED
  BY <1>2, <1>3 DEF AsStrict, Reaches

\* Going on behind the place of r passes it.
LEMMA GoOnTurn ==
  ASSUME NEW r \in Req, pos[r] \in 0..Len(Chain), NEW c, AsStrict(c),
         NEW q \in [Place -> Nat], GoOn(r, c, q, pos[r] + 1),
         \A p \in Place : q[p] = 0 => left[p] = 0
  PROVE  left' \in [Place -> Nat] /\ (Passes(r) \/ GivesUp(r))
<1>1. pos[r] + 1 \in 1..(Len(Chain) + 1)
  BY ConstantTypes
<1>2. CASE \E n \in Targets(pos[r] + 1) : \E j \in Usable(c, n, 1) :
             /\ SentTo(r, n, j)
             /\ q[Chain[n]] = 0
             /\ \A s \in (pos[r] + 1)..(n - 1) : left'[Chain[s]] > 0
  <2>0. PICK n \in Targets(pos[r] + 1) : \E j \in Usable(c, n, 1) :
             /\ SentTo(r, n, j)
             /\ q[Chain[n]] = 0
             /\ \A s \in (pos[r] + 1)..(n - 1) : left'[Chain[s]] > 0
    BY <1>2
  <2>1. PICK j \in Usable(c, n, 1) :
             /\ SentTo(r, n, j)
             /\ q[Chain[n]] = 0
             /\ \A s \in (pos[r] + 1)..(n - 1) : left'[Chain[s]] > 0
    BY <2>0
  <2>2. n \in 1..Len(Chain) /\ n \in 0..Len(Chain)
    BY <1>1, ConstantTypes DEF Targets
  <2>3. Chain[n] \in Place
    BY <2>2, ConstantTypes
  <2>4. left[Chain[n]] = 0
    BY <2>1, <2>3
  <2>5. j \in Nat /\ Reaches(r, n, j)
    BY <2>1, <2>2, UsableReached
  <2>6. Passes(r)
    BY <2>1, <2>4, <2>5 DEF Passes
  <2> QED
    BY <1>1, <2>6, GoOnResult
<1> QED
  BY <1>1, <1>2, GoOnResult DEF GivesUp

\* An exception out of the place of r is a turn.
LEMMA RaiseTurn ==
  ASSUME NEW r \in Req, pos[r] \in 0..Len(Chain), left \in [Place -> Nat],
         NEW c, AsStrict(c), RaiseFrom(r, c, pos[r])
  PROVE  Turn(r)
<1> DEFINE q == Bench(left, PlaceOf(pos[r]), ServerErr)
<1>1. q \in [Place -> Nat] /\ \A p \in Place : q[p] = 0 => left[p] = 0
  BY ConstantTypes DEF Bench
<1>2. CASE pos[r] > 0
  <2>1. GoOn(r, c, q, pos[r] + 1)
    BY <1>2 DEF RaiseFrom
  <2> QED
    BY <1>1, <2>1, GoOnTurn DEF Turn
<1>3. CASE ~(pos[r] > 0) /\ HasChain
  <2>1. Stop(r, c, q, "chain") /\ pos[r] = 0
    BY <1>3, ConstantTypes DEF RaiseFrom
  <2> QED
    BY <1>1, <2>1 DEF Stop, StopsIn, Turn, Waits
<1>4. CASE ~(pos[r] > 0) /\ ~HasChain
  <2>1. Stop(r, c, q, "failed")
    BY <1>4 DEF RaiseFrom
  <2> QED
    BY <1>1, <1>4, <2>1 DEF Stop, StopsIn, Turn, GivesUp
<1> QED
  BY <1>2, <1>3, <1>4

\* Trying the URLs of its place from one on is a turn.
LEMMA TryUrlsTurn ==
  ASSUME NEW r \in Req, pos[r] \in 0..Len(Chain), left \in [Place -> Nat],
         NEW c, AsStrict(c), NEW i \in Nat \ {0}, TryUrls(r, c, pos[r], i),
         phase[r] \in {"new", "sent"},
         phase[r] = "new" /\ HasChain => left[Primary] = 0
  PROVE  Turn(r)
<1>1. CASE Usable(c, pos[r], i) = {}
  BY <1>1, RaiseTurn DEF TryUrls
<1>2. CASE Usable(c, pos[r], i) # {}
  <2> DEFINE j == Min(Usable(c, pos[r], i))
  <2>1. j \in Usable(c, pos[r], i)
    BY <1>2, UsableType
  <2>2. left' = left /\ SentTo(r, pos[r], j)
    BY <1>2 DEF TryUrls, SendTo, SentTo
  <2>3. j \in Nat /\ Reaches(r, pos[r], j)
    BY <2>1, <2>2, UsableReached
  <2> QED
    BY <2>2, <2>3 DEF Turn, Stays
<1> QED
  BY <1>1, <1>2

-----------------------------------------------------------------------------
(* What holds of every request.                                            *)

\* A request is at a URL of its place, at the primary until it reads the chain,
\* and backs off only with an attempt left.
Placed ==
  \A r \in Req :
    /\ url[r] \in 1..Len(Urls[PlaceOf(pos[r])])
    /\ phase[r] \in {"new", "chain"} => pos[r] = 0
    /\ phase[r] = "backoff" => attempt[r] < MaxAttempts

RequestInv == TypeOK /\ CircuitInv /\ AnswersClosed /\ Placed

\* An answer is held in the two phases that hold one.
Holds(r) ==
  unclosed' = [unclosed EXCEPT ![r] = IF phase'[r] \in {"closing", "served"} THEN 1 ELSE 0]

\* The steps of r's handler but the one after a backoff.
Moves(r) == Start(r) \/ Upstream(r) \/ Close(r) \/ ReadChain(r)

\* A turn, or an answer that ends the search, from a phase of the search.
Took(r) ==
  /\ Turn(r) \/ (Finds(r) /\ left' \in [Place -> Nat])
  /\ phase[r] \in {"new", "sent", "closing", "chain"}

\* The circuits of a handler, and those with a failure of its own counted.
LEMMA CircuitsAsStrict ==
  ASSUME CircuitInv
  PROVE  AsStrict(circuit) /\ \A h : AsStrict(Failed(circuit, h))
BY FailureBlocks DEF CircuitInv, AsStrict

\* Each of the steps of r is a turn.
LEMMA MovesTake ==
  ASSUME RequestInv, NEW r \in Req, Moves(r)
  PROVE  Took(r)
<1>1. pos[r] \in 0..Len(Chain) /\ left \in [Place -> Nat] /\ url[r] + 1 \in Nat \ {0}
      /\ attempt[r] \in Nat
  BY ConstantTypes DEF RequestInv, TypeOK
<1>2. AsStrict(circuit) /\ AsStrict(Failed(circuit, Here(r)))
  BY CircuitsAsStrict DEF RequestInv
<1>3. CASE Start(r)
  <2>1. phase[r] = "new" /\ pos[r] = 0
    BY <1>3 DEF Start, RequestInv, Placed
  <2>2. CASE HasChain /\ left[Primary] > 0
    BY <1>1, <1>3, <2>1, <2>2 DEF Start, Stop, StopsIn, Took, Turn, Waits
  <2>3. CASE ~(HasChain /\ left[Primary] > 0)
    <3>1. TryUrls(r, circuit, pos[r], 1)
      BY <1>3, <2>1, <2>3 DEF Start
    <3>2. HasChain => left[Primary] = 0
      BY <1>1, <2>3, ConstantTypes
    <3>3. Turn(r)
      BY <1>1, <1>2, <2>1, <3>1, <3>2, TryUrlsTurn
    <3> QED
      BY <2>1, <3>3 DEF Took
  <2> QED
    BY <2>2, <2>3
<1>4. CASE Unreachable(r)
  <2>1. phase[r] = "sent"
    BY <1>4 DEF Unreachable
  <2>2. CASE Again(r)
    BY <1>1, <1>4, <2>1, <2>2 DEF Unreachable, Stop, StopsIn, Again, Took, Turn, Waits
  <2>3. CASE ~Again(r)
    <3>1. TryUrls(r, Failed(circuit, Here(r)), pos[r], url[r] + 1)
      BY <1>4, <2>3 DEF Unreachable
    <3>2. Turn(r)
      BY <1>1, <1>2, <2>1, <3>1, TryUrlsTurn
    <3> QED
      BY <2>1, <3>2 DEF Took
  <2> QED
    BY <2>2, <2>3
<1>5. CASE Broken(r)
  <2>1. phase[r] = "sent" /\ RaiseFrom(r, circuit, pos[r])
    BY <1>5 DEF Broken
  <2>2. Turn(r)
    BY <1>1, <1>2, <2>1, RaiseTurn
  <2> QED
    BY <2>1, <2>2 DEF Took
<1>6. ASSUME NEW a \in Answer, Retry(r, a)
      PROVE  Took(r)
  BY <1>1, <1>6 DEF Retry, Stop, StopsIn, Again, Took, Turn, Waits
<1>7. ASSUME NEW a \in Answer, Serve(r, a)
      PROVE  Took(r)
  BY <1>1, <1>7 DEF Serve, Stop, StopsIn, Took, Finds
<1>8. ASSUME NEW a \in Answer, PassOver(r, a)
      PROVE  Took(r)
  <2>1. Duration(a) \in Nat
    BY <1>8, ConstantTypes DEF PassOver, Chained, ServerError, Duration
  <2>2. Bench(left, PlaceOf(pos[r]), Duration(a)) \in [Place -> Nat]
    BY <1>1, <2>1 DEF Bench
  <2> QED
    BY <1>8, <2>2 DEF PassOver, Stop, StopsIn, Took, Finds
<1>9. CASE Close(r)
  <2>1. phase[r] = "closing"
    BY <1>9 DEF Close
  <2>2. CASE pos[r] = 0
    BY <1>1, <1>9, <2>1, <2>2 DEF Close, Stop, StopsIn, Took, Turn, Waits
  <2>3. CASE pos[r] # 0
    <3>1. GoOn(r, circuit, left, pos[r] + 1)
      BY <1>9, <2>3 DEF Close
    <3>2. Turn(r)
      BY <1>1, <1>2, <3>1, GoOnTurn DEF Turn
    <3> QED
      BY <2>1, <3>2 DEF Took
  <2> QED
    BY <2>2, <2>3
<1>10. CASE ReadChain(r)
  <2>1. phase[r] = "chain" /\ pos[r] = 0 /\ pos[r] + 1 = 1
    BY <1>10 DEF ReadChain, RequestInv, Placed
  <2>2. GoOn(r, circuit, left, pos[r] + 1)
    BY <1>10, <2>1 DEF ReadChain
  <2>3. Turn(r)
    BY <1>1, <1>2, <2>2, GoOnTurn DEF Turn
  <2> QED
    BY <2>1, <2>3 DEF Took
<1> QED
  BY <1>3, <1>4, <1>5, <1>6, <1>7, <1>8, <1>9, <1>10 DEF Moves, Upstream

\* Where a turn leaves the request.
LEMMA TookTo ==
  ASSUME RequestInv, NEW r \in Req, Took(r)
  PROVE  /\ \E p \in Phase \ {"new"} : phase' = [phase EXCEPT ![r] = p]
         /\ \E k \in 0..Len(Chain) : pos' = [pos EXCEPT ![r] = k]
         /\ \E j \in Nat : url' = [url EXCEPT ![r] = j]
         /\ \E n \in 0..MaxAttempts : attempt' = [attempt EXCEPT ![r] = n]
         /\ left' \in [Place -> Nat]
         /\ url'[r] \in 1..Len(Urls[PlaceOf(pos'[r])])
         /\ phase'[r] = "chain" => pos'[r] = 0
         /\ phase'[r] = "backoff" => attempt'[r] < MaxAttempts
<1>1. /\ phase \in [Req -> Phase] /\ pos \in [Req -> 0..Len(Chain)]
      /\ url \in [Req -> Nat] /\ attempt \in [Req -> 0..MaxAttempts]
  BY DEF RequestInv, TypeOK
<1>2. left' \in [Place -> Nat]
  BY DEF Took, Turn
<1>3. ASSUME NEW k \in 0..Len(Chain), NEW j \in Nat, Reaches(r, k, j)
      PROVE  /\ phase' = [phase EXCEPT ![r] = "sent"] /\ phase'[r] = "sent"
             /\ pos' = [pos EXCEPT ![r] = k] /\ pos'[r] = k
             /\ url' = [url EXCEPT ![r] = j] /\ url'[r] = j
             /\ attempt' = [attempt EXCEPT ![r] = 1] /\ 1 \in 0..MaxAttempts
             /\ url'[r] \in 1..Len(Urls[PlaceOf(k)])
  BY <1>1, <1>3, ConstantTypes DEF Reaches, SentTo
<1>4. CASE Stays(r)
  <2>1. PICK j \in Nat : Reaches(r, pos[r], j)
    BY <1>4 DEF Stays
  <2> QED
    BY <1>1, <1>2, <1>3, <2>1 DEF Phase
<1>5. CASE Passes(r)
  <2>1. PICK n \in Targets(pos[r] + 1) : \E j \in Nat : Reaches(r, n, j)
    BY <1>5 DEF Passes
  <2>2. PICK j \in Nat : Reaches(r, n, j)
    BY <2>1
  <2>3. n \in 0..Len(Chain)
    BY <1>1, <2>1, ConstantTypes DEF Targets
  <2> QED
    BY <1>2, <1>3, <2>2, <2>3 DEF Phase
<1>6. ASSUME NEW p \in Phase \ {"new"}, StopsIn(r, p), p = "chain" => pos[r] = 0,
             p = "backoff" => attempt[r] < MaxAttempts
      PROVE  /\ phase' = [phase EXCEPT ![r] = p] /\ phase'[r] = p
             /\ pos' = [pos EXCEPT ![r] = pos[r]] /\ pos'[r] = pos[r]
             /\ url' = [url EXCEPT ![r] = url[r]] /\ url'[r] = url[r]
             /\ attempt' = [attempt EXCEPT ![r] = attempt[r]] /\ attempt'[r] = attempt[r]
             /\ url'[r] \in 1..Len(Urls[PlaceOf(pos[r])])
  BY <1>1, <1>6 DEF StopsIn, RequestInv, Placed
<1>7. CASE GivesUp(r)
  BY <1>1, <1>2, <1>6, <1>7 DEF GivesUp, Phase
<1>8. CASE Waits(r)
  <2>1. CASE StopsIn(r, "chain") /\ pos[r] = 0
    BY <1>1, <1>2, <1>6, <2>1 DEF Phase
  <2>2. CASE StopsIn(r, "backoff") /\ attempt[r] < MaxAttempts
    BY <1>1, <1>2, <1>6, <2>2 DEF Phase
  <2> QED
    BY <1>8, <2>1, <2>2 DEF Waits
<1>9. CASE Finds(r)
  <2>1. CASE StopsIn(r, "closing")
    BY <1>1, <1>2, <1>6, <2>1 DEF Phase
  <2>2. CASE StopsIn(r, "served")
    BY <1>1, <1>2, <1>6, <2>2 DEF Phase
  <2> QED
    BY <1>9, <2>1, <2>2 DEF Finds
<1> QED
  BY <1>4, <1>5, <1>7, <1>8, <1>9 DEF Took, Turn

\* No URL tried and no target gone on to ends in an answer.
LEMMA SearchGoesOn ==
  ASSUME NEW r \in Req, phase \in [Req -> Phase], NEW c, NEW q, NEW k, NEW i,
         GoOn(r, c, q, k) \/ RaiseFrom(r, c, k) \/ TryUrls(r, c, k, i)
  PROVE  phase'[r] \in {"sent", "failed", "chain"}
<1>1. ASSUME NEW d, NEW e, NEW n, GoOn(r, d, e, n)
      PROVE  phase'[r] \in {"sent", "failed"}
  BY <1>1 DEF GoOn, Stop, SendTo
<1>2. ASSUME RaiseFrom(r, c, k)
      PROVE  phase'[r] \in {"sent", "failed", "chain"}
  BY <1>1, <1>2 DEF RaiseFrom, Stop
<1> QED
  BY <1>1, <1>2 DEF TryUrls, SendTo

\* A step of r ends with as many answers held as its phase says, and with an
\* answer heard.
LEMMA MovesHold ==
  ASSUME RequestInv, NEW r \in Req, Moves(r)
  PROVE  Holds(r) /\ answer' \in [Req -> Answer \cup {"none"}]
<1>1. /\ unclosed \in [Req -> 0..1] /\ answer \in [Req -> Answer \cup {"none"}]
      /\ phase \in [Req -> Phase]
  BY DEF RequestInv, TypeOK
<1>2. ASSUME unclosed' = unclosed, phase[r] \notin {"closing", "served"},
             phase'[r] \notin {"closing", "served"}
      PROVE  Holds(r)
  <2>1. unclosed[r] = 0
    BY <1>1, <1>2 DEF RequestInv, AnswersClosed
  <2>2. unclosed' = [unclosed EXCEPT ![r] = 0]
    BY <1>1, <1>2, <2>1
  <2> QED
    BY <1>2, <2>2 DEF Holds
<1>3. ASSUME NEW a \in Answer, Heard(r, a)
      PROVE  answer' \in [Req -> Answer \cup {"none"}]
  BY <1>1, <1>3 DEF Heard
<1>4. CASE Start(r)
  <2>1. phase'[r] \in {"sent", "failed", "chain"} /\ unclosed' = unclosed /\ phase[r] = "new"
    BY <1>1, <1>4, SearchGoesOn DEF Start, Stop
  <2> QED
    BY <1>1, <1>2, <1>4, <2>1 DEF Start
<1>5. CASE Unreachable(r)
  <2>1. /\ phase'[r] \in {"sent", "failed", "chain", "backoff"}
        /\ unclosed' = unclosed /\ phase[r] = "sent"
    BY <1>1, <1>5, SearchGoesOn DEF Unreachable, Stop
  <2>2. Heard(r, "unreachable") /\ "unreachable" \in Answer
    BY <1>5 DEF Unreachable, Answer
  <2> QED
    BY <1>2, <1>3, <2>1, <2>2
<1>6. CASE Broken(r)
  <2>1. /\ phase'[r] \in {"sent", "failed", "chain"}
        /\ unclosed' = unclosed /\ phase[r] = "sent"
    BY <1>1, <1>6, SearchGoesOn DEF Broken
  <2>2. Heard(r, "broken") /\ "broken" \in Answer
    BY <1>6 DEF Broken, Answer
  <2> QED
    BY <1>2, <1>3, <2>1, <2>2
<1>7. ASSUME NEW a \in Answer, Retry(r, a)
      PROVE  Holds(r) /\ Heard(r, a)
  <2>1. phase'[r] = "backoff" /\ unclosed' = unclosed /\ phase[r] = "sent"
    BY <1>1, <1>7 DEF Retry, Stop
  <2> QED
    BY <1>2, <1>7, <2>1 DEF Retry
<1>8. ASSUME NEW a \in Answer, Serve(r, a) \/ PassOver(r, a)
      PROVE  Holds(r) /\ Heard(r, a)
  <2>1. phase'[r] \in {"served", "closing"} /\ unclosed' = [unclosed EXCEPT ![r] = 1]
    BY <1>1, <1>8 DEF Serve, PassOver, Stop
  <2> QED
    BY <1>8, <2>1 DEF Serve, PassOver, Holds
<1>9. CASE Close(r)
  <2>1. phase'[r] \in {"sent", "failed", "chain"} /\ unclosed' = [unclosed EXCEPT ![r] = 0]
    BY <1>1, <1>9, SearchGoesOn DEF Close, Stop
  <2> QED
    BY <1>1, <1>9, <2>1 DEF Close, Holds
<1>10. CASE ReadChain(r)
  <2>1. /\ phase'[r] \in {"sent", "failed", "chain"} /\ unclosed' = unclosed
        /\ phase[r] = "chain" /\ answer' = answer
    BY <1>1, <1>10, SearchGoesOn DEF ReadChain
  <2> QED
    BY <1>1, <1>2, <2>1
<1> QED
  BY <1>3, <1>4, <1>5, <1>6, <1>7, <1>8, <1>9, <1>10 DEF Moves, Upstream

-----------------------------------------------------------------------------
(* The invariant.                                                          *)

\* It holds at first.
LEMMA InitRequests == Init => RequestInv
<1> SUFFICES ASSUME Init
             PROVE  RequestInv
  OBVIOUS
<1>1. TypeOK
  BY InitSound, ConstantTypes DEF Init, TypeOK, CircuitInv, Sound, Phase
<1>2. AnswersClosed
  BY DEF Init, AnswersClosed
<1>3. Placed
  BY ConstantTypes DEF Init, Placed, PlaceOf
<1> QED
  BY <1>1, <1>2, <1>3, InitSound DEF RequestInv

\* Every step of a request, of the poller and of the clock keeps it.
LEMMA StepRequests == RequestInv /\ [Next]_vars => RequestInv'
<1> SUFFICES ASSUME RequestInv, [Next]_vars
             PROVE  RequestInv'
  OBVIOUS
<1>0. /\ left \in [Place -> Nat] /\ phase \in [Req -> Phase]
      /\ pos \in [Req -> 0..Len(Chain)] /\ url \in [Req -> Nat]
      /\ attempt \in [Req -> 0..MaxAttempts]
      /\ answer \in [Req -> Answer \cup {"none"}] /\ unclosed \in [Req -> 0..1]
  BY DEF RequestInv, TypeOK
<1>1. CircuitInv' /\ circuit' \in [Url -> Circuit]
  BY StepSound DEF RequestInv, CircuitInv, Sound
<1>2. ASSUME NEW r \in Req, Moves(r)
      PROVE  RequestInv'
  <2>1. Took(r) /\ Holds(r) /\ answer' \in [Req -> Answer \cup {"none"}]
    BY <1>2, MovesTake, MovesHold
  <2>2. PICK p \in Phase \ {"new"} : phase' = [phase EXCEPT ![r] = p]
    BY <2>1, TookTo
  <2>3. PICK k \in 0..Len(Chain) : pos' = [pos EXCEPT ![r] = k]
    BY <2>1, TookTo
  <2>4. PICK j \in Nat : url' = [url EXCEPT ![r] = j]
    BY <2>1, TookTo
  <2>5. PICK n \in 0..MaxAttempts : attempt' = [attempt EXCEPT ![r] = n]
    BY <2>1, TookTo
  <2>6. /\ left' \in [Place -> Nat]
        /\ url'[r] \in 1..Len(Urls[PlaceOf(pos'[r])])
        /\ phase'[r] \in {"new", "chain"} => pos'[r] = 0
        /\ phase'[r] = "backoff" => attempt'[r] < MaxAttempts
    BY <1>0, <2>1, <2>2, TookTo
  <2>7. TypeOK'
    BY <1>0, <1>1, <2>1, <2>2, <2>3, <2>4, <2>5, <2>6 DEF TypeOK, Holds
  <2>8. AnswersClosed'
    BY <1>0, <2>1, <2>2 DEF Holds, RequestInv, AnswersClosed
  <2>9. Placed'
    <3> SUFFICES ASSUME NEW s \in Req
                 PROVE  /\ url'[s] \in 1..Len(Urls[PlaceOf(pos'[s])])
                        /\ phase'[s] \in {"new", "chain"} => pos'[s] = 0
                        /\ phase'[s] = "backoff" => attempt'[s] < MaxAttempts
      BY DEF Placed, PlaceOf
    <3>1. CASE s = r
      BY <2>6, <3>1
    <3>2. CASE s # r
      <4>1. url'[s] = url[s] /\ pos'[s] = pos[s] /\ phase'[s] = phase[s]
            /\ attempt'[s] = attempt[s]
        BY <1>0, <2>2, <2>3, <2>4, <2>5, <3>2
      <4> QED
        BY <4>1 DEF RequestInv, Placed
    <3> QED
      BY <3>1, <3>2
  <2> QED
    BY <1>1, <2>7, <2>8, <2>9 DEF RequestInv
<1>3. ASSUME NEW r \in Req, Resume(r)
      PROVE  RequestInv'
  <2>1. attempt'[r] \in 0..MaxAttempts
    BY <1>0, <1>3, ConstantTypes DEF Resume, RequestInv, Placed
  <2>2. TypeOK'
    BY <1>0, <1>1, <1>3, <2>1 DEF Resume, TypeOK, Phase
  <2>3. AnswersClosed' /\ Placed'
    BY <1>0, <1>3 DEF Resume, RequestInv, AnswersClosed, Placed, PlaceOf
  <2> QED
    BY <1>1, <2>2, <2>3 DEF RequestInv
<1>4. ASSUME NEW r \in Req, ComeAgain(r)
      PROVE  RequestInv'
  <2>1. TypeOK'
    BY <1>0, <1>1, <1>4, ConstantTypes DEF ComeAgain, TypeOK, Phase
  <2>2. AnswersClosed'
    BY <1>0, <1>4 DEF ComeAgain, RequestInv, AnswersClosed
  <2>3. Placed'
    BY <1>0, <1>4, ConstantTypes DEF ComeAgain, RequestInv, Placed, PlaceOf
  <2> QED
    BY <1>1, <2>1, <2>2, <2>3 DEF RequestInv
<1>5. ASSUME UNCHANGED <<phase, pos, url, attempt, answer, unclosed>>,
             left' \in [Place -> Nat]
      PROVE  RequestInv'
  BY <1>0, <1>1, <1>5 DEF RequestInv, TypeOK, AnswersClosed, Placed, PlaceOf
<1>6. ASSUME NEW u \in Url, PollerAsks(u)
      PROVE  RequestInv'
  BY <1>0, <1>5, <1>6 DEF PollerAsks
<1>7. CASE Tick
  <2>1. left' \in [Place -> Nat]
    BY <1>0, <1>7 DEF Tick
  <2> QED
    BY <1>5, <1>7, <2>1 DEF Tick
<1>8. CASE UNCHANGED vars
  BY <1>0, <1>5, <1>8 DEF vars
<1> QED
  BY <1>2, <1>3, <1>4, <1>6, <1>7, <1>8 DEF Next, Moves, Handler

\* The state is well typed in every reachable state.
THEOREM TypeCorrect == Spec => []TypeOK
<1>1. RequestInv => TypeOK
  BY DEF RequestInv
<1> QED
  BY <1>1, InitRequests, StepRequests, PTL DEF Spec

\* A request holds an upstream's answer open exactly while it closes it or gives
\* it to the client: a retried answer, one that the chain is tried for and the
\* answer of a target that failed are all closed on the way.
THEOREM AnswersAllClosed == Spec => []AnswersClosed
<1>1. RequestInv => AnswersClosed
  BY DEF RequestInv
<1> QED
  BY <1>1, InitRequests, StepRequests, PTL DEF Spec

-----------------------------------------------------------------------------
(* Where a request may go.                                                 *)

\* The steps of other requests, of the poller and of the clock, and a backoff's
\* end, leave r where it is; another request's leaves it in its phase.
LEMMA OthersStay ==
  ASSUME RequestInv, [Next]_vars, NEW r \in Req, ~Moves(r)
  PROVE  /\ phase'[r] = "sent" => phase[r] \in {"sent", "backoff"}
         /\ phase'[r] # "new" => pos'[r] = pos[r] /\ url'[r] = url[r]
         /\ phase'[r] = "failed" => phase[r] = "failed"
<1>0. phase \in [Req -> Phase] /\ pos \in [Req -> 0..Len(Chain)] /\ url \in [Req -> Nat]
  BY DEF RequestInv, TypeOK
<1>1. ASSUME NEW s \in Req, Moves(s)
      PROVE  phase'[r] = phase[r] /\ pos'[r] = pos[r] /\ url'[r] = url[r]
  <2>1. PICK p \in Phase \ {"new"} : phase' = [phase EXCEPT ![s] = p]
    BY <1>1, MovesTake, TookTo
  <2>2. PICK k \in 0..Len(Chain) : pos' = [pos EXCEPT ![s] = k]
    BY <1>1, MovesTake, TookTo
  <2>3. PICK j \in Nat : url' = [url EXCEPT ![s] = j]
    BY <1>1, MovesTake, TookTo
  <2>4. s # r
    BY <1>1
  <2> QED
    BY <1>0, <2>1, <2>2, <2>3, <2>4
<1>2. ASSUME NEW s \in Req, Resume(s)
      PROVE  /\ phase'[r] = phase[r] \/ (phase'[r] = "sent" /\ phase[r] = "backoff")
             /\ pos'[r] = pos[r] /\ url'[r] = url[r]
  <2>1. /\ phase[s] = "backoff" /\ phase' = [phase EXCEPT ![s] = "sent"]
        /\ pos' = pos /\ url' = url
    BY <1>2 DEF Resume
  <2>2. phase'[r] = phase[r] \/ (phase'[r] = "sent" /\ phase[r] = "backoff")
    <3>1. CASE r = s
      BY <1>0, <2>1, <3>1
    <3>2. CASE r # s
      BY <1>0, <2>1, <3>2
    <3> QED
      BY <3>1, <3>2
  <2> QED
    BY <2>1, <2>2
<1>3. ASSUME NEW s \in Req, ComeAgain(s)
      PROVE  \/ phase'[r] = "new"
             \/ phase'[r] = phase[r] /\ pos'[r] = pos[r] /\ url'[r] = url[r]
  BY <1>0, <1>3 DEF ComeAgain
<1>4. ASSUME (\E u \in Url : PollerAsks(u)) \/ Tick \/ UNCHANGED vars
      PROVE  phase'[r] = phase[r] /\ pos'[r] = pos[r] /\ url'[r] = url[r]
  BY <1>4 DEF PollerAsks, Tick, vars
<1> QED
  BY <1>1, <1>2, <1>3, <1>4 DEF Next, Moves, Handler

\* A turn that ends with r sent stays with its place or passes it.
LEMMA SentTurn ==
  ASSUME RequestInv, NEW r \in Req, Moves(r), phase'[r] = "sent"
  PROVE  Stays(r) \/ Passes(r)
<1>1. phase \in [Req -> Phase] /\ Took(r)
  BY MovesTake DEF RequestInv, TypeOK
<1> QED
  BY <1>1 DEF Took, Turn, GivesUp, Waits, Finds, StopsIn

\* Where a request is after it was sent there.
LEMMA ReachedThere ==
  ASSUME RequestInv, NEW r \in Req, NEW k, NEW j, Reaches(r, k, j)
  PROVE  pos'[r] = k /\ url'[r] = j /\ phase'[r] = "sent"
BY DEF Reaches, SentTo, RequestInv, TypeOK

\* No request turns to a URL whose circuit is open, however late in its handling
\* it comes to it, and whatever other requests have reported meanwhile.
THEOREM NoRequestHammers == Spec => NoHammering
<1>1. ASSUME RequestInv, [Next]_vars, NEW r \in Req, GoesOut(r),
             circuit[Urls[PlaceOf(pos'[r])][url'[r]]].state = "open"
      PROVE  circuit[Urls[PlaceOf(pos'[r])][url'[r]]].age > RecoveryTimeout
  <2>1. Moves(r) /\ phase'[r] = "sent"
    BY <1>1, OthersStay DEF GoesOut
  <2>2. \E k, j : Reaches(r, k, j)
    BY <1>1, <2>1, SentTurn DEF Stays, Passes
  <2>3. PICK k, j : Reaches(r, k, j)
    BY <2>2
  <2>4. pos'[r] = k /\ url'[r] = j
    BY <1>1, <2>3, ReachedThere
  <2> QED
    BY <1>1, <2>3, <2>4 DEF Reaches, Blocks, Recovered
<1>2. RequestInv /\ [Next]_vars =>
        \A r \in Req : GoesOut(r) =>
          LET u == Here(r)'
          IN  circuit[u].state = "open" => circuit[u].age > RecoveryTimeout
  BY <1>1 DEF Here, PlaceOf
<1>3. RequestInv /\ [Next]_vars =>
        [\A r \in Req : GoesOut(r) =>
          LET u == Here(r)'
          IN  circuit[u].state = "open" => circuit[u].age > RecoveryTimeout]_vars
  BY <1>2
<1> QED
  BY <1>3, InitRequests, StepRequests, PTL DEF Spec, NoHammering

\* The chain is tried in order, and a target is passed over, or the request given
\* up before it, only if it is in quarantine by then; no target in quarantine is
\* tried.
THEOREM ChainIsHonoured == Spec => ChainHonoured
<1> DEFINE NoSkip == \A r \in Req : \A k \in 1..Len(Chain) :
             /\ HasChain /\ phase'[r] \in {"sent", "failed"}
             /\ pos[r] < k
             /\ k < pos'[r] \/ (phase[r] # "failed" /\ phase'[r] = "failed")
             => left'[Chain[k]] > 0
           Free == \A r \in Req : HasChain /\ phase'[r] = "sent"
             /\ (phase[r] = "new" \/ pos'[r] # pos[r] \/ phase[r] = "chain")
             => left[PlaceOf(pos'[r])] = 0
<1>1. ASSUME RequestInv, [Next]_vars, NEW r \in Req, NEW k \in 1..Len(Chain),
             HasChain, phase'[r] \in {"sent", "failed"}, pos[r] < k,
             k < pos'[r] \/ (phase[r] # "failed" /\ phase'[r] = "failed")
      PROVE  left'[Chain[k]] > 0
  <2>0. pos[r] \in 0..Len(Chain) /\ phase \in [Req -> Phase] /\ k \in Nat
    BY <1>1, ConstantTypes DEF RequestInv, TypeOK
  <2>1. CASE phase'[r] = "sent"
    <3>1. k < pos'[r]
      BY <1>1, <2>1
    <3>2. Moves(r)
      BY <1>1, <2>0, <2>1, <3>1, OthersStay
    <3>3. ~Stays(r)
      <4>1. SUFFICES ASSUME NEW j, Reaches(r, pos[r], j)
                     PROVE  FALSE
        BY DEF Stays
      <4>2. pos'[r] = pos[r]
        BY <1>1, <4>1, ReachedThere
      <4> QED
        BY <1>1, <2>0, <3>1, <4>2
    <3>4. PICK n \in Targets(pos[r] + 1) : \E j \in Nat :
            /\ Reaches(r, n, j)
            /\ \A s \in (pos[r] + 1)..(n - 1) : left'[Chain[s]] > 0
      BY <1>1, <2>1, <3>2, <3>3, SentTurn DEF Passes
    <3>5. pos'[r] = n
      BY <1>1, <3>4, ReachedThere
    <3>6. k \in (pos[r] + 1)..(n - 1)
      BY <1>1, <2>0, <3>1, <3>4, <3>5, ConstantTypes DEF Targets
    <3> QED
      BY <3>4, <3>6
  <2>2. CASE phase'[r] = "failed" /\ ~(phase[r] = "failed")
    <3>1. Moves(r)
      BY <1>1, <2>2, OthersStay
    <3>2. Took(r)
      BY <1>1, <3>1, MovesTake
    <3>3. ~Stays(r) /\ ~Passes(r)
      BY <1>1, <2>2, ReachedThere DEF Stays, Passes
    <3>4. ~Waits(r) /\ ~Finds(r)
      BY <2>0, <2>2 DEF Waits, Finds, StopsIn
    <3>5. GivesUp(r)
      BY <3>2, <3>3, <3>4 DEF Took, Turn
    <3>6. k \in Targets(pos[r] + 1)
      BY <1>1, <2>0, ConstantTypes DEF Targets
    <3> QED
      BY <1>1, <3>5, <3>6 DEF GivesUp
  <2>3. CASE phase'[r] = "failed" /\ phase[r] = "failed"
    <3>1. Moves(r)
      <4>1. SUFFICES ASSUME ~Moves(r)
                     PROVE  FALSE
        OBVIOUS
      <4>2. pos'[r] = pos[r]
        BY <1>1, <2>3, <4>1, OthersStay
      <4> QED
        BY <1>1, <2>0, <2>3, <4>2
    <3> QED
      BY <1>1, <2>3, <3>1, MovesTake DEF Took
  <2> QED
    BY <1>1, <2>1, <2>2, <2>3
<1>2. ASSUME RequestInv, [Next]_vars, NEW r \in Req, HasChain, phase'[r] = "sent",
             phase[r] = "new" \/ pos'[r] # pos[r] \/ phase[r] = "chain"
      PROVE  left[PlaceOf(pos'[r])] = 0
  <2>0. pos[r] \in 0..Len(Chain)
    BY <1>2 DEF RequestInv, TypeOK
  <2>1. Moves(r)
    BY <1>2, OthersStay
  <2>2. CASE Stays(r)
    <3>1. pos'[r] = pos[r]
      BY <1>2, <2>2, ReachedThere DEF Stays
    <3>2. phase[r] = "new"
      BY <1>2, <2>2, <3>1 DEF Stays
    <3>3. pos[r] = 0 /\ left[Primary] = 0
      BY <1>2, <2>2, <3>2 DEF Stays, RequestInv, Placed
    <3> QED
      BY <3>1, <3>3 DEF PlaceOf
  <2>3. CASE Passes(r)
    <3>1. PICK n \in Targets(pos[r] + 1) : \E j \in Nat :
            Reaches(r, n, j) /\ left[Chain[n]] = 0
      BY <2>3 DEF Passes
    <3>2. pos'[r] = n
      BY <1>2, <3>1, ReachedThere
    <3>3. n # 0
      BY <2>0, <3>1, ConstantTypes DEF Targets
    <3> QED
      BY <3>1, <3>2, <3>3 DEF PlaceOf
  <2> QED
    BY <1>2, <2>1, <2>2, <2>3, SentTurn
<1>3. RequestInv /\ [Next]_vars => [NoSkip]_vars /\ [Free]_vars
  BY <1>1, <1>2 DEF PlaceOf
<1>4. Spec => [][NoSkip]_vars /\ [][Free]_vars
  BY <1>3, InitRequests, StepRequests, PTL DEF Spec
<1> QED
  BY <1>4 DEF ChainHonoured, NoTargetSkipped, QuarantineRespected

-----------------------------------------------------------------------------
(* The poller: jobs in order.                                              *)

\* The order of the lists is a linear order of finitely many targets.
LEMMA TargetsOrdered ==
  /\ IsFiniteSet(Target)
  /\ \A n \in Target : \E i \in DOMAIN Order : Order[i] = n
  /\ DOMAIN Order \subseteq Nat
  /\ \A i, j \in DOMAIN Order : Order[i] = Order[j] => i = j
<1> DEFINE a == Len(Servers)
           b == Len(Hosts)
<1>1. /\ a \in Nat /\ b \in Nat
      /\ DOMAIN Servers = 1..a /\ DOMAIN Hosts = 1..b
  BY PollerAssumption
<1>2. /\ DOMAIN Order = 1..(a + b)
      /\ \A i \in 1..a : Order[i] = Servers[i]
      /\ \A i \in 1..b : Order[a + i] = Hosts[i]
  BY <1>1, PollerAssumption DEF Order
<1>3. \A n \in Target : \E i \in DOMAIN Order : Order[i] = n
  <2> SUFFICES ASSUME NEW n \in Target
               PROVE  \E i \in 1..(a + b) : Order[i] = n
    BY <1>2
  <2>1. CASE n \in Server
    <3>1. PICK i \in 1..a : Servers[i] = n
      BY <2>1, <1>1 DEF Server, Range
    <3> QED
      BY <3>1, <1>1, <1>2
  <2>2. CASE n \in Host
    <3>1. PICK i \in 1..b : Hosts[i] = n
      BY <2>2, <1>1 DEF Host, Range
    <3>2. a + i \in 1..(a + b)
      BY <3>1, <1>1
    <3> QED
      BY <3>1, <3>2, <1>2
  <2> QED
    BY <2>1, <2>2 DEF Target
<1>4. IsFiniteSet(Target)
  <2> DEFINE s == [i \in 1..a |-> Servers[i]]
             h == [i \in 1..b |-> Hosts[i]]
  <2>1. s \in Surjection(1..a, Server) /\ h \in Surjection(1..b, Host)
    BY <1>1 DEF Server, Host, Range, Surjection
  <2>2. IsFiniteSet(1..a) /\ IsFiniteSet(1..b)
    BY <1>1, FS_Interval
  <2>3. IsFiniteSet(Server)
    BY <2>1, <2>2, FS_Surjection
  <2>4. IsFiniteSet(Host)
    BY <2>1, <2>2, FS_Surjection
  <2> QED
    BY <2>3, <2>4, FS_Union DEF Target
<1> QED
  BY <1>1, <1>2, <1>3, <1>4, PollerAssumption DEF Order, IsInjective

\* Two jobs have an order.
LEMMA OneBefore ==
  ASSUME NEW m \in Target, NEW n \in Target, m # n
  PROVE  Before(m, n) \/ Before(n, m)
<1>1. PICK i \in DOMAIN Order : Order[i] = m
  BY TargetsOrdered
<1>2. PICK j \in DOMAIN Order : Order[j] = n
  BY TargetsOrdered
<1>3. i \in Nat /\ j \in Nat /\ i # j
  BY <1>1, <1>2, TargetsOrdered
<1>4. i < j \/ j < i
  BY <1>3
<1> QED
  BY <1>1, <1>2, <1>4 DEF Before

LEMMA BeforeTransitive ==
  ASSUME NEW l, NEW m, NEW n, Before(l, m), Before(m, n)
  PROVE  Before(l, n) /\ ~Before(m, m)
<1>1. PICK i, j \in DOMAIN Order : i < j /\ Order[i] = l /\ Order[j] = m
  BY DEF Before
<1>2. PICK p, q \in DOMAIN Order : p < q /\ Order[p] = m /\ Order[q] = n
  BY DEF Before
<1>3. j = p /\ i < q
  BY <1>1, <1>2, TargetsOrdered
<1>4. ~Before(m, m)
  BY TargetsOrdered DEF Before
<1> QED
  BY <1>1, <1>2, <1>3, <1>4 DEF Before

\* No more jobs are let in than there are places.
LEMMA FirstOfFew ==
  ASSUME NEW jobs \in SUBSET Target, NEW k \in Nat
  PROVE  /\ IsFiniteSet(FirstOf(jobs, k))
         /\ Cardinality(FirstOf(jobs, k)) <= k
<1> DEFINE Earlier(n) == {m \in jobs : Before(m, n)}
           f == [n \in FirstOf(jobs, k) |-> Cardinality(Earlier(n))]
<1>1. IsFiniteSet(jobs) /\ IsFiniteSet(FirstOf(jobs, k)) /\ \A n : IsFiniteSet(Earlier(n))
  <2>1. FirstOf(jobs, k) \in SUBSET Target /\ \A n : Earlier(n) \in SUBSET Target
    BY DEF FirstOf
  <2> QED
    BY <2>1, TargetsOrdered, FS_Subset
<1>2. \A n : Cardinality(Earlier(n)) \in Nat
  BY <1>1, FS_CardinalityType
<1>3. f \in [FirstOf(jobs, k) -> 0..(k - 1)]
  BY <1>2 DEF FirstOf
<1>4. \A m, n \in jobs : Before(m, n) => Cardinality(Earlier(m)) < Cardinality(Earlier(n))
  <2> SUFFICES ASSUME NEW m \in jobs, NEW n \in jobs, Before(m, n)
               PROVE  Cardinality(Earlier(m)) < Cardinality(Earlier(n))
    OBVIOUS
  <2>1. Earlier(m) \in SUBSET Earlier(n)
    BY BeforeTransitive
  <2>2. m \in Earlier(n) /\ m \notin Earlier(m)
    BY BeforeTransitive
  <2> HIDE DEF Earlier
  <2> QED
    BY <1>1, <1>2, <2>1, <2>2, FS_Subset
<1>5. \A m, n \in FirstOf(jobs, k) : m # n => f[m] # f[n]
  <2> SUFFICES ASSUME NEW m \in FirstOf(jobs, k), NEW n \in FirstOf(jobs, k), m # n
               PROVE  Cardinality(Earlier(m)) # Cardinality(Earlier(n))
    OBVIOUS
  <2>1. m \in jobs /\ n \in jobs /\ m \in Target /\ n \in Target
    BY DEF FirstOf
  <2>2. Before(m, n) \/ Before(n, m)
    BY <2>1, OneBefore
  <2> HIDE DEF Earlier
  <2> QED
    BY <1>2, <1>4, <2>1, <2>2
<1>6. IsFiniteSet(0..(k - 1)) /\ Cardinality(0..(k - 1)) = k
  BY FS_Interval
<1>7. Cardinality(FirstOf(jobs, k)) \in Nat
  BY <1>1, FS_CardinalityType
<1> HIDE DEF f, Earlier
<1>8. ~(k < Cardinality(FirstOf(jobs, k)))
  BY <1>1, <1>3, <1>5, <1>6, FS_PigeonHole
<1> QED
  BY <1>1, <1>7, <1>8

\* What is charged for the failures of a target, and how long it is left out.
LEMMA DelaysBounded ==
  ASSUME NEW f \in 1..MaxFailures
  PROVE  Delay(f) \in 1..MaxDelay
<1>1. f - 1 \in Nat /\ MaxDelay \in Nat \ {0}
  BY PollerAssumption
<1>2. IsFiniteSet(1..(f - 1)) /\ Cardinality(1..(f - 1)) = f - 1
  BY <1>1, FS_Interval
<1>3. /\ IsFiniteSet(SUBSET (1..(f - 1)))
      /\ Cardinality(SUBSET (1..(f - 1))) = 2 ^ (f - 1)
  BY <1>2, FS_SUBSET
<1>4. 2 ^ (f - 1) \in Nat
  BY <1>3, FS_CardinalityType
<1>5. 2 ^ (f - 1) # 0
  <2>1. SUBSET (1..(f - 1)) # {}
    OBVIOUS
  <2> QED
    BY <1>3, <2>1, FS_EmptySet
<1> HIDE DEF Delay
<1>6. 2 ^ (f - 1) \in 1..MaxDelay \/ ~(2 ^ (f - 1) < MaxDelay)
  BY <1>1, <1>4, <1>5
<1> QED
  BY <1>1, <1>6 DEF Delay

-----------------------------------------------------------------------------
(* What the poller remembers of its targets.                               *)

IsReport(x) == DOMAIN x = {"status", "data", "link"} /\ (x = Absent \/ x.status \in Status)

Entry == [failures : 1..MaxFailures, wait : 0..MaxDelay]

\* Who is in flight and who waits.
PlacesInv ==
  /\ running \subseteq Target /\ queue \subseteq Target
  /\ queue \cap running = {}
  /\ Cardinality(running) <= Capacity

ReportsInv == DOMAIN report = Target /\ \A n \in Target : IsReport(report[n])

\* Who is backed off has been reported on: its entry goes when its report does.
BackoffInv ==
  /\ streak \in [Target -> 0..MaxFailures]
  /\ DOMAIN backoff \subseteq Target
  /\ \A n \in DOMAIN backoff : backoff[n] \in Entry /\ report[n] # Absent
  /\ BackoffEarned

PollerInv == PlacesInv /\ ReportsInv /\ BackoffInv

\* Whatever is written for a target is a report, and not the absence of one.
LEMMA ResultsAreReports ==
  ASSUME NEW n, NEW status \in Status, NEW data
  PROVE  IsReport(Result(n, status, data)) /\ Result(n, status, data) # Absent
<1>1. status # "absent"
  BY DEF Status
<1> QED
  BY <1>1 DEF IsReport, Result, Absent

\* A report whose status or data are replaced stays one.
LEMMA ChangedReports ==
  ASSUME NEW x, IsReport(x), x # Absent
  PROVE  /\ \A d : IsReport([x EXCEPT !.data = d]) /\ [x EXCEPT !.data = d] # Absent
         /\ IsReport([x EXCEPT !.status = "skipped"]) /\ [x EXCEPT !.status = "skipped"] # Absent
<1>1. x.status \in Status /\ "absent" \notin Status /\ "skipped" \in Status
  BY DEF IsReport, Status
<1>2. ASSUME NEW y, DOMAIN y = {"status", "data", "link"}, y.status \in Status
      PROVE  IsReport(y) /\ y # Absent
  BY <1>1, <1>2 DEF IsReport, Absent
<1>3. ASSUME NEW d
      PROVE  IsReport([x EXCEPT !.data = d]) /\ [x EXCEPT !.data = d] # Absent
  <2> DEFINE y == [x EXCEPT !.data = d]
  <2>1. DOMAIN y = {"status", "data", "link"} /\ y.status = x.status
    BY DEF IsReport
  <2> QED
    BY <1>1, <1>2, <2>1
<1>4. IsReport([x EXCEPT !.status = "skipped"]) /\ [x EXCEPT !.status = "skipped"] # Absent
  <2> DEFINE y == [x EXCEPT !.status = "skipped"]
  <2>1. DOMAIN y = {"status", "data", "link"} /\ y.status = "skipped"
    BY DEF IsReport
  <2> QED
    BY <1>1, <1>2, <2>1
<1> QED
  BY <1>3, <1>4

\* A failure is charged to the targets that failed, once each.
LEMMA RaiseCharges ==
  ASSUME BackoffInv, NEW failed \in SUBSET Target, NEW late,
         \A n \in failed : late[n] \in {0, 1}
  PROVE  LET bo == Raise(backoff, failed, late)
         IN  /\ DOMAIN bo = DOMAIN backoff \cup failed
             /\ \A n \in DOMAIN backoff \ failed : bo[n] = backoff[n]
             /\ \A n \in failed :
                  /\ bo[n] \in Entry
                  /\ bo[n].failures = Least(streak[n] + 1, MaxFailures)
                  /\ bo[n].wait <= Delay(Least(streak[n] + 1, MaxFailures))
<1> DEFINE bo == Raise(backoff, failed, late)
<1>1. /\ DOMAIN bo = DOMAIN backoff \cup failed
      /\ \A n \in DOMAIN backoff \ failed : bo[n] = backoff[n]
  BY DEF Raise
<1>2. ASSUME NEW n \in failed
      PROVE  /\ bo[n] \in Entry
             /\ bo[n].failures = Least(streak[n] + 1, MaxFailures)
             /\ bo[n].wait <= Delay(Least(streak[n] + 1, MaxFailures))
  <2>1. Failures(n) = streak[n] /\ streak[n] \in 0..MaxFailures /\ MaxFailures \in Nat \ {0}
    BY PollerAssumption DEF BackoffInv, BackoffEarned, Failures
  <2> DEFINE f == Least(streak[n] + 1, MaxFailures)
  <2>2. f \in 1..MaxFailures
    BY <2>1 DEF Least
  <2>3. Delay(f) \in 1..MaxDelay /\ MaxDelay \in Nat
    BY <2>2, DelaysBounded, PollerAssumption
  <2>4. bo[n] = [failures |-> f, wait |-> Delay(f) - late[n]]
    BY <2>1 DEF Raise
  <2>5. Delay(f) - late[n] \in 0..MaxDelay /\ Delay(f) - late[n] <= Delay(f)
    BY <2>3
  <2> HIDE DEF f, bo
  <2> QED
    BY <2>2, <2>4, <2>5 DEF Entry, f
<1> QED
  BY <1>1, <1>2

-----------------------------------------------------------------------------
(* Every step keeps it.                                                    *)

LEMMA PollerInitially ==
  ASSUME NEW present, PollerInit(present)
  PROVE  PollerInv
<1>1. PlacesInv
  BY FS_EmptySet, PollerAssumption DEF PollerInit, PlacesInv
<1>2. ReportsInv
  BY DEF PollerInit, ReportsInv, IsReport, Absent
<1>3. BackoffInv
  BY PollerAssumption DEF PollerInit, BackoffInv, BackoffEarned
<1> QED
  BY <1>1, <1>2, <1>3 DEF PollerInv

\* A tick begins: the entries of targets that are gone go with their reports.
LEMMA BeginKeeps ==
  ASSUME PollerInv, NEW open, Begin(open)
  PROVE  PollerInv'
<1>1. PlacesInv'
  <2>1. Started(open) \in SUBSET Target /\ Capacity \in Nat
    BY PollerAssumption DEF Started
  <2>2. Cardinality(FirstOf(Started(open), Capacity)) <= Capacity
    BY <2>1, FirstOfFew
  <2>3. FirstOf(Started(open), Capacity) \subseteq Started(open)
    BY DEF FirstOf
  <2>4. /\ running' = FirstOf(Started(open), Capacity)
        /\ queue' = Started(open) \ running'
    BY DEF Begin
  <2> HIDE DEF Started, FirstOf
  <2> QED
    BY <2>1, <2>2, <2>3, <2>4 DEF PlacesInv
<1>2. \A n \in Target : IsReport(report'[n]) /\ (report'[n] = Absent => n \notin config.present \/ report[n] = Absent)
  <2> SUFFICES ASSUME NEW n \in Target
               PROVE  /\ IsReport(Begun(n, open))
                      /\ Begun(n, open) = Absent => n \notin config.present \/ report[n] = Absent
    BY DEF Begin
  <2>1. IsReport(Absent)
    BY DEF IsReport, Absent
  <2>2. IsReport(report[n])
    BY DEF PollerInv, ReportsInv
  <2>3. \A status \in Status : \A data : IsReport(Result(n, status, data)) /\ Result(n, status, data) # Absent
    BY ResultsAreReports
  <2>4. {"disabled", "backoff", "circuit_open"} \subseteq Status
    BY DEF Status
  <2> QED
    BY <2>1, <2>2, <2>3, <2>4 DEF Begun, Carry
<1>3. ReportsInv'
  BY <1>2 DEF ReportsInv, Begin
<1>4. BackoffInv'
  <2> DEFINE old == {n \in DOMAIN backoff : n \in config.present \/ report[n] = Absent}
  <2>1. /\ DOMAIN backoff' = old
        /\ \A n \in old : backoff'[n] = Aged[n]
    BY DEF Begin, Kept, Aged, Restrict
  <2>2. ASSUME NEW n \in old
        PROVE  /\ n \in config.present /\ n \in Target
               /\ backoff'[n] \in Entry
               /\ backoff'[n].failures = backoff[n].failures
               /\ backoff'[n].wait <= backoff[n].wait
    <3>1. backoff[n] \in Entry /\ report[n] # Absent /\ n \in Target
      BY DEF PollerInv, BackoffInv
    <3>2. Aged[n] = [backoff[n] EXCEPT !.wait = IF @ > 0 THEN @ - 1 ELSE 0]
      BY DEF Aged
    <3>3. /\ Aged[n] \in Entry
          /\ Aged[n].failures = backoff[n].failures
          /\ Aged[n].wait <= backoff[n].wait
      BY <3>1, <3>2, PollerAssumption DEF Entry
    <3> QED
      BY <2>1, <3>1, <3>3
  <2>3. streak' = [n \in Target |-> IF n \in config.present THEN streak[n] ELSE 0]
    BY DEF Begin
  <2>4. streak' \in [Target -> 0..MaxFailures]
    BY <2>3, PollerAssumption DEF PollerInv, BackoffInv
  <2>5. \A n \in old : /\ report'[n] # Absent
                       /\ streak'[n] = streak[n]
    BY <1>2, <2>2, <2>3 DEF PollerInv, BackoffInv
  <2>6. ASSUME NEW n \in old
        PROVE  backoff'[n].failures = streak'[n] /\ backoff'[n].wait <= Delay(streak'[n])
    <3>1. backoff[n].failures = streak[n] /\ backoff[n].wait <= Delay(streak[n]) /\ backoff[n] \in Entry
      BY DEF PollerInv, BackoffInv, BackoffEarned
    <3>2. streak[n] \in 1..MaxFailures
      BY <3>1 DEF Entry
    <3>3. Delay(streak[n]) \in 1..MaxDelay
      BY <3>2, DelaysBounded
    <3> HIDE DEF Delay, old
    <3>4. backoff'[n].wait \in Nat /\ backoff[n].wait \in Nat /\ Delay(streak[n]) \in Nat
      BY <2>2, <3>1, <3>3 DEF Entry
    <3> QED
      BY <2>2, <2>5, <3>1, <3>4
  <2>7. \A n \in Target : streak'[n] > 0 => n \in old
    BY <2>3 DEF PollerInv, BackoffInv, BackoffEarned
  <2> HIDE DEF old
  <2> QED
    BY <2>1, <2>2, <2>4, <2>5, <2>6, <2>7 DEF BackoffInv, BackoffEarned, PollerInv
<1> QED
  BY <1>1, <1>3, <1>4 DEF PollerInv

\* The database could not be read: time alone has passed.
LEMMA ReadFailsKeeps ==
  ASSUME PollerInv, ReadFails
  PROVE  PollerInv'
<1>1. PlacesInv' /\ ReportsInv'
  BY DEF PollerInv, PlacesInv, ReportsInv, ReadFails
<1>2. DOMAIN backoff' = DOMAIN backoff /\ report' = report /\ streak' = streak
  BY DEF ReadFails, Aged
<1>3. ASSUME NEW n \in DOMAIN backoff
      PROVE  /\ backoff'[n] \in Entry
             /\ backoff'[n].failures = streak[n]
             /\ backoff'[n].wait <= Delay(streak[n])
  <2>1. /\ backoff[n] \in Entry
        /\ backoff[n].failures = streak[n] /\ backoff[n].wait <= Delay(streak[n])
    BY DEF PollerInv, BackoffInv, BackoffEarned
  <2>2. backoff'[n] = [backoff[n] EXCEPT !.wait = IF @ > 0 THEN @ - 1 ELSE 0]
    BY DEF ReadFails, Aged
  <2>3. /\ backoff'[n] \in Entry
        /\ backoff'[n].failures = backoff[n].failures
        /\ backoff'[n].wait <= backoff[n].wait
    BY <2>1, <2>2, PollerAssumption DEF Entry
  <2>4. Delay(streak[n]) \in 1..MaxDelay
    BY <2>1, DelaysBounded DEF Entry
  <2> HIDE DEF Delay
  <2>5. backoff'[n].wait \in Nat /\ backoff[n].wait \in Nat /\ Delay(streak[n]) \in Nat
    BY <2>1, <2>3, <2>4 DEF Entry
  <2> QED
    BY <2>1, <2>3, <2>5
<1>4. BackoffInv'
  BY <1>2, <1>3 DEF PollerInv, BackoffInv, BackoffEarned
<1> QED
  BY <1>1, <1>4 DEF PollerInv

\* What is known after failures and answers: each failure is charged to a target
\* that failed and has a report now.
LEMMA SettledBackoff ==
  ASSUME BackoffInv, NEW failed \in SUBSET Target, NEW cleared \in SUBSET Target, failed \cap cleared = {},
         NEW late, \A n \in failed : late[n] \in {0, 1},
         DOMAIN backoff' = (DOMAIN backoff \cup failed) \ cleared,
         \A n \in DOMAIN backoff' : backoff'[n] = Raise(backoff, failed, late)[n],
         streak' \in [Target -> Int],
         \A n \in failed : streak'[n] = Least(streak[n] + 1, MaxFailures),
         \A n \in cleared : streak'[n] = 0,
         \A n \in Target \ (failed \cup cleared) : streak'[n] = streak[n],
         \A n \in Target : n \in failed \/ report[n] # Absent => report'[n] # Absent
  PROVE  BackoffInv'
<1> DEFINE bo == Raise(backoff, failed, late)
<1>1. /\ DOMAIN bo = DOMAIN backoff \cup failed
      /\ \A n \in DOMAIN backoff \ failed : bo[n] = backoff[n]
      /\ \A n \in failed :
           /\ bo[n] \in Entry
           /\ bo[n].failures = Least(streak[n] + 1, MaxFailures)
           /\ bo[n].wait <= Delay(Least(streak[n] + 1, MaxFailures))
  BY RaiseCharges
<1>2. \A n \in failed : Least(streak[n] + 1, MaxFailures) \in 1..MaxFailures
  <2>1. \A n \in failed : streak[n] \in 0..MaxFailures
    BY DEF BackoffInv
  <2> QED
    BY <2>1, PollerAssumption DEF Least
<1>3. streak' \in [Target -> 0..MaxFailures]
  <2>1. \A n \in Target : streak'[n] \in 0..MaxFailures
    BY <1>2, PollerAssumption DEF BackoffInv
  <2> QED
    BY <2>1
<1> HIDE DEF bo
<1>4. ASSUME NEW n \in DOMAIN backoff'
      PROVE  /\ n \in Target /\ backoff'[n] \in Entry /\ report'[n] # Absent
             /\ backoff'[n].failures = streak'[n]
             /\ backoff'[n].wait <= Delay(streak'[n])
  <2>1. backoff'[n] = bo[n] /\ n \notin cleared
    BY DEF bo
  <2>2. CASE n \in failed
    BY <1>1, <2>1, <2>2
  <2>3. CASE n \notin failed
    <3>1. n \in DOMAIN backoff
      BY <2>3
    <3>2. n \in Target /\ streak'[n] = streak[n]
      BY <2>1, <2>3, <3>1 DEF BackoffInv
    <3> QED
      BY <1>1, <2>1, <2>3, <3>1, <3>2 DEF BackoffInv, BackoffEarned
  <2> QED
    BY <2>2, <2>3
<1>5. \A n \in Target : streak'[n] > 0 => n \in DOMAIN backoff'
  BY DEF BackoffInv, BackoffEarned
<1> QED
  BY <1>3, <1>4, <1>5 DEF BackoffInv, BackoffEarned

\* A job ends, and the next one is let in.
LEMMA FinishKeeps ==
  ASSUME PollerInv, NEW n \in Target, NEW outcome \in Outcome(n), NEW late \in {0, 1},
         Finish(n, outcome, late)
  PROVE  PollerInv'
<1>1. PlacesInv'
  <2>1. /\ running \in SUBSET Target /\ queue \in SUBSET Target /\ queue \cap running = {}
        /\ Cardinality(running) <= Capacity /\ n \in running /\ Capacity \in Nat
    BY PollerAssumption DEF PollerInv, PlacesInv, Finish
  <2>2. /\ running' = (running \ {n}) \cup FirstOf(queue, 1)
        /\ queue' = queue \ running'
    BY DEF Finish
  <2>3. FirstOf(queue, 1) \subseteq queue
    BY DEF FirstOf
  <2>4. IsFiniteSet(FirstOf(queue, 1)) /\ Cardinality(FirstOf(queue, 1)) <= 1
    BY <2>1, FirstOfFew
  <2>5. IsFiniteSet(running) /\ IsFiniteSet(running \ {n})
    BY <2>1, TargetsOrdered, FS_Subset
  <2>6. Cardinality(running \ {n}) = Cardinality(running) - 1 /\ Cardinality(running) \in Nat
    BY <2>1, <2>5, FS_RemoveElement, FS_CardinalityType
  <2>7. Cardinality((running \ {n}) \cup FirstOf(queue, 1))
          = Cardinality(running \ {n}) + Cardinality(FirstOf(queue, 1))
              - Cardinality((running \ {n}) \cap FirstOf(queue, 1))
    BY <2>4, <2>5, FS_Union
  <2>8. (running \ {n}) \cap FirstOf(queue, 1) = {}
    BY <2>1, <2>3
  <2>9. Cardinality(FirstOf(queue, 1)) \in Nat /\ Cardinality((running \ {n}) \cap FirstOf(queue, 1)) = 0
    BY <2>4, <2>8, FS_CardinalityType, FS_EmptySet
  <2> HIDE DEF FirstOf
  <2> DEFINE a == Cardinality(running \ {n})
             b == Cardinality(FirstOf(queue, 1))
             c == Cardinality((running \ {n}) \cap FirstOf(queue, 1))
  <2>10. Cardinality(running') = a + b - c
    BY <2>2, <2>7
  <2>11. Cardinality(running') <= Capacity
    BY <2>1, <2>4, <2>6, <2>9, <2>10
  <2> QED
    BY <2>1, <2>2, <2>3, <2>11 DEF PlacesInv
<1>2. PICK data : report' = [report EXCEPT ![n] = Result(n, outcome, data)]
  BY DEF Finish, Settle
<1>3. outcome \in Status
  BY DEF Outcome, Status
<1>4. IsReport(Result(n, outcome, data)) /\ Result(n, outcome, data) # Absent
  BY <1>3, ResultsAreReports
<1>5. ReportsInv'
  BY <1>2, <1>4 DEF PollerInv, ReportsInv
<1>6. \A m \in Target : m = n \/ report[m] # Absent => report'[m] # Absent
  BY <1>2, <1>4 DEF PollerInv, ReportsInv
<1>7. BackoffInv'
  <2>1. streak \in [Target -> 0..MaxFailures] /\ DOMAIN backoff \subseteq Target /\ MaxFailures \in Nat \ {0}
    BY PollerAssumption DEF PollerInv, BackoffInv
  <2>2. CASE outcome = "unreachable"
    <3> DEFINE failed == {n}
               cleared == {}
               lates == [x \in {n} |-> late]
    <3>1. backoff' = Raise(backoff, failed, lates)
      BY <2>2 DEF Finish, Settle
    <3>2. DOMAIN backoff' = (DOMAIN backoff \cup failed) \ cleared
      BY <3>1 DEF Raise
    <3>3. streak' = [streak EXCEPT ![n] = Least(streak[n] + 1, MaxFailures)]
      BY <2>2 DEF Finish, Settle
    <3>4. streak' \in [Target -> Int]
      BY <2>1, <3>3 DEF Least
    <3>5. /\ failed \in SUBSET Target /\ cleared \in SUBSET Target /\ failed \cap cleared = {}
          /\ \A m \in failed : lates[m] \in {0, 1}
          /\ \A m \in failed : streak'[m] = Least(streak[m] + 1, MaxFailures)
          /\ \A m \in cleared : streak'[m] = 0
          /\ \A m \in Target \ (failed \cup cleared) : streak'[m] = streak[m]
          /\ \A m \in Target : m \in failed \/ report[m] # Absent => report'[m] # Absent
      BY <1>6, <2>1, <3>3
    <3> HIDE DEF failed, cleared, lates
    <3>6. \A m \in DOMAIN backoff' : backoff'[m] = Raise(backoff, failed, lates)[m]
      BY <3>1
    <3> QED
      BY <3>2, <3>4, <3>5, <3>6, SettledBackoff DEF PollerInv
  <2>3. CASE outcome # "unreachable"
    <3> DEFINE failed == {}
               cleared == {n}
               lates == [x \in {n} |-> late]
    <3>1. backoff' = [x \in DOMAIN backoff \ {n} |-> backoff[x]]
      BY <2>3 DEF Finish, Settle, Clear, Restrict
    <3>2. DOMAIN backoff' = (DOMAIN backoff \cup failed) \ cleared
      BY <3>1
    <3>3. \A m \in DOMAIN backoff' : backoff'[m] = Raise(backoff, failed, lates)[m]
      BY <3>1 DEF Raise
    <3>4. streak' = [streak EXCEPT ![n] = 0]
      BY <2>3 DEF Finish, Settle
    <3>5. /\ failed \in SUBSET Target /\ cleared \in SUBSET Target /\ failed \cap cleared = {}
          /\ \A m \in failed : lates[m] \in {0, 1}
          /\ \A m \in failed : streak'[m] = Least(streak[m] + 1, MaxFailures)
          /\ \A m \in cleared : streak'[m] = 0
          /\ \A m \in Target \ (failed \cup cleared) : streak'[m] = streak[m]
          /\ \A m \in Target : m \in failed \/ report[m] # Absent => report'[m] # Absent
          /\ streak' \in [Target -> Int]
      BY <1>6, <2>1, <3>4
    <3> HIDE DEF failed, cleared, lates
    <3> QED
      BY <3>2, <3>3, <3>5, SettledBackoff DEF PollerInv
  <2> QED
    BY <2>2, <2>3
<1> QED
  BY <1>1, <1>5, <1>7 DEF PollerInv

\* The deadline: what is in flight is charged, what is queued is not.
LEMMA DeadlineKeeps ==
  ASSUME PollerInv, NEW late \in {0, 1}, Deadline(late)
  PROVE  PollerInv'
<1>1. PlacesInv'
  BY FS_EmptySet, PollerAssumption DEF Deadline, PlacesInv
<1>2. running \in SUBSET Target /\ queue \in SUBSET Target
  BY DEF PollerInv, PlacesInv
<1>3. ASSUME NEW n \in Target
      PROVE  /\ IsReport(report'[n])
             /\ n \in running \/ report[n] # Absent => report'[n] # Absent
  <2>1. \A status \in Status : \A data : IsReport(Result(n, status, data)) /\ Result(n, status, data) # Absent
    BY ResultsAreReports
  <2>2. "unreachable" \in Status /\ "skipped" \in Status
    BY DEF Status
  <2>3. IsReport(report[n])
    BY DEF PollerInv, ReportsInv
  <2>4. IsReport(Skip(n)) /\ Skip(n) # Absent
    BY <2>1, <2>2, <2>3, ChangedReports DEF Skip
  <2>5. report'[n] = IF n \in running THEN Result(n, "unreachable", Nothing(n))
                     ELSE IF n \in queue THEN Skip(n) ELSE report[n]
    BY DEF Deadline
  <2> HIDE DEF Skip, Result
  <2> QED
    BY <2>1, <2>2, <2>3, <2>4, <2>5
<1>4. ReportsInv'
  BY <1>3 DEF ReportsInv, Deadline
<1>5. BackoffInv'
  <2> DEFINE lates == [n \in running |-> late]
  <2>1. /\ backoff' = Raise(backoff, running, lates)
        /\ streak' = [n \in Target |-> IF n \in running THEN Least(streak[n] + 1, MaxFailures) ELSE streak[n]]
    BY DEF Deadline, CutOff
  <2>2. streak \in [Target -> 0..MaxFailures] /\ MaxFailures \in Nat
    BY PollerAssumption DEF PollerInv, BackoffInv
  <2>3. streak' \in [Target -> Int]
    BY <2>1, <2>2 DEF Least
  <2> DEFINE cleared == {}
  <2>4. DOMAIN backoff' = (DOMAIN backoff \cup running) \ cleared
    BY <2>1 DEF Raise
  <2>5. /\ \A n \in running : streak'[n] = Least(streak[n] + 1, MaxFailures)
        /\ \A n \in Target \ (running \cup cleared) : streak'[n] = streak[n]
        /\ \A n \in cleared : streak'[n] = 0
        /\ cleared \in SUBSET Target /\ running \cap cleared = {}
    BY <1>2, <2>1
  <2>6. \A n \in running : lates[n] \in {0, 1}
    OBVIOUS
  <2>7. \A n \in Target : n \in running \/ report[n] # Absent => report'[n] # Absent
    BY <1>3
  <2> HIDE DEF cleared, lates
  <2>8. \A n \in DOMAIN backoff' : backoff'[n] = Raise(backoff, running, lates)[n]
    BY <2>1
  <2> QED
    BY <1>2, <2>3, <2>4, <2>5, <2>6, <2>7, <2>8, SettledBackoff DEF PollerInv
<1> QED
  BY <1>1, <1>4, <1>5 DEF PollerInv

\* The tick ends: the processes are attributed, in the data alone.
LEMMA EndKeeps ==
  ASSUME PollerInv, End
  PROVE  PollerInv'
<1>1. PlacesInv'
  BY DEF PollerInv, PlacesInv, End
<1>2. ASSUME NEW n \in Target
      PROVE  IsReport(report'[n]) /\ (report[n] # Absent => report'[n] # Absent)
  <2>1. IsReport(report[n])
    BY DEF PollerInv, ReportsInv
  <2> DEFINE d == (CHOOSE h \in Range(Attribute(TargetRows, HostRows(report))) : h.name = n).gpus
  <2>2. report'[n] = IF n \in Host /\ report[n] # Absent THEN [report[n] EXCEPT !.data = d] ELSE report[n]
    BY DEF End, Attributed
  <2> HIDE DEF d
  <2> QED
    BY <2>1, <2>2, ChangedReports
<1>3. ReportsInv'
  BY <1>2 DEF ReportsInv, End, Attributed
<1>4. UNCHANGED <<backoff, streak>>
  BY DEF End
<1>5. BackoffInv'
  BY <1>2, <1>4 DEF PollerInv, BackoffInv, BackoffEarned
<1> QED
  BY <1>1, <1>3, <1>5 DEF PollerInv

LEMMA PollerStep ==
  ASSUME PollerInv, [PollerNext]_pollerVars
  PROVE  PollerInv'
<1>1. ASSUME NEW n, NEW what, Change(n, what)
      PROVE  PollerInv'
  BY <1>1 DEF Change, PollerInv, PlacesInv, ReportsInv, BackoffInv, BackoffEarned
<1>2. CASE UNCHANGED pollerVars
  BY <1>2 DEF pollerVars, PollerInv, PlacesInv, ReportsInv, BackoffInv, BackoffEarned
<1> QED
  BY <1>1, <1>2, BeginKeeps, ReadFailsKeeps, FinishKeeps, DeadlineKeeps, EndKeeps DEF PollerNext

LEMMA PollerKeeps == PollerSpec => []PollerInv
<1>1. PollerInit(Target) => PollerInv
  BY PollerInitially
<1>2. PollerInv /\ [PollerNext]_pollerVars => PollerInv'
  BY PollerStep
<1> QED
  BY <1>1, <1>2, PTL DEF PollerSpec

\* The types, with them: never more jobs in flight than MAX_CONCURRENCY
\* (poller.py:244, 245), and no target in flight and in the queue.
THEOREM PollerTypeCorrect == PollerSpec => []PollerTypeOK
<1>1. PollerInv => PollerTypeOK
  BY DEF PollerInv, PlacesInv, ReportsInv, BackoffInv, IsReport, Entry, PollerTypeOK
<1> QED
  BY <1>1, PollerKeeps, PTL

\* A target is left out of the ticks only for probes that failed, and for no
\* longer than their number in a row accounts for (poller.py:184-211).
THEOREM BackoffAlwaysEarned == PollerSpec => []BackoffEarned
<1>1. PollerInv => BackoffEarned
  BY DEF PollerInv, BackoffInv
<1> QED
  BY <1>1, PollerKeeps, PTL

-----------------------------------------------------------------------------
(* The attribution of the processes.                                       *)

\* A process as an agent reports it, and a GPU of a host's report.
IsProcess(p) == DOMAIN p = {"pid", "hint", "used", "server"} /\ p.used \in Nat
IsGpu(g) ==
  /\ DOMAIN g = {"host", "index", "used", "total", "procs"}
  /\ g.procs = None \/ (IsFiniteSet(g.procs) /\ \A p \in g.procs : IsProcess(p))
AreGpus(gpus) == IsFiniteSet(gpus) /\ \A g \in gpus : IsGpu(g)

LEMMA ImageFinite ==
  ASSUME NEW f, IsFiniteSet(DOMAIN f)
  PROVE  IsFiniteSet({f[x] : x \in DOMAIN f})
<1> DEFINE g == [x \in DOMAIN f |-> f[x]]
<1>1. g \in Surjection(DOMAIN f, {f[x] : x \in DOMAIN f})
  BY DEF Surjection
<1> QED
  BY <1>1, FS_Surjection

\* A process that is attributed, and a GPU whose processes are.
Owned(p, h) == [p EXCEPT !.server = Owner(p, HostRow(h, report), TargetRows, HostRows(report))]
WithOwners(g, h) == IF g.procs = None THEN g ELSE [g EXCEPT !.procs = {Owned(p, h) : p \in g.procs}]

LEMMA NoTargetTwice == Server \cap Host = {}
<1> SUFFICES ASSUME NEW n \in Server, n \in Host
             PROVE  FALSE
  OBVIOUS
<1> DEFINE a == Len(Servers)
<1>1. a \in Nat /\ DOMAIN Servers = 1..a /\ Len(Hosts) \in Nat /\ DOMAIN Hosts = 1..Len(Hosts)
  BY PollerAssumption
<1>2. PICK i \in 1..a : Servers[i] = n
  BY <1>1 DEF Server, Range
<1>3. PICK j \in 1..Len(Hosts) : Hosts[j] = n
  BY <1>1 DEF Host, Range
<1>4. i \in DOMAIN Order /\ a + j \in DOMAIN Order /\ Order[i] = n /\ Order[a + j] = n
  BY <1>1, <1>2, <1>3, PollerAssumption DEF Order
<1> QED
  BY <1>1, <1>2, <1>3, <1>4, TargetsOrdered

\* AttributionCurrent of a snapshot and of the configuration it was made with.
OwnersRight(rep, rows) ==
  \A h \in Host : \A g \in (IF rep[h] = Absent THEN {} ELSE rep[h].data) : \A p \in ProcsOf(g) :
    LET may == {i \in DOMAIN rows : Serves(rows[i], p, h, HostRows(rep))}
    IN  IF may = {} THEN p.server = None ELSE \E i \in may : p.server = rows[i].name

\* What the tick writes for a host at its end.
LEMMA AttributedData ==
  ASSUME NEW h \in Host, report[h] # Absent
  PROVE  Attributed[h] = [report[h] EXCEPT !.data = {WithOwners(g, h) : g \in report[h].data}]
<1> DEFINE hosts == HostRows(report)
           rows == Attribute(TargetRows, hosts)
           found == CHOOSE x \in Range(rows) : x.name = h
<1>1. PICK i \in DOMAIN Hosts : Hosts[i] = h
  BY DEF Host, Range
<1>2. DOMAIN hosts = {j \in DOMAIN Hosts : report[Hosts[j]] # Absent}
  BY DEF HostRows
<1>3. ASSUME NEW j \in DOMAIN hosts
      PROVE  /\ rows[j].name = Hosts[j]
             /\ rows[j].gpus = {WithOwners(g, Hosts[j]) : g \in report[Hosts[j]].data}
  <2>1. hosts[j] = HostRow(Hosts[j], report)
    BY DEF HostRows
  <2>2. /\ hosts[j].name = Hosts[j]
        /\ hosts[j].gpus = report[Hosts[j]].data
        /\ DOMAIN hosts[j] = {"name", "at", "status", "gpus"}
    BY <2>1 DEF HostRow
  <2> DEFINE gpus == {WithOwners(g, Hosts[j]) : g \in report[Hosts[j]].data}
  <2>3. rows[j] = [hosts[j] EXCEPT !.gpus = {WithOwners(g, Hosts[j]) : g \in hosts[j].gpus}]
    BY <2>1 DEF Attribute, WithOwners, Owned
  <2> HIDE DEF gpus, rows, hosts
  <2>4. rows[j].name = Hosts[j] /\ rows[j].gpus = gpus
    BY <2>2, <2>3 DEF gpus
  <2> QED
    BY <2>4 DEF gpus
<1>4. DOMAIN rows = DOMAIN hosts
  BY DEF Attribute
<1> HIDE DEF rows, hosts
<1>5. i \in DOMAIN rows /\ rows[i] \in Range(rows) /\ rows[i].name = h
  BY <1>1, <1>2, <1>3, <1>4 DEF Range
<1>6. found \in Range(rows) /\ found.name = h
  BY <1>5
<1>7. PICK j \in DOMAIN rows : found = rows[j]
  BY <1>6 DEF Range
<1> HIDE DEF found
<1>8. Hosts[j] = h
  BY <1>3, <1>4, <1>6, <1>7
<1>9. found.gpus = {WithOwners(g, h) : g \in report[h].data}
  BY <1>3, <1>4, <1>7, <1>8
<1>10. Attributed[h] = [report[h] EXCEPT !.data = found.gpus]
  BY DEF Attributed, Target, found, rows, hosts
<1> QED
  BY <1>9, <1>10

\* The first name of a list is that of one of the elements asked for, if there is one.
LEMMA OwnerServes ==
  ASSUME NEW p, NEW h, NEW hosts
  PROVE  LET may == {i \in DOMAIN TargetRows : Serves(TargetRows[i], p, h, hosts)}
             owner == Owner(p, HostRow(h, report), TargetRows, hosts)
         IN  IF may = {} THEN owner = None ELSE \E i \in may : owner = TargetRows[i].name
<1> DEFINE may == {i \in DOMAIN TargetRows : Serves(TargetRows[i], p, h, hosts)}
           owner == Owner(p, HostRow(h, report), TargetRows, hosts)
<1>1. owner = IF may = {} THEN None ELSE TargetRows[Foremost(may)].name
  BY DEF FirstName, Owner, HostRow
<1>2. may \in SUBSET Nat
  BY PollerAssumption DEF TargetRows
<1>3. may # {} => Foremost(may) \in may
  BY <1>2, LeastPosition
<1> HIDE DEF may, owner
<1>4. IF may = {} THEN owner = None ELSE \E i \in may : owner = TargetRows[i].name
  BY <1>1, <1>3
<1> QED
  BY <1>4 DEF may, owner

\* Where a server runs does not depend on what its hosts report.
LEMMA HostsByName ==
  ASSUME ReportsInv, End, NEW srv, NEW p, NEW name
  PROVE  Serves(srv, p, name, HostRows(report)) = Serves(srv, p, name, HostRows(report'))
<1> DEFINE old == HostRows(report)
           new == HostRows(report')
<1>1. \A h \in Host : report[h] = Absent <=> report'[h] = Absent
  <2> SUFFICES ASSUME NEW h \in Host
               PROVE  report[h] = Absent <=> report'[h] = Absent
    OBVIOUS
  <2> DEFINE d == (CHOOSE x \in Range(Attribute(TargetRows, HostRows(report))) : x.name = h).gpus
  <2>1. report'[h] = IF report[h] # Absent THEN [report[h] EXCEPT !.data = d] ELSE report[h]
    BY DEF End, Attributed, Target
  <2>2. IsReport(report[h])
    BY DEF ReportsInv, Target
  <2> HIDE DEF d
  <2> QED
    BY <2>1, <2>2, ChangedReports
<1>2. DOMAIN old = DOMAIN new
  BY <1>1 DEF HostRows, Host, Range
<1>3. \A i \in DOMAIN old : old[i].name = new[i].name /\ old[i].at = new[i].at
  BY <1>2 DEF HostRows, HostRow
<1> HIDE DEF old, new
<1>4. {i \in DOMAIN old : srv.at # None /\ old[i].at = srv.at}
        = {i \in DOMAIN new : srv.at # None /\ new[i].at = srv.at}
  BY <1>2, <1>3
<1>5. EffectiveHost(srv, old) = EffectiveHost(srv, new)
  <2> DEFINE at == {i \in DOMAIN old : srv.at # None /\ old[i].at = srv.at}
             best == Foremost(at)
  <2>1. CASE at = {}
    BY <1>4, <2>1 DEF EffectiveHost, FirstName
  <2>2. CASE at # {}
    <3>1. at \in SUBSET Nat
      BY PollerAssumption DEF HostRows, old
    <3>2. best \in at
      BY <2>2, <3>1, LeastPosition
    <3>3. best \in DOMAIN old
      BY <3>2
    <3>4. old[best].name = new[best].name
      BY <1>3, <3>3
    <3>5. EffectiveHost(srv, old) = IF srv.link # None THEN srv.link ELSE old[best].name
      BY <2>2 DEF EffectiveHost, FirstName
    <3>6. EffectiveHost(srv, new) = IF srv.link # None THEN srv.link ELSE new[best].name
      BY <1>4, <2>2 DEF EffectiveHost, FirstName
    <3> QED
      BY <3>4, <3>5, <3>6
  <2> QED
    BY <2>1, <2>2
<1> QED
  BY <1>5 DEF Serves, old, new

-----------------------------------------------------------------------------
(* What the snapshot shows.                                                *)

\* What a report shows of its target, once there is one.
Shown(n, x) ==
  x # Absent =>
    /\ x.status = "ok" => x.data # Nothing(n)
    /\ x.status \in {"unreachable", "unsupported", "disabled"} => x.data = Nothing(n)
    /\ n \in Server /\ x.status \in {"backoff", "circuit_open"} => x.data = None
    /\ n \in Host => AreGpus(x.data)

\* A target of the configuration that has no report is still to be asked.
TickInv ==
  /\ ~ticking => running = {} /\ queue = {}
  /\ running \subseteq targets.present /\ queue \subseteq targets.present
  /\ \A n \in Target : n \notin targets.present => report[n] = Absent
  /\ \A n \in Target \cap targets.present : report[n] # Absent \/ n \in running \/ n \in queue

ShownInv == \A n \in Target : Shown(n, report[n])

SnapshotInv == PollerInv /\ TickInv /\ ShownInv

LEMMA OutcomesShown ==
  ASSUME NEW n \in Target, NEW outcome \in {"ok", "unsupported", "unreachable"}
  PROVE  Shown(n, Result(n, outcome, IF outcome = "ok" THEN AnswerOf(n) ELSE Nothing(n)))
<1> DEFINE data == IF outcome = "ok" THEN AnswerOf(n) ELSE Nothing(n)
<1>1. Result(n, outcome, data).status = outcome /\ Result(n, outcome, data).data = data
  BY DEF Result
<1>2. CASE n \in Host
  <2>1. IsGpu(Gpu(n))
    <3>1. Seen[n] # None => IsFiniteSet(Seen[n]) /\ \A p \in Seen[n] : IsProcess(p)
      <4>1. n \in Range(Hosts)
        BY <1>2 DEF Host
      <4>2. Seen[n] # None => /\ IsFiniteSet(Seen[n])
                             /\ \A p \in Seen[n] : DOMAIN p = {"pid", "hint", "used", "server"} /\ p.used \in Nat
        BY <4>1, PollerAssumption
      <4> QED
        BY <4>2 DEF IsProcess
    <3> QED
      BY <3>1 DEF IsGpu, Gpu
  <2>2. data = IF outcome = "ok" THEN {Gpu(n)} ELSE {}
    BY <1>2 DEF AnswerOf, Nothing
  <2>3. Nothing(n) = {} /\ n \notin Server
    BY <1>2, NoTargetTwice DEF Nothing
  <2>4. AreGpus(data)
    <3>1. IsFiniteSet({}) /\ IsFiniteSet({Gpu(n)})
      BY FS_EmptySet, FS_Singleton
    <3> QED
      BY <2>1, <2>2, <3>1 DEF AreGpus
  <2> QED
    BY <1>1, <2>2, <2>3, <2>4 DEF Shown
<1>3. CASE n \notin Host
  <2>1. Nothing(n) = None /\ data = IF outcome = "ok" THEN "metrics" ELSE None
    BY <1>3 DEF Nothing, AnswerOf
  <2> QED
    BY <1>1, <1>3, <2>1, PollerAssumption DEF Shown
<1> QED
  BY <1>2, <1>3

LEMMA LeftOutShown ==
  ASSUME NEW n \in Target, Shown(n, report[n]), NEW status \in {"backoff", "circuit_open"}
  PROVE  Shown(n, Carry(n, status))
<1>1. CASE n \in Host
  <2> DEFINE data == IF report[n] # Absent THEN report[n].data ELSE {}
  <2>1. Carry(n, status).status = status /\ Carry(n, status).data = data
    BY <1>1 DEF Carry, Result, Nothing
  <2>2. AreGpus(data)
    BY <1>1, FS_EmptySet DEF Shown, AreGpus
  <2>3. n \notin Server
    BY <1>1, NoTargetTwice
  <2> QED
    BY <2>1, <2>2, <2>3 DEF Shown
<1>2. CASE n \notin Host
  <2>1. Carry(n, status).status = status /\ Carry(n, status).data = None
    BY <1>2 DEF Carry, Result, Nothing
  <2> QED
    BY <1>2, <2>1 DEF Shown
<1> QED
  BY <1>1, <1>2

LEMMA BlankShown ==
  ASSUME NEW n \in Target, NEW status \in {"disabled", "skipped"}
  PROVE  Shown(n, Result(n, status, Nothing(n)))
<1>1. Result(n, status, Nothing(n)).status = status /\ Result(n, status, Nothing(n)).data = Nothing(n)
  BY DEF Result
<1>2. n \in Host => AreGpus(Nothing(n))
  BY FS_EmptySet DEF Nothing, AreGpus
<1> QED
  BY <1>1, <1>2 DEF Shown

LEMMA SkippedShown ==
  ASSUME NEW n \in Target, IsReport(report[n]), Shown(n, report[n])
  PROVE  Shown(n, Skip(n))
<1>1. CASE report[n] = Absent
  BY <1>1, BlankShown DEF Skip
<1>2. CASE report[n] # Absent
  <2> DEFINE x == [report[n] EXCEPT !.status = "skipped"]
  <2>1. x.status = "skipped" /\ x.data = report[n].data
    BY DEF IsReport
  <2>2. n \in Host => AreGpus(report[n].data)
    BY <1>2 DEF Shown
  <2>3. Skip(n) = x
    BY <1>2 DEF Skip
  <2> HIDE DEF x
  <2>4. Shown(n, x)
    BY <2>1, <2>2 DEF Shown
  <2> QED
    BY <2>3, <2>4
<1> QED
  BY <1>1, <1>2

\* An owner is written into a process, and nothing else about it changes.
LEMMA OwnersWritten ==
  ASSUME NEW h, NEW g, IsGpu(g)
  PROVE  /\ IsGpu(WithOwners(g, h))
         /\ \A q \in ProcsOf(WithOwners(g, h)) :
              \E p : /\ q.hint = p.hint
                     /\ q.server = Owner(p, HostRow(h, report), TargetRows, HostRows(report))
<1>1. CASE g.procs = None
  BY <1>1 DEF WithOwners, ProcsOf
<1>2. CASE g.procs # None
  <2> DEFINE procs == {Owned(p, h) : p \in g.procs}
  <2>1. \A p \in g.procs :
          /\ IsProcess(Owned(p, h)) /\ Owned(p, h).hint = p.hint
          /\ Owned(p, h).server = Owner(p, HostRow(h, report), TargetRows, HostRows(report))
    BY <1>2 DEF IsGpu, IsProcess, Owned
  <2>2. WithOwners(g, h) = [g EXCEPT !.procs = procs]
    BY <1>2 DEF WithOwners
  <2>3. IsFiniteSet(procs) /\ \A p \in procs : IsProcess(p)
    <3> DEFINE write == [p \in g.procs |-> Owned(p, h)]
    <3>1. procs = {write[p] : p \in DOMAIN write}
      OBVIOUS
    <3>2. IsFiniteSet(g.procs)
      BY <1>2 DEF IsGpu
    <3>3. IsFiniteSet(procs)
      BY <3>1, <3>2, ImageFinite
    <3> QED
      BY <2>1, <3>3
  <2>4. DOMAIN WithOwners(g, h) = {"host", "index", "used", "total", "procs"} /\ WithOwners(g, h).procs = procs
    BY <2>2 DEF IsGpu
  <2>5. ASSUME NEW q \in ProcsOf(WithOwners(g, h))
        PROVE  \E p : /\ q.hint = p.hint
                      /\ q.server = Owner(p, HostRow(h, report), TargetRows, HostRows(report))
    <3>1. q \in procs
      BY <2>4 DEF ProcsOf
    <3>2. PICK p \in g.procs : q = Owned(p, h)
      BY <3>1
    <3> QED
      BY <2>1, <3>2
  <2> HIDE DEF procs
  <2> QED
    BY <2>3, <2>4, <2>5 DEF IsGpu
<1> QED
  BY <1>1, <1>2

\* The tick's end writes owners into the GPUs of the hosts, and shows no more than before.
LEMMA AttributedShown ==
  ASSUME ReportsInv, ShownInv, End, NEW n \in Target
  PROVE  /\ Shown(n, report'[n])
         /\ report'[n] = Absent <=> report[n] = Absent
<1>1. IsReport(report[n]) /\ Shown(n, report[n])
  BY DEF ReportsInv, ShownInv
<1>2. CASE n \in Host /\ report[n] # Absent
  <2> DEFINE data == {WithOwners(g, n) : g \in report[n].data}
             x == [report[n] EXCEPT !.data = data]
  <2>1. report'[n] = x
    BY <1>2, AttributedData DEF End
  <2>2. x # Absent
    BY <1>1, <1>2, ChangedReports
  <2>3. x.status = report[n].status /\ x.data = data
    BY <1>1 DEF IsReport
  <2>4. Nothing(n) = {} /\ n \notin Server
    BY <1>2, NoTargetTwice DEF Nothing
  <2>5. AreGpus(report[n].data)
    BY <1>1, <1>2 DEF Shown
  <2>6. AreGpus(data)
    <3> DEFINE write == [g \in report[n].data |-> WithOwners(g, n)]
    <3>1. data = {write[g] : g \in DOMAIN write}
      OBVIOUS
    <3>2. IsFiniteSet(data)
      BY <2>5, <3>1, ImageFinite DEF AreGpus
    <3>3. \A g \in data : IsGpu(g)
      BY <2>5, OwnersWritten DEF AreGpus
    <3> QED
      BY <3>2, <3>3 DEF AreGpus
  <2>7. data = {} <=> report[n].data = {}
    OBVIOUS
  <2> HIDE DEF data, x
  <2>8. Shown(n, x)
    BY <1>1, <1>2, <2>3, <2>4, <2>6, <2>7 DEF Shown
  <2> QED
    BY <1>2, <2>1, <2>2, <2>8
<1>3. CASE ~(n \in Host /\ report[n] # Absent)
  BY <1>1, <1>3 DEF End, Attributed
<1> QED
  BY <1>2, <1>3

LEMMA SnapshotInitially ==
  ASSUME NEW present, PollerInit(present)
  PROVE  SnapshotInv
<1>1. TickInv
  BY DEF PollerInit, TickInv
<1>2. ShownInv
  BY DEF PollerInit, ShownInv, Shown
<1> QED
  BY <1>1, <1>2, PollerInitially DEF SnapshotInv

LEMMA SnapshotBegin ==
  ASSUME SnapshotInv, NEW open, Begin(open)
  PROVE  SnapshotInv'
<1>1. PollerInv'
  BY BeginKeeps DEF SnapshotInv
<1>2. ASSUME NEW n \in Target
      PROVE  report'[n] = Begun(n, open)
  BY DEF Begin
<1>3. \A n \in Target, status \in Status : \A data : Result(n, status, data) # Absent
  BY ResultsAreReports
<1>4. "disabled" \in Status /\ "backoff" \in Status /\ "circuit_open" \in Status
  BY DEF Status
<1>5. TickInv'
  <2>1. /\ running' \subseteq Started(open) /\ queue' = Started(open) \ running'
        /\ targets' = config /\ ticking'
    BY DEF Begin, FirstOf
  <2>2. Started(open) \subseteq config.present
    BY DEF Started
  <2>3. ASSUME NEW n \in Target
        PROVE  /\ n \notin config.present => Begun(n, open) = Absent
               /\ n \in config.present => Begun(n, open) # Absent \/ n \in Started(open)
    BY <1>3, <1>4 DEF Begun, Carry, Started, LeftOut
  <2> HIDE DEF Started, Begun
  <2> QED
    BY <1>2, <2>1, <2>2, <2>3 DEF TickInv
<1>6. ShownInv'
  <2> SUFFICES ASSUME NEW n \in Target
               PROVE  Shown(n, Begun(n, open))
    BY <1>2 DEF ShownInv
  <2>1. Shown(n, report[n]) /\ Shown(n, Absent)
    BY DEF SnapshotInv, ShownInv, Shown
  <2>2. Shown(n, Carry(n, "backoff")) /\ Shown(n, Carry(n, "circuit_open"))
    BY <2>1, LeftOutShown
  <2>3. Shown(n, Result(n, "disabled", Nothing(n)))
    BY BlankShown
  <2> QED
    BY <2>1, <2>2, <2>3 DEF Begun
<1> QED
  BY <1>1, <1>5, <1>6 DEF SnapshotInv

LEMMA SnapshotFinish ==
  ASSUME SnapshotInv, NEW n \in Target, NEW outcome \in Outcome(n), NEW late \in {0, 1},
         Finish(n, outcome, late)
  PROVE  SnapshotInv'
<1>1. PollerInv'
  BY FinishKeeps DEF SnapshotInv
<1> DEFINE x == Result(n, outcome, IF outcome = "ok" THEN AnswerOf(n) ELSE Nothing(n))
<1>2. report' = [report EXCEPT ![n] = x] /\ DOMAIN report = Target
  BY DEF Finish, Settle, SnapshotInv, PollerInv, ReportsInv
<1>3. outcome \in {"ok", "unsupported", "unreachable"} /\ outcome \in Status
  BY DEF Outcome, Status
<1>4. x # Absent /\ Shown(n, x)
  BY <1>3, ResultsAreReports, OutcomesShown
<1> HIDE DEF x
<1>5. ShownInv'
  BY <1>2, <1>4 DEF SnapshotInv, ShownInv
<1>6. TickInv'
  <2>1. /\ FirstOf(queue, 1) \subseteq queue
        /\ running' = (running \ {n}) \cup FirstOf(queue, 1)
        /\ queue' = queue \ running'
        /\ n \in running
        /\ UNCHANGED <<targets, ticking>>
    BY DEF Finish, FirstOf
  <2> QED
    BY <1>2, <1>4, <2>1 DEF SnapshotInv, TickInv
<1> QED
  BY <1>1, <1>5, <1>6 DEF SnapshotInv

LEMMA SnapshotDeadline ==
  ASSUME SnapshotInv, NEW late \in {0, 1}, Deadline(late)
  PROVE  SnapshotInv'
<1>1. PollerInv'
  BY DeadlineKeeps DEF SnapshotInv
<1>2. ASSUME NEW n \in Target
      PROVE  /\ Shown(n, report'[n])
             /\ n \in running \/ n \in queue => report'[n] # Absent
             /\ ~(n \in running \/ n \in queue) => report'[n] = report[n]
  <2>1. report'[n] = IF n \in running THEN Result(n, "unreachable", Nothing(n))
                     ELSE IF n \in queue THEN Skip(n) ELSE report[n]
    BY DEF Deadline
  <2>2. Shown(n, Result(n, "unreachable", Nothing(n)))
    BY OutcomesShown
  <2>3. Shown(n, report[n]) /\ IsReport(report[n])
    BY DEF SnapshotInv, ShownInv, PollerInv, ReportsInv
  <2>4. Shown(n, Skip(n))
    BY <2>3, SkippedShown
  <2>5. \A status \in Status : \A data : Result(n, status, data) # Absent
    BY ResultsAreReports
  <2>6. "unreachable" \in Status /\ "skipped" \in Status
    BY DEF Status
  <2>7. Skip(n) # Absent
    BY <2>3, <2>5, <2>6, ChangedReports DEF Skip
  <2> HIDE DEF Skip, Result, Shown
  <2> QED
    BY <2>1, <2>2, <2>3, <2>4, <2>5, <2>6, <2>7
<1>3. ShownInv'
  BY <1>2 DEF ShownInv
<1>4. TickInv'
  BY <1>2 DEF SnapshotInv, TickInv, Deadline
<1> QED
  BY <1>1, <1>3, <1>4 DEF SnapshotInv

LEMMA SnapshotEnd ==
  ASSUME SnapshotInv, End
  PROVE  SnapshotInv'
<1>1. PollerInv'
  BY EndKeeps DEF SnapshotInv
<1>2. \A n \in Target : Shown(n, report'[n]) /\ (report'[n] = Absent <=> report[n] = Absent)
  BY AttributedShown DEF SnapshotInv, PollerInv
<1>3. TickInv' /\ ShownInv'
  BY <1>2 DEF SnapshotInv, TickInv, ShownInv, End
<1> QED
  BY <1>1, <1>3 DEF SnapshotInv

LEMMA SnapshotStep ==
  ASSUME SnapshotInv, [PollerNext]_pollerVars
  PROVE  SnapshotInv'
<1>1. PollerInv'
  BY PollerStep DEF SnapshotInv
<1>2. ASSUME UNCHANGED <<targets, report, queue, running, ticking>>
      PROVE  SnapshotInv'
  BY <1>1, <1>2 DEF SnapshotInv, TickInv, ShownInv
<1>3. ASSUME NEW n, NEW what, Change(n, what)
      PROVE  SnapshotInv'
  BY <1>2, <1>3 DEF Change
<1>4. CASE ReadFails
  BY <1>2, <1>4 DEF ReadFails
<1>5. CASE UNCHANGED pollerVars
  BY <1>2, <1>5 DEF pollerVars
<1> QED
  BY <1>3, <1>4, <1>5, SnapshotBegin, SnapshotFinish, SnapshotDeadline, SnapshotEnd DEF PollerNext

LEMMA SnapshotKept == PollerSpec => []SnapshotInv
<1>1. PollerInit(Target) => SnapshotInv
  BY SnapshotInitially
<1>2. SnapshotInv /\ [PollerNext]_pollerVars => SnapshotInv'
  BY SnapshotStep
<1> QED
  BY <1>1, <1>2, PTL DEF PollerSpec

\* The snapshot, between ticks, names the targets of the configuration that was
\* read, and shows of each what its status says (poller.py:162-168, 229-239): the
\* first half of ViewHonest.
THEOREM SnapshotAlwaysHonest == PollerSpec => []SnapshotHonest
<1>1. SnapshotInv => SnapshotHonest
  <2> SUFFICES ASSUME SnapshotInv, Resting, NEW n \in Target
               PROVE  /\ report[n] = Absent <=> n \notin targets.present
                      /\ report[n].status = "ok" => report[n].data # Nothing(n)
                      /\ report[n].status \in {"unreachable", "unsupported", "disabled"} => report[n].data = Nothing(n)
                      /\ n \in Server /\ report[n].status \in {"backoff", "circuit_open"} => report[n].data = None
    BY DEF SnapshotHonest
  <2>1. report[n] = Absent <=> n \notin targets.present
    BY DEF SnapshotInv, TickInv, Resting
  <2>2. CASE report[n] = Absent
    BY <2>1, <2>2 DEF Absent
  <2>3. CASE report[n] # Absent
    BY <2>1, <2>3 DEF SnapshotInv, ShownInv, Shown
  <2> QED
    BY <2>1, <2>2, <2>3
<1> QED
  BY <1>1, SnapshotKept, PTL

\* Between ticks every process has the owner that the last configuration gives
\* it, carried over hosts included (gpu.py:191-211, poller.py:281-282).
THEOREM AttributionAlwaysCurrent == PollerSpec => []AttributionCurrent
<1>1. PollerInit(Target) => AttributionCurrent
  BY DEF PollerInit, AttributionCurrent, Resting
<1>2. ASSUME SnapshotInv, AttributionCurrent, [PollerNext]_pollerVars
      PROVE  AttributionCurrent'
  <2>1. ASSUME UNCHANGED <<targets, report, ticking>>
        PROVE  AttributionCurrent'
    <3>1. HostRows(report') = HostRows(report) /\ TargetRows' = TargetRows /\ Resting' = Resting
      BY <2>1 DEF HostRows, HostRow, TargetRows, Row, Resting
    <3>2. AttributionCurrent' = (Resting' => OwnersRight(report', TargetRows'))
      BY DEF AttributionCurrent, OwnersRight
    <3>3. AttributionCurrent = (Resting => OwnersRight(report, TargetRows))
      BY DEF AttributionCurrent, OwnersRight
    <3> QED
      BY <1>2, <2>1, <3>1, <3>2, <3>3
  <2>2. CASE ticking'
    BY <2>2 DEF AttributionCurrent, Resting
  <2>3. ASSUME NEW n \in Target, NEW outcome, NEW late, Finish(n, outcome, late)
        PROVE  AttributionCurrent'
    BY <1>2, <2>2, <2>3 DEF Finish, SnapshotInv, TickInv
  <2>4. ASSUME NEW late, Deadline(late)
        PROVE  AttributionCurrent'
    BY <1>2, <2>2, <2>4 DEF Deadline, SnapshotInv, TickInv
  <2>5. CASE End
    <3> SUFFICES ASSUME NEW h \in Host, report'[h] # Absent, NEW g \in report'[h].data, NEW p \in ProcsOf(g)
                 PROVE  LET may == {i \in DOMAIN TargetRows : Serves(TargetRows[i], p, h, HostRows(report'))}
                        IN  IF may = {} THEN p.server = None ELSE \E i \in may : p.server = TargetRows[i].name
      <4>1. TargetRows' = TargetRows
        BY <2>5 DEF End, TargetRows, Row
      <4>2. AttributionCurrent' = (Resting' => OwnersRight(report', TargetRows'))
        BY DEF AttributionCurrent, OwnersRight
      <4> QED
        BY <4>1, <4>2 DEF OwnersRight
    <3>1. ReportsInv /\ ShownInv /\ h \in Target
      BY <1>2 DEF SnapshotInv, PollerInv, Target
    <3>2. report[h] # Absent /\ IsReport(report[h])
      BY <2>5, <3>1, AttributedShown DEF ReportsInv
    <3>3. report'[h] = [report[h] EXCEPT !.data = {WithOwners(x, h) : x \in report[h].data}]
      BY <2>5, <3>1, <3>2, AttributedData DEF End
    <3>4. report'[h].data = {WithOwners(x, h) : x \in report[h].data}
      BY <3>2, <3>3 DEF IsReport
    <3>5. PICK x \in report[h].data : g = WithOwners(x, h)
      BY <3>4
    <3>6. IsGpu(x)
      BY <3>1, <3>2, <3>5 DEF ShownInv, Shown, AreGpus
    <3>7. PICK q : /\ p.hint = q.hint
                   /\ p.server = Owner(q, HostRow(h, report), TargetRows, HostRows(report))
      BY <3>5, <3>6, OwnersWritten
    <3>8. \A srv : Serves(srv, q, h, HostRows(report)) = Serves(srv, p, h, HostRows(report'))
      <4> SUFFICES ASSUME NEW srv
                   PROVE  Serves(srv, q, h, HostRows(report)) = Serves(srv, p, h, HostRows(report'))
        OBVIOUS
      <4>1. Serves(srv, q, h, HostRows(report)) = Serves(srv, q, h, HostRows(report'))
        BY <2>5, <3>1, HostsByName
      <4>2. Serves(srv, q, h, HostRows(report')) = Serves(srv, p, h, HostRows(report'))
        BY <3>7 DEF Serves
      <4> QED
        BY <4>1, <4>2
    <3> DEFINE may == {i \in DOMAIN TargetRows : Serves(TargetRows[i], q, h, HostRows(report))}
               owner == Owner(q, HostRow(h, report), TargetRows, HostRows(report))
    <3>9. IF may = {} THEN owner = None ELSE \E i \in may : owner = TargetRows[i].name
      BY OwnerServes
    <3>10. p.server = owner
      BY <3>7
    <3>11. may = {i \in DOMAIN TargetRows : Serves(TargetRows[i], p, h, HostRows(report'))}
      BY <3>8
    <3> HIDE DEF may, owner
    <3>12. IF may = {} THEN p.server = None ELSE \E i \in may : p.server = TargetRows[i].name
      BY <3>9, <3>10
    <3> QED
      BY <3>11, <3>12
  <2>6. ASSUME NEW n, NEW what, Change(n, what)
        PROVE  AttributionCurrent'
    BY <2>1, <2>6 DEF Change
  <2>7. CASE ReadFails
    BY <2>1, <2>7 DEF ReadFails
  <2>8. ASSUME NEW open, Begin(open)
        PROVE  AttributionCurrent'
    BY <2>2, <2>8 DEF Begin
  <2>9. CASE UNCHANGED pollerVars
    BY <2>1, <2>9 DEF pollerVars
  <2> QED
    BY <1>2, <2>3, <2>4, <2>5, <2>6, <2>7, <2>8, <2>9 DEF PollerNext
<1> QED
  BY <1>1, <1>2, SnapshotKept, PTL DEF PollerSpec

-----------------------------------------------------------------------------
(* The live view.                                                          *)

Named == UNION Range(Models)
Known == {s \in Server : report[s] # Absent}

\* The pairs the view has a row for, and the row and the instance of one.
Pairs(traffic) == traffic \cup UNION {{s.name} \X (s.models \cup DOMAIN s.stats) : s \in SeenServers}
RowOf(p, traffic) ==
  [server |-> p[1], model |-> p[2], traffic |-> p \in traffic, side |-> ServerSide(ServerNamed(p[1], SeenServers), p[2])]
InstanceOf(p, traffic) == Instance(RowOf(p, traffic), SeenServers, HostRows(report))

LEMMA NamesFinite ==
  /\ IsFiniteSet(Server) /\ IsFiniteSet(Host) /\ IsFiniteSet(Named)
  /\ \A s \in Server : Models[s] \subseteq Named
<1>1. IsFiniteSet(DOMAIN Servers) /\ IsFiniteSet(DOMAIN Hosts)
  BY PollerAssumption, FS_Interval
<1>2. IsFiniteSet(Server) /\ IsFiniteSet(Host)
  <2>1. Server = {Servers[i] : i \in DOMAIN Servers} /\ Host = {Hosts[i] : i \in DOMAIN Hosts}
    BY DEF Server, Host, Range
  <2> QED
    BY <1>1, <2>1, ImageFinite
<1>3. DOMAIN Models = Server /\ \A s \in Server : IsFiniteSet(Models[s])
  BY PollerAssumption DEF Server
<1>4. Range(Models) = {Models[s] : s \in DOMAIN Models}
  BY DEF Range
<1>5. IsFiniteSet(Range(Models)) /\ \A m \in Range(Models) : IsFiniteSet(m)
  BY <1>2, <1>3, <1>4, ImageFinite
<1>6. IsFiniteSet(Named)
  BY <1>5, FS_UNION DEF Named
<1> QED
  BY <1>2, <1>3, <1>4, <1>6 DEF Named

LEMMA SeenServerIs ==
  ASSUME NEW s \in Server
  PROVE  /\ SeenServer(s).name = s /\ SeenServer(s).models = Models[s]
         /\ SeenServer(s).waiting \in {None, 1}
         /\ DOMAIN SeenServer(s).stats \subseteq Models[s]
         /\ s \notin PerModel => DOMAIN SeenServer(s).stats = {}
         /\ \A m \in DOMAIN SeenServer(s).stats : SeenServer(s).stats[m] = 1
BY DEF SeenServer

\* A server of the snapshot is found under its name, and no other one is.
LEMMA ServerFound ==
  ASSUME NEW s \in Server
  PROVE  ServerNamed(s, SeenServers) = IF s \in Known THEN SeenServer(s) ELSE None
<1> DEFINE found == {x \in SeenServers : x.name = s}
<1>1. found = IF s \in Known THEN {SeenServer(s)} ELSE {}
  BY SeenServerIs DEF SeenServers, Known
<1>2. ServerNamed(s, SeenServers) = IF found = {} THEN None ELSE CHOOSE x \in found : TRUE
  BY DEF ServerNamed
<1> QED
  BY <1>1, <1>2

LEMMA PairsAre ==
  ASSUME NEW traffic \in SUBSET (Server \X Named)
  PROVE  /\ Pairs(traffic) \subseteq Server \X Named
         /\ IsFiniteSet(Pairs(traffic))
         /\ traffic \cup UNION {{s} \X Models[s] : s \in Known} \subseteq Pairs(traffic)
<1>1. ASSUME NEW p \in Pairs(traffic) PROVE p \in Server \X Named
  <2>1. CASE p \in traffic
    BY <2>1
  <2>2. CASE p \notin traffic
    <3>1. PICK s \in Known : p \in {SeenServer(s).name} \X (SeenServer(s).models \cup DOMAIN SeenServer(s).stats)
      BY <2>2 DEF Pairs, SeenServers, Known
    <3>2. s \in Server
      BY DEF Known
    <3> QED
      BY <3>1, <3>2, SeenServerIs, NamesFinite
  <2> QED
    BY <2>1, <2>2
<1>2. IsFiniteSet(Server \X Named)
  BY NamesFinite, FS_Product
<1>3. IsFiniteSet(Pairs(traffic))
  BY <1>1, <1>2, FS_Subset
<1>4. ASSUME NEW s \in Known, NEW p \in {s} \X Models[s] PROVE p \in Pairs(traffic)
  <2>1. s \in Server /\ SeenServer(s) \in SeenServers
    BY DEF Known, SeenServers
  <2> QED
    BY <2>1, SeenServerIs DEF Pairs
<1> QED
  BY <1>1, <1>3, <1>4 DEF Pairs

LEMMA ViewIs ==
  ASSUME NEW traffic
  PROVE  View(traffic) = {InstanceOf(p, traffic) : p \in Pairs(traffic)}
BY DEF View, Instances, WithServerRows, Pairs, RowOf, InstanceOf

\* What an instance says of its row and of its server.
LEMMA InstanceIs ==
  ASSUME NEW traffic, NEW p
  PROVE  LET srv == ServerNamed(p[1], SeenServers)
             i == InstanceOf(p, traffic)
         IN  /\ i.server = p[1] /\ i.model = p[2]
             /\ i.waiting = ServerSide(srv, p[2]).waiting
             /\ i.scope = ServerSide(srv, p[2]).scope
             /\ i.vram = IF srv = None THEN None ELSE ModelVram(srv, p[2], HostRows(report))
BY DEF InstanceOf, Instance, RowOf

LEMMA ViewFinite ==
  ASSUME NEW traffic \in SUBSET (Server \X Named)
  PROVE  IsFiniteSet(View(traffic))
<1> DEFINE show == [p \in Pairs(traffic) |-> InstanceOf(p, traffic)]
<1>1. View(traffic) = {show[p] : p \in DOMAIN show}
  BY ViewIs
<1>2. IsFiniteSet(DOMAIN show)
  BY PairsAre
<1> HIDE DEF show
<1> QED
  BY <1>1, <1>2, ImageFinite

LEMMA RowsAreOnce ==
  ASSUME NEW traffic \in SUBSET (Server \X Named)
  PROVE  RowsOnce(View(traffic), traffic)
<1> SUFFICES ASSUME NEW pair \in traffic \cup UNION {{s} \X Models[s] : s \in Known}
             PROVE  Cardinality({i \in View(traffic) : <<i.server, i.model>> = pair}) = 1
  BY DEF RowsOnce, Known
<1>1. pair \in Pairs(traffic) /\ Pairs(traffic) \subseteq Server \X Named
  BY PairsAre
<1>2. {i \in View(traffic) : <<i.server, i.model>> = pair} = {InstanceOf(pair, traffic)}
  <2>1. ASSUME NEW p \in Pairs(traffic)
        PROVE  <<InstanceOf(p, traffic).server, InstanceOf(p, traffic).model>> = p
    BY <1>1, InstanceIs
  <2> QED
    BY <1>1, <2>1, ViewIs
<1> QED
  BY <1>2, FS_Singleton

-----------------------------------------------------------------------------
(* The memory of the processes.                                            *)

AllGpus == UNION {report[h].data : h \in {x \in Host : report[x] # Absent}}
Used == [gp \in OnGpus(AllGpus) |-> gp[2].used]

LEMMA GpusShown ==
  ASSUME ShownInv
  PROVE  AreGpus(AllGpus)
<1> DEFINE here == {x \in Host : report[x] # Absent}
           data == [h \in here |-> report[h].data]
<1>1. ASSUME NEW h \in here PROVE AreGpus(data[h])
  BY DEF ShownInv, Shown, Target
<1>2. AllGpus = UNION {data[h] : h \in DOMAIN data}
  BY DEF AllGpus
<1>3. IsFiniteSet(DOMAIN data)
  BY NamesFinite, FS_Subset
<1>4. \A h \in DOMAIN data : IsFiniteSet(data[h]) /\ \A g \in data[h] : IsGpu(g)
  BY <1>1 DEF AreGpus
<1> HIDE DEF data
<1>5. IsFiniteSet({data[h] : h \in DOMAIN data})
  BY <1>3, ImageFinite
<1>6. IsFiniteSet(UNION {data[h] : h \in DOMAIN data})
  BY <1>4, <1>5, FS_UNION
<1> QED
  BY <1>2, <1>4, <1>6 DEF AreGpus

LEMMA MemoryOf ==
  ASSUME NEW gpus, AreGpus(gpus)
  PROVE  Summable([gp \in OnGpus(gpus) |-> gp[2].used])
<1> DEFINE on == [g \in gpus |-> {g} \X ProcsOf(g)]
<1>1. OnGpus(gpus) = UNION {on[g] : g \in DOMAIN on}
  BY DEF OnGpus
<1>2. ASSUME NEW g \in gpus
      PROVE  IsFiniteSet(on[g]) /\ \A gp \in on[g] : gp[2].used \in Nat
  <2>1. IsGpu(g)
    BY DEF AreGpus
  <2>2. IsFiniteSet(ProcsOf(g)) /\ \A p \in ProcsOf(g) : p.used \in Nat
    BY <2>1, FS_EmptySet DEF IsGpu, ProcsOf, IsProcess
  <2>3. IsFiniteSet({g} \X ProcsOf(g))
    BY <2>2, FS_Singleton, FS_Product
  <2> QED
    BY <2>2, <2>3
<1>3. DOMAIN on = gpus /\ IsFiniteSet(gpus)
  BY DEF AreGpus
<1> HIDE DEF on
<1>4. IsFiniteSet({on[g] : g \in DOMAIN on})
  BY <1>3, ImageFinite
<1>5. IsFiniteSet(OnGpus(gpus))
  BY <1>1, <1>2, <1>3, <1>4, FS_UNION
<1>6. \A gp \in OnGpus(gpus) : gp[2].used \in Nat
  BY <1>1, <1>2, <1>3
<1> QED
  BY <1>5, <1>6 DEF Summable

\* A server's host is one that has reported.
LEMMA HostReports ==
  ASSUME NEW srv
  PROVE  LET host == HostOf(srv, HostRows(report))
         IN  host # None => host.gpus \subseteq AllGpus
<1> DEFINE hosts == HostRows(report)
           at == {i \in DOMAIN hosts : hosts[i].name = EffectiveHost(srv, hosts)}
           j == CHOOSE i \in at : TRUE
<1>1. HostOf(srv, hosts) = IF at = {} THEN None ELSE hosts[j]
  BY DEF HostOf
<1>2. ASSUME at # {} PROVE hosts[j].gpus \subseteq AllGpus
  <2>1. j \in DOMAIN hosts
    BY <1>2
  <2>2. Hosts[j] \in Host /\ report[Hosts[j]] # Absent /\ hosts[j].gpus = report[Hosts[j]].data
    <3>1. j \in DOMAIN Hosts /\ report[Hosts[j]] # Absent
      BY <2>1 DEF HostRows
    <3>2. hosts[j] = HostRow(Hosts[j], report)
      BY <2>1 DEF HostRows
    <3>3. hosts[j].gpus = report[Hosts[j]].data
      BY <3>2 DEF HostRow
    <3> QED
      BY <3>1, <3>3 DEF Host, Range
  <2> QED
    BY <2>2 DEF AllGpus
<1> HIDE DEF j, at
<1> QED
  BY <1>1, <1>2

\* The memory an instance shows is that of processes of its server that run its model.
IsMemory(p, own) ==
  /\ own \subseteq OnGpus(AllGpus)
  /\ \A gp \in own : gp[2].server = p[1] /\ SameModel(gp[2].hint, p[2])

LEMMA VramIs ==
  ASSUME NEW traffic \in SUBSET (Server \X Named), NEW p \in Pairs(traffic),
         InstanceOf(p, traffic).vram # None
  PROVE  \E own : IsMemory(p, own) /\ InstanceOf(p, traffic).vram = Held(own)
<1> DEFINE srv == ServerNamed(p[1], SeenServers)
           host == HostOf(srv, HostRows(report))
           own == {gp \in OnGpus(host.gpus) : gp[2].server = srv.name /\ SameModel(gp[2].hint, p[2])}
<1>1. InstanceOf(p, traffic).vram = IF srv = None THEN None ELSE ModelVram(srv, p[2], HostRows(report))
  BY InstanceIs
<1>2. ModelVram(srv, p[2], HostRows(report)) = IF host = None \/ own = {} THEN None ELSE Held(own)
  BY DEF ModelVram
<1>3. srv # None /\ host # None /\ InstanceOf(p, traffic).vram = Held(own)
  BY <1>1, <1>2
<1>4. p[1] \in Server
  BY PairsAre
<1>5. srv.name = p[1]
  BY <1>3, <1>4, ServerFound, SeenServerIs
<1>6. host.gpus \subseteq AllGpus
  BY <1>3, HostReports
<1>7. OnGpus(host.gpus) \subseteq OnGpus(AllGpus)
  BY <1>6 DEF OnGpus
<1> HIDE DEF srv, host
<1>8. IsMemory(p, own)
  BY <1>5, <1>7 DEF IsMemory
<1> QED
  BY <1>3, <1>8

LEMMA VramIsOnce ==
  ASSUME ShownInv, NEW traffic \in SUBSET (Server \X Named),
         \A m \in Named, n \in Named : SameModel(m, n) => m = n
  PROVE  VramOnce(View(traffic))
<1> DEFINE I == {i \in View(traffic) : i.vram # None}
           part == [i \in I |-> CHOOSE own : IsMemory(<<i.server, i.model>>, own) /\ i.vram = Held(own)]
           sums == [i \in I |-> i.vram]
<1>1. Summable(Used) /\ DOMAIN Used = OnGpus(AllGpus)
  BY GpusShown, MemoryOf DEF Used
<1>2. ASSUME NEW i \in I
      PROVE  /\ i.server \in Server /\ i.model \in Named
             /\ i.vram # None
             /\ IsMemory(<<i.server, i.model>>, part[i]) /\ i.vram = Held(part[i])
             /\ i = InstanceOf(<<i.server, i.model>>, traffic)
  <2>1. PICK p \in Pairs(traffic) : i = InstanceOf(p, traffic)
    BY ViewIs
  <2>2. p \in Server \X Named
    BY PairsAre
  <2>3. i.server = p[1] /\ i.model = p[2]
    BY <2>1, InstanceIs
  <2>4. p = <<i.server, i.model>>
    BY <2>2, <2>3
  <2>5. \E own : IsMemory(p, own) /\ i.vram = Held(own)
    BY <2>1, VramIs
  <2>6. IsMemory(p, part[i]) /\ i.vram = Held(part[i])
    BY <2>4, <2>5
  <2> QED
    BY <2>1, <2>2, <2>3, <2>4, <2>6
<1>3. IsFiniteSet(I)
  BY ViewFinite, FS_Subset
<1>4. DOMAIN sums = I /\ \A i \in I : sums[i] = i.vram
  OBVIOUS
<1> HIDE DEF I, part, sums
<1>5. \A i \in I : part[i] \subseteq DOMAIN Used
  BY <1>1, <1>2 DEF IsMemory
<1>6. ASSUME NEW i \in I, NEW j \in I, NEW gp, gp \in part[i], gp \in part[j]
      PROVE  i = j
  <2>1. /\ gp[2].server = i.server /\ gp[2].server = j.server
        /\ SameModel(gp[2].hint, i.model) /\ SameModel(gp[2].hint, j.model)
    BY <1>2, <1>6 DEF IsMemory
  <2>2. SameModel(i.model, j.model)
    BY <2>1 DEF SameModel
  <2>3. i.model = j.model
    BY <1>2, <2>2
  <2> QED
    BY <1>2, <2>1, <2>3
<1>7. ASSUME NEW i \in I PROVE sums[i] = Sum(Restrict(Used, part[i]))
  <2>1. Restrict(Used, part[i]) = [gp \in part[i] |-> gp[2].used]
    BY <1>1, <1>5 DEF Restrict, Used
  <2> QED
    BY <1>2, <1>4, <2>1 DEF Held
<1>8. Sum(sums) <= Sum(Used)
  BY <1>1, <1>3, <1>4, <1>5, <1>6, <1>7, SumApart
<1> QED
  BY <1>8 DEF VramOnce, sums, I, Held, Used, AllGpus

-----------------------------------------------------------------------------
(* The requests that wait at the servers.                                  *)

\* Of instances that show one waiting request or none, their server-wide figures
\* counted once, no more are counted than there are; and where all is server-wide
\* and of one server, one at most.
LEMMA WaitingCounted ==
  ASSUME NEW insts, IsFiniteSet(insts), \A i \in insts : i.waiting \in {None, 1}
  PROVE  /\ ServerWaiting(insts) <= Cardinality(insts)
         /\ /\ \A i \in insts : i.waiting # None => i.scope # "model"
            /\ \A i \in insts, j \in insts : i.server = j.server
            => ServerWaiting(insts) <= 1
<1> DEFINE perModel == {i \in insts : i.scope = "model"}
           servers == {i.server : i \in insts \ perModel}
           pick == [s \in servers |-> CHOOSE i \in insts \ perModel : i.server = s]
           wide == {CHOOSE i \in insts \ perModel : i.server = s : s \in servers}
           shown == {i \in perModel \cup wide : i.waiting # None}
           f == [i \in shown |-> i.waiting]
<1>1. ServerWaiting(insts) = Sum(f)
  BY DEF ServerWaiting
<1>2. ASSUME NEW s \in servers PROVE pick[s] \in insts \ perModel /\ pick[s].server = s
  OBVIOUS
<1>3. wide = {pick[s] : s \in servers}
  OBVIOUS
<1>4. shown \subseteq insts
  BY <1>2, <1>3
<1>5. IsFiniteSet(shown) /\ Cardinality(shown) <= Cardinality(insts)
  BY <1>4, FS_Subset
<1>6. DOMAIN f = shown /\ \A i \in shown : f[i] = 1
  BY <1>4
<1> HIDE DEF f
<1>7. Summable(f) /\ \A i \in DOMAIN f : f[i] <= 1
  <2>1. \A i \in DOMAIN f : f[i] \in Nat /\ f[i] <= 1
    BY <1>6
  <2>2. IsFiniteSet(DOMAIN f)
    BY <1>5, <1>6
  <2> QED
    BY <2>1, <2>2 DEF Summable
<1>8. Cardinality(shown) \in Nat /\ Cardinality(insts) \in Nat
  BY <1>5, FS_CardinalityType
<1>9. ASSUME \A i \in insts : i.waiting # None => i.scope # "model",
             \A i \in insts, j \in insts : i.server = j.server
      PROVE  Cardinality(shown) <= 1
  <2>1. \A i \in shown : \A j \in shown : i = j
    <3> SUFFICES ASSUME NEW i \in shown, NEW j \in shown PROVE i = j
      OBVIOUS
    <3>1. i \in wide /\ j \in wide
      BY <1>4, <1>9
    <3>2. PICK s \in servers, t \in servers : i = pick[s] /\ j = pick[t]
      BY <1>3, <3>1
    <3>3. s = t
      BY <1>2, <1>9, <3>2
    <3> QED
      BY <3>2, <3>3
  <2> HIDE DEF shown
  <2>2. CASE shown = {}
    BY <2>2, FS_EmptySet
  <2>3. CASE shown # {}
    <3>1. PICK i \in shown : TRUE
      BY <2>3
    <3>2. shown = {i}
      BY <2>1, <3>1
    <3> QED
      BY <3>2, FS_Singleton
  <2> QED
    BY <2>2, <2>3
<1> HIDE DEF shown
<1>10. Sum(f) <= Cardinality(shown) /\ Sum(f) \in Nat
  BY <1>6, <1>7, SumOfOnes, SumType
<1>11. Sum(f) <= Cardinality(insts)
  BY <1>5, <1>8, <1>10
<1>12. /\ \A i \in insts : i.waiting # None => i.scope # "model"
       /\ \A i \in insts, j \in insts : i.server = j.server
       => Sum(f) <= 1
  BY <1>8, <1>9, <1>10
<1> QED
  BY <1>1, <1>11, <1>12

LEMMA WaitingIsOnce ==
  ASSUME NEW traffic \in SUBSET (Server \X Named)
  PROVE  WaitingOnce(View(traffic))
<1>1. ASSUME NEW i \in View(traffic)
      PROVE  /\ i.waiting \in {None, 1}
             /\ i.server \notin PerModel /\ i.waiting # None => i.scope # "model"
  <2>1. PICK p \in Pairs(traffic) : i = InstanceOf(p, traffic)
    BY ViewIs
  <2>2. p[1] \in Server
    BY PairsAre
  <2> DEFINE srv == ServerNamed(p[1], SeenServers)
  <2>3. /\ i.server = p[1] /\ i.waiting = ServerSide(srv, p[2]).waiting
        /\ i.scope = ServerSide(srv, p[2]).scope
    BY <2>1, InstanceIs
  <2>4. srv = None \/ srv = SeenServer(p[1])
    BY <2>2, ServerFound
  <2> HIDE DEF srv
  <2>5. CASE srv = None
    BY <2>3, <2>5 DEF ServerSide
  <2>6. CASE srv # None /\ p[2] \in DOMAIN srv.stats
    <3>1. srv.stats[p[2]] = 1 /\ p[1] \in PerModel
      BY <2>2, <2>4, <2>6, SeenServerIs
    <3> QED
      BY <2>3, <2>6, <3>1 DEF ServerSide
  <2>7. CASE srv # None /\ p[2] \notin DOMAIN srv.stats
    <3>1. srv.waiting \in {None, 1}
      BY <2>2, <2>4, <2>7, SeenServerIs
    <3> QED
      BY <2>3, <2>7, <3>1 DEF ServerSide
  <2> QED
    BY <2>5, <2>6, <2>7
<1>2. IsFiniteSet(View(traffic))
  BY ViewFinite
<1>3. ServerWaiting(View(traffic)) <= Cardinality(View(traffic))
  BY <1>1, <1>2, WaitingCounted
<1>4. ASSUME NEW s \in Server \ PerModel
      PROVE  ServerWaiting({i \in View(traffic) : i.server = s}) <= 1
  <2> DEFINE insts == {i \in View(traffic) : i.server = s}
  <2>1. IsFiniteSet(insts)
    BY <1>2, FS_Subset
  <2>2. /\ \A i \in insts : i.waiting \in {None, 1}
        /\ \A i \in insts : i.waiting # None => i.scope # "model"
        /\ \A i \in insts, j \in insts : i.server = j.server
    BY <1>1
  <2> HIDE DEF insts
  <2>3. ServerWaiting(insts) <= 1
    BY <2>1, <2>2, WaitingCounted
  <2> QED
    BY <2>3 DEF insts
<1> QED
  BY <1>3, <1>4 DEF WaitingOnce

\* Between ticks the snapshot is honest and the view of it, whatever the gateway
\* has seen, counts nothing twice (ViewHonest): no row, no waiting request, and,
\* if no two models have names that are taken for each other, no memory of a
\* process (poller.py:229-255, api.py:128-268, gpu.py:264-277).
THEOREM ViewAlwaysHonest ==
  ASSUME \A m \in Named, n \in Named : SameModel(m, n) => m = n
  PROVE  PollerSpec => []ViewHonest
<1>1. ASSUME SnapshotInv PROVE ViewExact
  <2>1. ASSUME NEW traffic \in SUBSET (Server \X Named)
        PROVE  RowsOnce(View(traffic), traffic) /\ VramOnce(View(traffic)) /\ WaitingOnce(View(traffic))
    BY <1>1, RowsAreOnce, VramIsOnce, WaitingIsOnce DEF SnapshotInv
  <2> QED
    BY <2>1 DEF ViewExact, Named
<1>2. PollerSpec => []SnapshotHonest
  BY SnapshotAlwaysHonest
<1> QED
  BY <1>1, <1>2, SnapshotKept, PTL DEF ViewHonest
=============================================================================
