------------------------- MODULE ControlPlaneProofs -------------------------
(***************************************************************************)
(* Proofs about what managers set and what requests are let through by it, *)
(* in six parts: Admission, for every set of requests and every key;       *)
(* Routing, for any servers, names, permission rows and aliases; Accounts, *)
(* for every set of sessions, accounts, invites and changes; Federation,   *)
(* Integrations and Pricing, for any number of processes and of requests   *)
(* that overlap, and any servers' lists of models, integrations, spans,    *)
(* catalogs and prices.                                                    *)
(***************************************************************************)
EXTENDS Accounts, Pricing, Integrations, Routing, Admission, Federation,
        FiniteSetTheorems, NaturalsInduction, WellFoundedInduction, TLAPS

-----------------------------------------------------------------------------
(* Facts about the helpers.                                                *)

LEMMA GreaterType ==
  \A a, b \in Nat : Greater(a, b) \in Nat /\ a <= Greater(a, b) /\ b <= Greater(a, b)
BY DEF Greater

\* A limiter gives slots back, never more than it counts.
LEMMA ReleaseType ==
  ASSUME slots \in Nat, Release
  PROVE  slots' \in Nat
BY DEF Release, Greater

LEMMA LeaveType ==
  ASSUME inflight \in Nat, NEW p, Leave(p)
  PROVE  inflight' \in Nat /\ (inflight > 0 => inflight' = inflight - 1)
BY DEF Leave, Greater

LEMMA LimitTypes ==
  ASSUME key \in Limits
  PROVE  key.tpm \in Nat /\ key.budget \in Nat /\ key.slots \in Nat /\ key.rpm \in Nat
BY AdmissionAssumption

\* The counters of the minute are those of Redis or none.
LEMMA CountersType ==
  ASSUME AdmissionTypeOK
  PROVE  Counters \in [minute : Nat, requests : Nat, tokens : Nat]
<1>1. M \in Nat /\ M > 0 /\ clock \in Nat /\ MaxClock \in Nat
  BY AdmissionAssumption DEF AdmissionTypeOK
<1>2. Minute \in Nat
  BY <1>1 DEF Minute
<1> QED
  BY <1>2 DEF Counters, AdmissionTypeOK

LEMMA AmountType ==
  ASSUME NEW limit \in Nat, NEW t \in Amount(limit)
  PROVE  t \in Nat /\ t <= MaxTokens /\ (limit = 0 => t = 0)
BY AdmissionAssumption DEF Amount

LEMMA InCard ==
  \A p : /\ IsFiniteSet(In(p)) /\ Cardinality(In(p)) \in Nat
         /\ IsFiniteSet(In(p)') /\ Cardinality(In(p)') \in Nat
BY AdmissionAssumption, FS_Subset, FS_CardinalityType DEF In

\* What is left in a bucket, refilled to now, is no more than its size.
LEMMA RefilledType ==
  ASSUME AdmissionTypeOK
  PROVE  Refilled \in Nat /\ Refilled <= key.rpm * M /\ LocalRequest.bucket \in [level : Nat, at : -1..clock]
<1>1. /\ M \in Nat /\ key.rpm \in Nat /\ clock \in Nat
      /\ bucket \in [level : Nat, at : -1..clock]
  BY AdmissionAssumption, LimitTypes DEF AdmissionTypeOK
<1>2. key.rpm * M \in Nat
  BY <1>1
<1>3. Kept \in [level : Nat, at : -1..clock]
  BY <1>1, <1>2 DEF Kept, Full
<1>4. (clock - Kept.at) * key.rpm \in Nat
  <2>1. clock - Kept.at \in Nat
    BY <1>1, <1>3
  <2> QED
    BY <1>1, <2>1
<1>5. Kept.level \in Nat
  BY <1>3
<1>6. Refilled \in Nat /\ Refilled <= key.rpm * M
  BY <1>2, <1>4, <1>5 DEF Refilled, Lesser
<1>7. (IF Refilled >= M THEN Refilled - M ELSE Refilled) \in Nat
  BY <1>1, <1>6
<1> QED
  BY <1>1, <1>6, <1>7 DEF LocalRequest

\* A running total that counts something more is one.
LEMMA CountedType ==
  ASSUME NEW total \in Total, NEW k \in Nat
  PROVE  Counted(total, k) \in Total
BY DEF Counted, Total

Stores == {"redis", "local", "login"}

LEMMA PassType ==
  ASSUME passed \in [Stores -> Total], NEW s \in Stores
  PROVE  Pass(s) \in [Stores -> Total]
BY CountedType DEF Pass

\* What is counted keeps its type.
LEMMA CountType ==
  ASSUME AdmissionTypeOK, NEW shared \in BOOLEAN, CountRequest(shared)
  PROVE  /\ redis' \in [minute : Nat, requests : Nat, tokens : Nat]
         /\ passed' \in [Stores -> Total] /\ cleaned' \in Nat
         /\ bucket' \in [level : Nat, at : -1..clock]
<1>1. redis' = redis \/ redis' = [Counters EXCEPT !.requests = @ + 1]
  BY DEF CountRequest
<1>2. redis' \in [minute : Nat, requests : Nat, tokens : Nat]
  BY <1>1, CountersType DEF AdmissionTypeOK
<1>3. passed' \in {passed, Pass("redis"), Pass("local")}
  BY DEF CountRequest
<1>4. passed \in [Stores -> Total] /\ {"redis", "local"} \subseteq Stores
  BY DEF AdmissionTypeOK, Stores
<1>5. bucket' \in {bucket, LocalRequest.bucket} /\ cleaned' \in {cleaned, clock}
  BY DEF CountRequest, Cleaned
<1>6. bucket \in [level : Nat, at : -1..clock] /\ cleaned \in Nat /\ clock \in Nat
  BY AdmissionAssumption DEF AdmissionTypeOK
<1> QED
  BY <1>2, <1>3, <1>4, <1>5, <1>6, PassType, RefilledType

LEMMA RecordType ==
  ASSUME AdmissionTypeOK, NEW shared \in BOOLEAN, NEW t \in Nat, RecordTokens(shared, t)
  PROVE  redis' \in [minute : Nat, requests : Nat, tokens : Nat] /\ records' \in Total
<1>1. redis' = redis \/ redis' = [Counters EXCEPT !.tokens = @ + t]
  BY DEF RecordTokens
<1>2. records \in Total /\ records' \in {records, Counted(records, t)}
  BY DEF RecordTokens, AdmissionTypeOK
<1>3. redis' \in [minute : Nat, requests : Nat, tokens : Nat]
  BY <1>1, CountersType DEF AdmissionTypeOK
<1> QED
  BY <1>2, <1>3, CountedType

-----------------------------------------------------------------------------
Phases == {"idle", "entered", "admitted", "asking", "body", "charging", "trying"}

\* Where one request goes, the others stay.
LEMMA OneStep ==
  ASSUME phase \in [Req -> Phases], NEW r \in Req, NEW p \in Phases, Step(r, p)
  PROVE  /\ phase' \in [Req -> Phases] /\ phase'[r] = p
         /\ \A q \in Req : q # r => phase'[q] = phase[q]
BY DEF Step

\* What one request's step does to the number of requests at p.
LEMMA StepCard ==
  ASSUME phase \in [Req -> Phases], NEW r \in Req, NEW to \in Phases, Step(r, to), NEW P
  PROVE  /\ phase[r] \in P /\ to \in P => Cardinality(In(P)') = Cardinality(In(P))
         /\ phase[r] \notin P /\ to \notin P => Cardinality(In(P)') = Cardinality(In(P))
         /\ phase[r] \in P /\ to \notin P => /\ Cardinality(In(P)) > 0
                                           /\ Cardinality(In(P)') = Cardinality(In(P)) - 1
         /\ phase[r] \notin P /\ to \in P => Cardinality(In(P)') = Cardinality(In(P)) + 1
<1>1. phase'[r] = to /\ \A q \in Req : q # r => phase'[q] = phase[q]
  BY OneStep
<1>2. IsFiniteSet(In(P)) /\ Cardinality(In(P)) \in Nat
  BY InCard
<1>3. (phase[r] \in P <=> to \in P) => In(P)' = In(P)
  BY <1>1 DEF In
<1>4. CASE phase[r] \in P /\ to \notin P
  <2>1. In(P)' = In(P) \ {r} /\ r \in In(P)
    BY <1>1, <1>4 DEF In
  <2>2. Cardinality(In(P) \ {r}) = Cardinality(In(P)) - 1
    BY <1>2, <2>1, FS_RemoveElement
  <2>3. Cardinality(In(P)) # 0
    BY <1>2, <2>1, FS_EmptySet
  <2> QED
    BY <1>2, <1>4, <2>1, <2>2, <2>3
<1>5. CASE phase[r] \notin P /\ to \in P
  <2>1. In(P)' = In(P) \cup {r} /\ r \notin In(P)
    BY <1>1, <1>5 DEF In
  <2>2. Cardinality(In(P) \cup {r}) = Cardinality(In(P)) + 1
    BY <1>2, <2>1, FS_AddElement
  <2> QED
    BY <1>5, <2>1, <2>2
<1> QED
  BY <1>3, <1>4, <1>5

LEMMA SameCard ==
  ASSUME UNCHANGED phase, NEW P
  PROVE  Cardinality(In(P)') = Cardinality(In(P))
BY DEF In

-----------------------------------------------------------------------------
\* Every step keeps the state well typed.
LEMMA TypeStep == AdmissionTypeOK /\ [AdmissionNext]_admissionVars => AdmissionTypeOK'
<1> SUFFICES ASSUME AdmissionTypeOK, [AdmissionNext]_admissionVars
             PROVE  AdmissionTypeOK'
  OBVIOUS
<1>0. /\ key \in Limits /\ clock \in 0..MaxClock /\ phase \in [Req -> Phases]
      /\ inflight \in Nat /\ slots \in Nat /\ spent \in Nat /\ peak \in Nat /\ arrivals \in Nat /\ faults \in Nat
      /\ healthy \in BOOLEAN /\ redis \in [minute : Nat, requests : Nat, tokens : Nat]
      /\ {records, attempts} \subseteq Total /\ passed \in [Stores -> Total] /\ MaxClock \in Nat
      /\ cleaned \in Nat /\ bucket \in [level : Nat, at : -1..clock]
  BY AdmissionAssumption DEF AdmissionTypeOK, Phases, Stores
<1>t. AdmissionTypeOK' <=>
        /\ key' \in Limits /\ clock' \in 0..MaxClock /\ phase' \in [Req -> Phases]
        /\ inflight' \in Nat /\ slots' \in Nat /\ spent' \in Nat /\ peak' \in Nat /\ arrivals' \in Nat
        /\ faults' \in Nat /\ healthy' \in BOOLEAN /\ redis' \in [minute : Nat, requests : Nat, tokens : Nat]
        /\ {records', attempts'} \subseteq Total /\ passed' \in [Stores -> Total]
        /\ cleaned' \in Nat /\ bucket' \in [level : Nat, at : -1..clock']
  BY DEF AdmissionTypeOK, Phases, Stores
<1>p. \A P : Cardinality({q \in Req : phase'[q] \in P}) \in Nat
  BY AdmissionAssumption, FS_Subset, FS_CardinalityType
<1>1. ASSUME NEW r \in Req, Arrive(r)
      PROVE  AdmissionTypeOK'
  BY <1>0, <1>t, <1>1, OneStep DEF Arrive, limiterVars, Phases
<1>2. ASSUME NEW r \in Req, NEW shared \in BOOLEAN, NEW held \in Nat, ApplyRateLimit(r, shared, held),
             healthy' \in BOOLEAN, faults' \in Nat
      PROVE  AdmissionTypeOK'
  <2>1. redis' \in [minute : Nat, requests : Nat, tokens : Nat]
    BY <1>2, CountType DEF ApplyRateLimit
  <2>2. slots' \in Nat
    BY <1>2 DEF ApplyRateLimit
  <2>3. phase' \in [Req -> Phases] /\ inflight' \in Nat
    BY <1>0, <1>2, OneStep, LeaveType DEF ApplyRateLimit, Phases
  <2>4. /\ passed' \in [Stores -> Total] /\ cleaned' \in Nat
        /\ bucket' \in [level : Nat, at : -1..clock]
    BY <1>2, CountType DEF ApplyRateLimit
  <2> QED
    BY <1>0, <1>t, <1>2, <2>1, <2>2, <2>3, <2>4 DEF ApplyRateLimit
<1>3. ASSUME NEW r \in Req, Admit(r)
      PROVE  AdmissionTypeOK'
  <2>1. CASE ApplyRateLimit(r, UseRedis /\ healthy, slots) /\ UNCHANGED <<healthy, faults>>
    <3>1. (UseRedis /\ healthy) \in BOOLEAN
      OBVIOUS
    <3> QED
      BY <1>0, <1>2, <2>1, <3>1
  <2>2. CASE faults' = faults + 1 /\ healthy' = FALSE /\ ApplyRateLimit(r, FALSE, 0)
    <3>1. FALSE \in BOOLEAN /\ 0 \in Nat
      OBVIOUS
    <3>2. healthy' \in BOOLEAN
      BY <2>2, Zenon
    <3>3. faults' \in Nat
      BY <1>0, <2>2
    <3>4. ApplyRateLimit(r, FALSE, 0)
      BY <2>2
    <3> QED
      BY <1>2, <3>1, <3>2, <3>3, <3>4
  <2> QED
    BY <1>3, <2>1, <2>2 DEF Admit
<1>4. ASSUME NEW r \in Req, CheckBudget(r)
      PROVE  AdmissionTypeOK'
  <2>1. peak' \in Nat
    BY <1>0, <1>4, <1>p, GreaterType DEF CheckBudget
  <2>2. phase' \in [Req -> Phases] /\ inflight' \in Nat /\ slots' \in Nat
    BY <1>0, <1>4, OneStep, LeaveType, ReleaseType DEF CheckBudget, Phases
  <2> QED
    BY <1>0, <1>t, <1>4, <2>1, <2>2 DEF CheckBudget, limiterVars
<1>5. ASSUME NEW r \in Req, Answer(r) \/ Fail(r)
      PROVE  AdmissionTypeOK'
  BY <1>0, <1>t, <1>5, OneStep, LeaveType, ReleaseType DEF Answer, Fail, limiterVars, Phases
<1>6. ASSUME NEW r \in Req, NEW t \in Amount(key.tpm), EndBody(r, t)
      PROVE  AdmissionTypeOK'
  <2>1. redis' \in [minute : Nat, requests : Nat, tokens : Nat] /\ records' \in Total
    <3>1. (UseRedis /\ healthy) \in BOOLEAN /\ t \in Nat
      BY <1>0, LimitTypes, AmountType
    <3> QED
      BY <1>6, <3>1, RecordType DEF EndBody
  <2> QED
    BY <1>0, <1>t, <1>6, <2>1, OneStep, ReleaseType DEF EndBody, Phases
<1>7. ASSUME NEW r \in Req, NEW cost \in Amount(key.budget), Charge(r, cost)
      PROVE  AdmissionTypeOK'
  <2>1. cost \in Nat
    BY <1>0, LimitTypes, AmountType
  <2> QED
    BY <1>0, <1>t, <1>7, <2>1, OneStep DEF Charge, limiterVars, Phases
<1>8. CASE NewMonth
  BY <1>0, <1>t, <1>8 DEF NewMonth, limiterVars
<1>9. ASSUME NEW r \in Req, TryLogin(r)
      PROVE  AdmissionTypeOK'
  <2>1. peak' \in Nat
    <3>1. Cardinality({q \in Req : phase'[q] = "trying"}) \in Nat
      BY AdmissionAssumption, FS_Subset, FS_CardinalityType
    <3> QED
      BY <1>0, <1>9, <3>1, GreaterType DEF TryLogin
  <2> QED
    BY <1>0, <1>t, <1>9, <2>1, OneStep DEF TryLogin, limiterVars, Phases
<1>10. ASSUME NEW r \in Req, NEW failed \in BOOLEAN, LoginAnswered(r, failed)
       PROVE  AdmissionTypeOK'
  <2>1. attempts' \in Total
    BY <1>0, <1>10, CountedType DEF LoginAnswered, Remember
  <2>2. passed' \in [Stores -> Total]
    <3>1. "login" \in Stores /\ passed' \in {passed, Pass("login")}
      BY <1>10 DEF LoginAnswered, Stores
    <3> QED
      BY <1>0, <3>1, PassType
  <2> QED
    BY <1>0, <1>t, <1>10, <2>1, <2>2, OneStep DEF LoginAnswered, Phases
<1>11. CASE Tick
  BY <1>0, <1>t, <1>11 DEF Tick, limiterVars
<1>12. CASE UNCHANGED admissionVars
  BY <1>0, <1>t, <1>12 DEF admissionVars, limiterVars
<1> QED
  BY <1>1, <1>3, <1>4, <1>5, <1>6, <1>7, <1>8, <1>9, <1>10, <1>11, <1>12 DEF AdmissionNext

LEMMA TypeInit == AdmissionInit => AdmissionTypeOK
BY AdmissionAssumption DEF AdmissionInit, AdmissionTypeOK, Nothing, Total, NoBucket

\* Every reachable state is well typed.
THEOREM AdmissionTypeCorrect == AdmissionSpec => []AdmissionTypeOK
BY TypeInit, TypeStep, PTL DEF AdmissionSpec

-----------------------------------------------------------------------------
(* The guard.                                                              *)

\* Each request enters the guard once and leaves it once, whatever refuses it
\* and wherever it fails.
LEMMA GuardStep ==
  AdmissionTypeOK /\ GuardExact /\ [AdmissionNext]_admissionVars => GuardExact'
<1> SUFFICES ASSUME AdmissionTypeOK, GuardExact, [AdmissionNext]_admissionVars
             PROVE  GuardExact'
  OBVIOUS
<1> DEFINE G == Guarded
<1>0. /\ phase \in [Req -> Phases] /\ inflight \in Nat /\ MaxInflight \in Nat
      /\ inflight = Cardinality(In(G)) /\ inflight <= MaxInflight
  BY AdmissionAssumption DEF AdmissionTypeOK, Phases, GuardExact
<1>g. \A p \in Phases : p \in G <=> p \in {"entered", "admitted", "asking"}
  BY DEF Guarded
<1>t. inflight' = Cardinality(In(G)') /\ inflight' <= MaxInflight => GuardExact'
  BY DEF GuardExact, Guarded, In
<1> HIDE DEF G
\* A request leaves the guard, or moves within it, or outside of it.
<1>l. ASSUME NEW r \in Req, NEW p \in Phases, Step(r, p), phase[r] \in G, p \notin G, NEW q, Leave(q)
      PROVE  GuardExact'
  BY <1>0, <1>t, <1>l, StepCard, LeaveType
<1>s. ASSUME NEW r \in Req, NEW p \in Phases, Step(r, p), phase[r] \in G <=> p \in G, UNCHANGED inflight
      PROVE  GuardExact'
  <2>1. Cardinality(In(G)') = Cardinality(In(G))
    BY <1>0, <1>s, StepCard
  <2> QED
    BY <1>0, <1>t, <1>s, <2>1
<1>u. ASSUME UNCHANGED <<phase, inflight>>
      PROVE  GuardExact'
  BY <1>0, <1>t, <1>u, SameCard
<1>p. /\ Phases = {"idle", "entered", "admitted", "asking", "body", "charging", "trying"}
      /\ \A r \in Req : phase[r] \in Phases
  BY <1>0 DEF Phases
<1>1. ASSUME NEW r \in Req, Arrive(r)
      PROVE  GuardExact'
  <2>1. CASE inflight >= MaxInflight
    BY <1>1, <1>g, <1>p, <1>s, <2>1 DEF Arrive
  <2>2. CASE ~(inflight >= MaxInflight)
    <3>1. Step(r, "entered") /\ inflight' = inflight + 1 /\ phase[r] \notin G /\ "entered" \in G
      BY <1>1, <1>g, <1>p, <2>2 DEF Arrive
    <3>2. Cardinality(In(G)') = Cardinality(In(G)) + 1
      BY <1>0, <1>p, <3>1, StepCard
    <3> QED
      BY <1>0, <1>t, <2>2, <3>1, <3>2
  <2> QED
    BY <2>1, <2>2
<1>2. ASSUME NEW r \in Req, NEW shared, NEW held, ApplyRateLimit(r, shared, held)
      PROVE  GuardExact'
  <2>1. phase[r] = "entered"
    BY <1>2 DEF ApplyRateLimit
  <2>2. \/ Step(r, "admitted") /\ UNCHANGED inflight
        \/ Step(r, "idle") /\ Leave("idle")
    BY <1>2 DEF ApplyRateLimit
  <2> QED
    BY <1>g, <1>l, <1>p, <1>s, <2>1, <2>2
<1>3. ASSUME NEW r \in Req, CheckBudget(r)
      PROVE  GuardExact'
  <2>1. phase[r] = "admitted"
    BY <1>3 DEF CheckBudget
  <2>2. \/ Step(r, "asking") /\ UNCHANGED inflight
        \/ Step(r, "idle") /\ Leave("idle")
    BY <1>3 DEF CheckBudget
  <2> QED
    BY <1>g, <1>l, <1>p, <1>s, <2>1, <2>2
<1>4. ASSUME NEW r \in Req, Answer(r) \/ Fail(r)
      PROVE  GuardExact'
  <2>1. CASE Answer(r)
    <3>1. phase[r] = "asking" /\ Step(r, "body") /\ Leave("body")
      BY <2>1 DEF Answer
    <3> QED
      BY <1>g, <1>l, <1>p, <3>1
  <2>2. CASE Fail(r)
    <3>1. phase[r] = "asking" /\ Step(r, "idle") /\ Leave("idle")
      BY <2>2 DEF Fail
    <3> QED
      BY <1>g, <1>l, <1>p, <3>1
  <2> QED
    BY <1>4, <2>1, <2>2
<1>5. ASSUME NEW r \in Req, NEW t, EndBody(r, t)
      PROVE  GuardExact'
  BY <1>5, <1>g, <1>p, <1>s DEF EndBody
<1>6. ASSUME NEW r \in Req, NEW cost, Charge(r, cost)
      PROVE  GuardExact'
  BY <1>6, <1>g, <1>p, <1>s DEF Charge
<1>7. ASSUME NEW r \in Req, TryLogin(r)
      PROVE  GuardExact'
  <2>1. phase[r] = "idle" /\ (Step(r, "idle") \/ Step(r, "trying")) /\ UNCHANGED inflight
    BY <1>7 DEF TryLogin
  <2> QED
    BY <1>g, <1>p, <1>s, <2>1
<1>8. ASSUME NEW r \in Req, NEW failed, LoginAnswered(r, failed)
      PROVE  GuardExact'
  BY <1>8, <1>g, <1>p, <1>s DEF LoginAnswered
<1>9. CASE NewMonth \/ Tick \/ UNCHANGED admissionVars
  BY <1>9, <1>u DEF NewMonth, Tick, admissionVars
<1> QED
  BY <1>1, <1>2, <1>3, <1>4, <1>5, <1>6, <1>7, <1>8, <1>9 DEF AdmissionNext, Admit

\* The guard counts every request that has no answer yet, once, and lets in no
\* more than its limit.
THEOREM GuardAlwaysExact == AdmissionSpec => []GuardExact
<1>1. AdmissionInit => GuardExact
  <2> SUFFICES ASSUME AdmissionInit
               PROVE  GuardExact
    OBVIOUS
  <2>1. In(Guarded) = {}
    BY DEF AdmissionInit, In, Guarded
  <2>2. Cardinality(In(Guarded)) = 0
    BY <2>1, FS_EmptySet
  <2> QED
    BY <2>2, AdmissionAssumption DEF AdmissionInit, GuardExact
<1> QED
  BY <1>1, TypeInit, TypeStep, GuardStep, PTL DEF AdmissionSpec

-----------------------------------------------------------------------------
(* The budget.                                                             *)

LEMMA TimesMonotone ==
  ASSUME NEW a \in Nat, NEW b \in Nat, a <= b
  PROVE  /\ a * MaxTokens \in Nat /\ b * MaxTokens \in Nat
         /\ a * MaxTokens <= b * MaxTokens
         /\ (a + 1) * MaxTokens = a * MaxTokens + MaxTokens
BY AdmissionAssumption

\* What is not charged yet was in flight together, and the peak tells how much
\* that was at most.
SpendInv == Cardinality(In(Uncharged)) <= peak /\ SpendBounded

LEMMA SpendStep ==
  AdmissionTypeOK /\ SpendInv /\ [AdmissionNext]_admissionVars => SpendInv'
<1> SUFFICES ASSUME AdmissionTypeOK, SpendInv, [AdmissionNext]_admissionVars
             PROVE  SpendInv'
  OBVIOUS
<1> DEFINE U == Cardinality(In(Uncharged))
           V == Cardinality(In(Uncharged)')
<1>0. /\ phase \in [Req -> Phases] /\ peak \in Nat /\ spent \in Nat /\ key \in Limits
      /\ MaxTokens \in Nat /\ key.budget \in Nat /\ U \in Nat /\ V \in Nat
      /\ U <= peak
      /\ key.budget > 0 => spent + U * MaxTokens <= key.budget - 1 + peak * MaxTokens
  BY AdmissionAssumption, LimitTypes, InCard DEF AdmissionTypeOK, Phases, SpendInv, SpendBounded
<1>t. /\ V <= peak'
      /\ key'.budget > 0 => spent' + V * MaxTokens <= key'.budget - 1 + peak' * MaxTokens
      => SpendInv'
  BY DEF SpendInv, SpendBounded, Uncharged, In
<1>p. /\ Phases = {"idle", "entered", "admitted", "asking", "body", "charging", "trying"}
      /\ \A r \in Req : phase[r] \in Phases
  BY <1>0 DEF Phases
<1>u. \A p \in Phases : p \in Uncharged <=> p \in {"asking", "body", "charging"}
  BY DEF Uncharged
\* With nothing spent and no more in flight than before, the bound is kept.
<1>k. ASSUME UNCHANGED <<key, spent>>, V <= U, peak <= peak', peak' \in Nat
      PROVE  SpendInv'
  <2>1. V * MaxTokens <= U * MaxTokens /\ V * MaxTokens \in Nat /\ U * MaxTokens \in Nat
    BY <1>0, <1>k, TimesMonotone
  <2>2. peak * MaxTokens <= peak' * MaxTokens /\ peak * MaxTokens \in Nat /\ peak' * MaxTokens \in Nat
    BY <1>0, <1>k, TimesMonotone
  <2> QED
    BY <1>0, <1>t, <1>k, <2>1, <2>2
<1> HIDE DEF U, V
<1>s. ASSUME NEW r \in Req, NEW p \in Phases, Step(r, p), p \in Uncharged => phase[r] \in Uncharged
      PROVE  V <= U
  BY <1>0, <1>s, StepCard DEF U, V
<1>1. ASSUME NEW r \in Req, NEW p \in Phases, Step(r, p), p \in Uncharged => phase[r] \in Uncharged,
             UNCHANGED <<key, spent, peak>>
      PROVE  SpendInv'
  BY <1>0, <1>1, <1>k, <1>s
<1>2. ASSUME NEW r \in Req, Arrive(r)
      PROVE  SpendInv'
  <2>1. (Step(r, "idle") \/ Step(r, "entered")) /\ UNCHANGED <<key, spent, peak>>
    BY <1>2 DEF Arrive
  <2> QED
    BY <1>1, <1>p, <1>u, <2>1
<1>3. ASSUME NEW r \in Req, NEW shared, NEW held, ApplyRateLimit(r, shared, held)
      PROVE  SpendInv'
  <2>1. (Step(r, "idle") \/ Step(r, "admitted")) /\ UNCHANGED <<key, spent, peak>>
    BY <1>3 DEF ApplyRateLimit
  <2> QED
    BY <1>1, <1>p, <1>u, <2>1
<1>4. ASSUME NEW r \in Req, CheckBudget(r)
      PROVE  SpendInv'
  <2>0. /\ phase[r] = "admitted" /\ UNCHANGED <<key, spent>>
        /\ OverBudget => Step(r, "idle")
        /\ ~OverBudget => Step(r, "asking")
        /\ peak' = Greater(peak, Cardinality({q \in Req : phase'[q] \in Uncharged}))
    BY <1>4 DEF CheckBudget
  <2>1. V = Cardinality({q \in Req : phase'[q] \in Uncharged})
    BY DEF V, In, Uncharged
  <2>2. peak' \in Nat /\ peak <= peak' /\ V <= peak'
    BY <1>0, <2>0, <2>1, GreaterType
  <2>3. CASE OverBudget
    BY <1>k, <1>p, <1>s, <1>u, <2>0, <2>2, <2>3
  <2>4. CASE ~OverBudget
    <3>1. key.budget > 0 => spent <= key.budget - 1
      BY <1>0, <2>4 DEF OverBudget
    <3>2. V * MaxTokens <= peak' * MaxTokens /\ V * MaxTokens \in Nat /\ peak' * MaxTokens \in Nat
      BY <1>0, <2>2, TimesMonotone
    <3> QED
      BY <1>0, <1>t, <2>0, <2>2, <3>1, <3>2
  <2> QED
    BY <2>3, <2>4
<1>5. ASSUME NEW r \in Req, Answer(r) \/ Fail(r)
      PROVE  SpendInv'
  <2>1. /\ phase[r] = "asking" /\ (Step(r, "idle") \/ Step(r, "body"))
        /\ UNCHANGED <<key, spent, peak>>
    BY <1>5 DEF Answer, Fail
  <2> QED
    BY <1>1, <1>p, <1>u, <2>1
<1>6. ASSUME NEW r \in Req, NEW t, EndBody(r, t)
      PROVE  SpendInv'
  BY <1>6, <1>1, <1>p, <1>u DEF EndBody
<1>7. ASSUME NEW r \in Req, NEW cost \in Amount(key.budget), Charge(r, cost)
      PROVE  SpendInv'
  <2>1. /\ phase[r] = "charging" /\ Step(r, "idle") /\ spent' = spent + cost
        /\ UNCHANGED <<key, peak>>
    BY <1>7 DEF Charge
  <2>2. V = U - 1 /\ U > 0
    BY <1>0, <1>p, <1>u, <2>1, StepCard DEF U, V
  <2>3. cost \in Nat /\ cost <= MaxTokens
    BY <1>0, AmountType
  <2>4. U * MaxTokens = V * MaxTokens + MaxTokens /\ V * MaxTokens \in Nat
    <3>1. V \in Nat /\ V + 1 = U
      BY <1>0, <2>2
    <3> QED
      BY <1>0, <3>1, TimesMonotone
  <2>5. peak * MaxTokens \in Nat
    BY <1>0, TimesMonotone
  <2> QED
    BY <1>0, <1>t, <2>1, <2>2, <2>3, <2>4, <2>5
<1>8. CASE NewMonth
  <2>1. spent' = 0 /\ UNCHANGED <<key, phase, peak>>
    BY <1>8 DEF NewMonth
  <2>2. V = U
    BY <2>1, SameCard DEF U, V
  <2>3. U * MaxTokens <= peak * MaxTokens /\ U * MaxTokens \in Nat /\ peak * MaxTokens \in Nat
    BY <1>0, TimesMonotone
  <2> QED
    BY <1>0, <1>t, <2>1, <2>2, <2>3
<1>9. ASSUME NEW r \in Req, TryLogin(r)
      PROVE  SpendInv'
  <2>1. (Step(r, "idle") \/ Step(r, "trying")) /\ UNCHANGED <<key, spent>>
    BY <1>9 DEF TryLogin
  <2>2. peak' \in Nat /\ peak <= peak'
    <3>1. Cardinality({q \in Req : phase'[q] = "trying"}) \in Nat
      BY AdmissionAssumption, FS_Subset, FS_CardinalityType
    <3> QED
      BY <1>0, <1>9, <3>1, GreaterType DEF TryLogin
  <2> QED
    BY <1>k, <1>p, <1>s, <1>u, <2>1, <2>2
<1>10. ASSUME NEW r \in Req, NEW failed, LoginAnswered(r, failed)
       PROVE  SpendInv'
  BY <1>10, <1>1, <1>p, <1>u DEF LoginAnswered
<1>11. CASE Tick \/ UNCHANGED admissionVars
  <2>1. UNCHANGED <<key, spent, phase, peak>>
    BY <1>11 DEF Tick, admissionVars
  <2>2. V = U
    BY <2>1, SameCard DEF U, V
  <2> QED
    BY <1>0, <1>k, <2>1, <2>2
<1> QED
  BY <1>2, <1>3, <1>4, <1>5, <1>6, <1>7, <1>8, <1>9, <1>10, <1>11 DEF AdmissionNext, Admit

\* A month's records exceed the budget by no more than was in flight at once,
\* however the requests overlap.
THEOREM SpendAlwaysBounded == AdmissionSpec => []SpendBounded
<1>1. AdmissionInit => SpendInv
  <2> SUFFICES ASSUME AdmissionInit
               PROVE  SpendInv
    OBVIOUS
  <2>1. In(Uncharged) = {}
    BY DEF AdmissionInit, In, Uncharged
  <2>2. Cardinality(In(Uncharged)) = 0 /\ spent = 0 /\ peak = 0 /\ key \in Limits
    BY <2>1, FS_EmptySet DEF AdmissionInit
  <2>3. 0 * MaxTokens = 0
    BY AdmissionAssumption
  <2> QED
    BY <2>2, <2>3, LimitTypes DEF SpendInv, SpendBounded
<1>2. SpendInv => SpendBounded
  BY DEF SpendInv
<1> QED
  BY <1>1, <1>2, TypeInit, TypeStep, SpendStep, PTL DEF AdmissionSpec

-----------------------------------------------------------------------------
(* Running totals.                                                         *)

\* Of a total that counts until tick c: what it is at tick t.
At(total, c, t) == IF t < 0 THEN 0 ELSE total[Lesser(t, c)]

\* It never falls, and stays what it is from c on.
Running(total, c) ==
  /\ total \in Total /\ c \in 0..MaxClock
  /\ \A t, u \in 0..MaxClock : t <= u => total[t] <= total[u]
  /\ \A t \in 0..MaxClock : t >= c => total[t] = total[c]

LEMMA AtFacts ==
  ASSUME NEW total, NEW c, Running(total, c)
  PROVE  /\ c \in Nat
         /\ \A t \in Int : At(total, c, t) \in Nat
         /\ \A t, u \in Int : t <= u => At(total, c, t) <= At(total, c, u)
         /\ \A t \in Int : t >= c => At(total, c, t) = At(total, c, c)
<1>1. MaxClock \in Nat /\ c \in 0..MaxClock /\ total \in [0..MaxClock -> Nat]
  BY AdmissionAssumption DEF Running, Total
<1>2. \A t \in Int : t >= 0 => Lesser(t, c) \in 0..MaxClock
  BY <1>1 DEF Lesser
<1>3. \A t, u \in Int : t <= u => Lesser(t, c) <= Lesser(u, c)
  BY <1>1 DEF Lesser
<1>4. ASSUME NEW t \in Int
      PROVE  At(total, c, t) \in Nat
  <2>1. CASE t < 0
    BY <2>1 DEF At
  <2>2. CASE t >= 0
    <3>1. At(total, c, t) = total[Lesser(t, c)] /\ Lesser(t, c) \in 0..MaxClock
      BY <1>2, <2>2 DEF At
    <3> QED
      BY <1>1, <3>1
  <2> QED
    BY <2>1, <2>2
<1>5. ASSUME NEW t \in Int, NEW u \in Int, t <= u
      PROVE  At(total, c, t) <= At(total, c, u)
  <2>1. CASE t < 0
    BY <1>4, <2>1 DEF At
  <2>2. CASE t >= 0
    BY <1>2, <1>3, <1>5, <2>2 DEF At, Running
  <2> QED
    BY <2>1, <2>2
<1>6. ASSUME NEW t \in Int, t >= c
      PROVE  At(total, c, t) = At(total, c, c)
  BY <1>1, <1>6 DEF At, Lesser
<1> QED
  BY <1>1, <1>4, <1>5, <1>6

\* Before anything is counted.
LEMMA NothingRuns ==
  Running(Nothing, 0) /\ \A t \in Int : At(Nothing, 0, t) = 0
<1>1. MaxClock \in Nat
  BY AdmissionAssumption
<1> QED
  BY <1>1 DEF Running, Nothing, Total, At, Lesser

\* What is counted now is counted from now on.
LEMMA CountedRuns ==
  ASSUME NEW total, Running(total, clock), NEW k \in Nat
  PROVE  /\ Running(Counted(total, k), clock)
         /\ \A t \in Int : At(Counted(total, k), clock, t) =
                             IF t < clock THEN At(total, clock, t) ELSE At(total, clock, t) + k
<1>1. MaxClock \in Nat /\ clock \in 0..MaxClock /\ total \in [0..MaxClock -> Nat]
  BY AdmissionAssumption DEF Running, Total
<1>2. \A t \in 0..MaxClock : Counted(total, k)[t] = IF t < clock THEN total[t] ELSE total[t] + k
  BY DEF Counted
<1>3. Counted(total, k) \in Total
  BY <1>1, CountedType DEF Total
<1>4. Running(Counted(total, k), clock)
  BY <1>1, <1>2, <1>3 DEF Running
<1>5. ASSUME NEW t \in Int
      PROVE  At(Counted(total, k), clock, t) =
               IF t < clock THEN At(total, clock, t) ELSE At(total, clock, t) + k
  BY <1>1, <1>2 DEF At, Lesser
<1> QED
  BY <1>4, <1>5

\* A tick later it is what it was.
LEMMA LaterRuns ==
  ASSUME NEW total, NEW c, Running(total, c), c < MaxClock
  PROVE  Running(total, c + 1) /\ \A t \in Int : At(total, c + 1, t) = At(total, c, t)
<1>1. MaxClock \in Nat /\ c \in 0..MaxClock /\ c + 1 \in 0..MaxClock /\ total[c + 1] = total[c]
  BY AdmissionAssumption DEF Running
<1>2. Running(total, c + 1)
  BY <1>1 DEF Running
<1>3. ASSUME NEW t \in Int
      PROVE  At(total, c + 1, t) = At(total, c, t)
  BY <1>1 DEF At, Lesser
<1> QED
  BY <1>2, <1>3

LEMMA WithinIs ==
  ASSUME NEW total, NEW from, NEW to
  PROVE  Within(total, from, to) = At(total, clock, to) - At(total, clock, from - 1)
BY DEF Within, Through, At

LEMMA WithinNext ==
  ASSUME NEW total, NEW from, NEW to
  PROVE  Within(total, from, to)' = At(total', clock', to') - At(total', clock', from' - 1)
BY DEF Within, Through, At

TotalsInv ==
  /\ Running(records, clock)
  /\ \A s \in Stores : Running(passed[s], clock)
  /\ attempts = passed["login"]

LEMMA TotalsInit == AdmissionInit => TotalsInv
BY NothingRuns DEF AdmissionInit, TotalsInv, Stores

LEMMA CountedTotals ==
  ASSUME AdmissionTypeOK, TotalsInv, NEW shared \in BOOLEAN, CountRequest(shared)
  PROVE  /\ \A s \in Stores : Running(passed'[s], clock)
         /\ passed'["login"] = passed["login"]
<1>1. passed' \in {passed, Pass("redis"), Pass("local")}
  BY DEF CountRequest
<1>2. passed \in [Stores -> Total]
  BY DEF AdmissionTypeOK, Stores
<1> QED
  BY <1>1, <1>2, CountedRuns DEF Pass, TotalsInv, Stores

LEMMA TotalsStep ==
  AdmissionTypeOK /\ TotalsInv /\ [AdmissionNext]_admissionVars => TotalsInv'
<1> SUFFICES ASSUME AdmissionTypeOK, TotalsInv, [AdmissionNext]_admissionVars
             PROVE  TotalsInv'
  OBVIOUS
<1>t. /\ Running(records', clock') /\ \A s \in Stores : Running(passed'[s], clock')
      /\ attempts' = passed'["login"]
      => TotalsInv'
  BY DEF TotalsInv, Running, Total, Stores
<1>0. /\ Running(records, clock) /\ \A s \in Stores : Running(passed[s], clock)
      /\ attempts = passed["login"] /\ key \in Limits
      /\ passed \in [Stores -> Total]
  BY DEF TotalsInv, AdmissionTypeOK, Stores
<1>u. UNCHANGED <<records, passed, attempts, clock>> => TotalsInv'
  BY <1>0, <1>t
<1>1. ASSUME NEW r \in Req, Arrive(r) \/ CheckBudget(r) \/ Answer(r) \/ Fail(r) \/ TryLogin(r)
      PROVE  TotalsInv'
  BY <1>1, <1>u DEF Arrive, CheckBudget, Answer, Fail, TryLogin, limiterVars
<1>2. ASSUME NEW r \in Req, NEW shared \in BOOLEAN, NEW held, ApplyRateLimit(r, shared, held)
      PROVE  TotalsInv'
  BY <1>0, <1>2, <1>t, CountedTotals DEF ApplyRateLimit
<1>3. ASSUME NEW r \in Req, Admit(r)
      PROVE  TotalsInv'
  <2>1. (UseRedis /\ healthy) \in BOOLEAN /\ FALSE \in BOOLEAN
    OBVIOUS
  <2> QED
    BY <1>2, <1>3, <2>1 DEF Admit
<1>4. ASSUME NEW r \in Req, NEW t \in Amount(key.tpm), EndBody(r, t)
      PROVE  TotalsInv'
  <2>1. t \in Nat
    BY <1>0, LimitTypes, AmountType
  <2>2. records' \in {records, Counted(records, t)} /\ UNCHANGED <<passed, attempts, clock>>
    BY <1>4 DEF EndBody, RecordTokens
  <2> QED
    BY <1>0, <1>t, <2>1, <2>2, CountedRuns
<1>5. ASSUME NEW r \in Req, NEW cost, Charge(r, cost)
      PROVE  TotalsInv'
  BY <1>5, <1>u DEF Charge, limiterVars
<1>6. CASE NewMonth \/ UNCHANGED admissionVars
  BY <1>6, <1>u DEF NewMonth, limiterVars, admissionVars
<1>7. ASSUME NEW r \in Req, NEW failed \in BOOLEAN, LoginAnswered(r, failed)
      PROVE  TotalsInv'
  <2>1. CASE failed
    <3>1. /\ attempts' = Counted(attempts, 1) /\ passed' = Pass("login")
          /\ UNCHANGED <<records, clock>>
      BY <1>7, <2>1 DEF LoginAnswered, Remember
    <3> QED
      BY <1>0, <1>t, <3>1, CountedRuns DEF Pass, Stores
  <2>2. CASE ~failed
    BY <1>7, <1>u, <2>2 DEF LoginAnswered
  <2> QED
    BY <2>1, <2>2
<1>8. CASE Tick
  BY <1>0, <1>8, <1>t, LaterRuns DEF Tick, limiterVars
<1> QED
  BY <1>1, <1>3, <1>4, <1>5, <1>6, <1>7, <1>8 DEF AdmissionNext

-----------------------------------------------------------------------------
(* Requests per minute, decided by the worker's own bucket.                *)

\* What the bucket would hold if it were asked now.
Potential ==
  IF bucket = NoBucket THEN key.rpm * M
  ELSE Lesser(key.rpm * M, bucket.level + (clock - bucket.at) * key.rpm)

\* What has passed since a tick is paid for by a full bucket and by what has
\* been refilled, and the bucket holds no more than the rest.
LocalInv ==
  /\ bucket = NoBucket \/ bucket \in [level : 0..(key.rpm * M), at : 0..clock]
  /\ \A t, e \in 0..clock : t <= e =>
       M * Within(passed["local"], t, e) <= key.rpm * M + (e - t) * key.rpm
  /\ \A t \in 0..clock :
       M * Within(passed["local"], t, clock) + Potential <= key.rpm * M + (clock - t) * key.rpm

(* Requests per minute, decided by Redis.                                  *)

\* No minute sees more than the limit, nor the current one more than counted.
RedisInv ==
  /\ redis.minute <= Minute
  /\ \A t, e \in 0..clock : t <= e /\ t \div M = e \div M => Within(passed["redis"], t, e) <= key.rpm
  /\ UseRedis /\ healthy =>
       \A t \in 0..clock : t \div M = Minute => Within(passed["redis"], t, clock) <= Counters.requests

(* Tokens.                                                                 *)
Holding == {"admitted", "asking", "body"}
TokensInv ==
  /\ UseRedis /\ healthy => records = Nothing
  /\ redis.minute <= Minute
  /\ key.slots > 0 =>
       /\ slots <= key.slots
       /\ Cardinality(In(Holding)) <= slots + IF healthy THEN 0 ELSE key.slots
  /\ TokensBounded

LEMMA LimitNats ==
  ASSUME AdmissionTypeOK
  PROVE  /\ key.rpm \in Nat /\ key.tpm \in Nat /\ key.slots \in Nat
         /\ M \in Nat /\ M > 0 /\ clock \in Nat /\ MaxClock \in Nat /\ MaxTokens \in Nat /\ MaxAttempts \in Nat
         /\ LoginWindow \in Nat /\ LoginWindow > 0 /\ peak \in Nat /\ slots \in Nat
BY AdmissionAssumption, LimitTypes DEF AdmissionTypeOK

\* What passed within a window is a number, more in a wider one.
LEMMA WithinFacts ==
  ASSUME NEW total, NEW c, Running(total, c)
  PROVE  \A t, u, e \in Int : t <= u /\ u <= e + 1 =>
           /\ At(total, c, e) - At(total, c, u - 1) \in Nat
           /\ At(total, c, e) - At(total, c, u - 1) <= At(total, c, e) - At(total, c, t - 1)
BY AtFacts

\* A bucket that was dropped had been full for a while: asked now, any bucket
\* holds its potential.
LEMMA RefilledIsPotential ==
  ASSUME AdmissionTypeOK, LocalInv
  PROVE  Refilled = Potential /\ Potential \in 0..(key.rpm * M)
<1>1. /\ key.rpm \in Nat /\ M \in Nat /\ M > 0 /\ clock \in Nat /\ key.rpm * M \in Nat
      /\ BucketTTL \in Nat /\ BucketTTL >= M
  BY AdmissionAssumption, LimitNats
<1>2. CASE bucket = NoBucket
  <2>1. Kept = Full /\ (clock - clock) * key.rpm = 0
    BY <1>1, <1>2 DEF Kept
  <2> QED
    BY <1>1, <1>2, <2>1 DEF Refilled, Potential, Full, Lesser
<1>3. CASE bucket # NoBucket
  <2>1. bucket.level \in Nat /\ bucket.at \in Nat /\ bucket.at <= clock
    BY <1>1, <1>3 DEF LocalInv
  <2>2. (clock - bucket.at) * key.rpm \in Nat
    BY <1>1, <2>1
  <2>3. Potential \in 0..(key.rpm * M)
    BY <1>1, <1>3, <2>1, <2>2 DEF Potential, Lesser
  <2>4. CASE Stale
    <3>1. clock - bucket.at >= M
      BY <1>1, <2>1, <2>4 DEF Stale
    <3>2. (clock - bucket.at) * key.rpm >= key.rpm * M
      BY <1>1, <2>1, <3>1
    <3>3. Potential = key.rpm * M
      BY <1>1, <1>3, <2>1, <2>2, <3>2 DEF Potential, Lesser
    <3>4. Kept = Full /\ (clock - clock) * key.rpm = 0
      BY <1>1, <2>4 DEF Kept
    <3> QED
      BY <1>1, <3>3, <3>4 DEF Refilled, Full, Lesser
  <2>5. CASE ~Stale
    BY <1>3, <2>3, <2>5 DEF Kept, Refilled, Potential
  <2> QED
    BY <2>4, <2>5
<1> QED
  BY <1>2, <1>3

\* What a step may do to the bucket.
LocalMove ==
  \/ UNCHANGED <<clock, bucket>> /\ passed'["local"] = passed["local"]
  \/ /\ UNCHANGED clock /\ bucket' = LocalRequest.bucket
     /\ passed'["local"] = IF LocalRequest.ok THEN Counted(passed["local"], 1) ELSE passed["local"]
  \/ clock < MaxClock /\ clock' = clock + 1 /\ UNCHANGED <<bucket, passed>>

LEMMA KeyStays == [AdmissionNext]_admissionVars => key' = key
BY DEF AdmissionNext, admissionVars, Arrive, Admit, ApplyRateLimit, CheckBudget, Answer, Fail, EndBody,
       Charge, NewMonth, TryLogin, LoginAnswered, Tick

LEMMA LocalMoves ==
  ASSUME AdmissionTypeOK, [AdmissionNext]_admissionVars
  PROVE  LocalMove
<1>0. passed \in [Stores -> Total]
  BY DEF AdmissionTypeOK, Stores
<1>1. ASSUME NEW r \in Req, NEW shared \in BOOLEAN, NEW held, ApplyRateLimit(r, shared, held)
      PROVE  LocalMove
  <2>1. CountRequest(shared) /\ UNCHANGED <<key, clock>>
    BY <1>1 DEF ApplyRateLimit
  <2>2. CASE key.rpm = 0 \/ shared
    BY <1>0, <2>1, <2>2 DEF CountRequest, LocalMove, Pass, Stores
  <2>3. CASE key.rpm # 0 /\ ~shared
    BY <1>0, <2>1, <2>3 DEF CountRequest, RequestOk, LocalMove, Pass, Stores
  <2> QED
    BY <2>2, <2>3
<1>2. ASSUME NEW r \in Req, Admit(r)
      PROVE  LocalMove
  <2>1. (UseRedis /\ healthy) \in BOOLEAN /\ FALSE \in BOOLEAN
    OBVIOUS
  <2> QED
    BY <1>1, <1>2, <2>1 DEF Admit
<1>3. ASSUME NEW r \in Req, NEW failed, LoginAnswered(r, failed)
      PROVE  LocalMove
  BY <1>0, <1>3 DEF LoginAnswered, LocalMove, Pass, Stores
<1>4. CASE Tick
  BY <1>4 DEF Tick, limiterVars, LocalMove
<1>5. ASSUME NEW r \in Req, \/ Arrive(r) \/ CheckBudget(r) \/ Answer(r) \/ Fail(r) \/ TryLogin(r)
                            \/ (\E t \in Amount(key.tpm) : EndBody(r, t))
                            \/ (\E cost \in Amount(key.budget) : Charge(r, cost))
      PROVE  LocalMove
  BY <1>5 DEF Arrive, CheckBudget, Answer, Fail, TryLogin, EndBody, Charge, limiterVars, LocalMove
<1>6. CASE NewMonth \/ UNCHANGED admissionVars
  BY <1>6 DEF NewMonth, admissionVars, limiterVars, LocalMove
<1> QED
  BY <1>2, <1>3, <1>4, <1>5, <1>6 DEF AdmissionNext

\* A product grows with its factor.
LEMMA Products ==
  ASSUME NEW a \in Nat, NEW b \in Int, NEW c \in Int
  PROVE  /\ a * b \in Int /\ b * a \in Int
         /\ a * (b + 1) = a * b + a /\ (b + 1) * a = b * a + a
         /\ b <= c => a * b <= a * c /\ b * a <= c * a
         /\ b >= 0 => a * b \in Nat /\ b * a \in Nat
OBVIOUS

LEMMA IntProducts ==
  \A a, b \in Int : a * b \in Int
OBVIOUS

LEMMA LocalStep ==
  AdmissionTypeOK /\ TotalsInv /\ LocalInv /\ [AdmissionNext]_admissionVars => LocalInv'
<1> SUFFICES ASSUME AdmissionTypeOK, TotalsInv, LocalInv, [AdmissionNext]_admissionVars
             PROVE  LocalInv'
  OBVIOUS
<1> DEFINE N(t, e) == At(passed["local"], clock, e) - At(passed["local"], clock, t - 1)
           L(t, e) == At(passed'["local"], clock', e) - At(passed'["local"], clock', t - 1)
           Size == key.rpm * M
           P == Potential'
<1>0. /\ key.rpm \in Nat /\ M \in Nat /\ M > 0 /\ clock \in Nat /\ Size \in Nat /\ key' = key
      /\ Running(passed["local"], clock)
  BY LimitNats, KeyStays DEF TotalsInv, Stores
<1>1. /\ bucket = NoBucket \/ bucket \in [level : 0..Size, at : 0..clock]
      /\ \A t, e \in 0..clock : t <= e => M * N(t, e) <= Size + (e - t) * key.rpm
      /\ \A t \in 0..clock : M * N(t, clock) + Potential <= Size + (clock - t) * key.rpm
  BY WithinIs DEF LocalInv
<1>2. \A t, e \in Int : N(t, e) \in Int
  BY <1>0, AtFacts
<1>3. Refilled = Potential /\ Potential \in 0..Size
  BY RefilledIsPotential
<1>t. /\ bucket' = NoBucket \/ bucket' \in [level : 0..Size, at : 0..clock']
      /\ \A t, e \in 0..clock' : t <= e => M * L(t, e) <= Size + (e - t) * key.rpm
      /\ \A t \in 0..clock' : M * L(t, clock') + P <= Size + (clock' - t) * key.rpm
      => LocalInv'
  BY <1>0, WithinNext DEF LocalInv, NoBucket
<1>p. P = IF bucket' = NoBucket THEN Size ELSE Lesser(Size, bucket'.level + (clock' - bucket'.at) * key.rpm)
  BY <1>0 DEF Potential, NoBucket, Lesser
<1> HIDE DEF N, L, P, Size
<1>4. CASE UNCHANGED <<clock, bucket>> /\ passed'["local"] = passed["local"]
  <2>1. P = Potential /\ \A t, e : L(t, e) = N(t, e)
    BY <1>p, <1>4 DEF L, N, Potential, Size
  <2> QED
    BY <1>1, <1>4, <1>t, <2>1
<1>5. CASE /\ UNCHANGED clock /\ bucket' = LocalRequest.bucket
           /\ passed'["local"] = IF LocalRequest.ok THEN Counted(passed["local"], 1) ELSE passed["local"]
  <2>1. bucket' \in [level : 0..Size, at : 0..clock] /\ bucket'.at = clock /\ bucket' # NoBucket
    BY <1>0, <1>3, <1>5 DEF LocalRequest, NoBucket
  <2>2. (clock - clock) * key.rpm = 0
    BY <1>0
  <2>3. P = bucket'.level
    BY <1>0, <1>p, <1>5, <2>1, <2>2 DEF Lesser
  <2>4. ASSUME NEW t \in 0..clock, NEW e \in 0..clock, t <= e
        PROVE  L(t, e) = N(t, e) + IF LocalRequest.ok /\ e = clock THEN 1 ELSE 0
    <3>0. t \in Int /\ t - 1 \in Int /\ e \in Int /\ t - 1 < clock /\ e <= clock
      BY <1>0
    <3>1. CASE LocalRequest.ok
      <4>1. passed'["local"] = Counted(passed["local"], 1)
        BY <1>5, <3>1
      <4>2. /\ At(passed'["local"], clock, t - 1) = At(passed["local"], clock, t - 1)
            /\ At(passed'["local"], clock, e) = IF e < clock THEN At(passed["local"], clock, e)
                                                            ELSE At(passed["local"], clock, e) + 1
        BY <1>0, <3>0, <4>1, CountedRuns
      <4>3. At(passed["local"], clock, e) \in Nat /\ At(passed["local"], clock, t - 1) \in Nat
        BY <1>0, <3>0, AtFacts
      <4>4. L(t, e) = At(passed'["local"], clock, e) - At(passed'["local"], clock, t - 1)
        BY <1>5 DEF L
      <4>5. N(t, e) = At(passed["local"], clock, e) - At(passed["local"], clock, t - 1)
        BY DEF N
      <4>6. CASE e = clock
        <5>1. At(passed'["local"], clock, e) = At(passed["local"], clock, e) + 1
          BY <1>0, <4>2, <4>6
        <5>2. L(t, e) = N(t, e) + 1
          BY <4>2, <4>3, <4>4, <4>5, <5>1
        <5> QED
          BY <3>1, <4>6, <5>2
      <4>7. CASE e # clock
        <5>1. At(passed'["local"], clock, e) = At(passed["local"], clock, e)
          BY <1>0, <3>0, <4>2, <4>7
        <5>2. L(t, e) = N(t, e) /\ N(t, e) \in Int
          BY <4>2, <4>3, <4>4, <4>5, <5>1
        <5> QED
          BY <4>7, <5>2
      <4> QED
        BY <4>6, <4>7
    <3>2. CASE ~LocalRequest.ok
      <4>1. L(t, e) = N(t, e) /\ N(t, e) \in Int
        BY <1>2, <1>5, <3>0, <3>2 DEF L, N
      <4> QED
        BY <3>2, <4>1
    <3> QED
      BY <3>1, <3>2
  <2>5. ASSUME NEW t \in 0..clock
        PROVE  M * L(t, clock) + P <= Size + (clock - t) * key.rpm
    <3>1. CASE LocalRequest.ok
      <4>1. P = Potential - M
        BY <1>0, <1>3, <1>5, <2>3, <3>1 DEF LocalRequest
      <4>2. M * L(t, clock) = M * N(t, clock) + M
        <5>1. L(t, clock) = N(t, clock) + 1
          BY <1>0, <2>4, <3>1
        <5> QED
          BY <1>0, <1>2, <5>1, Products
      <4>3. M * N(t, clock) \in Int /\ Potential \in Int /\ (clock - t) * key.rpm \in Int
        <5>0. t \in Int /\ clock \in Int /\ clock - t \in Int /\ M \in Int /\ key.rpm \in Int /\ Size \in Int
          BY <1>0
        <5>1. N(t, clock) \in Int
          BY <1>2, <5>0
        <5> QED
          BY <1>3, <5>0, <5>1, IntProducts
      <4> QED
        BY <1>0, <1>1, <4>1, <4>2, <4>3
    <3>2. CASE ~LocalRequest.ok
      <4>1. P = Potential
        BY <1>0, <1>3, <1>5, <2>3, <3>2 DEF LocalRequest
      <4>2. L(t, clock) = N(t, clock)
        BY <1>0, <1>2, <2>4, <3>2
      <4> QED
        BY <1>1, <4>1, <4>2
    <3> QED
      BY <3>1, <3>2
  <2>6. ASSUME NEW t \in 0..clock, NEW e \in 0..clock, t <= e
        PROVE  M * L(t, e) <= Size + (e - t) * key.rpm
    <3>1. CASE e = clock
      <4>1. L(t, clock) \in Int
        <5>1. N(t, clock) \in Int /\ clock \in 0..clock /\ t <= clock
          BY <1>0, <1>2
        <5>2. (IF LocalRequest.ok /\ clock = clock THEN 1 ELSE 0) \in Int
          OBVIOUS
        <5> QED
          BY <2>4, <5>1, <5>2
      <4>2. P \in Nat /\ M * L(t, clock) \in Int /\ (clock - t) * key.rpm \in Int
        BY <1>0, <2>1, <2>3, <4>1, Products
      <4> QED
        BY <1>0, <2>5, <3>1, <4>2
    <3>2. CASE e # clock
      <4>1. L(t, e) = N(t, e)
        BY <1>2, <2>4, <2>6, <3>2
      <4> QED
        BY <1>1, <2>6, <4>1
    <3> QED
      BY <3>1, <3>2
  <2> QED
    BY <1>5, <1>t, <2>1, <2>5, <2>6
<1>6. CASE clock < MaxClock /\ clock' = clock + 1 /\ UNCHANGED <<bucket, passed>>
  <2>1. \A t, e \in Int : L(t, e) = N(t, e)
    BY <1>0, <1>6, LaterRuns DEF L, N
  <2>2. \A t \in Int : N(t, clock + 1) = N(t, clock)
    BY <1>0, AtFacts DEF N
  <2>3. N(clock + 1, clock + 1) = 0
    BY <1>0, AtFacts DEF N
  <2>4. P <= Size /\ P <= Potential + key.rpm /\ P \in Nat
    <3>1. CASE bucket = NoBucket
      BY <1>0, <1>6, <1>p, <3>1 DEF Potential, Size
    <3>2. CASE bucket # NoBucket
      <4>1. bucket.level \in Nat /\ bucket.at \in Nat /\ bucket.at <= clock
        BY <1>0, <1>1, <3>2
      <4>2. (clock' - bucket.at) * key.rpm = (clock - bucket.at) * key.rpm + key.rpm
        <5>1. clock' - bucket.at = (clock - bucket.at) + 1 /\ clock - bucket.at \in Int
          BY <1>0, <1>6, <4>1
        <5> QED
          BY <1>0, <5>1, Products
      <4>3. (clock - bucket.at) * key.rpm \in Nat
        BY <1>0, <4>1, Products
      <4> QED
        BY <1>0, <1>6, <1>p, <3>2, <4>1, <4>2, <4>3 DEF Potential, Lesser, Size
    <3> QED
      BY <3>1, <3>2
  <2>5. ASSUME NEW t \in 0..clock'
        PROVE  M * L(t, clock') + P <= Size + (clock' - t) * key.rpm
    <3>1. CASE t = clock'
      <4>1. L(t, clock') = 0 /\ M * 0 = 0 /\ (clock' - t) * key.rpm = 0
        BY <1>0, <1>6, <2>1, <2>3, <3>1
      <4> QED
        BY <1>0, <2>4, <4>1
    <3>2. CASE t # clock'
      <4>1. t \in 0..clock /\ L(t, clock') = N(t, clock)
        BY <1>0, <1>6, <2>1, <2>2, <3>2
      <4>2. (clock' - t) * key.rpm = (clock - t) * key.rpm + key.rpm
        <5>1. clock' - t = (clock - t) + 1 /\ clock - t \in Int
          BY <1>0, <1>6, <4>1
        <5> QED
          BY <1>0, <5>1, Products
      <4>3. M * N(t, clock) \in Int /\ (clock - t) * key.rpm \in Int /\ Potential \in Int
        <5>0. t \in Int /\ clock \in Int /\ clock - t \in Int /\ M \in Int /\ key.rpm \in Int /\ Size \in Int
          BY <1>0, <4>1
        <5>1. N(t, clock) \in Int
          BY <1>2, <5>0
        <5> QED
          BY <1>3, <5>0, <5>1, IntProducts
      <4>4. M * N(t, clock) + Potential <= Size + (clock - t) * key.rpm
        BY <1>1, <4>1
      <4> QED
        BY <1>0, <2>4, <4>1, <4>2, <4>3, <4>4
    <3> QED
      BY <3>1, <3>2
  <2>6. ASSUME NEW t \in 0..clock', NEW e \in 0..clock', t <= e
        PROVE  M * L(t, e) <= Size + (e - t) * key.rpm
    <3>1. CASE e = clock'
      <4>1. M * L(t, e) \in Int /\ (e - t) * key.rpm \in Int
        <5>1. t \in Int /\ e \in Int /\ e - t \in Int /\ M \in Int /\ key.rpm \in Int
          BY <1>0, <1>6
        <5>2. L(t, e) \in Int
          BY <1>2, <2>1, <5>1
        <5> QED
          BY <5>1, <5>2, IntProducts
      <4>2. M * L(t, e) + P <= Size + (e - t) * key.rpm
        BY <2>5, <3>1
      <4> QED
        BY <1>0, <2>4, <4>1, <4>2
    <3>2. CASE e # clock'
      <4>1. t \in 0..clock /\ e \in 0..clock /\ L(t, e) = N(t, e)
        BY <1>0, <1>6, <2>1, <2>6, <3>2
      <4> QED
        BY <1>1, <2>6, <4>1
    <3> QED
      BY <3>1, <3>2
  <2>7. bucket' = NoBucket \/ bucket' \in [level : 0..Size, at : 0..clock']
    BY <1>0, <1>1, <1>6
  <2> QED
    BY <1>t, <2>5, <2>6, <2>7
<1> QED
  BY <1>4, <1>5, <1>6, LocalMoves DEF LocalMove

-----------------------------------------------------------------------------
(* Minutes.                                                                *)

LEMMA MinuteOf ==
  ASSUME NEW t \in Nat
  PROVE  t \div M \in Nat /\ M * (t \div M) <= t /\ t < M * (t \div M) + M
BY AdmissionAssumption

LEMMA MinuteGrows ==
  ASSUME NEW t \in Nat, NEW u \in Nat, t <= u
  PROVE  t \div M <= u \div M
<1>1. /\ t \div M \in Nat /\ M * (t \div M) <= t /\ t < M * (t \div M) + M
      /\ u \div M \in Nat /\ M * (u \div M) <= u /\ u < M * (u \div M) + M
  BY MinuteOf
<1> QED
  BY <1>1, AdmissionAssumption

\* A minute that starts at any tick lies in one minute of the clock or in two.
LEMMA TwoMinutes ==
  ASSUME NEW t \in Nat, NEW e \in Nat, t <= e, e < t + M
  PROVE  \/ t \div M = e \div M
         \/ \E u \in Nat : t < u /\ u <= e /\ t \div M = (u - 1) \div M /\ u \div M = e \div M
<1>0. M \in Nat /\ M > 0
  BY AdmissionAssumption
<1> DEFINE a == t \div M
           b == e \div M
           u == M * b
<1>1. /\ a \in Nat /\ M * a <= t /\ t < M * a + M
      /\ b \in Nat /\ M * b <= e /\ e < M * b + M
  BY MinuteOf
<1>2. a <= b
  BY MinuteGrows
<1>3. CASE a # b
  <2>1. M * (a + 1) = M * a + M /\ M * a \in Nat /\ M * b \in Nat
    BY <1>0, <1>1
  <2>2. b = a + 1
    <3>1. ASSUME b >= a + 2
          PROVE  FALSE
      <4>1. M * b >= M * (a + 2) /\ M * (a + 2) = M * a + M + M
        BY <1>0, <1>1, <3>1
      <4> QED
        BY <1>0, <1>1, <2>1, <4>1
    <3> QED
      BY <1>1, <1>2, <1>3, <3>1
  <2>3. u = M * a + M /\ u \in Nat /\ t < u /\ u <= e
    BY <1>1, <2>1, <2>2
  <2>4. u - 1 \in Nat /\ t <= u - 1 /\ u - 1 < M * a + M
    BY <1>0, <1>1, <2>1, <2>3
  <2> HIDE DEF u
  <2>5. a = (u - 1) \div M
    <3>1. (u - 1) \div M \in Nat /\ M * ((u - 1) \div M) <= u - 1
      BY <2>4, MinuteOf
    <3>2. a <= (u - 1) \div M
      BY <2>4, MinuteGrows
    <3>3. ASSUME (u - 1) \div M >= a + 1
          PROVE  FALSE
      <4>1. M * ((u - 1) \div M) >= M * (a + 1)
        BY <1>0, <1>1, <3>1, <3>3
      <4> QED
        BY <1>0, <1>1, <2>1, <2>4, <3>1, <4>1
    <3> QED
      BY <1>1, <3>1, <3>2, <3>3
  <2>6. u \div M = b
    <3>1. u \div M \in Nat /\ M * (u \div M) <= u /\ u < M * (u \div M) + M
      BY <2>3, MinuteOf
    <3>2. u \div M <= b
      BY <2>3, MinuteGrows
    <3>3. ASSUME u \div M <= a
          PROVE  FALSE
      <4>1. M * (u \div M) <= M * a
        BY <1>0, <1>1, <3>1, <3>3
      <4> QED
        BY <1>0, <1>1, <2>1, <2>3, <3>1, <4>1
    <3> QED
      BY <1>1, <2>2, <3>1, <3>2, <3>3
  <2> QED
    BY <2>3, <2>5, <2>6
<1> QED
  BY <1>3

\* What a step may do to the counters of Redis.
RedisMove ==
  \/ /\ UNCHANGED clock /\ passed'["redis"] = passed["redis"]
     /\ redis' = redis \/ \E t \in Nat : redis' = [Counters EXCEPT !.tokens = @ + t]
     /\ UseRedis /\ healthy' => healthy
  \/ /\ UNCHANGED clock /\ UseRedis /\ healthy
     /\ redis' = [Counters EXCEPT !.requests = @ + 1]
     /\ passed'["redis"] = IF Counters.requests + 1 <= key.rpm THEN Counted(passed["redis"], 1)
                                                                ELSE passed["redis"]
  \/ clock < MaxClock /\ clock' = clock + 1 /\ UNCHANGED <<redis, healthy, passed>>

LEMMA RedisMoves ==
  ASSUME AdmissionTypeOK, [AdmissionNext]_admissionVars
  PROVE  RedisMove
<1>0. passed \in [Stores -> Total] /\ key \in Limits
  BY DEF AdmissionTypeOK, Stores
<1>1. ASSUME NEW r \in Req, NEW held, NEW shared \in BOOLEAN, ApplyRateLimit(r, shared, held),
             shared => UseRedis /\ healthy, healthy' => healthy
      PROVE  RedisMove
  <2>1. CountRequest(shared) /\ UNCHANGED <<key, clock>>
    BY <1>1 DEF ApplyRateLimit
  <2>2. CASE key.rpm = 0 \/ ~shared
    <3>1. passed'["redis"] = passed["redis"] /\ redis' = redis
      BY <1>0, <2>1, <2>2 DEF CountRequest, Pass, Stores
    <3> QED
      BY <1>1, <2>1, <3>1 DEF RedisMove
  <2>3. CASE key.rpm # 0 /\ shared
    <3>1. /\ redis' = [Counters EXCEPT !.requests = @ + 1]
          /\ passed' = IF Counters.requests + 1 <= key.rpm THEN Pass("redis") ELSE passed
      BY <2>1, <2>3 DEF CountRequest, RequestOk
    <3> QED
      BY <1>0, <1>1, <2>1, <2>3, <3>1 DEF RedisMove, Pass, Stores
  <2> QED
    BY <2>2, <2>3
<1>2. ASSUME NEW r \in Req, Admit(r)
      PROVE  RedisMove
  <2>1. CASE ApplyRateLimit(r, UseRedis /\ healthy, slots) /\ UNCHANGED <<healthy, faults>>
    <3>1. (UseRedis /\ healthy) \in BOOLEAN
      OBVIOUS
    <3> QED
      BY <1>1, <2>1, <3>1
  <2>2. CASE healthy' = FALSE /\ ApplyRateLimit(r, FALSE, 0)
    <3>1. FALSE \in BOOLEAN /\ ~healthy'
      BY <2>2, Zenon
    <3> QED
      BY <1>1, <2>2, <3>1
  <2> QED
    BY <1>2, <2>1, <2>2 DEF Admit
<1>3. ASSUME NEW r \in Req, NEW failed, LoginAnswered(r, failed)
      PROVE  RedisMove
  BY <1>0, <1>3 DEF LoginAnswered, RedisMove, Pass, Stores
<1>4. CASE Tick
  BY <1>4 DEF Tick, limiterVars, RedisMove
<1>5. ASSUME NEW r \in Req, NEW t \in Amount(key.tpm), EndBody(r, t)
      PROVE  RedisMove
  <2>1. t \in Nat
    BY <1>0, LimitTypes, AmountType
  <2>2. redis' = redis \/ redis' = [Counters EXCEPT !.tokens = @ + t]
    BY <1>5 DEF EndBody, RecordTokens
  <2> QED
    BY <1>5, <2>1, <2>2 DEF EndBody, RedisMove
<1>6. ASSUME NEW r \in Req, \/ Arrive(r) \/ CheckBudget(r) \/ Answer(r) \/ Fail(r) \/ TryLogin(r)
                            \/ (\E cost \in Amount(key.budget) : Charge(r, cost))
      PROVE  RedisMove
  BY <1>6 DEF Arrive, CheckBudget, Answer, Fail, TryLogin, Charge, limiterVars, RedisMove
<1>7. CASE NewMonth \/ UNCHANGED admissionVars
  BY <1>7 DEF NewMonth, admissionVars, limiterVars, RedisMove
<1> QED
  BY <1>2, <1>3, <1>4, <1>5, <1>6, <1>7 DEF AdmissionNext

\* The counters read are those of this minute, and counting writes them back.
LEMMA CountersFacts ==
  ASSUME AdmissionTypeOK
  PROVE  /\ Counters \in [minute : Nat, requests : Nat, tokens : Nat] /\ Counters.minute = Minute
         /\ Minute \in Nat
         /\ UNCHANGED clock => Minute' = Minute
         /\ UNCHANGED <<clock, redis>> => Counters' = Counters
         /\ UNCHANGED clock /\ redis'.minute = Minute => Counters' = redis'
<1>1. Minute \in Nat /\ (UNCHANGED clock => Minute' = Minute)
  BY LimitNats, MinuteOf DEF Minute
<1>2. Counters \in [minute : Nat, requests : Nat, tokens : Nat]
  BY CountersType
<1>3. Counters.minute = Minute
  BY DEF Counters
<1> QED
  BY <1>1, <1>2, <1>3 DEF Counters

LEMMA RedisStep ==
  AdmissionTypeOK /\ TotalsInv /\ RedisInv /\ [AdmissionNext]_admissionVars => RedisInv'
<1> SUFFICES ASSUME AdmissionTypeOK, TotalsInv, RedisInv, [AdmissionNext]_admissionVars
             PROVE  RedisInv'
  OBVIOUS
<1> DEFINE N(t, e) == At(passed["redis"], clock, e) - At(passed["redis"], clock, t - 1)
           L(t, e) == At(passed'["redis"], clock', e) - At(passed'["redis"], clock', t - 1)
<1>0. /\ key.rpm \in Nat /\ M \in Nat /\ M > 0 /\ clock \in Nat /\ key' = key
      /\ Running(passed["redis"], clock) /\ redis \in [minute : Nat, requests : Nat, tokens : Nat]
  BY LimitNats, KeyStays DEF TotalsInv, Stores, AdmissionTypeOK
<1>1. /\ redis.minute <= Minute
      /\ \A t, e \in 0..clock : t <= e /\ t \div M = e \div M => N(t, e) <= key.rpm
      /\ UseRedis /\ healthy => \A t \in 0..clock : t \div M = clock \div M => N(t, clock) <= Counters.requests
  BY WithinIs DEF RedisInv, Minute
<1>2. \A t, e \in Int : N(t, e) \in Int
  BY <1>0, AtFacts
<1>t. /\ redis'.minute <= Minute'
      /\ \A t, e \in 0..clock' : t <= e /\ t \div M = e \div M => L(t, e) <= key.rpm
      /\ UseRedis /\ healthy' =>
           \A t \in 0..clock' : t \div M = clock' \div M => L(t, clock') <= Counters'.requests
      => RedisInv'
  BY <1>0, WithinNext DEF RedisInv, Minute
<1>c. /\ Counters \in [minute : Nat, requests : Nat, tokens : Nat] /\ Counters.minute = Minute
      /\ Minute \in Nat
  BY CountersFacts
<1> HIDE DEF N, L
<1>4. CASE /\ UNCHANGED clock /\ passed'["redis"] = passed["redis"]
           /\ redis' = redis \/ \E t \in Nat : redis' = [Counters EXCEPT !.tokens = @ + t]
           /\ UseRedis /\ healthy' => healthy
  <2>1. \A t, e : L(t, e) = N(t, e)
    BY <1>4 DEF L, N
  <2>2. redis'.minute <= Minute' /\ Counters'.requests = Counters.requests
    <3>1. CASE redis' = redis
      BY <1>1, <1>4, <3>1, CountersFacts
    <3>2. ASSUME NEW t \in Nat, redis' = [Counters EXCEPT !.tokens = @ + t]
          PROVE  redis'.minute <= Minute' /\ Counters'.requests = Counters.requests
      <4>1. redis'.minute = Minute /\ redis'.requests = Counters.requests
        BY <1>c, <3>2
      <4>2. Minute' = Minute /\ Counters' = redis'
        BY <1>4, <4>1, CountersFacts
      <4> QED
        BY <1>c, <4>1, <4>2
    <3> QED
      BY <1>4, <3>1, <3>2
  <2> QED
    BY <1>1, <1>4, <1>t, <2>1, <2>2
<1>5. CASE /\ UNCHANGED clock /\ UseRedis /\ healthy
           /\ redis' = [Counters EXCEPT !.requests = @ + 1]
           /\ passed'["redis"] = IF Counters.requests + 1 <= key.rpm THEN Counted(passed["redis"], 1)
                                                                      ELSE passed["redis"]
  <2>1. redis'.minute = Minute /\ redis'.requests = Counters.requests + 1
    BY <1>c, <1>5
  <2>2. Minute' = Minute /\ Counters' = redis'
    BY <1>5, <2>1, CountersFacts
  <2>3. ASSUME NEW t \in 0..clock, NEW e \in 0..clock, t <= e
        PROVE  /\ e # clock \/ Counters.requests + 1 > key.rpm => L(t, e) = N(t, e)
               /\ e = clock /\ Counters.requests + 1 <= key.rpm => L(t, e) = N(t, e) + 1
    <3>0. t \in Int /\ t - 1 \in Int /\ e \in Int /\ t - 1 < clock /\ e <= clock
      BY <1>0
    <3>1. CASE Counters.requests + 1 <= key.rpm
      <4>1. /\ At(passed'["redis"], clock, t - 1) = At(passed["redis"], clock, t - 1)
            /\ At(passed'["redis"], clock, e) = IF e < clock THEN At(passed["redis"], clock, e)
                                                            ELSE At(passed["redis"], clock, e) + 1
        <5>1. passed'["redis"] = Counted(passed["redis"], 1)
          BY <1>5, <3>1
        <5> QED
          BY <1>0, <3>0, <5>1, CountedRuns
      <4>2. At(passed["redis"], clock, e) \in Nat /\ At(passed["redis"], clock, t - 1) \in Nat
        BY <1>0, <3>0, AtFacts
      <4>3. /\ L(t, e) = At(passed'["redis"], clock, e) - At(passed'["redis"], clock, t - 1)
            /\ N(t, e) = At(passed["redis"], clock, e) - At(passed["redis"], clock, t - 1)
        BY <1>5 DEF L, N
      <4>4. CASE e = clock
        <5>1. At(passed'["redis"], clock, e) = At(passed["redis"], clock, e) + 1
          BY <1>0, <4>1, <4>4
        <5>2. L(t, e) = N(t, e) + 1
          BY <4>1, <4>2, <4>3, <5>1
        <5> QED
          BY <1>0, <1>c, <3>1, <4>4, <5>2
      <4>5. CASE e # clock
        <5>1. At(passed'["redis"], clock, e) = At(passed["redis"], clock, e)
          BY <1>0, <3>0, <4>1, <4>5
        <5> QED
          BY <4>1, <4>3, <4>5, <5>1
      <4> QED
        BY <4>4, <4>5
    <3>2. CASE ~(Counters.requests + 1 <= key.rpm)
      BY <1>5, <3>2 DEF L, N
    <3> QED
      BY <3>1, <3>2
  <2>4. ASSUME NEW t \in 0..clock, t \div M = clock \div M
        PROVE  L(t, clock) <= Counters.requests + 1 /\ L(t, clock) <= key.rpm
    <3>1. N(t, clock) <= Counters.requests /\ N(t, clock) \in Int /\ N(t, clock) <= key.rpm
          /\ t <= clock /\ clock \in 0..clock
      BY <1>0, <1>1, <1>2, <1>5, <2>4
    <3>2. Counters.requests \in Nat
      BY <1>c
    <3> QED
      BY <1>0, <2>3, <3>1, <3>2
  <2>5. ASSUME NEW t \in 0..clock, NEW e \in 0..clock, t <= e, t \div M = e \div M
        PROVE  L(t, e) <= key.rpm
    <3>1. CASE e = clock
      BY <2>4, <2>5, <3>1
    <3>2. CASE e # clock
      BY <1>1, <2>3, <2>5, <3>2
    <3> QED
      BY <3>1, <3>2
  <2>6. redis'.minute <= Minute'
    BY <1>c, <2>1, <2>2
  <2> QED
    BY <1>5, <1>t, <2>1, <2>2, <2>4, <2>5, <2>6
<1>6. CASE clock < MaxClock /\ clock' = clock + 1 /\ UNCHANGED <<redis, healthy, passed>>
  <2>1. \A t, e \in Int : L(t, e) = N(t, e)
    <3>1. \A t \in Int : At(passed'["redis"], clock', t) = At(passed["redis"], clock, t)
      BY <1>0, <1>6, LaterRuns
    <3>2. \A t \in Int : t - 1 \in Int
      OBVIOUS
    <3> QED
      BY <3>1, <3>2 DEF L, N
  <2>2. (\A t \in Int : N(t, clock + 1) = N(t, clock)) /\ N(clock + 1, clock + 1) = 0
    BY <1>0, AtFacts DEF N
  <2>3. Minute <= Minute' /\ Minute' \in Nat
    <3>1. clock + 1 \in Nat
      BY <1>0
    <3> QED
      BY <1>0, <1>6, <3>1, MinuteGrows, MinuteOf DEF Minute
  \* A minute that began before now has still seen what it had.
  <2>4. ASSUME NEW t \in 0..clock, t \div M = clock' \div M
        PROVE  t \div M = clock \div M
    <3>1. /\ t \div M \in Nat /\ clock \div M \in Nat /\ clock' \div M \in Nat
          /\ t \div M <= clock \div M /\ clock \div M <= clock' \div M
      <4>1. t \in Nat /\ clock \in Nat /\ clock' \in Nat /\ t <= clock /\ clock <= clock'
        BY <1>0, <1>6
      <4> QED
        BY <4>1, MinuteGrows, MinuteOf
    <3> QED
      BY <2>4, <3>1
  <2>5. ASSUME NEW t \in 0..clock', NEW e \in 0..clock', t <= e, t \div M = e \div M
        PROVE  L(t, e) <= key.rpm
    <3>0. t \in Int /\ e \in Int /\ L(t, e) = N(t, e)
      BY <2>1
    <3>1. CASE e # clock'
      <4>1. t \in 0..clock /\ e \in 0..clock
        BY <1>0, <1>6, <2>5, <3>1
      <4> QED
        BY <1>1, <2>5, <3>0, <4>1
    <3>2. CASE e = clock' /\ t = clock'
      BY <1>0, <1>6, <2>2, <3>0, <3>2
    <3>3. CASE e = clock' /\ t # clock'
      <4>1. t \in 0..clock /\ t <= clock /\ clock \in 0..clock
        BY <1>0, <1>6, <3>3
      <4>2. t \div M = clock \div M
        BY <2>4, <2>5, <3>3, <4>1
      <4>3. N(t, clock) <= key.rpm
        BY <1>1, <4>1, <4>2
      <4> QED
        BY <1>6, <2>2, <3>0, <3>3, <4>3
    <3> QED
      BY <3>1, <3>2, <3>3
  <2>6. Counters'.requests \in Nat /\ (Minute' = Minute => Counters'.requests = Counters.requests)
    BY <1>0, <1>6 DEF Counters
  <2>7. ASSUME UseRedis /\ healthy', NEW t \in 0..clock', t \div M = clock' \div M
        PROVE  L(t, clock') <= Counters'.requests
    <3>0. t \in Int /\ clock' \in Int /\ L(t, clock') = N(t, clock')
      BY <1>0, <1>6, <2>1
    <3>1. CASE t = clock'
      BY <1>6, <2>2, <2>6, <3>0, <3>1
    <3>2. CASE t # clock'
      <4>1. t \in 0..clock
        BY <1>0, <1>6, <3>2
      <4>2. t \div M = clock \div M
        BY <2>4, <2>7, <4>1
      <4>3. Minute' = Minute
        BY <2>7, <4>2 DEF Minute
      <4>4. N(t, clock) <= Counters.requests
        BY <1>1, <1>6, <2>7, <4>1, <4>2
      <4> QED
        BY <1>6, <2>2, <2>6, <3>0, <4>3, <4>4
    <3> QED
      BY <3>1, <3>2
  <2>8. redis'.minute <= Minute'
    BY <1>0, <1>1, <1>6, <1>c, <2>3
  <2> QED
    BY <1>t, <2>5, <2>7, <2>8
<1> QED
  BY <1>4, <1>5, <1>6, RedisMoves DEF RedisMove

\* From what the stores keep: no minute sees more than twice the limit.
LEMMA RateFollows ==
  ASSUME AdmissionTypeOK, TotalsInv, LocalInv, RedisInv
  PROVE  RateBounded
<1> DEFINE N(s, t, e) == At(passed[s], clock, e) - At(passed[s], clock, t - 1)
<1>0. /\ key.rpm \in Nat /\ M \in Nat /\ M > 0 /\ clock \in Nat
      /\ Running(passed["redis"], clock) /\ Running(passed["local"], clock)
  BY LimitNats DEF TotalsInv, Stores
\* A window that lasts past now has seen what it has seen by now.
<1>1. ASSUME NEW s \in {"redis", "local"}, NEW t \in 0..clock
      PROVE  \E e \in 0..clock : t <= e /\ e < t + M /\ N(s, t, t + M - 1) = N(s, t, e) /\ N(s, t, e) \in Int
  <2>0. Running(passed[s], clock) /\ t \in Int /\ t + M - 1 \in Int /\ t <= clock
    BY <1>0
  <2>1. CASE t + M - 1 <= clock
    <3>1. t + M - 1 \in 0..clock /\ t <= t + M - 1 /\ t + M - 1 < t + M
      BY <1>0, <2>0, <2>1
    <3>2. N(s, t, t + M - 1) \in Int
      BY <2>0, AtFacts
    <3> QED
      BY <3>1, <3>2
  <2>2. CASE t + M - 1 > clock
    <3>1. clock \in 0..clock /\ clock < t + M
      BY <1>0, <2>0, <2>2
    <3>2. N(s, t, t + M - 1) = N(s, t, clock) /\ N(s, t, clock) \in Int
      <4>1. t - 1 \in Int /\ clock \in Int /\ t + M - 1 >= clock
        BY <1>0, <2>0, <2>2
      <4>2. /\ At(passed[s], clock, t + M - 1) = At(passed[s], clock, clock)
            /\ At(passed[s], clock, clock) \in Nat /\ At(passed[s], clock, t - 1) \in Nat
        BY <2>0, <4>1, AtFacts
      <4> QED
        BY <4>2
    <3> QED
      BY <2>0, <3>1, <3>2
  <2> QED
    BY <1>0, <2>0, <2>1, <2>2
<1>2. ASSUME NEW t \in 0..clock, NEW e \in 0..clock, t <= e, e < t + M, N("local", t, e) \in Int
      PROVE  N("local", t, e) <= 2 * key.rpm
  <2>1. M * N("local", t, e) <= key.rpm * M + (e - t) * key.rpm
    BY <1>2, WithinIs DEF LocalInv
  <2>2. (e - t) * key.rpm <= M * key.rpm
    <3>1. e - t \in Int /\ e - t <= M
      BY <1>0, <1>2
    <3> QED
      BY <1>0, <3>1, Products
  <2>3. M * (2 * key.rpm) = key.rpm * M + M * key.rpm
    BY <1>0
  <2>4. M * N("local", t, e) <= M * (2 * key.rpm)
    <3>1. e - t \in Int /\ M \in Int /\ key.rpm \in Int /\ 2 * key.rpm \in Int
      BY <1>0
    <3>2. /\ M * N("local", t, e) \in Int /\ (e - t) * key.rpm \in Int
          /\ M * key.rpm \in Int /\ key.rpm * M \in Int
      BY <1>2, <3>1, IntProducts
    <3> QED
      BY <2>1, <2>2, <2>3, <3>2
  <2> HIDE DEF N
  <2>5. ASSUME N("local", t, e) >= 2 * key.rpm + 1
        PROVE  FALSE
    <3>1. M * N("local", t, e) >= M * (2 * key.rpm + 1) /\ M * (2 * key.rpm + 1) = M * (2 * key.rpm) + M
      <4>1. 2 * key.rpm \in Int /\ 2 * key.rpm + 1 \in Int
        BY <1>0
      <4> QED
        BY <1>0, <1>2, <2>5, <4>1, Products
    <3>2. M * N("local", t, e) \in Int /\ M * (2 * key.rpm) \in Int
      BY <1>0, <1>2
    <3> QED
      BY <1>0, <2>4, <3>1, <3>2
  <2> QED
    BY <1>0, <1>2, <2>5
<1>3. ASSUME NEW t \in 0..clock, NEW e \in 0..clock, t <= e, e < t + M, N("redis", t, e) \in Int
      PROVE  N("redis", t, e) <= 2 * key.rpm
  <2>0. \A u, v \in 0..clock : u <= v /\ u \div M = v \div M => N("redis", u, v) <= key.rpm
    BY WithinIs DEF RedisInv
  <2>1. CASE t \div M = e \div M
    <3>1. N("redis", t, e) <= key.rpm
      BY <1>3, <2>0, <2>1
    <3> QED
      BY <1>0, <1>3, <3>1
  <2>2. ASSUME NEW u \in Nat, t < u, u <= e, t \div M = (u - 1) \div M, u \div M = e \div M
        PROVE  N("redis", t, e) <= 2 * key.rpm
    <3>1. u \in 0..clock /\ u - 1 \in 0..clock /\ t <= u - 1
      BY <1>0, <2>2
    <3>2. N("redis", t, u - 1) <= key.rpm /\ N("redis", u, e) <= key.rpm
      BY <2>0, <2>2, <3>1
    <3>3. /\ At(passed["redis"], clock, e) \in Int /\ At(passed["redis"], clock, u - 1) \in Int
          /\ At(passed["redis"], clock, t - 1) \in Int
      BY <1>0, AtFacts
    <3> QED
      BY <1>0, <3>2, <3>3
  <2>3. t \in Nat /\ e \in Nat
    BY <1>0
  <2> QED
    BY <1>3, <2>1, <2>2, <2>3, TwoMinutes
<1> HIDE DEF N
<1>4. ASSUME NEW s \in {"redis", "local"}, NEW t \in 0..clock
      PROVE  N(s, t, t + M - 1) <= 2 * key.rpm
  BY <1>1, <1>2, <1>3
<1> QED
  BY <1>4, WithinIs DEF RateBounded, N

-----------------------------------------------------------------------------
(* Tokens per minute.                                                      *)

\* What the check reads.
Used == IF UseRedis /\ healthy THEN Counters.tokens ELSE LocalTokensAt(clock)
\* How many counters may hold slots of the key.
SlotCounters == IF healthy THEN 1 ELSE 2

LEMMA TokensBoundedIs ==
  /\ TokensBounded <=>
       (key.tpm > 0 /\ key.slots > 0 =>
          Used + Cardinality(In(Holding)) * MaxTokens <= key.tpm - 1 + SlotCounters * key.slots * MaxTokens)
  /\ TokensBounded' <=>
       (key'.tpm > 0 /\ key'.slots > 0 =>
          Used' + Cardinality(In(Holding)') * MaxTokens
            <= key'.tpm - 1 + (IF healthy' THEN 1 ELSE 2) * key'.slots * MaxTokens)
BY DEF TokensBounded, Used, SlotCounters, Holding, In

LEMMA LocalTokensAre ==
  ASSUME AdmissionTypeOK
  PROVE  /\ LocalTokensAt(clock) = At(records, clock, clock) - At(records, clock, clock - M)
         /\ clock' \in Nat =>
              LocalTokensAt(clock)' = At(records', clock', clock') - At(records', clock', clock' - M)
<1>1. \A c \in Nat : (c - M + 1) - 1 = c - M
  BY AdmissionAssumption
<1>2. LocalTokensAt(clock) = At(records, clock, clock) - At(records, clock, (clock - M + 1) - 1)
  BY WithinIs DEF LocalTokensAt
<1>3. LocalTokensAt(clock)' = At(records', clock', clock') - At(records', clock', (clock' - M + 1) - 1)
  BY WithinNext DEF LocalTokensAt
<1>4. clock \in Nat
  BY LimitNats
<1> QED
  BY <1>1, <1>2, <1>3, <1>4

LEMMA UsedType ==
  ASSUME AdmissionTypeOK, TotalsInv
  PROVE  Used \in Nat /\ LocalTokensAt(clock) \in Nat
<1>1. Running(records, clock) /\ clock \in Int /\ clock - M \in Int /\ clock - M <= clock
  BY LimitNats DEF TotalsInv
<1>2. LocalTokensAt(clock) = At(records, clock, clock) - At(records, clock, clock - M)
  BY LocalTokensAre
<1>3. LocalTokensAt(clock) \in Nat
  BY <1>1, <1>2, AtFacts
<1>4. Counters.tokens \in Nat
  BY CountersType
<1> QED
  BY <1>3, <1>4 DEF Used

LEMMA UsedSame ==
  ASSUME AdmissionTypeOK, UNCHANGED <<clock, records, healthy>>,
         redis' = redis \/ redis' = [Counters EXCEPT !.requests = @ + 1]
  PROVE  Used' = Used
<1>1. Counters'.tokens = Counters.tokens
  <2>1. CASE redis' = redis
    BY <2>1, CountersFacts
  <2>2. CASE redis' = [Counters EXCEPT !.requests = @ + 1]
    <3>1. redis'.minute = Minute /\ redis'.tokens = Counters.tokens
      BY <2>2, CountersFacts
    <3> QED
      BY <3>1, CountersFacts
  <2> QED
    BY <2>1, <2>2
<1>2. LocalTokensAt(clock)' = LocalTokensAt(clock)
  BY DEF LocalTokensAt, Within, Through
<1> QED
  BY <1>1, <1>2 DEF Used

\* An answer adds its tokens where the check reads them.
LEMMA UsedAdds ==
  ASSUME AdmissionTypeOK, TotalsInv, NEW t \in Nat, RecordTokens(UseRedis /\ healthy, t),
         UNCHANGED <<clock, healthy>>
  PROVE  Used' = Used + t
<1>0. /\ Running(records, clock) /\ clock \in Int /\ clock - M \in Int /\ clock - M < clock
  BY LimitNats DEF TotalsInv
<1>1. CASE t = 0
  <2>1. redis' = redis /\ records' = records
    BY <1>1 DEF RecordTokens
  <2> QED
    BY <1>1, <2>1, UsedSame, UsedType
<1>2. CASE t > 0 /\ UseRedis /\ healthy
  <2>1. redis' = [Counters EXCEPT !.tokens = @ + t]
    BY <1>2 DEF RecordTokens
  <2>2. redis'.minute = Minute /\ redis'.tokens = Counters.tokens + t
    BY <2>1, CountersFacts
  <2>3. Counters' = redis'
    BY <2>2, CountersFacts
  <2> QED
    BY <1>2, <2>2, <2>3 DEF Used
<1>3. CASE t > 0 /\ ~(UseRedis /\ healthy)
  <2>1. records' = Counted(records, t)
    BY <1>3 DEF RecordTokens
  <2>2. LocalTokensAt(clock)' = At(records', clock, clock) - At(records', clock, clock - M)
    <3>1. clock' \in Nat /\ clock' = clock
      BY LimitNats
    <3> QED
      BY <3>1, LocalTokensAre
  <2>3. LocalTokensAt(clock) = At(records, clock, clock) - At(records, clock, clock - M)
    BY LocalTokensAre
  <2>4. /\ At(records', clock, clock) = At(records, clock, clock) + t
        /\ At(records', clock, clock - M) = At(records, clock, clock - M)
    BY <1>0, <2>1, CountedRuns
  <2>5. At(records, clock, clock) \in Nat /\ At(records, clock, clock - M) \in Nat
    BY <1>0, AtFacts
  <2>6. LocalTokensAt(clock)' = LocalTokensAt(clock) + t
    BY <2>2, <2>3, <2>4, <2>5
  <2> QED
    BY <1>3, <2>6 DEF Used
<1> QED
  BY <1>1, <1>2, <1>3

\* Time takes tokens out of the minute.
LEMMA UsedFades ==
  ASSUME AdmissionTypeOK, TotalsInv, redis.minute <= Minute, Tick
  PROVE  Used' \in Nat /\ Used' <= Used
<1>0. /\ Running(records, clock) /\ M \in Nat /\ M > 0 /\ clock \in Nat /\ MaxClock \in Nat
      /\ clock < MaxClock /\ clock' = clock + 1 /\ UNCHANGED <<records, redis, healthy>>
      /\ redis \in [minute : Nat, requests : Nat, tokens : Nat]
  BY LimitNats DEF TotalsInv, Tick, limiterVars, AdmissionTypeOK
<1>1. CASE UseRedis /\ healthy
  <2>1. Minute \in Nat /\ Minute' \in Nat /\ Minute <= Minute'
    <3>1. clock + 1 \in Nat
      BY <1>0
    <3> QED
      BY <1>0, <3>1, MinuteGrows, MinuteOf DEF Minute
  <2>2. Counters'.tokens \in Nat /\ Counters'.tokens <= Counters.tokens
    BY <1>0, <2>1 DEF Counters
  <2> QED
    BY <1>0, <1>1, <2>2 DEF Used
<1>2. CASE ~(UseRedis /\ healthy)
  <2>1. LocalTokensAt(clock)' = At(records, clock + 1, clock + 1) - At(records, clock + 1, (clock + 1) - M)
    <3>1. clock' \in Nat /\ clock' = clock + 1 /\ records' = records
      BY <1>0
    <3> QED
      BY <3>1, LocalTokensAre
  <2>2. LocalTokensAt(clock) = At(records, clock, clock) - At(records, clock, clock - M)
    BY LocalTokensAre
  <2>3. /\ clock \in Int /\ clock + 1 \in Int /\ clock + 1 >= clock /\ clock - M \in Int
        /\ (clock + 1) - M \in Int /\ clock - M <= (clock + 1) - M
        /\ (clock + 1) - M <= clock
    BY <1>0
  <2>4. /\ At(records, clock + 1, clock + 1) = At(records, clock, clock + 1)
        /\ At(records, clock + 1, (clock + 1) - M) = At(records, clock, (clock + 1) - M)
    BY <1>0, <2>3, LaterRuns
  <2>5. /\ At(records, clock, clock + 1) = At(records, clock, clock)
        /\ At(records, clock, clock) \in Nat
    BY <1>0, <2>3, AtFacts
  <2>6. /\ At(records, clock, clock - M) \in Nat /\ At(records, clock, (clock + 1) - M) \in Nat
        /\ At(records, clock, clock - M) <= At(records, clock, (clock + 1) - M)
        /\ At(records, clock, (clock + 1) - M) <= At(records, clock, clock)
    BY <1>0, <2>3, AtFacts
  <2>7. LocalTokensAt(clock)' \in Nat /\ LocalTokensAt(clock)' <= LocalTokensAt(clock)
    BY <2>1, <2>2, <2>4, <2>5, <2>6
  <2> QED
    BY <1>0, <1>2, <2>7 DEF Used
<1> QED
  BY <1>1, <1>2

\* Every slot counter allows for as many answers as it has slots.
LEMMA SlotTimes ==
  ASSUME NEW n \in Nat
  PROVE  /\ 1 * n * MaxTokens = n * MaxTokens /\ 2 * n * MaxTokens = n * MaxTokens + n * MaxTokens
         /\ n * MaxTokens \in Nat
         /\ \A h \in Nat : h * MaxTokens \in Nat
         /\ \A h \in Nat : h <= n => h * MaxTokens <= 1 * n * MaxTokens
         /\ \A h \in Nat : h <= n + n => h * MaxTokens <= 2 * n * MaxTokens
<1>1. MaxTokens \in Nat
  BY AdmissionAssumption
<1>2. 2 * n * MaxTokens = n * MaxTokens + n * MaxTokens /\ (n + n) * MaxTokens = n * MaxTokens + n * MaxTokens
  BY <1>1
<1>3. ASSUME NEW h \in Nat, h <= n + n
      PROVE  h * MaxTokens <= (n + n) * MaxTokens
  BY <1>3, TimesMonotone
<1>4. ASSUME NEW h \in Nat, h <= n
      PROVE  h * MaxTokens <= n * MaxTokens
  BY <1>4, TimesMonotone
<1> QED
  BY <1>1, <1>2, <1>3, <1>4

LEMMA TokensStep ==
  AdmissionTypeOK /\ TotalsInv /\ TokensInv /\ [AdmissionNext]_admissionVars => TokensInv'
<1> SUFFICES ASSUME AdmissionTypeOK, TotalsInv, TokensInv, [AdmissionNext]_admissionVars
             PROVE  TokensInv'
  OBVIOUS
<1> DEFINE H == Cardinality(In(Holding))
           V == Cardinality(In(Holding)')
           ks == key.slots
           More == IF healthy' THEN 0 ELSE ks
<1>0. /\ phase \in [Req -> Phases] /\ slots \in Nat /\ key \in Limits /\ key' = key /\ healthy \in BOOLEAN
      /\ key.tpm \in Nat /\ ks \in Nat /\ MaxTokens \in Nat /\ MaxTokens > 0 /\ H \in Nat /\ V \in Nat
  BY AdmissionAssumption, LimitNats, InCard, KeyStays DEF AdmissionTypeOK, Phases
<1>1. /\ UseRedis /\ healthy => records = Nothing
      /\ redis.minute <= Minute
      /\ ks > 0 => slots <= ks /\ H <= slots + IF healthy THEN 0 ELSE ks
      /\ key.tpm > 0 /\ ks > 0 => Used + H * MaxTokens <= key.tpm - 1 + SlotCounters * ks * MaxTokens
  BY TokensBoundedIs DEF TokensInv
<1>2. Used \in Nat
  BY UsedType
<1>t. /\ UseRedis /\ healthy' => records' = Nothing
      /\ redis'.minute <= Minute'
      /\ ks > 0 => slots' <= ks /\ V <= slots' + More
      /\ key.tpm > 0 /\ ks > 0 =>
           Used' + V * MaxTokens <= key.tpm - 1 + (IF healthy' THEN 1 ELSE 2) * ks * MaxTokens
      => TokensInv'
  BY <1>0, TokensBoundedIs DEF TokensInv, Holding, In, Nothing
<1>p. /\ Phases = {"idle", "entered", "admitted", "asking", "body", "charging", "trying"}
      /\ \A r \in Req : phase[r] \in Phases
      /\ Holding = {"admitted", "asking", "body"}
  BY <1>0 DEF Phases, Holding
<1>m. /\ \A h \in Nat : h * MaxTokens \in Nat
      /\ \A h \in Nat : h <= ks => h * MaxTokens <= 1 * ks * MaxTokens
      /\ \A h \in Nat : h <= ks + ks => h * MaxTokens <= 2 * ks * MaxTokens
      /\ 1 * ks * MaxTokens \in Nat /\ 2 * ks * MaxTokens \in Nat
  BY <1>0, SlotTimes
<1>r. Minute \in Nat /\ (UNCHANGED clock => Minute' = Minute) /\ Counters.minute = Minute
  BY CountersFacts
<1> HIDE DEF H, V, ks
\* A step that keeps the slots and adds no tokens; one that gives a slot back
\* and adds at most the tokens of an answer.
<1>k. ASSUME UNCHANGED <<healthy, slots>>, V = H, Used' \in Nat, Used' <= Used,
             UseRedis /\ healthy => records' = records, redis'.minute <= Minute'
      PROVE  TokensInv'
  <2>1. key.tpm > 0 /\ ks > 0 =>
          Used' + V * MaxTokens <= key.tpm - 1 + (IF healthy' THEN 1 ELSE 2) * ks * MaxTokens
    <3>1. H * MaxTokens \in Nat /\ (IF healthy' THEN 1 ELSE 2) * ks * MaxTokens = SlotCounters * ks * MaxTokens
      BY <1>0, <1>k, <1>m DEF SlotCounters
    <3>2. SlotCounters * ks * MaxTokens \in Nat
      BY <1>m DEF SlotCounters
    <3> QED
      BY <1>0, <1>1, <1>2, <1>k, <3>1, <3>2
  <2>2. ks > 0 => slots' <= ks /\ V <= slots' + More
    BY <1>1, <1>k
  <2> QED
    BY <1>1, <1>k, <1>t, <2>1, <2>2
<1>b. ASSUME UNCHANGED healthy, Release, H > 0, V = H - 1, Used' \in Nat, Used' <= Used + MaxTokens,
             UseRedis /\ healthy => records' = records, redis'.minute <= Minute'
      PROVE  TokensInv'
  <2>1. key.tpm > 0 /\ ks > 0 =>
          Used' + V * MaxTokens <= key.tpm - 1 + (IF healthy' THEN 1 ELSE 2) * ks * MaxTokens
    <3>1. (IF healthy' THEN 1 ELSE 2) * ks * MaxTokens = SlotCounters * ks * MaxTokens
      BY <1>b DEF SlotCounters
    <3>2. SlotCounters * ks * MaxTokens \in Nat
      BY <1>m DEF SlotCounters
    <3>3. H * MaxTokens = V * MaxTokens + MaxTokens /\ V * MaxTokens \in Nat
      <4>1. V \in Nat /\ H = V + 1
        BY <1>0, <1>b
      <4> QED
        BY <1>0, <4>1, TimesMonotone
    <3> QED
      BY <1>0, <1>1, <1>2, <1>b, <3>1, <3>2, <3>3
  <2>2. ks > 0 => slots' <= ks /\ V <= slots' + More
    BY <1>0, <1>1, <1>b DEF Release, Greater
  <2> QED
    BY <1>1, <1>b, <1>t, <2>1, <2>2
<1>3. ASSUME NEW r \in Req, ApplyRateLimit(r, UseRedis /\ healthy, slots), UNCHANGED healthy
      PROVE  TokensInv'
  <2> DEFINE shared == UseRedis /\ healthy
             ok == RequestOk(shared) /\ TokensOk(shared) /\ SlotFree(slots)
  <2>0. /\ phase[r] = "entered" /\ CountRequest(shared) /\ UNCHANGED <<clock, records>>
        /\ slots' = IF ok /\ key.slots > 0 THEN slots + 1 ELSE slots
        /\ ok => Step(r, "admitted")
        /\ ~ok => Step(r, "idle")
    BY <1>3 DEF ApplyRateLimit
  <2>1. redis' = redis \/ redis' = [Counters EXCEPT !.requests = @ + 1]
    BY <2>0 DEF CountRequest
  <2>2. Used' = Used /\ redis'.minute <= Minute'
    <3>1. Used' = Used
      BY <1>3, <2>0, <2>1, UsedSame
    <3>2. CASE redis' = redis
      BY <1>1, <1>r, <2>0, <3>1, <3>2
    <3>3. CASE redis' = [Counters EXCEPT !.requests = @ + 1]
      <4>1. redis'.minute = Minute
        BY <3>3, CountersFacts
      <4> QED
        BY <1>r, <2>0, <3>1, <4>1
    <3> QED
      BY <2>1, <3>2, <3>3
  <2>3. CASE ok
    <3>1. V = H + 1
      BY <1>0, <1>p, <2>0, <2>3, StepCard DEF H, V
    <3>2. key.tpm > 0 => Used <= key.tpm - 1
      BY <1>0, <1>2, <2>3 DEF TokensOk, Used
    <3>3. ks > 0 => slots < ks /\ slots' = slots + 1
      BY <1>0, <2>0, <2>3 DEF SlotFree, ks
    <3>4. ks > 0 => slots' <= ks /\ V <= slots' + More
      BY <1>0, <1>1, <1>3, <3>1, <3>3
    <3>5. ks > 0 => V * MaxTokens <= (IF healthy' THEN 1 ELSE 2) * ks * MaxTokens
      BY <1>0, <1>3, <1>m, <2>0, <3>3, <3>4
    <3>6. (IF healthy' THEN 1 ELSE 2) * ks * MaxTokens \in Nat /\ V * MaxTokens \in Nat
      BY <1>0, <1>m
    <3>7. key.tpm > 0 /\ ks > 0 =>
            Used' + V * MaxTokens <= key.tpm - 1 + (IF healthy' THEN 1 ELSE 2) * ks * MaxTokens
      BY <1>0, <1>2, <2>2, <3>2, <3>5, <3>6
    <3> QED
      BY <1>1, <1>3, <1>t, <2>0, <2>2, <3>4, <3>7
  <2>4. CASE ~ok
    <3>1. V = H
      BY <1>0, <1>p, <2>0, <2>4, StepCard DEF H, V
    <3> QED
      BY <1>2, <1>3, <1>k, <2>0, <2>2, <2>4, <3>1
  <2> QED
    BY <2>3, <2>4
\* Redis fails: nothing is recorded yet where the check reads from now on, and
\* the slots that it counted come on top.
<1>4. ASSUME NEW r \in Req, UseRedis, healthy, healthy' = FALSE, ApplyRateLimit(r, FALSE, 0)
      PROVE  TokensInv'
  <2> DEFINE ok == RequestOk(FALSE) /\ TokensOk(FALSE) /\ SlotFree(0)
  <2>0. /\ phase[r] = "entered" /\ CountRequest(FALSE) /\ UNCHANGED <<clock, records>>
        /\ slots' = IF ok /\ key.slots > 0 THEN 0 + 1 ELSE 0
        /\ ok => Step(r, "admitted")
        /\ ~ok => Step(r, "idle")
    BY <1>4 DEF ApplyRateLimit
  <2>1. redis' = redis
    BY <2>0 DEF CountRequest
  <2>2. Used' = 0
    <3>1. records' = Nothing /\ clock' = clock
      BY <1>1, <1>4, <2>0
    <3>2. LocalTokensAt(clock)' = 0
      <4>1. clock \in Nat /\ M \in Nat /\ M > 0 /\ MaxClock \in Nat /\ clock \in 0..MaxClock
        BY LimitNats DEF AdmissionTypeOK
      <4>2. \A t \in Int : t <= clock => At(Nothing, clock, t) = 0
        BY <4>1 DEF At, Nothing, Lesser
      <4>3. clock \in Int /\ clock - M \in Int /\ clock - M <= clock
        BY <4>1
      <4>4. LocalTokensAt(clock)' = At(Nothing, clock, clock) - At(Nothing, clock, clock - M)
        BY <3>1, <4>1, LocalTokensAre
      <4> QED
        BY <4>2, <4>3, <4>4
    <3>3. ~healthy'
      BY <1>4, Zenon
    <3> QED
      BY <3>2, <3>3 DEF Used
  <2>3. (ok /\ V = H + 1) \/ (~ok /\ V = H)
    <3>1. ASSUME ok
          PROVE  V = H + 1
      BY <1>0, <1>p, <2>0, <3>1, StepCard DEF H, V
    <3>2. ASSUME ~ok
          PROVE  V = H
      BY <1>0, <1>p, <2>0, <3>2, StepCard DEF H, V
    <3> QED
      BY <3>1, <3>2
  <2>4. ~healthy'
    BY <1>4, Zenon
  <2>5. ks > 0 => slots' <= ks /\ V <= slots' + ks /\ V <= ks + ks
    <3>1. CASE ok
      <4>1. ks > 0 => slots' = 1 /\ V = H + 1 /\ H <= ks
        <5>1. V = H + 1
          BY <2>3, <3>1
        <5>2. ks > 0 => H <= ks
          BY <1>0, <1>1, <1>4
        <5>3. ks > 0 => slots' = 1
          BY <2>0, <3>1 DEF ks
        <5> QED
          BY <5>1, <5>2, <5>3
      <4> QED
        BY <1>0, <4>1
    <3>2. CASE ~ok
      <4>1. ks > 0 => slots' = 0 /\ V = H /\ H <= ks
        <5>1. V = H
          BY <2>3, <3>2
        <5>2. ks > 0 => H <= ks
          BY <1>0, <1>1, <1>4
        <5>3. slots' = 0
          BY <2>0, <3>2
        <5> QED
          BY <5>1, <5>2, <5>3
      <4> QED
        BY <1>0, <4>1
    <3> QED
      BY <3>1, <3>2
  <2>6. ks > 0 => V * MaxTokens <= 2 * ks * MaxTokens
    BY <1>0, <1>m, <2>5
  <2>7. key.tpm > 0 /\ ks > 0 =>
          Used' + V * MaxTokens <= key.tpm - 1 + (IF healthy' THEN 1 ELSE 2) * ks * MaxTokens
    <3>1. V * MaxTokens \in Nat
      BY <1>0, <1>m
    <3>2. (IF healthy' THEN 1 ELSE 2) * ks * MaxTokens = 2 * ks * MaxTokens
      BY <2>4
    <3> QED
      BY <1>0, <1>m, <2>2, <2>6, <3>1, <3>2
  <2>8. redis'.minute <= Minute'
    BY <1>1, <1>r, <2>0, <2>1
  <2> QED
    BY <1>t, <2>4, <2>5, <2>7, <2>8
<1>5. ASSUME NEW r \in Req, Admit(r)
      PROVE  TokensInv'
  BY <1>3, <1>4, <1>5 DEF Admit
\* Nothing of what the check reads changes.
<1>n. ASSUME UNCHANGED <<clock, records, healthy, redis>>
      PROVE  Used' = Used /\ Used' \in Nat /\ redis'.minute <= Minute'
  BY <1>1, <1>2, <1>n, <1>r, UsedSame
<1>6. ASSUME NEW r \in Req, CheckBudget(r)
      PROVE  TokensInv'
  <2>1. UNCHANGED <<clock, records, healthy, redis>> /\ phase[r] = "admitted"
    BY <1>6 DEF CheckBudget, limiterVars
  <2>2. CASE OverBudget
    <3>1. Step(r, "idle") /\ Release
      BY <1>6, <2>2 DEF CheckBudget
    <3>2. V = H - 1 /\ H > 0
      BY <1>0, <1>p, <2>1, <3>1, StepCard DEF H, V
    <3> QED
      BY <1>0, <1>2, <1>b, <1>n, <2>1, <3>1, <3>2
  <2>3. CASE ~OverBudget
    <3>1. Step(r, "asking") /\ UNCHANGED slots
      BY <1>6, <2>3 DEF CheckBudget
    <3>2. V = H
      BY <1>0, <1>p, <2>1, <3>1, StepCard DEF H, V
    <3> QED
      BY <1>2, <1>k, <1>n, <2>1, <3>1, <3>2
  <2> QED
    BY <2>2, <2>3
<1>7. ASSUME NEW r \in Req, Answer(r)
      PROVE  TokensInv'
  <2>1. UNCHANGED <<clock, records, healthy, redis, slots>> /\ phase[r] = "asking" /\ Step(r, "body")
    BY <1>7 DEF Answer, limiterVars
  <2>2. V = H
    BY <1>0, <1>p, <2>1, StepCard DEF H, V
  <2> QED
    BY <1>2, <1>k, <1>n, <2>1, <2>2
<1>8. ASSUME NEW r \in Req, Fail(r)
      PROVE  TokensInv'
  <2>1. /\ UNCHANGED <<clock, records, healthy, redis>> /\ phase[r] = "asking" /\ Step(r, "idle") /\ Release
    BY <1>8 DEF Fail, limiterVars
  <2>2. V = H - 1 /\ H > 0
    BY <1>0, <1>p, <2>1, StepCard DEF H, V
  <2> QED
    BY <1>0, <1>2, <1>b, <1>n, <2>1, <2>2
<1>9. ASSUME NEW r \in Req, NEW t \in Amount(key.tpm), EndBody(r, t)
      PROVE  TokensInv'
  <2>1. /\ phase[r] = "body" /\ Step(r, "charging") /\ Release /\ UNCHANGED <<clock, healthy>>
        /\ RecordTokens(UseRedis /\ healthy, t)
    BY <1>9 DEF EndBody
  <2>2. t \in Nat /\ t <= MaxTokens
    BY <1>0, AmountType
  <2>3. V = H - 1 /\ H > 0
    BY <1>0, <1>p, <2>1, StepCard DEF H, V
  <2>4. Used' = Used + t
    BY <2>1, <2>2, UsedAdds
  <2>5. redis'.minute <= Minute' /\ (UseRedis /\ healthy => records' = records)
    <3>1. redis' = redis \/ redis' = [Counters EXCEPT !.tokens = @ + t]
      BY <2>1 DEF RecordTokens
    <3>2. redis' = [Counters EXCEPT !.tokens = @ + t] => redis'.minute = Minute
      BY CountersFacts
    <3>3. redis'.minute <= Minute'
      BY <1>1, <1>r, <2>1, <3>1, <3>2
    <3> QED
      BY <2>1, <3>3 DEF RecordTokens
  <2> QED
    BY <1>0, <1>2, <1>b, <2>1, <2>2, <2>3, <2>4, <2>5
<1>10. ASSUME NEW r \in Req, \/ Arrive(r) \/ TryLogin(r) \/ (\E cost \in Amount(key.budget) : Charge(r, cost))
                             \/ (\E failed \in BOOLEAN : LoginAnswered(r, failed))
       PROVE  TokensInv'
  <2>1. UNCHANGED <<clock, records, healthy, redis, slots>> /\ phase[r] \in {"idle", "charging", "trying"}
    BY <1>10 DEF Arrive, TryLogin, Charge, LoginAnswered, limiterVars
  <2>2. Step(r, "idle") \/ Step(r, "entered") \/ Step(r, "trying")
    BY <1>10 DEF Arrive, TryLogin, Charge, LoginAnswered
  <2>3. V = H
    BY <1>0, <1>p, <2>1, <2>2, StepCard DEF H, V
  <2> QED
    BY <1>2, <1>k, <1>n, <2>1, <2>3
<1>11. CASE NewMonth \/ UNCHANGED admissionVars
  <2>1. UNCHANGED <<clock, records, healthy, redis, slots, phase>>
    BY <1>11 DEF NewMonth, admissionVars, limiterVars
  <2>2. V = H
    BY <2>1, SameCard DEF H, V
  <2> QED
    BY <1>2, <1>k, <1>n, <2>1, <2>2
<1>12. CASE Tick
  <2>1. UNCHANGED <<records, healthy, redis, slots, phase>> /\ clock < MaxClock /\ clock' = clock + 1
    BY <1>12 DEF Tick, limiterVars
  <2>2. V = H
    BY <2>1, SameCard DEF H, V
  <2>3. Used' \in Nat /\ Used' <= Used
    BY <1>1, <1>12, UsedFades
  <2>4. Minute <= Minute' /\ Minute' \in Nat
    <3>1. clock \in Nat /\ clock + 1 \in Nat /\ clock <= clock + 1
      BY LimitNats
    <3> QED
      BY <2>1, <3>1, MinuteGrows, MinuteOf DEF Minute
  <2>5. redis'.minute <= Minute' /\ redis.minute \in Nat
    BY <1>1, <1>r, <2>1, <2>4 DEF AdmissionTypeOK
  <2> QED
    BY <1>k, <2>1, <2>2, <2>3, <2>5
<1> QED
  BY <1>5, <1>6, <1>7, <1>8, <1>9, <1>10, <1>11, <1>12 DEF AdmissionNext

-----------------------------------------------------------------------------
(* Logins.                                                                 *)

\* The logins that failed within the window.
Failed == At(passed["login"], clock, clock) - At(passed["login"], clock, clock - LoginWindow)

LEMMA LoginsAre ==
  ASSUME AdmissionTypeOK, TotalsInv
  PROVE  /\ Failed \in Nat
         /\ Recent = Failed
         /\ LoginsBounded <=>
              (key.kind = "login" =>
                 Failed + Cardinality(In({"trying"})) <= MaxAttempts - 1 + Greater(peak, 1))
         /\ clock' \in Nat =>
              (LoginsBounded' <=>
                 (key'.kind = "login" =>
                    Failed' + Cardinality(In({"trying"})') <= MaxAttempts - 1 + Greater(peak', 1)))
<1>1. \A c \in Nat : (c - LoginWindow + 1) - 1 = c - LoginWindow
  BY AdmissionAssumption
<1>2. Within(passed["login"], clock - LoginWindow + 1, clock) =
        At(passed["login"], clock, clock) - At(passed["login"], clock, (clock - LoginWindow + 1) - 1)
  BY WithinIs
<1>3. Within(passed["login"], clock - LoginWindow + 1, clock)' =
        At(passed'["login"], clock', clock') - At(passed'["login"], clock', (clock' - LoginWindow + 1) - 1)
  BY WithinNext
<1>4. clock \in Nat /\ clock - LoginWindow \in Int /\ clock - LoginWindow <= clock /\ clock \in Int
  BY LimitNats
<1>5. Failed \in Nat
  <2>1. Running(passed["login"], clock)
    BY DEF TotalsInv, Stores
  <2> QED
    BY <1>4, <2>1, AtFacts DEF Failed
<1>6. Within(passed["login"], clock - LoginWindow + 1, clock) = Failed
  BY <1>1, <1>2, <1>4 DEF Failed
<1>7. clock' \in Nat => Within(passed["login"], clock - LoginWindow + 1, clock)' = Failed'
  BY <1>1, <1>3 DEF Failed, At, Lesser
<1>8. Recent = Failed
  BY <1>6 DEF Recent, TotalsInv
<1>9. /\ LoginsBounded <=>
           (key.kind = "login" =>
              Within(passed["login"], clock - LoginWindow + 1, clock) + Cardinality(In({"trying"}))
                <= MaxAttempts - 1 + Greater(peak, 1))
      /\ LoginsBounded' <=>
           (key'.kind = "login" =>
              Within(passed["login"], clock - LoginWindow + 1, clock)' + Cardinality(In({"trying"})')
                <= MaxAttempts - 1 + Greater(peak', 1))
  BY DEF LoginsBounded, Greater
<1> QED
  BY <1>5, <1>6, <1>7, <1>8, <1>9

\* What a step may do to the logins: nothing, or one is tried, or answered, or
\* time passes.
LoginMove ==
  \/ /\ UNCHANGED clock /\ passed'["login"] = passed["login"]
     /\ Cardinality(In({"trying"})') = Cardinality(In({"trying"}))
  \/ /\ UNCHANGED clock /\ passed'["login"] = passed["login"]
     /\ Recent < MaxAttempts /\ Cardinality(In({"trying"})') <= peak'
  \/ /\ UNCHANGED clock /\ passed'["login"] \in {passed["login"], Counted(passed["login"], 1)}
     /\ Cardinality(In({"trying"})') = Cardinality(In({"trying"})) - 1
  \/ /\ clock < MaxClock /\ clock' = clock + 1 /\ UNCHANGED passed
     /\ Cardinality(In({"trying"})') = Cardinality(In({"trying"}))

LEMMA PeakGrows ==
  ASSUME AdmissionTypeOK, [AdmissionNext]_admissionVars
  PROVE  peak' \in Nat /\ peak <= peak'
<1>1. peak \in Nat /\ \A P : Cardinality({q \in Req : phase'[q] \in P}) \in Nat
  BY AdmissionAssumption, FS_Subset, FS_CardinalityType DEF AdmissionTypeOK
<1>2. Cardinality({q \in Req : phase'[q] = "trying"}) \in Nat
  BY AdmissionAssumption, FS_Subset, FS_CardinalityType
<1>3. ASSUME NEW r \in Req, CheckBudget(r) \/ TryLogin(r)
      PROVE  peak' \in Nat /\ peak <= peak'
  BY <1>1, <1>2, <1>3, GreaterType DEF CheckBudget, TryLogin
<1>4. CASE UNCHANGED peak
  BY <1>1, <1>4
<1>5. UNCHANGED peak \/ \E r \in Req : CheckBudget(r) \/ TryLogin(r)
  BY DEF AdmissionNext, admissionVars, Arrive, Admit, ApplyRateLimit, Answer, Fail, EndBody, Charge,
         NewMonth, LoginAnswered, Tick
<1> QED
  BY <1>3, <1>4, <1>5

LEMMA LoginMoves ==
  ASSUME AdmissionTypeOK, TotalsInv, [AdmissionNext]_admissionVars
  PROVE  LoginMove
<1> DEFINE T == Cardinality(In({"trying"}))
           V == Cardinality(In({"trying"})')
<1>0. /\ phase \in [Req -> Phases] /\ T \in Nat /\ V \in Nat /\ passed \in [Stores -> Total]
      /\ \A r \in Req : phase[r] \in Phases
  BY InCard DEF AdmissionTypeOK, Phases, Stores
<1>k. UNCHANGED clock /\ passed'["login"] = passed["login"] /\ V = T => LoginMove
  BY DEF LoginMove
<1>p. Phases = {"idle", "entered", "admitted", "asking", "body", "charging", "trying"}
  BY DEF Phases
<1> HIDE DEF T, V
\* A request that is not a login.
<1>s. ASSUME NEW r \in Req, NEW p \in Phases, Step(r, p), p # "trying", phase[r] # "trying",
             UNCHANGED clock, passed'["login"] = passed["login"]
      PROVE  LoginMove
  <2>1. V = T
    BY <1>0, <1>s, StepCard DEF T, V
  <2> QED
    BY <1>k, <1>s, <2>1
<1>1. ASSUME NEW r \in Req, NEW shared \in BOOLEAN, NEW held, ApplyRateLimit(r, shared, held)
      PROVE  LoginMove
  <2>1. UNCHANGED clock /\ passed'["login"] = passed["login"] /\ phase[r] = "entered"
    BY <1>1, CountedTotals DEF ApplyRateLimit
  <2>2. Step(r, "admitted") \/ Step(r, "idle")
    BY <1>1 DEF ApplyRateLimit
  <2> QED
    BY <1>p, <1>s, <2>1, <2>2
<1>2. ASSUME NEW r \in Req, Admit(r)
      PROVE  LoginMove
  <2>1. (UseRedis /\ healthy) \in BOOLEAN /\ FALSE \in BOOLEAN
    OBVIOUS
  <2> QED
    BY <1>1, <1>2, <2>1 DEF Admit
<1>3. ASSUME NEW r \in Req, \/ Arrive(r) \/ CheckBudget(r) \/ Answer(r) \/ Fail(r)
                            \/ (\E t \in Amount(key.tpm) : EndBody(r, t))
                            \/ (\E cost \in Amount(key.budget) : Charge(r, cost))
      PROVE  LoginMove
  <2>1. UNCHANGED <<clock, passed>> /\ phase[r] # "trying"
    BY <1>3 DEF Arrive, CheckBudget, Answer, Fail, EndBody, Charge, limiterVars
  <2>2. \E p \in Phases : p # "trying" /\ Step(r, p)
    <3>1. \/ Step(r, "idle") \/ Step(r, "entered") \/ Step(r, "asking") \/ Step(r, "body") \/ Step(r, "charging")
      BY <1>3 DEF Arrive, CheckBudget, Answer, Fail, EndBody, Charge
    <3> QED
      BY <1>p, <3>1
  <2> QED
    BY <1>s, <2>1, <2>2
<1>4. ASSUME NEW r \in Req, TryLogin(r)
      PROVE  LoginMove
  <2>1. UNCHANGED <<clock, passed>> /\ phase[r] = "idle"
    BY <1>4 DEF TryLogin, limiterVars
  <2>2. CASE Recent >= MaxAttempts
    <3>1. Step(r, "idle")
      BY <1>4, <2>2 DEF TryLogin
    <3> QED
      BY <1>p, <1>s, <2>1, <3>1
  <2>3. CASE ~(Recent >= MaxAttempts)
    <3>1. Recent \in Nat /\ MaxAttempts \in Nat /\ peak \in Nat
      BY LoginsAre, LimitNats
    <3>2. V = Cardinality({q \in Req : phase'[q] = "trying"})
      <4>1. In({"trying"})' = {q \in Req : phase'[q] = "trying"}
        BY DEF In
      <4> QED
        BY <4>1 DEF V
    <3>3. peak' = Greater(peak, V)
      BY <1>4, <3>2 DEF TryLogin
    <3>4. V <= peak'
      BY <1>0, <3>1, <3>3, GreaterType
    <3> QED
      BY <2>1, <2>3, <3>1, <3>4 DEF LoginMove, V
  <2> QED
    BY <2>2, <2>3
<1>5. ASSUME NEW r \in Req, NEW failed \in BOOLEAN, LoginAnswered(r, failed)
      PROVE  LoginMove
  <2>1. UNCHANGED clock /\ phase[r] = "trying" /\ Step(r, "idle")
    BY <1>5 DEF LoginAnswered
  <2>2. passed' = passed \/ passed' = Pass("login")
    BY <1>5 DEF LoginAnswered
  <2>3. passed'["login"] \in {passed["login"], Counted(passed["login"], 1)}
    BY <1>0, <2>2 DEF Pass, Stores
  <2>4. V = T - 1
    BY <1>0, <1>p, <2>1, StepCard DEF T, V
  <2> QED
    BY <2>1, <2>3, <2>4 DEF LoginMove, T, V
<1>6. CASE NewMonth \/ UNCHANGED admissionVars
  <2>1. UNCHANGED <<clock, passed, phase>>
    BY <1>6 DEF NewMonth, admissionVars, limiterVars
  <2>2. V = T
    BY <2>1, SameCard DEF T, V
  <2> QED
    BY <1>k, <2>1, <2>2
<1>7. CASE Tick
  <2>1. clock < MaxClock /\ clock' = clock + 1 /\ UNCHANGED <<passed, phase>>
    BY <1>7 DEF Tick, limiterVars
  <2>2. V = T
    BY <2>1, SameCard DEF T, V
  <2> QED
    BY <2>1, <2>2 DEF LoginMove, T, V
<1> QED
  BY <1>2, <1>3, <1>4, <1>5, <1>6, <1>7 DEF AdmissionNext

LEMMA LoginsStep ==
  AdmissionTypeOK /\ TotalsInv /\ LoginsBounded /\ [AdmissionNext]_admissionVars => LoginsBounded'
<1> SUFFICES ASSUME AdmissionTypeOK, TotalsInv, LoginsBounded, [AdmissionNext]_admissionVars
             PROVE  LoginsBounded'
  OBVIOUS
<1> DEFINE T == Cardinality(In({"trying"}))
           V == Cardinality(In({"trying"})')
           p == passed["login"]
           from == clock - LoginWindow
<1>0. /\ T \in Nat /\ V \in Nat /\ key' = key /\ clock \in Nat /\ MaxClock \in Nat /\ Running(p, clock)
      /\ LoginWindow \in Nat /\ LoginWindow > 0 /\ MaxAttempts \in Nat /\ peak \in Nat
  BY InCard, KeyStays, LimitNats DEF TotalsInv, Stores
<1>1. /\ Failed \in Nat /\ Recent = Failed
      /\ key.kind = "login" => Failed + T <= MaxAttempts - 1 + Greater(peak, 1)
  BY LoginsAre
<1>2. /\ peak' \in Nat /\ Greater(peak, 1) \in Nat /\ Greater(peak', 1) \in Nat
      /\ Greater(peak, 1) <= Greater(peak', 1) /\ peak' <= Greater(peak', 1)
  BY <1>0, PeakGrows DEF Greater
<1>t. ASSUME clock' \in Nat, Failed' \in Int, Failed' + V <= Failed + T
      PROVE  LoginsBounded'
  BY <1>0, <1>1, <1>2, <1>t, LoginsAre
<1>f. UNCHANGED clock => Failed' = At(passed'["login"], clock, clock) - At(passed'["login"], clock, from)
  BY DEF Failed, At, Lesser
<1>3. /\ from \in Int /\ from < clock /\ clock \in Int
      /\ At(p, clock, clock) \in Nat /\ At(p, clock, from) \in Nat /\ At(p, clock, from + 1) \in Nat
      /\ At(p, clock, from) <= At(p, clock, from + 1)
  BY <1>0, AtFacts
<1> HIDE DEF T, V
<1>4. CASE UNCHANGED clock /\ passed'["login"] = p /\ V = T
  <2>1. Failed' = Failed
    BY <1>4, <1>f DEF Failed
  <2> QED
    BY <1>0, <1>1, <1>4, <1>t, <2>1
<1>5. CASE UNCHANGED clock /\ passed'["login"] = p /\ Recent < MaxAttempts /\ V <= peak'
  <2>1. Failed' = Failed /\ clock' \in Nat
    BY <1>0, <1>5, <1>f DEF Failed
  <2>2. Failed' + V <= MaxAttempts - 1 + Greater(peak', 1)
    BY <1>0, <1>1, <1>2, <1>5, <2>1
  <2> QED
    BY <2>1, <2>2, LoginsAre DEF V
<1>6. CASE UNCHANGED clock /\ passed'["login"] \in {p, Counted(p, 1)} /\ V = T - 1
  <2>1. CASE passed'["login"] = p
    <3>1. Failed' = Failed
      BY <1>6, <1>f, <2>1 DEF Failed
    <3> QED
      BY <1>0, <1>1, <1>6, <1>t, <3>1
  <2>2. CASE passed'["login"] = Counted(p, 1)
    <3>1. /\ At(Counted(p, 1), clock, clock) = At(p, clock, clock) + 1
          /\ At(Counted(p, 1), clock, from) = At(p, clock, from)
      <4>1. /\ 1 \in Nat /\ clock \in Int /\ ~(clock < clock)
            /\ clock - LoginWindow \in Int /\ clock - LoginWindow < clock
        BY <1>0
      <4> QED
        BY <1>0, <4>1, CountedRuns
    <3>2. Failed' = Failed + 1
      BY <1>3, <1>6, <1>f, <2>2, <3>1 DEF Failed
    <3> QED
      BY <1>0, <1>1, <1>6, <1>t, <3>2
  <2> QED
    BY <1>6, <2>1, <2>2
<1>7. CASE clock < MaxClock /\ clock' = clock + 1 /\ UNCHANGED passed /\ V = T
  <2>1. Failed' = At(p, clock + 1, clock + 1) - At(p, clock + 1, (clock + 1) - LoginWindow)
    BY <1>7 DEF Failed, At, Lesser
  <2>2. (clock + 1) - LoginWindow = from + 1 /\ clock + 1 \in Int /\ from + 1 \in Int /\ clock + 1 >= clock
    BY <1>0
  <2>3. /\ At(p, clock + 1, clock + 1) = At(p, clock, clock + 1)
        /\ At(p, clock + 1, from + 1) = At(p, clock, from + 1)
    BY <1>0, <1>7, <2>2, LaterRuns
  <2>4. At(p, clock, clock + 1) = At(p, clock, clock)
    BY <1>0, <2>2, AtFacts
  <2>5. Failed' <= Failed /\ Failed' \in Int
    BY <1>3, <2>1, <2>2, <2>3, <2>4 DEF Failed
  <2> QED
    <3>1. clock' \in Nat /\ Failed' + V <= Failed + T
      <4>1. clock' \in Nat /\ V = T
        BY <1>0, <1>7
      <4>2. T \in Nat /\ Failed \in Nat
        BY <1>0, <1>1
      <4>3. Failed' + V <= Failed + T
        <5>1. \A f, g, t \in Int : f <= g => f + t <= g + t
          OBVIOUS
        <5>2. Failed \in Int /\ T \in Int
          BY <4>2
        <5> QED
          BY <2>5, <4>1, <5>1, <5>2, Zenon
      <4> QED
        BY <4>1, <4>3
    <3> QED
      BY <1>t, <2>5, <3>1
<1> QED
  BY <1>4, <1>5, <1>6, <1>7, LoginMoves DEF LoginMove, T, V

-----------------------------------------------------------------------------
(* When to come back.                                                      *)

\* Of numbers that there are, one is the least.
LEMMA LeastNumber ==
  ASSUME NEW S \in SUBSET Nat, S # {}
  PROVE  Min(S) \in S
<1> DEFINE R == {ss \in Nat \X Nat : ss[1] < ss[2]}
<1>1. IsWellFoundedOn(R, Nat)
  BY NatLessThanWellFounded, Zenon DEF OpToRel
<1>2. PICK m \in S : \A n \in S : ~(<<n, m>> \in R)
  BY <1>1, WFMin
<1>3. ASSUME NEW n \in S
      PROVE  m <= n
  <2>1. m \in Nat /\ n \in Nat
    OBVIOUS
  <2>2. <<n, m>> \in Nat \X Nat /\ <<n, m>>[1] = n /\ <<n, m>>[2] = m
    BY <2>1
  <2>3. n < m => <<n, m>> \in R
    BY <2>2
  <2> QED
    BY <1>2, <2>1, <2>3
<1> QED
  BY <1>3 DEF Min

\* Enough of the records end at some tick, and when the client is told to come
\* back the window begins after it.
LEMMA RetryFollows ==
  ASSUME AdmissionTypeOK, TotalsInv
  PROVE  RetryEnough
<1> SUFFICES ASSUME key.tpm > 0, LocalTokensAt(clock) >= key.tpm
             PROVE  LocalTokensAt(clock + RetryTokens) < key.tpm
  BY DEF RetryEnough
<1> DEFINE A(t) == At(records, clock, t)
           needed == LocalTokensAt(clock) - key.tpm + 1
           enough == {u \in 0..clock : Within(records, clock - M + 1, u) >= needed}
           back == RetryTokens
<1>0. /\ Running(records, clock) /\ clock \in Nat /\ M \in Nat /\ M > 0 /\ key.tpm \in Nat
      /\ clock - M \in Int
  BY LimitNats DEF TotalsInv
<1>1. LocalTokensAt(clock) = A(clock) - A(clock - M) /\ LocalTokensAt(clock) \in Nat
  BY LocalTokensAre, UsedType
<1>2. \A u \in Int : Within(records, clock - M + 1, u) = A(u) - A(clock - M)
  <2>1. (clock - M + 1) - 1 = clock - M
    BY <1>0
  <2> QED
    BY <2>1, WithinIs
<1>3. \A t \in Int : A(t) \in Nat
  BY <1>0, AtFacts
<1>4. \A t, u \in Int : t <= u => A(t) <= A(u)
  BY <1>0, AtFacts
<1>5. \A t \in Int : t >= clock => A(t) = A(clock)
  BY <1>0, AtFacts
<1>6. needed \in Nat /\ needed = A(clock) - A(clock - M) - key.tpm + 1
  BY <1>0, <1>1
<1>7. clock \in enough
  <2>1. Within(records, clock - M + 1, clock) >= needed
    BY <1>0, <1>1, <1>2, <1>6
  <2> QED
    BY <1>0, <2>1
<1> DEFINE u == Min(enough)
<1>8. u \in enough
  <2>1. enough \in SUBSET Nat /\ enough # {}
    BY <1>7
  <2> HIDE DEF enough
  <2> QED
    BY <2>1, LeastNumber
<1>9. u \in 0..clock /\ A(u) - A(clock - M) >= needed
  BY <1>2, <1>8
<1>10. back = Greater(1, M - (clock - u))
  BY <1>7 DEF RetryTokens
<1> HIDE DEF enough, u, back, A
<1>11. back \in Nat /\ u <= (clock + back) - M /\ (clock + back) - M \in Int
  BY <1>0, <1>9, <1>10 DEF Greater
<1>12. LocalTokensAt(clock + back) = A(clock + back) - A((clock + back) - M)
  <2>1. LocalTokensAt(clock + back) = Within(records, (clock + back) - M + 1, clock + back)
    BY DEF LocalTokensAt
  <2>2. ((clock + back) - M + 1) - 1 = (clock + back) - M
    BY <1>0, <1>11
  <2> QED
    BY <2>1, <2>2, WithinIs DEF A
<1>13. A(clock + back) = A(clock)
  <2>1. clock + back \in Int /\ clock + back >= clock
    BY <1>0, <1>11
  <2> QED
    BY <1>5, <2>1
<1>14. A(u) <= A((clock + back) - M)
  <2>1. u \in Int
    BY <1>9
  <2> QED
    BY <1>4, <1>11, <2>1
<1>15. /\ A(clock) \in Nat /\ A(clock - M) \in Nat /\ A((clock + back) - M) \in Nat /\ A(u) \in Nat
  <2>1. u \in Int /\ clock \in Int
    BY <1>0, <1>9
  <2> QED
    BY <1>0, <1>3, <1>11, <2>1
<1>16. A(clock) - A((clock + back) - M) < key.tpm
  BY <1>0, <1>6, <1>9, <1>14, <1>15
<1> QED
  BY <1>12, <1>13, <1>16 DEF back

-----------------------------------------------------------------------------
(* The theorems.                                                           *)

LEMMA LimitsInit ==
  AdmissionInit => TotalsInv /\ LocalInv /\ RedisInv /\ TokensInv /\ LoginsBounded
<1> SUFFICES ASSUME AdmissionInit
             PROVE  TotalsInv /\ LocalInv /\ RedisInv /\ TokensInv /\ LoginsBounded
  OBVIOUS
<1>0. AdmissionTypeOK /\ TotalsInv /\ clock = 0 /\ records = Nothing
  BY TypeInit, TotalsInit DEF AdmissionInit
<1>1. /\ key.rpm \in Nat /\ key.tpm \in Nat /\ key.slots \in Nat /\ M \in Nat /\ M > 0
      /\ MaxTokens \in Nat /\ MaxAttempts \in Nat /\ MaxAttempts > 0 /\ LoginWindow \in Nat
  BY <1>0, LimitNats, AdmissionAssumption
<1>2. \A s \in Stores, t, e \in Int : Within(passed[s], t, e) = 0
  <2>1. \A s \in Stores : passed[s] = Nothing
    BY DEF AdmissionInit, Stores
  <2>2. \A t \in Int : At(Nothing, 0, t) = 0
    BY NothingRuns
  <2>3. \A t \in Int : t - 1 \in Int
    OBVIOUS
  <2> QED
    BY <1>0, <2>1, <2>2, <2>3, WithinIs
<1>3. 0..clock = {0}
  BY <1>0
<1>4. LocalInv
  <2>1. bucket = NoBucket
    BY DEF AdmissionInit
  <2>2. Within(passed["local"], 0, 0) = 0
    BY <1>2 DEF Stores
  <2>3. M * 0 = 0 /\ 0 - 0 = 0 /\ 0 * key.rpm = 0 /\ key.rpm * M \in Nat
    BY <1>1
  <2> QED
    BY <1>0, <1>3, <2>1, <2>2, <2>3 DEF LocalInv, Potential
<1>5. Minute \in Nat /\ redis.minute = 0 /\ Counters.requests \in Nat /\ Counters.tokens = 0
  <2>1. redis = [minute |-> 0, requests |-> 0, tokens |-> 0]
    BY DEF AdmissionInit
  <2>2. Minute \in Nat /\ Counters.requests \in Nat
    BY <1>0, CountersFacts
  <2>3. Counters.tokens = 0
    BY <2>1 DEF Counters
  <2> QED
    BY <2>1, <2>2, <2>3
<1>6. RedisInv
  <2>1. Within(passed["redis"], 0, 0) = 0
    BY <1>2 DEF Stores
  <2> QED
    BY <1>0, <1>1, <1>3, <1>5, <2>1 DEF RedisInv
<1>7. TokensInv
  <2>1. In(Holding) = {} /\ slots = 0
    BY DEF AdmissionInit, In, Holding
  <2>2. Cardinality(In(Holding)) = 0
    BY <2>1, FS_EmptySet
  <2>3. Used = 0
    <3>1. LocalTokensAt(clock) = At(Nothing, 0, 0) - At(Nothing, 0, 0 - M)
      BY <1>0, LocalTokensAre
    <3>2. LocalTokensAt(clock) = 0
      <4>1. 0 \in Int /\ 0 - M \in Int
        BY <1>1
      <4> QED
        BY <3>1, <4>1, NothingRuns
    <3> QED
      BY <1>5, <3>2 DEF Used
  <2>4. SlotCounters * key.slots * MaxTokens \in Nat /\ 0 * MaxTokens = 0
    BY <1>1 DEF SlotCounters
  <2> QED
    BY <1>0, <1>1, <1>5, <2>1, <2>2, <2>3, <2>4, TokensBoundedIs DEF TokensInv
<1>8. LoginsBounded
  <2>1. In({"trying"}) = {} /\ peak = 0
    BY DEF AdmissionInit, In
  <2>2. Cardinality(In({"trying"})) = 0
    BY <2>1, FS_EmptySet
  <2>3. Within(passed["login"], clock - LoginWindow + 1, clock) = 0
    BY <1>0, <1>1, <1>2 DEF Stores
  <2> QED
    BY <1>1, <2>1, <2>2, <2>3 DEF LoginsBounded, Greater
<1> QED
  BY <1>0, <1>4, <1>6, <1>7, <1>8

\* However the requests of a key overlap, and if Redis fails among them: its
\* tokens of a minute and its money of a month exceed the limits by no more
\* than what was in flight.
THEOREM ConsumptionAlwaysBounded == AdmissionSpec => []ConsumptionBounded
<1>1. AdmissionInit => AdmissionTypeOK /\ TotalsInv /\ TokensInv
  BY TypeInit, LimitsInit
<1>2. AdmissionTypeOK /\ TotalsInv /\ TokensInv /\ [AdmissionNext]_admissionVars
        => AdmissionTypeOK' /\ TotalsInv' /\ TokensInv'
  BY TypeStep, TotalsStep, TokensStep
<1>3. TokensInv /\ SpendBounded => ConsumptionBounded
  BY DEF TokensInv, ConsumptionBounded
<1> QED
  BY <1>1, <1>2, <1>3, SpendAlwaysBounded, PTL DEF AdmissionSpec

\* No minute sees more than twice the requests of the limit, whichever store
\* decides; no window more failed logins than the limit and those tried at
\* once; and who comes back when told finds room.
THEOREM WindowsAlwaysBounded == AdmissionSpec => []WindowsBounded
<1> DEFINE Inv == AdmissionTypeOK /\ TotalsInv /\ LocalInv /\ RedisInv /\ LoginsBounded
<1>1. AdmissionInit => Inv
  BY TypeInit, LimitsInit
<1>2. Inv /\ [AdmissionNext]_admissionVars => Inv'
  BY TypeStep, TotalsStep, LocalStep, RedisStep, LoginsStep
<1>3. Inv => WindowsBounded
  BY RateFollows, RetryFollows DEF WindowsBounded
<1> QED
  BY <1>1, <1>2, <1>3, PTL DEF AdmissionSpec

-----------------------------------------------------------------------------
(* Where a request is routed.                                              *)

\* Whatever the strategy, a server that fits is chosen if there is one.
LEMMA TargetFits ==
  ASSUME NEW n, NEW p, p = "" => n.prefix = "", listed \subseteq Server,
         Fitting(n, p) # {}, NEW b \in Targets(n, p)
  PROVE  /\ b \in Fitting(n, p)
         /\ strategy = "least busy" => \A c \in Fitting(n, p) : load[b] <= load[c]
<1>1. ResolvedProvider(n, p) = p
  BY DEF ResolvedProvider
<1>2. \A c \in listed : c # "" /\ Kind[c] # ""
  BY RoutingAssumption
<1> DEFINE mine == {c \in DOMAIN permits \cap listed : p # "" => p \in {c, Kind[c]}}
<1>3. mine # {} /\ Fitting(n, p) = {c \in mine : Lists(c, n, p)}
  BY DEF Fitting
<1>4. Pool(n, p) = mine
  <2>1. CASE p = ""
    <3>1. OfProvider(p) = {}
      BY <1>2, <2>1 DEF OfProvider
    <3>2. mine = listed \cap DOMAIN permits
      BY <2>1
    <3> QED
      BY <1>1, <1>3, <3>1, <3>2 DEF Pool
  <2>2. CASE p # ""
    <3>1. mine = OfProvider(p) \cap DOMAIN permits
      BY <2>2 DEF OfProvider
    <3> HIDE DEF mine
    <3> QED
      BY <1>1, <1>3, <3>1 DEF Pool
  <2> QED
    BY <2>1, <2>2
<1> HIDE DEF mine
<1>5. Candidates(n, p) = Fitting(n, p)
  BY <1>3, <1>4 DEF Candidates
<1>6. CASE strategy = "static"
  <2>1. b \in Static(n, p)
    BY <1>6 DEF Targets
  <2>2. Static(n, p) \subseteq Candidates(n, p)
    BY <1>5 DEF Static, Candidates, Lists
  <2> QED
    BY <1>5, <1>6, <2>1, <2>2
<1>7. CASE strategy # "static"
  <2>1. b \in IF strategy = "random" THEN Fitting(n, p) ELSE Least(Fitting(n, p))
    BY <1>5, <1>7 DEF Targets, Dynamic
  <2> QED
    BY <2>1 DEF Least
<1> QED
  BY <1>6, <1>7

\* A name that is resolved without a provider has no prefix left; who is routed
\* or refused without a change on the way, went to a server that fits.
RouteInv ==
  /\ listed \subseteq Server
  /\ DOMAIN req = {"at", "name", "provider", "server"}
  /\ req.at # "asked" /\ req.provider = "" => req.name.prefix = ""
  /\ /\ req.at \in {"routed", "refused"} /\ ~changed /\ req.name \notin DOMAIN alias
     /\ Fitting(req.name, req.provider) # {}
     => req.server \in Fitting(req.name, req.provider)
  /\ req.at = "refused" => req.server \in blocked \/ ~Allowed(req.server, req.name)

LEMMA RouteInitially == RoutingInit => RouteInv
BY DEF RoutingInit, RouteInv

\* The step that routes.
LEMMA RouteStep ==
  ASSUME RouteInv, Route
  PROVE  /\ RouteInv'
         /\ req'.at = "routed" /\ req.name \notin DOMAIN alias /\ Fitting(req.name, req.provider) # {}
            => /\ req'.server \in Fitting(req.name, req.provider)
               /\ strategy = "least busy" => \A b \in Fitting(req.name, req.provider) : load[req'.server] <= load[b]
<1>1. UNCHANGED <<config, changed>> /\ req.at = "resolved"
  BY DEF Route
<1>2. UNCHANGED <<listed, hosts, alias, permits, blocked, load, strategy, changed>>
  BY <1>1 DEF config
<1>3. /\ DOMAIN req' = DOMAIN req /\ req'.name = req.name /\ req'.provider = req.provider
      /\ req'.at \in {"no server", "no provider", "routed"}
  BY DEF Route, RouteInv
<1>4. ASSUME req'.at = "routed", req.name \notin DOMAIN alias PROVE req'.server \in Targets(req.name, req.provider)
  BY <1>4 DEF Route, RouteInv, Unaliased
<1>5. req'.at = "routed" /\ req.name \notin DOMAIN alias /\ Fitting(req.name, req.provider) # {}
      => /\ req'.server \in Fitting(req.name, req.provider)
         /\ strategy = "least busy" => \A b \in Fitting(req.name, req.provider) : load[req'.server] <= load[b]
  BY <1>1, <1>4, TargetFits DEF RouteInv
<1>6. \A n, p : Fitting(n, p)' = Fitting(n, p)
  BY <1>2 DEF Fitting, Lists
<1>7. RouteInv'
  BY <1>1, <1>2, <1>3, <1>5, <1>6 DEF RouteInv
<1> QED
  BY <1>5, <1>7

LEMMA RouteNext ==
  ASSUME RouteInv, [RoutingNext]_routingVars
  PROVE  RouteInv'
<1>1. ASSUME Resolve PROVE RouteInv'
  <2>1. UNCHANGED <<listed, hosts, alias, permits, blocked, load, strategy, changed>>
    BY <1>1 DEF Resolve, config
  <2> DEFINE name == Unaliased(req.name)
  <2>2. /\ req' = [req EXCEPT !.at = "resolved", !.name = ResolvedName(name, req.provider),
                              !.provider = ResolvedProvider(name, req.provider)]
        /\ DOMAIN req = {"at", "name", "provider", "server"}
    BY <1>1 DEF Resolve, RouteInv
  <2> HIDE DEF name
  <2>3. /\ DOMAIN req' = DOMAIN req /\ req'.at = "resolved" /\ req'.name = ResolvedName(name, req.provider)
        /\ req'.provider = ResolvedProvider(name, req.provider)
    BY <2>2
  <2>4. req'.provider = "" => req'.name.prefix = ""
    <3>1. req'.provider = "" => req.provider = ""
      BY <2>3 DEF ResolvedProvider
    <3>2. req.provider = "" => req'.name = Bare(name)
      BY <2>3 DEF ResolvedName
    <3>3. Bare(name).prefix = ""
      BY DEF Bare
    <3> QED
      BY <3>1, <3>2, <3>3
  <2> QED
    BY <2>1, <2>2, <2>3, <2>4 DEF RouteInv
<1>2. ASSUME Route PROVE RouteInv'
  BY <1>2, RouteStep
<1>3. ASSUME Check PROVE RouteInv'
  <2>1. UNCHANGED <<listed, hosts, alias, permits, blocked, load, strategy, changed>> /\ req.at = "routed"
    BY <1>3 DEF Check, config
  <2>2. /\ DOMAIN req' = DOMAIN req /\ req'.name = req.name /\ req'.provider = req.provider /\ req'.server = req.server
        /\ req'.at = IF req.server \notin blocked /\ Allowed(req.server, req.name) THEN "forwarded" ELSE "refused"
    BY <1>3 DEF Check, RouteInv
  <2>3. /\ \A n, p : Fitting(n, p)' = Fitting(n, p)
        /\ \A b, n : Allowed(b, n)' = Allowed(b, n)
    BY <2>1 DEF Fitting, Lists, Allowed
  <2> QED
    BY <2>1, <2>2, <2>3 DEF RouteInv
<1>4. ASSUME ChangeConfig PROVE RouteInv'
  <2>1. changed' = TRUE /\ req' = req /\ req.at # "refused"
    BY <1>4 DEF ChangeConfig
  <2>2. listed' \subseteq Server
    BY <1>4 DEF ChangeConfig, ChangePermits, ChangeServers, RegisterServer, CreateAlias, DeleteAlias, RouteInv
  <2> QED
    BY <2>1, <2>2 DEF RouteInv
<1>5. ASSUME UNCHANGED routingVars PROVE RouteInv'
  BY <1>5 DEF routingVars, RouteInv, Fitting, Lists, Allowed
<1> QED
  BY <1>1, <1>2, <1>3, <1>4, <1>5 DEF RoutingNext

\* Who is refused although nothing changed had no server that fits, or rows that
\* do not allow every model.
LEMMA RefusedWell == RouteInv => ServedIfPermitted
<1> SUFFICES ASSUME RouteInv, req.at = "refused", ~changed, blocked = {}, req.name \notin DOMAIN alias,
                    Fitting(req.name, req.provider) # {}
             PROVE  \E b \in DOMAIN permits : AnyName \notin permits[b]
  BY DEF ServedIfPermitted
<1>1. req.server \in Fitting(req.name, req.provider) /\ ~Allowed(req.server, req.name)
  BY DEF RouteInv
<1>2. req.server \in DOMAIN permits /\ AnyName \notin permits[req.server]
  BY <1>1 DEF Fitting, Allowed
<1> QED
  BY <1>2

(* A request goes to a server that its owner has a row for, that lists the  *)
(* model and is of the provider, if there is one, and under "least busy" to *)
(* none that is busier than another; and nobody is refused who could have   *)
(* been served (RoutedWell): for any servers, kinds, names, rows, aliases    *)
(* and registered models, whatever managers change on the way.              *)
THEOREM AlwaysRoutedWell == RoutingSpec => RoutedWell
<1> DEFINE ToHost == req.at = "resolved" /\ req'.at = "routed" /\ req.name \notin DOMAIN alias =>
       LET fits == Fitting(req.name, req.provider)
       IN  fits # {} => /\ req'.server \in fits
                        /\ strategy = "least busy" => \A b \in fits : load[req'.server] <= load[b]
<1>1. RouteInv /\ [RoutingNext]_routingVars => RouteInv'
  BY RouteNext
<1>2. RouteInv /\ [RoutingNext]_routingVars => [ToHost]_routingVars
  <2> SUFFICES ASSUME RouteInv, RoutingNext, req.at = "resolved", req'.at = "routed",
                      req.name \notin DOMAIN alias, Fitting(req.name, req.provider) # {}
               PROVE  /\ req'.server \in Fitting(req.name, req.provider)
                      /\ strategy = "least busy" =>
                           \A b \in Fitting(req.name, req.provider) : load[req'.server] <= load[b]
    OBVIOUS
  <2>1. Route
    BY DEF RoutingNext, Resolve, Check, ChangeConfig
  <2> QED
    BY <2>1, RouteStep
<1>3. RoutedToHost <=> [][ToHost]_routingVars
  BY DEF RoutedToHost
<1> HIDE DEF ToHost
<1> QED
  BY <1>1, <1>2, <1>3, RouteInitially, RefusedWell, PTL DEF RoutingSpec, RoutedWell

-----------------------------------------------------------------------------
(* Accounts, for every set of sessions, accounts, invites and changes.     *)

AccountsNext == PeopleNext \/ ProjectNext
AccountsVars == <<sessionVars, accountVars>>
Start == SessionsInit(0) /\ \E S \in SUBSET Account : \E start \in [S -> Accounts] :
           /\ \E u \in S : Admin(start[u]) /\ start[u].active
           /\ AccountsInit(start, {NoProject} \cup Projects)

LEMMA SpecForm == AccountsSpec <=> Start /\ [][AccountsNext]_AccountsVars
BY DEF AccountsSpec, Start, AccountsNext, AccountsVars

-----------------------------------------------------------------------------
(* What is known of a request from its operation and its stage.            *)

\* An operation tells which kind of request it is.
LEMMA Kinds ==
  ASSUME NEW h \in Requests
  PROVE  /\ h.op = "none" => h = NoRequest
         /\ h.op = "key" => h \in Asking
         /\ h.op \in {"create", "update", "delete"} => h \in Managing \cup Managed
         /\ h.op = "patch" => h \in Patching \cup Patched
         /\ h.op \in {"add", "remove"} => h \in Administering
         /\ h.op = "register" => h \in Joining
         /\ h.at = "checked" => h \in Asking \cup Managed \cup Joining
<1>1. CASE h = NoRequest
  BY <1>1 DEF NoRequest
<1>2. CASE h \in Asking
  BY <1>2 DEF Asking
<1>3. CASE h \in Managing
  BY <1>3 DEF Managing
<1>4. CASE h \in Managed
  BY <1>4 DEF Managed
<1>5. CASE h \in Patching
  BY <1>5 DEF Patching
<1>6. CASE h \in Patched
  BY <1>6 DEF Patched
<1>7. CASE h \in Administering
  BY <1>7 DEF Administering
<1>8. CASE h \in Joining
  BY <1>8 DEF Joining
<1> QED
  BY <1>1, <1>2, <1>3, <1>4, <1>5, <1>6, <1>7, <1>8 DEF Requests

\* A session's next stage changes that session alone.
LEMMA OneHand ==
  ASSUME hand \in [Session -> Requests], NEW s \in Session, NEW x \in Requests,
         hand' = [hand EXCEPT ![s] = x]
  PROVE  /\ hand' \in [Session -> Requests]
         /\ hand'[s] = x
         /\ \A q \in Session : q # s => hand'[q] = hand[q]
OBVIOUS

LEMMA NoRequestType == NoRequest \in Requests
BY DEF Requests

\* A change of one column gives a row again.
LEMMA RowType ==
  ASSUME NEW u \in Accounts, NEW v \in Accounts, NEW c \in Changes
  PROVE  Written(u, v, c) \in Accounts
<1>1. c \in AllChanges
  BY AccountsAssumption
<1> QED
  BY <1>1 DEF Written, Change, AllChanges, Accounts, Roles

\* A request that is accepted is in hand.
LEMMA Accepted ==
  ASSUME AccountsTypeOK, NEW s \in Session, NEW x \in Requests, Accept(s, x)
  PROVE  hand' \in [Session -> Requests] /\ requests' \in Nat /\ overlapped' \in BOOLEAN
<1>1. hand' \in [Session -> Requests] /\ requests' \in Nat
  BY DEF AccountsTypeOK, Accept
<1>2. overlapped' \in BOOLEAN
  BY Zenon DEF Accept
<1> QED
  BY <1>1, <1>2

\* Every step keeps the state well typed.
LEMMA PeopleTypeStep == AccountsTypeOK /\ [AccountsNext]_AccountsVars => AccountsTypeOK'
<1> SUFFICES ASSUME AccountsTypeOK, [AccountsNext]_AccountsVars
             PROVE  AccountsTypeOK'
  OBVIOUS
<1> USE DEF AccountsTypeOK, sessionVars, userTables, projectTables, inviteTables
<1>a. \A n, k \in Nat : MostOf(n, k) \in Nat
  BY DEF MostOf
<1>c. \A h \in [Session -> Requests] :
        /\ Cardinality({q \in Session : h[q].op = "key" /\ h[q].at = "checked"}) \in Nat
        /\ Cardinality(Registering(h)) \in Nat
  BY SessionsAssumption, FS_Subset, FS_CardinalityType DEF Registering
<1>1. ASSUME NEW s \in Session, NEW by \in Account, AskKey(s, by)
      PROVE  AccountsTypeOK'
  <2>1. [op |-> "key", at |-> "signed in", by |-> by, as |-> users[by]] \in Requests
    BY <1>1 DEF AskKey, SignIn, Requests, Asking
  <2> QED
    BY <1>1, <2>1, Accepted DEF AskKey, SignIn, accountVars
<1>2. ASSUME NEW s \in Session, NEW by \in Account, NEW op \in {"create", "update", "delete"},
             NEW h \in Account, NEW m \in KeyLimits, AskProject(s, by, op, h, m)
      PROVE  AccountsTypeOK'
  <2>1. [op |-> op, at |-> "signed in", by |-> by, as |-> users[by],
         holder |-> IF Manager(users[by]) THEN h ELSE by, max |-> m] \in Requests
    BY <1>2 DEF AskProject, SignIn, Requests, Managing
  <2> QED
    BY <1>2, <2>1, Accepted DEF AskProject, SignIn, accountVars
<1>3. ASSUME NEW s \in Session, CheckKey(s)
      PROVE  AccountsTypeOK'
  <2>1. [hand[s] EXCEPT !.at = "checked"] \in Requests
    <3>1. hand[s] \in Asking
      BY <1>3, Kinds DEF CheckKey
    <3> QED
      BY <3>1 DEF Requests, Asking
  <2>2. hand' \in [Session -> Requests]
    BY <1>3, <2>1, NoRequestType DEF CheckKey, Stage, Finish, Proceed
  <2>3. crowd' \in Nat
    BY <1>3, <1>a, <1>c, <2>2 DEF CheckKey
  <2> QED
    BY <1>3, <2>2, <2>3 DEF CheckKey, Stage, Finish, Proceed
<1>4. ASSUME NEW s \in Session, CommitKey(s)
      PROVE  AccountsTypeOK'
  BY <1>4, NoRequestType DEF CommitKey, Finish, Proceed
<1>5. ASSUME NEW s \in Session, CheckProject(s)
      PROVE  AccountsTypeOK'
  <2>1. hand[s] \in Managing \cup Managed
    BY <1>5, Kinds DEF CheckProject
  <2>a. project.max \in Nat
    <3>1. CASE project = NoProject
      BY <3>1 DEF NoProject
    <3>2. CASE project \in Projects
      BY <3>2, AccountsAssumption DEF Projects
    <3> QED
      BY <3>1, <3>2
  <2>2. [op |-> hand[s].op, at |-> "checked", holder |-> hand[s].holder, max |-> hand[s].max,
         seen |-> project.max] \in Requests
    BY <1>5, <2>1, <2>a DEF CheckProject, Requests, Managing, Managed
  <2> QED
    BY <1>5, <2>2, NoRequestType DEF CheckProject, Finish, Proceed, accountVars
<1>6. ASSUME NEW s \in Session, CommitProject(s)
      PROVE  AccountsTypeOK'
  <2>1. hand[s] \in Managed
    BY <1>6, Kinds DEF CommitProject, Asking, Managed, Joining
  <2>2. hand[s].max \in KeyLimits /\ hand[s].holder \in Account /\ KeyLimits \subseteq Nat
    BY <2>1, AccountsAssumption DEF Managed
  <2>3. project' \in {NoProject} \cup Projects /\ cap' \in Nat /\ keys' \in Nat
    <3>1. CASE hand[s].op = "create"
      BY <1>6, <1>a, <2>2, <3>1 DEF CommitProject, Projects
    <3>2. CASE hand[s].op = "update"
      <4>1. CASE project = NoProject
        BY <1>6, <3>2, <4>1 DEF CommitProject
      <4>2. CASE project # NoProject
        <5>1. Column(project.max, hand[s].seen, hand[s].max) \in KeyLimits
          BY <2>2, <4>2 DEF Column, Projects
        <5>2. project \in Projects
          BY <4>2
        <5> QED
          BY <1>6, <1>a, <2>2, <3>2, <4>2, <5>1, <5>2 DEF CommitProject, Limit, Projects
      <4> QED
        BY <4>1, <4>2
    <3>3. CASE hand[s].op = "delete"
      BY <1>6, <3>3 DEF CommitProject
    <3> QED
      BY <1>6, <3>1, <3>2, <3>3 DEF CommitProject
  <2> QED
    BY <1>6, <2>3, NoRequestType DEF CommitProject, Finish, Proceed
<1>7. CASE RevokeKey
  BY <1>7 DEF RevokeKey
<1>8. ASSUME NEW s \in Session, NEW by \in Account, NEW t \in Account, NEW c \in Changes,
             AskUpdate(s, by, t, c)
      PROVE  AccountsTypeOK'
  <2>1. [op |-> "patch", at |-> "signed in", by |-> by, as |-> users[by], target |-> t, change |-> c] \in Requests
    BY <1>8 DEF AskUpdate, SignIn, Requests, Patching
  <2> QED
    BY <1>8, <2>1, Accepted DEF AskUpdate, SignIn, accountVars
<1>9. ASSUME NEW s \in Session, CheckUpdate(s)
      PROVE  AccountsTypeOK'
  <2>1. hand[s] \in Patching
    <3>1. hand[s] \in Patching \cup Patched /\ hand[s].at = "signed in"
      BY <1>9, Kinds DEF CheckUpdate
    <3> QED
      BY <3>1 DEF Patched
  <2>2. hand[s].target \in DOMAIN users =>
          [op |-> "patch", at |-> "allowed", as |-> hand[s].as, by |-> hand[s].by, target |-> hand[s].target,
           change |-> hand[s].change, seen |-> users[hand[s].target]] \in Requests
    BY <2>1 DEF Requests, Patching, Patched
  <2> QED
    BY <1>9, <2>2, NoRequestType DEF CheckUpdate, Finish, Proceed, accountVars
<1>10. ASSUME NEW s \in Session, CommitUpdate(s)
       PROVE  AccountsTypeOK'
  <2>1. hand[s] \in Patched
    BY <1>10, Kinds DEF CommitUpdate, Patching
  <2>2. \A u \in Accounts : Written(u, hand[s].seen, hand[s].change) \in Accounts
    BY <2>1, RowType DEF Patched
  <2>3. DOMAIN users' \subseteq Account /\ users' \in [DOMAIN users' -> Accounts]
    BY <1>10, <2>2 DEF CommitUpdate
  <2> QED
    BY <1>10, <2>3, NoRequestType DEF CommitUpdate, Finish, Proceed
<1>11. ASSUME NEW s \in Session, NEW by \in Account, NEW t \in Account, NEW op \in {"add", "remove"},
              NEW r \in NewRoles,
              AskAdmin(s, by, op, t, [role |-> r, super |-> FALSE, active |-> TRUE])
       PROVE  AccountsTypeOK'
  <2>1. [role |-> r, super |-> FALSE, active |-> TRUE] \in Accounts
    BY AccountsAssumption DEF Accounts
  <2>2. [op |-> op, at |-> "signed in", by |-> by, as |-> users[by], target |-> t,
         row |-> [role |-> r, super |-> FALSE, active |-> TRUE]] \in Requests
    BY <1>11, <2>1 DEF AskAdmin, SignIn, Requests, Administering
  <2> QED
    BY <1>11, <2>2, Accepted DEF AskAdmin, SignIn, accountVars
<1>b. \A t \in Account, u \in Accounts :
        Added(t, u) => DOMAIN users' \subseteq Account /\ users' \in [DOMAIN users' -> Accounts]
  BY DEF Added
<1>12. ASSUME NEW s \in Session, CommitAdmin(s)
       PROVE  AccountsTypeOK'
  <2>1. hand[s] \in Administering
    BY <1>12, Kinds DEF CommitAdmin
  <2>2. /\ DOMAIN users' \subseteq Account /\ users' \in [DOMAIN users' -> Accounts]
        /\ deletions' \in Nat
    <3>1. hand[s].target \in Account /\ hand[s].row \in Accounts
      BY <2>1 DEF Administering
    <3>2. CASE hand[s].op = "add"
      BY <1>12, <1>b, <3>1, <3>2 DEF CommitAdmin
    <3>3. CASE hand[s].op = "remove"
      <4> DEFINE left == [u \in DOMAIN users \ {hand[s].target} |-> users[u]]
      <4>1. users' = left /\ deletions' = deletions + 1
        BY <1>12, <3>3 DEF CommitAdmin
      <4>2. DOMAIN left \subseteq Account /\ left \in [DOMAIN left -> Accounts]
        OBVIOUS
      <4> QED
        BY <4>1, <4>2
    <3> QED
      BY <1>12, <3>2, <3>3 DEF CommitAdmin
  <2> QED
    BY <1>12, <2>2, NoRequestType DEF CommitAdmin, Finish, Proceed
<1>13. ASSUME NEW s \in Session, NEW t \in Account, NEW r \in NewRoles, NEW c \in Invite, Register(s, t, r, c)
       PROVE  AccountsTypeOK'
  <2>1. [role |-> r, super |-> FALSE, active |-> TRUE] \in Accounts
    BY AccountsAssumption DEF Accounts
  <2>2. [op |-> "register", at |-> "checked", target |-> t, code |-> c,
         row |-> [role |-> r, super |-> FALSE, active |-> TRUE]] \in Requests
    BY <2>1 DEF Requests, Joining
  <2>3. hand' \in [Session -> Requests]
    BY <1>13, <2>2 DEF Register, Accept
  <2>4. guests' \in Nat
    BY <1>13, <1>a, <1>c, <2>3 DEF Register
  <2> QED
    BY <1>13, <2>2, <2>3, <2>4, Accepted DEF Register
<1>14. ASSUME NEW s \in Session, CreateAccount(s)
       PROVE  AccountsTypeOK'
  <2>1. hand[s] \in Joining /\ [hand[s] EXCEPT !.at = "created"] \in Requests
    BY <1>14, Kinds DEF CreateAccount, Requests, Joining
  <2>2. hand' \in [Session -> Requests]
    BY <1>14, <2>1, NoRequestType DEF CreateAccount, Stage, Finish, Proceed
  <2>3. DOMAIN users' \subseteq Account /\ users' \in [DOMAIN users' -> Accounts]
    BY <1>14, <1>b, <2>1 DEF CreateAccount, Joining
  <2>4. uses' \in [Invite -> Nat]
    BY <1>14, <2>1 DEF CreateAccount, Joining
  <2> QED
    BY <1>14, <2>2, <2>3, <2>4 DEF CreateAccount, Stage, Finish, Proceed
<1>15. ASSUME NEW s \in Session, MarkInvite(s)
       PROVE  AccountsTypeOK'
  BY <1>15, NoRequestType DEF MarkInvite, Finish, Proceed
<1>16. ASSUME NEW c \in Invite, DeleteInvite(c)
       PROVE  AccountsTypeOK'
  BY <1>16 DEF DeleteInvite
<1>17. ASSUME NEW s \in Session, Cut(s)
       PROVE  AccountsTypeOK'
  BY <1>17, NoRequestType DEF Cut, Finish, Proceed
<1>18. CASE CreateDefaultAdmin
  <2>1. [role |-> "ADMIN", super |-> TRUE, active |-> TRUE] \in Accounts
    BY DEF Accounts, Roles
  <2> QED
    BY <1>18, <1>b, <2>1, AccountsAssumption DEF CreateDefaultAdmin
<1>19. CASE UNCHANGED AccountsVars
  BY <1>19 DEF AccountsVars, accountVars
<1> QED
  BY <1>1, <1>2, <1>3, <1>4, <1>5, <1>6, <1>7, <1>8, <1>9, <1>10, <1>11, <1>12, <1>13, <1>14, <1>15,
     <1>16, <1>17, <1>18, <1>19
  DEF AccountsNext, PeopleNext, ProjectNext

\* The initial states are well typed.
LEMMA PeopleTypeInit ==
  ASSUME SessionsInit(0), NEW S \in SUBSET Account, NEW start \in [S -> Accounts],
         AccountsInit(start, {NoProject} \cup Projects)
  PROVE  AccountsTypeOK
<1> USE DEF SessionsInit, AccountsInit
<1>1. hand \in [Session -> Requests] /\ requests \in Nat /\ overlapped \in BOOLEAN
  BY NoRequestType
<1>2. DOMAIN users = S /\ users \in [S -> Accounts]
  OBVIOUS
<1>3. cap \in Nat
  <2>1. CASE project = NoProject
    BY <2>1 DEF NoProject
  <2>2. CASE project \in Projects
    BY <2>2, AccountsAssumption DEF Projects
  <2> QED
    BY <2>1, <2>2
<1>4. invites \in [DOMAIN invites -> BOOLEAN] /\ DOMAIN invites \subseteq Invite
  OBVIOUS
<1> QED
  BY <1>1, <1>2, <1>3, <1>4 DEF AccountsTypeOK

-----------------------------------------------------------------------------
(* Who becomes an admin, and who ceases to be one.                         *)

\* What the checks let through is what the actor may do.
LEMMA PatchesStep ==
  AccountsTypeOK /\ PatchesInv /\ [AccountsNext]_AccountsVars => PatchesInv'
<1> SUFFICES ASSUME AccountsTypeOK, PatchesInv, [AccountsNext]_AccountsVars,
                    NEW q \in Session, hand'[q].op = "patch", hand'[q].at = "allowed"
             PROVE  UpdateAllowed(hand'[q].as, FALSE, hand'[q].seen, hand'[q].change)
  BY DEF PatchesInv
<1>a. hand \in [Session -> Requests]
  BY DEF AccountsTypeOK
<1>b. CASE hand'[q] = hand[q]
  BY <1>b DEF PatchesInv
<1>c. NoRequest.op # "patch"
  BY DEF NoRequest
<1>d. ASSUME NEW s \in Session, NEW x, Accept(s, x), x.op # "patch" \/ x.at # "allowed"
      PROVE  hand'[q] = hand[q]
  BY <1>a, <1>d DEF Accept
<1>1. ASSUME NEW s \in Session, NEW by \in Account, AskKey(s, by)
      PROVE  hand'[q] = hand[q]
  BY <1>1, <1>d DEF AskKey, SignIn
<1>2. ASSUME NEW s \in Session, NEW by \in Account, NEW op \in {"create", "update", "delete"},
             NEW h \in Account, NEW m \in KeyLimits, AskProject(s, by, op, h, m)
      PROVE  hand'[q] = hand[q]
  BY <1>2, <1>d DEF AskProject, SignIn
<1>3. ASSUME NEW s \in Session, CheckKey(s)
      PROVE  hand'[q] = hand[q]
  <2>1. hand[s] \in Asking
    BY <1>3, <1>a, Kinds DEF CheckKey
  <2>2. [hand[s] EXCEPT !.at = "checked"].at # "allowed"
    BY <2>1 DEF Asking
  <2> QED
    BY <1>3, <1>a, <1>c, <2>2 DEF CheckKey, Stage, Finish, Proceed
<1>4. ASSUME NEW s \in Session, CheckProject(s)
      PROVE  hand'[q] = hand[q]
  <2> DEFINE x == [op |-> hand[s].op, at |-> "checked", holder |-> hand[s].holder, max |-> hand[s].max,
                   seen |-> project.max]
  <2>1. hand' = [hand EXCEPT ![s] = x] \/ hand' = [hand EXCEPT ![s] = NoRequest]
    BY <1>4 DEF CheckProject, Finish, Proceed
  <2>2. x.at # "allowed"
    OBVIOUS
  <2> HIDE DEF x
  <2> QED
    BY <2>1, <2>2, <1>a, <1>c
<1>5. ASSUME NEW s \in Session, NEW by \in Account, NEW t \in Account, NEW c \in Changes, AskUpdate(s, by, t, c)
      PROVE  hand'[q] = hand[q]
  BY <1>5, <1>d DEF AskUpdate, SignIn
<1>6. ASSUME NEW s \in Session, CheckUpdate(s)
      PROVE  UpdateAllowed(hand'[q].as, FALSE, hand'[q].seen, hand'[q].change)
  <2>1. CASE q # s
    BY <1>6, <1>a, <1>b, <2>1 DEF CheckUpdate, Finish, Proceed
  <2>2. CASE q = s
    <3> DEFINE t == hand[s].target
    <3>1. /\ UpdateAllowed(hand[s].as, t = hand[s].by, users[t], hand[s].change)
          /\ hand'[s] = [op |-> "patch", at |-> "allowed", as |-> hand[s].as, by |-> hand[s].by,
                         target |-> t, change |-> hand[s].change, seen |-> users[t]]
      BY <1>6, <1>a, <1>c, <2>2 DEF CheckUpdate, Finish, Proceed
    <3>2. t # hand[s].by
      BY <3>1 DEF UpdateAllowed
    <3>3. (t = hand[s].by) = FALSE
      BY <3>2
    <3> QED
      BY <2>2, <3>1, <3>3 DEF UpdateAllowed
  <2> QED
    BY <2>1, <2>2
<1>7. ASSUME NEW s \in Session, NEW by \in Account, NEW t \in Account, NEW op \in {"add", "remove"}, NEW u,
             AskAdmin(s, by, op, t, u)
      PROVE  hand'[q] = hand[q]
  BY <1>7, <1>d DEF AskAdmin, SignIn
<1>8. ASSUME NEW s \in Session, NEW t \in Account, NEW r \in NewRoles, NEW c \in Invite, Register(s, t, r, c)
      PROVE  hand'[q] = hand[q]
  BY <1>8, <1>d DEF Register
<1>9. ASSUME NEW s \in Session, CreateAccount(s)
      PROVE  hand'[q] = hand[q]
  <2>1. hand[s] \in Joining
    BY <1>9, <1>a, Kinds DEF CreateAccount
  <2>2. [hand[s] EXCEPT !.at = "created"].at # "allowed"
    BY <2>1 DEF Joining
  <2> QED
    BY <1>9, <1>a, <1>c, <2>2 DEF CreateAccount, Stage, Finish, Proceed
<1>10. ASSUME NEW s \in Session,
              CommitKey(s) \/ CommitProject(s) \/ CommitUpdate(s) \/ CommitAdmin(s) \/ MarkInvite(s) \/ Cut(s)
       PROVE  hand'[q] = hand[q]
  BY <1>10, <1>a, <1>c
  DEF CommitKey, CommitProject, CommitUpdate, CommitAdmin, MarkInvite, Cut, Finish, Proceed
<1>11. CASE RevokeKey \/ CreateDefaultAdmin \/ (\E c \in Invite : DeleteInvite(c)) \/ UNCHANGED AccountsVars
  BY <1>11, <1>b DEF RevokeKey, CreateDefaultAdmin, DeleteInvite, AccountsVars, sessionVars
<1> QED
  BY <1>b, <1>1, <1>2, <1>3, <1>4, <1>5, <1>6, <1>7, <1>8, <1>9, <1>10, <1>11
  DEF AccountsNext, PeopleNext, ProjectNext

\* Rows of accounts that exist are changed by the commit of a change alone.
LEMMA RowsKept ==
  ASSUME AccountsTypeOK, [AccountsNext]_AccountsVars, \A s \in Session : ~CommitUpdate(s),
         NEW u \in DOMAIN users \cap DOMAIN users'
  PROVE  users'[u] = users[u]
<1>1. \A t, v : Added(t, v) => users'[u] = users[u]
  BY DEF Added
<1>2. ASSUME NEW s \in Session, CommitAdmin(s)
      PROVE  users'[u] = users[u]
  BY <1>1, <1>2 DEF CommitAdmin
<1>3. CASE CreateDefaultAdmin \/ \E s \in Session : CreateAccount(s)
  BY <1>1, <1>3 DEF CreateDefaultAdmin, CreateAccount
<1>4. ASSUME UNCHANGED users
      PROVE  users'[u] = users[u]
  BY <1>4
<1> QED
  BY <1>2, <1>3, <1>4
  DEF AccountsNext, PeopleNext, ProjectNext, AccountsVars, accountVars, userTables,
      AskKey, AskProject, CheckKey, CommitKey, CheckProject, CommitProject, RevokeKey,
      AskUpdate, CheckUpdate, AskAdmin, Register, MarkInvite, DeleteInvite, Cut

\* Who is an admin changes only as the checks allow.
LEMMA RightsStep ==
  ASSUME AccountsTypeOK, PatchesInv, [AccountsNext]_AccountsVars,
         NEW u \in DOMAIN users \cap DOMAIN users', Admin(users[u]) # Admin(users'[u])
  PROVE  \E s \in Session : /\ hand[s].op = "patch"
                            /\ hand'[s] = NoRequest
                            /\ Admin(hand[s].as) \/ ~Admin(hand[s].seen)
<1>1. PICK s \in Session : CommitUpdate(s)
  <2>1. users'[u] # users[u]
    OBVIOUS
  <2> QED
    BY <2>1, RowsKept
<1>2. hand[s].op = "patch" /\ hand[s].at = "allowed" /\ hand'[s] = NoRequest
  BY <1>1 DEF CommitUpdate, Finish, Proceed, AccountsTypeOK
<1>3. UpdateAllowed(hand[s].as, FALSE, hand[s].seen, hand[s].change)
  BY <1>2 DEF PatchesInv
<1>4. Admin(hand[s].as) \/ ~Admin(hand[s].seen)
  BY <1>3 DEF UpdateAllowed
<1> QED
  BY <1>2, <1>4

\* Whatever requests overlap, and whoever is made or deleted meanwhile, rights
\* of admins are given and taken by admins, or by managers on accounts that
\* were none when they were looked at.
THEOREM RightsAlwaysGuarded == AccountsSpec => RightsGuarded
<1> DEFINE Inv == AccountsTypeOK /\ PatchesInv
           Stands == \A u \in DOMAIN users \cap DOMAIN users' :
                     Admin(users[u]) # Admin(users'[u]) =>
                       \E s \in Session : /\ hand[s].op = "patch"
                                          /\ hand'[s] = NoRequest
                                          /\ Admin(hand[s].as) \/ ~Admin(hand[s].seen)
<1>1. Start => Inv
  <2>1. Start => AccountsTypeOK
    BY PeopleTypeInit DEF Start
  <2>2. SessionsInit(0) => PatchesInv
    BY DEF SessionsInit, PatchesInv, NoRequest
  <2> QED
    BY <2>1, <2>2 DEF Start
<1>2. Inv /\ [AccountsNext]_AccountsVars => Inv'
  BY PeopleTypeStep, PatchesStep
<1>3. Inv /\ [AccountsNext]_AccountsVars => [Stands]_accountVars
  BY RightsStep
<1>5. RightsGuarded <=> [][Stands]_accountVars
  BY DEF RightsGuarded
<1> HIDE DEF Inv, Stands
<1> QED
  BY <1>1, <1>2, <1>3, <1>5, SpecForm, PTL

-----------------------------------------------------------------------------
(* The limit on the keys of a project.                                     *)

CheckedKeys(h) == {q \in Session : h[q].op = "key" /\ h[q].at = "checked"}

LEMMA CheckedFinite ==
  \A h : IsFiniteSet(CheckedKeys(h)) /\ Cardinality(CheckedKeys(h)) \in Nat
BY SessionsAssumption, FS_Subset, FS_CardinalityType DEF CheckedKeys

\* With fewer sessions about to add a key, the limit is kept.
LEMMA FewerChecked ==
  ASSUME AccountsTypeOK, KeysInv, UNCHANGED projectTables, CheckedKeys(hand') \subseteq CheckedKeys(hand)
  PROVE  KeysInv'
<1>1. /\ Cardinality(CheckedKeys(hand')) <= Cardinality(CheckedKeys(hand))
      /\ Cardinality(CheckedKeys(hand')) \in Nat /\ Cardinality(CheckedKeys(hand)) \in Nat
  BY CheckedFinite, FS_Subset
<1>2. InHand("key", "checked") = CheckedKeys(hand) /\ InHand("key", "checked")' = CheckedKeys(hand')
  BY DEF InHand, CheckedKeys
<1>3. keys \in Nat /\ cap \in Nat /\ crowd \in Nat
  BY DEF AccountsTypeOK
<1> QED
  BY <1>1, <1>2, <1>3 DEF KeysInv, KeysWithinLimit, projectTables

\* A session that goes on to anything but a checked key is one of those.
LEMMA NotChecked ==
  ASSUME hand \in [Session -> Requests], NEW s \in Session, NEW x,
         hand' = [hand EXCEPT ![s] = x], x.op # "key" \/ x.at # "checked"
  PROVE  CheckedKeys(hand') \subseteq CheckedKeys(hand)
BY DEF CheckedKeys

\* The limits of a project.
LEMMA LimitType ==
  ASSUME AccountsTypeOK
  PROVE  /\ project.max \in Nat
         /\ project # NoProject => project.max > 0
         /\ cap \in Nat /\ keys \in Nat /\ crowd \in Nat
<1>1. CASE project = NoProject
  BY <1>1 DEF AccountsTypeOK, NoProject
<1>2. CASE project \in Projects
  BY <1>2, AccountsAssumption DEF AccountsTypeOK, Projects
<1> QED
  BY <1>1, <1>2 DEF AccountsTypeOK

LEMMA KeysStep == AccountsTypeOK /\ KeysInv /\ [AccountsNext]_AccountsVars => KeysInv'
<1> SUFFICES ASSUME AccountsTypeOK, KeysInv, [AccountsNext]_AccountsVars
             PROVE  KeysInv'
  OBVIOUS
<1>a. hand \in [Session -> Requests]
  BY DEF AccountsTypeOK
<1>b. NoRequest.op # "key"
  BY DEF NoRequest
<1>c. /\ project.max \in Nat /\ cap \in Nat /\ keys \in Nat /\ crowd \in Nat
      /\ project # NoProject => project.max > 0
  BY LimitType
<1>d. InHand("key", "checked") = CheckedKeys(hand) /\ InHand("key", "checked")' = CheckedKeys(hand')
  BY DEF InHand, CheckedKeys
<1>e. Cardinality(CheckedKeys(hand)) \in Nat /\ Cardinality(CheckedKeys(hand')) \in Nat
  BY CheckedFinite
<1>1. ASSUME NEW s \in Session, NEW x, Accept(s, x), x.op # "key" \/ x.at # "checked", UNCHANGED projectTables
      PROVE  KeysInv'
  BY <1>1, <1>a, NotChecked, FewerChecked DEF Accept
<1>2. CASE \E s \in Session, by \in Account : AskKey(s, by)
  BY <1>1, <1>2 DEF AskKey, SignIn, accountVars, projectTables
<1>3. ASSUME NEW s \in Session, NEW by \in Account, NEW op \in {"create", "update", "delete"},
             NEW h \in Account, NEW m \in KeyLimits, AskProject(s, by, op, h, m)
      PROVE  KeysInv'
  BY <1>1, <1>3 DEF AskProject, SignIn, accountVars, projectTables
<1>4. ASSUME NEW s \in Session, CheckKey(s)
      PROVE  KeysInv'
  <2>0. crowd' = MostOf(crowd, Cardinality(CheckedKeys(hand'))) /\ UNCHANGED <<project, keys, cap>>
    BY <1>4 DEF CheckKey, CheckedKeys
  <2>1. /\ crowd' \in Nat /\ crowd <= crowd' /\ Cardinality(CheckedKeys(hand')) <= crowd'
    BY <1>c, <1>e, <2>0 DEF MostOf
  <2>2. CASE ~(MayActOn(hand[s]) /\ RoomForKey)
    <3>1. hand' = [hand EXCEPT ![s] = NoRequest]
      BY <1>4, <2>2 DEF CheckKey, Finish, Proceed
    <3>2. Cardinality(CheckedKeys(hand')) <= Cardinality(CheckedKeys(hand))
      BY <1>a, <1>b, <3>1, NotChecked, CheckedFinite, FS_Subset
    <3> QED
      BY <1>c, <1>d, <1>e, <2>0, <2>1, <3>2 DEF KeysInv, KeysWithinLimit
  <2>3. CASE MayActOn(hand[s]) /\ RoomForKey
    BY <1>c, <1>d, <1>e, <2>0, <2>1, <2>3 DEF KeysInv, KeysWithinLimit, RoomForKey
  <2> QED
    BY <2>2, <2>3
<1>5. ASSUME NEW s \in Session, CommitKey(s)
      PROVE  KeysInv'
  <2>1. CheckedKeys(hand') = CheckedKeys(hand) \ {s} /\ s \in CheckedKeys(hand)
    BY <1>5, <1>a, <1>b DEF CommitKey, Finish, Proceed, CheckedKeys
  <2>2. Cardinality(CheckedKeys(hand')) = Cardinality(CheckedKeys(hand)) - 1
    BY <2>1, CheckedFinite, FS_RemoveElement
  <2>3. keys' = (IF project = NoProject THEN keys ELSE keys + 1) /\ UNCHANGED <<project, cap, crowd>>
    BY <1>5 DEF CommitKey
  <2> QED
    BY <1>c, <1>d, <1>e, <2>2, <2>3 DEF KeysInv, KeysWithinLimit
<1>6. ASSUME NEW s \in Session, CheckProject(s)
      PROVE  KeysInv'
  <2> DEFINE x == [op |-> hand[s].op, at |-> "checked", holder |-> hand[s].holder, max |-> hand[s].max,
                   seen |-> project.max]
  <2>1. (hand' = [hand EXCEPT ![s] = x] \/ hand' = [hand EXCEPT ![s] = NoRequest]) /\ x.op # "key"
    BY <1>6 DEF CheckProject, Finish, Proceed
  <2>2. UNCHANGED projectTables
    BY <1>6 DEF CheckProject, accountVars, projectTables
  <2> HIDE DEF x
  <2> QED
    BY <1>a, <1>b, <2>1, <2>2, NotChecked, FewerChecked
<1>7. ASSUME NEW s \in Session, CommitProject(s)
      PROVE  KeysInv'
  <2>1. hand' = [hand EXCEPT ![s] = NoRequest] /\ UNCHANGED crowd
    BY <1>7 DEF CommitProject, Finish, Proceed
  <2>2. Cardinality(CheckedKeys(hand')) <= Cardinality(CheckedKeys(hand))
    BY <1>a, <1>b, <2>1, NotChecked, CheckedFinite, FS_Subset
  <2>3. hand[s] \in Managed
    BY <1>7, <1>a, Kinds DEF CommitProject, Asking, Managed, Joining
  <2>4. hand[s].max \in Nat \ {0}
    BY <2>3, AccountsAssumption DEF Managed
  <2>5. CASE hand[s].op = "create"
    <3>1. CASE project = NoProject
      <4>1. project'.max = hand[s].max /\ cap' = MostOf(cap, hand[s].max) /\ keys' = keys
        BY <1>7, <2>5, <3>1 DEF CommitProject
      <4> QED
        BY <1>c, <1>d, <1>e, <2>1, <2>2, <2>4, <3>1, <4>1 DEF KeysInv, KeysWithinLimit, MostOf, NoProject
    <3>2. CASE project # NoProject
      <4>1. UNCHANGED <<project, cap, keys>>
        BY <1>7, <2>5, <3>2 DEF CommitProject
      <4> QED
        BY <1>c, <1>d, <1>e, <2>1, <2>2, <4>1 DEF KeysInv, KeysWithinLimit
    <3> QED
      BY <3>1, <3>2
  <2>6. CASE hand[s].op = "update"
    <3>1. CASE project = NoProject
      <4>1. UNCHANGED <<project, cap, keys>>
        BY <1>7, <2>6, <3>1 DEF CommitProject
      <4> QED
        BY <1>c, <1>d, <1>e, <2>1, <2>2, <4>1 DEF KeysInv, KeysWithinLimit
    <3>2. CASE project # NoProject
      <4> DEFINE n == Column(project.max, hand[s].seen, hand[s].max)
      <4>1. n \in Nat \ {0}
        BY <1>c, <2>4, <3>2 DEF Column
      <4>2. project' = [project EXCEPT !.max = n] /\ cap' = MostOf(cap, n) /\ keys' = keys
        BY <1>7, <2>6, <3>2 DEF CommitProject, Limit
      <4>3. project'.max = n
        <5>1. project \in Projects
          BY <3>2 DEF AccountsTypeOK
        <5> QED
          BY <4>2, <5>1 DEF Projects
      <4>4. project' # NoProject
        BY <4>1, <4>3 DEF NoProject
      <4> HIDE DEF n
      <4> QED
        BY <1>c, <1>d, <1>e, <2>1, <2>2, <3>2, <4>1, <4>2, <4>3, <4>4 DEF KeysInv, KeysWithinLimit, MostOf
    <3> QED
      BY <3>1, <3>2
  <2>7. CASE hand[s].op = "delete"
    <3>1. project' = NoProject /\ keys' = 0 /\ cap' = cap
      BY <1>7, <2>7 DEF CommitProject
    <3> QED
      BY <1>c, <1>d, <1>e, <2>1, <2>2, <3>1 DEF KeysInv, KeysWithinLimit, NoProject
  <2> QED
    BY <1>7, <2>5, <2>6, <2>7 DEF CommitProject
<1>8. CASE RevokeKey
  <2>1. CheckedKeys(hand') = CheckedKeys(hand)
    BY <1>8 DEF RevokeKey, sessionVars
  <2> QED
    BY <1>8, <1>c, <1>d, <1>e, <2>1 DEF RevokeKey, KeysInv, KeysWithinLimit
<1>9. ASSUME NEW s \in Session, NEW by \in Account, NEW t \in Account, NEW c \in Changes, AskUpdate(s, by, t, c)
      PROVE  KeysInv'
  BY <1>1, <1>9 DEF AskUpdate, SignIn, accountVars, projectTables
<1>10. ASSUME NEW s \in Session, CheckUpdate(s)
       PROVE  KeysInv'
  <2> DEFINE t == hand[s].target
             x == [op |-> "patch", at |-> "allowed", as |-> hand[s].as, by |-> hand[s].by,
                   target |-> t, change |-> hand[s].change, seen |-> users[t]]
  <2>1. (hand' = [hand EXCEPT ![s] = x] \/ hand' = [hand EXCEPT ![s] = NoRequest]) /\ x.op # "key"
    BY <1>10 DEF CheckUpdate, Finish, Proceed
  <2>2. UNCHANGED projectTables
    BY <1>10 DEF CheckUpdate, accountVars, projectTables
  <2> HIDE DEF x
  <2> QED
    BY <1>a, <1>b, <2>1, <2>2, NotChecked, FewerChecked
<1>11. ASSUME NEW s \in Session, NEW by \in Account, NEW t \in Account, NEW op \in {"add", "remove"}, NEW u,
              AskAdmin(s, by, op, t, u)
       PROVE  KeysInv'
  BY <1>1, <1>11 DEF AskAdmin, SignIn, accountVars, projectTables
<1>12. ASSUME NEW s \in Session, NEW t \in Account, NEW r \in NewRoles, NEW c \in Invite, Register(s, t, r, c)
       PROVE  KeysInv'
  BY <1>1, <1>12 DEF Register, projectTables
<1>13. ASSUME NEW s \in Session, CreateAccount(s)
       PROVE  KeysInv'
  <2>1. [hand[s] EXCEPT !.at = "created"].op # "key"
    <3>1. hand[s] \in Joining
      BY <1>13, <1>a, Kinds DEF CreateAccount
    <3> QED
      BY <3>1 DEF Joining
  <2>2. \/ hand' = [hand EXCEPT ![s] = [hand[s] EXCEPT !.at = "created"]]
        \/ hand' = [hand EXCEPT ![s] = NoRequest]
    BY <1>13 DEF CreateAccount, Stage, Finish, Proceed
  <2>3. UNCHANGED projectTables
    BY <1>13 DEF CreateAccount, projectTables
  <2> QED
    BY <1>a, <1>b, <2>1, <2>2, <2>3, NotChecked, FewerChecked
<1>14. ASSUME NEW s \in Session, CommitUpdate(s) \/ CommitAdmin(s) \/ MarkInvite(s) \/ Cut(s)
       PROVE  KeysInv'
  <2>1. hand' = [hand EXCEPT ![s] = NoRequest] /\ UNCHANGED projectTables
    BY <1>14 DEF CommitUpdate, CommitAdmin, MarkInvite, Cut, Finish, Proceed, projectTables
  <2> QED
    BY <1>a, <1>b, <2>1, NotChecked, FewerChecked
<1>15. CASE CreateDefaultAdmin \/ (\E c \in Invite : DeleteInvite(c)) \/ UNCHANGED AccountsVars
  <2>1. CheckedKeys(hand') = CheckedKeys(hand) /\ UNCHANGED projectTables
    BY <1>15 DEF CreateDefaultAdmin, DeleteInvite, AccountsVars, accountVars, sessionVars, projectTables
  <2> QED
    BY <2>1, FewerChecked
<1> QED
  BY <1>2, <1>3, <1>4, <1>5, <1>6, <1>7, <1>8, <1>9, <1>10, <1>11, <1>12, <1>13, <1>14, <1>15
  DEF AccountsNext, PeopleNext, ProjectNext

-----------------------------------------------------------------------------
(* Invites.                                                                *)

LEMMA RegisteringFinite ==
  \A c : /\ IsFiniteSet(Coming(c)) /\ Cardinality(Coming(c)) \in Nat
        /\ IsFiniteSet(Unmarked(c)) /\ Cardinality(Unmarked(c)) \in Nat
BY SessionsAssumption, FS_Subset, FS_CardinalityType DEF Coming, Unmarked

LEMMA ComingFinite ==
  \A c : Cardinality(Coming(c)') \in Nat /\ Cardinality(Unmarked(c)') \in Nat
BY SessionsAssumption, FS_Subset, FS_CardinalityType DEF Coming, Unmarked

\* NoRequestType happens to the invites if no registration moves.
LEMMA InvitesKept ==
  ASSUME InvitesInv, UNCHANGED inviteTables,
         \A c \in Invite : Coming(c)' = Coming(c) /\ Unmarked(c)' = Unmarked(c)
  PROVE  InvitesInv'
BY DEF InvitesInv, InviteOpen, inviteTables

LEMMA OtherOps ==
  ASSUME hand \in [Session -> Requests], InvitesInv, UNCHANGED inviteTables, NEW s \in Session, NEW x,
         hand' = [hand EXCEPT ![s] = x], hand[s].op # "register", x.op # "register"
  PROVE  InvitesInv'
<1>1. \A c \in Invite : Coming(c)' = Coming(c) /\ Unmarked(c)' = Unmarked(c)
  BY DEF Coming, Unmarked
<1> QED
  BY <1>1, InvitesKept

\* A code that is open has been used by those who will mark it and those that
\* were cut off; with the newcomer, all of them are registering at once.
LEMMA RegisterInvites ==
  ASSUME AccountsTypeOK, InvitesInv, RequireInvite,
         NEW s \in Session, NEW t \in Account, NEW r \in NewRoles, NEW d \in Invite, Register(s, t, r, d)
  PROVE  InvitesInv'
<1> DEFINE x == [op |-> "register", at |-> "checked", target |-> t, code |-> d,
                 row |-> [role |-> r, super |-> FALSE, active |-> TRUE]]
<1>0. /\ hand \in [Session -> Requests] /\ uses \in [Invite -> Nat] /\ guests \in Nat /\ lost \in Nat
  BY DEF AccountsTypeOK
<1>1. /\ hand[s] = NoRequest /\ hand' = [hand EXCEPT ![s] = x] /\ InviteOpen(d)
      /\ guests' = MostOf(guests, Cardinality(Registering(hand')))
      /\ UNCHANGED <<invites, uses, lost>>
  BY DEF Register, Accept
<1>2. x.op = "register" /\ x.at = "checked" /\ x.code = d /\ NoRequest.op # "register"
  BY DEF NoRequest
<1> HIDE DEF x
<1>3. /\ \A c \in Invite : Unmarked(c)' = Unmarked(c)
      /\ \A c \in Invite : c # d => Coming(c)' = Coming(c)
  BY <1>0, <1>1, <1>2 DEF Coming, Unmarked
<1>4. /\ IsFiniteSet(Registering(hand')) /\ Cardinality(Registering(hand')) \in Nat
  BY SessionsAssumption, FS_Subset, FS_CardinalityType DEF Registering
<1>5. Cardinality(Coming(d)') + Cardinality(Unmarked(d)') <= Cardinality(Registering(hand'))
  <2>1. /\ Coming(d)' \cap Unmarked(d)' = {}
        /\ Coming(d)' \cup Unmarked(d)' \subseteq Registering(hand')
    BY DEF Coming, Unmarked, Registering
  <2>2. /\ IsFiniteSet(Coming(d)') /\ IsFiniteSet(Unmarked(d)')
        /\ Cardinality(Coming(d)' \cup Unmarked(d)') <= Cardinality(Registering(hand'))
    BY <1>4, <2>1, FS_Subset
  <2>3. Cardinality(Coming(d)' \cup Unmarked(d)')
          = Cardinality(Coming(d)') + Cardinality(Unmarked(d)') - Cardinality(Coming(d)' \cap Unmarked(d)')
    BY <2>2, FS_Union
  <2>4. Cardinality(Coming(d)' \cap Unmarked(d)') = 0
    BY <2>1, FS_EmptySet
  <2> QED
    BY <2>2, <2>3, <2>4, ComingFinite
<1>6. guests' \in Nat /\ guests <= guests' /\ Cardinality(Registering(hand')) <= guests'
  BY <1>0, <1>1, <1>4 DEF MostOf
<1>7. ASSUME NEW c \in Invite
      PROVE  /\ InviteOpen(c)' => uses'[c] <= Cardinality(Unmarked(c)') + lost'
             /\ uses'[c] + Cardinality(Coming(c)') <= guests' + lost'
  <2>1. InviteOpen(c)' = InviteOpen(c)
    BY <1>1 DEF InviteOpen
  <2>2. /\ InviteOpen(c) => uses[c] <= Cardinality(Unmarked(c)) + lost
        /\ uses[c] + Cardinality(Coming(c)) <= guests + lost
        /\ uses[c] \in Nat
    BY <1>0 DEF InvitesInv
  <2>3. CASE c # d
    BY <1>0, <1>1, <1>3, <1>6, <2>1, <2>2, <2>3, RegisteringFinite
  <2>4. CASE c = d
    <3>1. uses[d] <= Cardinality(Unmarked(d)) + lost /\ uses[d] \in Nat
      BY <1>1, <2>2, <2>4
    <3>2. Cardinality(Unmarked(d)') = Cardinality(Unmarked(d))
      BY <1>3
    <3>3. uses'[d] <= Cardinality(Unmarked(d)') + lost' /\ uses'[d] + Cardinality(Coming(d)') <= guests' + lost'
      BY <1>0, <1>1, <1>5, <1>6, <3>1, <3>2, <1>4, RegisteringFinite, ComingFinite
    <3> QED
      BY <2>4, <3>3
  <2> QED
    BY <2>3, <2>4
<1> QED
  BY <1>7 DEF InvitesInv

\* The account comes before the mark: a use is one registration on its way less.
LEMMA CreateInvites ==
  ASSUME AccountsTypeOK, InvitesInv, RequireInvite, NEW s \in Session, CreateAccount(s),
         NEW d, d = hand[s].code
  PROVE  InvitesInv'
<1>0. /\ hand \in [Session -> Requests] /\ uses \in [Invite -> Nat] /\ guests \in Nat /\ lost \in Nat
  BY DEF AccountsTypeOK
<1>1. hand[s] \in Joining /\ hand[s].op = "register" /\ hand[s].at = "checked"
  BY <1>0, Kinds DEF CreateAccount
<1>2. d \in Invite /\ NoRequest.op # "register"
  BY <1>1 DEF Joining, NoRequest
<1>3. UNCHANGED <<invites, guests, lost>>
  BY DEF CreateAccount
<1>4. /\ \A c \in Invite : c # d => uses'[c] = uses[c] /\ Coming(c)' = Coming(c) /\ Unmarked(c)' = Unmarked(c)
      /\ Coming(d)' = Coming(d) \ {s} /\ s \in Coming(d) /\ s \notin Unmarked(d)
      /\ \/ uses'[d] = uses[d] /\ Unmarked(d)' = Unmarked(d)
         \/ uses'[d] = uses[d] + 1 /\ Unmarked(d)' = Unmarked(d) \cup {s}
  <2>1. CASE hand[s].target \notin DOMAIN users
    <3> DEFINE x == [hand[s] EXCEPT !.at = "created"]
    <3>1. hand' = [hand EXCEPT ![s] = x] /\ uses' = [uses EXCEPT ![d] = @ + 1]
      BY <2>1 DEF CreateAccount, Stage, Proceed
    <3>2. x.op = "register" /\ x.at = "created" /\ x.code = d
      BY <1>1 DEF Joining
    <3> HIDE DEF x
    <3> QED
      BY <1>0, <1>1, <1>2, <3>1, <3>2 DEF Coming, Unmarked
  <2>2. CASE hand[s].target \in DOMAIN users
    <3>1. hand' = [hand EXCEPT ![s] = NoRequest] /\ uses' = uses
      BY <2>2 DEF CreateAccount, Finish, Proceed
    <3> QED
      BY <1>0, <1>1, <1>2, <3>1 DEF Coming, Unmarked
  <2> QED
    BY <2>1, <2>2
<1>5. /\ Cardinality(Coming(d)') = Cardinality(Coming(d)) - 1
      /\ Cardinality(Unmarked(d) \cup {s}) = Cardinality(Unmarked(d)) + 1
  <2>1. Cardinality(Coming(d) \ {s}) = Cardinality(Coming(d)) - 1
    <3>1. IsFiniteSet(Coming(d)) /\ s \in Coming(d)
      BY <1>4, RegisteringFinite
    <3> QED
      BY <3>1, FS_RemoveElement
  <2>2. Cardinality(Unmarked(d) \cup {s}) = Cardinality(Unmarked(d)) + 1
    <3>1. IsFiniteSet(Unmarked(d)) /\ s \notin Unmarked(d)
      BY <1>4, RegisteringFinite
    <3> QED
      BY <3>1, FS_AddElement
  <2> QED
    BY <1>4, <2>1, <2>2
<1>6. ASSUME NEW c \in Invite
      PROVE  /\ InviteOpen(c)' => uses'[c] <= Cardinality(Unmarked(c)') + lost'
             /\ uses'[c] + Cardinality(Coming(c)') <= guests' + lost'
  <2>1. InviteOpen(c)' = InviteOpen(c)
    BY <1>3 DEF InviteOpen
  <2>2. /\ InviteOpen(c) => uses[c] <= Cardinality(Unmarked(c)) + lost
        /\ uses[c] + Cardinality(Coming(c)) <= guests + lost
        /\ uses[c] \in Nat
    BY <1>0 DEF InvitesInv
  <2>3. CASE c # d
    BY <1>3, <1>4, <2>1, <2>2, <2>3
  <2>4. CASE c = d
    <3>1. /\ InviteOpen(d) => uses[d] <= Cardinality(Unmarked(d)) + lost
          /\ uses[d] + Cardinality(Coming(d)) <= guests + lost
          /\ uses[d] \in Nat /\ InviteOpen(d)' = InviteOpen(d)
      BY <2>1, <2>2, <2>4
    <3>2. Cardinality(Coming(d)) \in Nat /\ Cardinality(Unmarked(d)) \in Nat
      BY RegisteringFinite
    <3>3. CASE uses'[d] = uses[d] /\ Unmarked(d)' = Unmarked(d)
      BY <1>0, <1>3, <1>5, <2>4, <3>1, <3>2, <3>3
    <3>4. CASE uses'[d] = uses[d] + 1 /\ Unmarked(d)' = Unmarked(d) \cup {s}
      <4>1. Cardinality(Unmarked(d)') = Cardinality(Unmarked(d)) + 1
        BY <1>5, <3>4
      <4> QED
        BY <1>0, <1>3, <1>5, <2>4, <3>1, <3>2, <3>4, <4>1
    <3> QED
      BY <1>4, <3>3, <3>4
  <2> QED
    BY <2>3, <2>4
<1> QED
  BY <1>6 DEF InvitesInv

\* The mark, or a cut, ends a registration; a code that is marked or withdrawn
\* stays closed.
LEMMA LeaveInvites ==
  ASSUME AccountsTypeOK, InvitesInv, RequireInvite, NEW s \in Session,
         hand[s].op = "register", MarkInvite(s) \/ Cut(s), NEW d, d = hand[s].code
  PROVE  InvitesInv'
<1>0. /\ hand \in [Session -> Requests] /\ uses \in [Invite -> Nat] /\ guests \in Nat /\ lost \in Nat
  BY DEF AccountsTypeOK
<1>1. hand[s] \in Joining /\ d \in Invite /\ hand[s].at \in {"checked", "created"}
  BY <1>0, Kinds DEF Joining
<1>2. hand' = [hand EXCEPT ![s] = NoRequest] /\ NoRequest.op # "register"
  BY DEF MarkInvite, Cut, Finish, Proceed, NoRequest
<1>3. /\ \A c \in Invite : c # d => Coming(c)' = Coming(c) /\ Unmarked(c)' = Unmarked(c)
      /\ \/ hand[s].at = "checked" /\ s \in Coming(d) /\ Coming(d)' = Coming(d) \ {s} /\ Unmarked(d)' = Unmarked(d)
         \/ hand[s].at = "created" /\ s \in Unmarked(d) /\ Unmarked(d)' = Unmarked(d) \ {s} /\ Coming(d)' = Coming(d)
  BY <1>0, <1>1, <1>2 DEF Coming, Unmarked
<1>4. /\ s \in Coming(d) => Cardinality(Coming(d) \ {s}) = Cardinality(Coming(d)) - 1
      /\ s \in Unmarked(d) => Cardinality(Unmarked(d) \ {s}) = Cardinality(Unmarked(d)) - 1
  BY RegisteringFinite, FS_RemoveElement
<1>5. \/ lost' = lost + 1 /\ UNCHANGED <<invites, uses, guests>>
      \/ /\ hand[s].at = "created" /\ UNCHANGED <<uses, guests, lost>>
         /\ d \in DOMAIN invites => invites' = [invites EXCEPT ![d] = TRUE]
         /\ d \notin DOMAIN invites => invites' = invites
  BY DEF MarkInvite, Cut
<1>6. ASSUME NEW c \in Invite
      PROVE  /\ InviteOpen(c)' => uses'[c] <= Cardinality(Unmarked(c)') + lost'
             /\ uses'[c] + Cardinality(Coming(c)') <= guests' + lost'
  <2>1. /\ InviteOpen(c) => uses[c] <= Cardinality(Unmarked(c)) + lost
        /\ uses[c] + Cardinality(Coming(c)) <= guests + lost
        /\ uses[c] \in Nat
    BY <1>0 DEF InvitesInv
  <2>2. CASE c # d
    <3>1. InviteOpen(c)' => InviteOpen(c)
      BY <1>5, <2>2 DEF InviteOpen
    <3> QED
      BY <1>0, <1>3, <1>5, <2>1, <2>2, <3>1, RegisteringFinite
  <2>3. CASE c = d /\ lost' = lost + 1 /\ UNCHANGED <<invites, uses, guests>>
    <3>1. InviteOpen(c)' = InviteOpen(c)
      BY <2>3 DEF InviteOpen
    <3>2. /\ Cardinality(Coming(c)) \in Nat /\ Cardinality(Unmarked(c)) \in Nat
          /\ Cardinality(Coming(c)') \in Nat /\ Cardinality(Unmarked(c)') \in Nat
      BY RegisteringFinite, ComingFinite
    <3>3. /\ Cardinality(Coming(d)') <= Cardinality(Coming(d))
          /\ Cardinality(Unmarked(d)) <= Cardinality(Unmarked(d)') + 1
      <4>1. /\ Cardinality(Coming(d)) \in Nat /\ Cardinality(Unmarked(d)) \in Nat
        BY RegisteringFinite
      <4>2. CASE s \in Coming(d) /\ Coming(d)' = Coming(d) \ {s} /\ Unmarked(d)' = Unmarked(d)
        BY <1>4, <4>1, <4>2
      <4>3. CASE s \in Unmarked(d) /\ Unmarked(d)' = Unmarked(d) \ {s} /\ Coming(d)' = Coming(d)
        BY <1>4, <4>1, <4>3
      <4> QED
        BY <1>3, <4>2, <4>3
    <3> QED
      BY <1>0, <2>1, <2>3, <3>1, <3>2, <3>3
  <2>4. CASE c = d /\ hand[s].at = "created" /\ UNCHANGED <<uses, guests, lost>> /\ ~InviteOpen(d)'
    BY <1>0, <1>3, <2>1, <2>4, RegisteringFinite
  <2>5. d \in DOMAIN invites /\ invites' = [invites EXCEPT ![d] = TRUE] => ~InviteOpen(d)'
    BY DEF InviteOpen
  <2>6. d \notin DOMAIN invites /\ invites' = invites => ~InviteOpen(d)'
    BY DEF InviteOpen
  <2> QED
    BY <1>5, <2>2, <2>3, <2>4, <2>5, <2>6
<1> QED
  BY <1>6 DEF InvitesInv

LEMMA InvitesStep == AccountsTypeOK /\ InvitesInv /\ [AccountsNext]_AccountsVars => InvitesInv'
<1> SUFFICES ASSUME AccountsTypeOK, InvitesInv, [AccountsNext]_AccountsVars, RequireInvite
             PROVE  InvitesInv'
  BY DEF InvitesInv
<1>a. hand \in [Session -> Requests]
  BY DEF AccountsTypeOK
<1>b. NoRequest.op # "register"
  BY DEF NoRequest
<1>1. ASSUME NEW s \in Session, NEW x, Accept(s, x), x.op # "register", UNCHANGED inviteTables
      PROVE  InvitesInv'
  BY <1>1, <1>a, <1>b, OtherOps DEF Accept
<1>2. ASSUME NEW s \in Session, NEW by \in Account, AskKey(s, by)
      PROVE  InvitesInv'
  BY <1>1, <1>2 DEF AskKey, SignIn, accountVars, inviteTables
<1>3. ASSUME NEW s \in Session, NEW by \in Account, NEW op \in {"create", "update", "delete"},
             NEW h \in Account, NEW m \in KeyLimits, AskProject(s, by, op, h, m)
      PROVE  InvitesInv'
  BY <1>1, <1>3 DEF AskProject, SignIn, accountVars, inviteTables
<1>4. ASSUME NEW s \in Session, NEW by \in Account, NEW t \in Account, NEW c \in Changes, AskUpdate(s, by, t, c)
      PROVE  InvitesInv'
  BY <1>1, <1>4 DEF AskUpdate, SignIn, accountVars, inviteTables
<1>5. ASSUME NEW s \in Session, NEW by \in Account, NEW t \in Account, NEW op \in {"add", "remove"}, NEW u,
             AskAdmin(s, by, op, t, u)
      PROVE  InvitesInv'
  BY <1>1, <1>5 DEF AskAdmin, SignIn, accountVars, inviteTables
<1>c. ASSUME NEW s \in Session, NEW x, hand[s].op # "register", x.op # "register", UNCHANGED inviteTables,
             hand' = [hand EXCEPT ![s] = x] \/ hand' = [hand EXCEPT ![s] = NoRequest]
      PROVE  InvitesInv'
  BY <1>a, <1>b, <1>c, OtherOps
<1>6. ASSUME NEW s \in Session, CheckKey(s)
      PROVE  InvitesInv'
  <2>1. hand[s] \in Asking
    BY <1>6, <1>a, Kinds DEF CheckKey
  <2>2. [hand[s] EXCEPT !.at = "checked"].op # "register"
    BY <2>1 DEF Asking
  <2> QED
    BY <1>6, <1>c, <2>2 DEF CheckKey, Stage, Finish, Proceed, inviteTables
<1>7. ASSUME NEW s \in Session, CheckProject(s)
      PROVE  InvitesInv'
  <2> DEFINE x == [op |-> hand[s].op, at |-> "checked", holder |-> hand[s].holder, max |-> hand[s].max,
                   seen |-> project.max]
  <2>1. hand[s].op # "register" /\ x.op # "register" /\ UNCHANGED inviteTables
    BY <1>7 DEF CheckProject, accountVars, inviteTables
  <2>2. hand' = [hand EXCEPT ![s] = x] \/ hand' = [hand EXCEPT ![s] = NoRequest]
    BY <1>7 DEF CheckProject, Finish, Proceed
  <2> QED
    BY <1>c, <2>1, <2>2
<1>8. ASSUME NEW s \in Session, CheckUpdate(s)
      PROVE  InvitesInv'
  <2> DEFINE x == [op |-> "patch", at |-> "allowed", as |-> hand[s].as, by |-> hand[s].by,
                   target |-> hand[s].target, change |-> hand[s].change, seen |-> users[hand[s].target]]
  <2>1. hand[s].op # "register" /\ x.op # "register" /\ UNCHANGED inviteTables
    BY <1>8 DEF CheckUpdate, accountVars, inviteTables
  <2>2. hand' = [hand EXCEPT ![s] = x] \/ hand' = [hand EXCEPT ![s] = NoRequest]
    BY <1>8 DEF CheckUpdate, Finish, Proceed
  <2> QED
    BY <1>c, <2>1, <2>2
<1>9. ASSUME NEW s \in Session, CommitKey(s) \/ CommitProject(s) \/ CommitUpdate(s) \/ CommitAdmin(s)
      PROVE  InvitesInv'
  <2>1. hand[s].op # "register" /\ UNCHANGED inviteTables /\ hand' = [hand EXCEPT ![s] = NoRequest]
    BY <1>9 DEF CommitKey, CommitProject, CommitUpdate, CommitAdmin, Finish, Proceed, inviteTables
  <2> QED
    BY <1>b, <1>c, <2>1
<1>10. ASSUME NEW s \in Session, NEW t \in Account, NEW r \in NewRoles, NEW c \in Invite, Register(s, t, r, c)
       PROVE  InvitesInv'
  BY <1>10, RegisterInvites
<1>11. ASSUME NEW s \in Session, CreateAccount(s)
       PROVE  InvitesInv'
  BY <1>11, CreateInvites
<1>12. ASSUME NEW s \in Session, MarkInvite(s) \/ Cut(s)
       PROVE  InvitesInv'
  <2>1. CASE hand[s].op = "register"
    BY <1>12, <2>1, LeaveInvites
  <2>2. CASE hand[s].op # "register"
    <3>1. UNCHANGED inviteTables /\ hand' = [hand EXCEPT ![s] = NoRequest]
      BY <1>12, <2>2 DEF MarkInvite, Cut, Finish, Proceed, inviteTables
    <3> QED
      BY <1>b, <1>c, <2>2, <3>1
  <2> QED
    BY <2>1, <2>2
<1>13. ASSUME NEW d \in Invite, DeleteInvite(d)
       PROVE  InvitesInv'
  <2>1. \A c \in Invite : /\ Coming(c)' = Coming(c) /\ Unmarked(c)' = Unmarked(c)
                          /\ InviteOpen(c)' => InviteOpen(c)
    BY <1>13 DEF DeleteInvite, sessionVars, Coming, Unmarked, InviteOpen
  <2>2. UNCHANGED <<uses, guests, lost>>
    BY <1>13 DEF DeleteInvite
  <2> QED
    BY <2>1, <2>2 DEF InvitesInv
<1>14. CASE RevokeKey \/ CreateDefaultAdmin \/ UNCHANGED AccountsVars
  <2>1. UNCHANGED <<hand, inviteTables>>
    BY <1>14 DEF RevokeKey, CreateDefaultAdmin, AccountsVars, accountVars, sessionVars, inviteTables
  <2> QED
    BY <2>1, InvitesKept DEF Coming, Unmarked
<1> QED
  BY <1>2, <1>3, <1>4, <1>5, <1>6, <1>7, <1>8, <1>9, <1>10, <1>11, <1>12, <1>13, <1>14
  DEF AccountsNext, PeopleNext, ProjectNext

-----------------------------------------------------------------------------
(* The last admin.                                                         *)

\* A request that overlaps no other finds nothing in hand.
LEMMA AcceptedAlone ==
  ASSUME AccountsTypeOK, AdminInv, NEW s \in Session, NEW x, Accept(s, x), ~overlapped'
  PROVE  /\ ~overlapped
         /\ \A q \in Session : q # s => hand[q] = NoRequest /\ hand'[q] = NoRequest
         /\ hand'[s] = x
<1>1. hand' = [hand EXCEPT ![s] = x] /\ hand \in [Session -> Requests]
  BY DEF Accept, AccountsTypeOK
<1>2. ~overlapped /\ ~\E other \in Session \ {s} : hand[other] # NoRequest
  BY Zenon DEF Accept
<1> QED
  BY <1>1, <1>2

\* The last admin stays if the accounts do.
LEMMA AdminKept ==
  ASSUME AdminRemains, ~overlapped, UNCHANGED <<users, deletions>>
  PROVE  AdminRemains'
BY DEF AdminRemains

\* The one request in hand moves on.
LEMMA MovesAlone ==
  ASSUME AccountsTypeOK, AdminInv, ~overlapped, NEW s \in Session, hand[s] # NoRequest, NEW x,
         hand' = [hand EXCEPT ![s] = x]
  PROVE  /\ \A q \in Session : q # s => hand[q] = NoRequest /\ hand'[q] = NoRequest
         /\ hand'[s] = x
<1>1. hand \in [Session -> Requests]
  BY DEF AccountsTypeOK
<1> QED
  BY <1>1 DEF AdminInv

\* A request in hand that changes no account.
LEMMA OneInHand ==
  ASSUME NEW s \in Session, \A q \in Session : q # s => hand'[q] = NoRequest,
         hand'[s].op # "patch", AdminRemains'
  PROVE  AdminInv'
BY DEF AdminInv, NoRequest

LEMMA QuietMove ==
  ASSUME AccountsTypeOK, AdminInv, NEW s \in Session, hand[s] # NoRequest, NEW x,
         hand' = [hand EXCEPT ![s] = x], x.op # "patch", UNCHANGED <<overlapped, users, deletions>>
  PROVE  AdminInv'
<1>1. CASE overlapped
  BY <1>1 DEF AdminInv
<1>2. CASE ~overlapped
  <2>1. /\ \A q \in Session : q # s => hand'[q] = NoRequest
        /\ hand'[s] = x
    BY <1>2, MovesAlone
  <2>2. AdminRemains'
    BY <1>2 DEF AdminInv, AdminRemains
  <2> QED
    BY <2>1, <2>2, OneInHand
<1> QED
  BY <1>1, <1>2

\* Accounts that are added take no rights away.
LEMMA AddedKeeps ==
  ASSUME NEW t, NEW v, Added(t, v)
  PROVE  \A u \in DOMAIN users : u \in DOMAIN users' /\ users'[u] = users[u]
BY DEF Added

LEMMA MoreAccounts ==
  ASSUME ~overlapped, deletions = 0, AdminRemains,
         \A u \in DOMAIN users : u \in DOMAIN users' /\ users'[u] = users[u]
  PROVE  AdminRemains'
<1>1. PICK u \in DOMAIN users : Admin(users[u]) /\ users[u].active
  BY DEF AdminRemains
<1>2. u \in DOMAIN users' /\ Admin(users'[u]) /\ users'[u].active
  BY <1>1
<1> QED
  BY <1>2 DEF AdminRemains

\* The commit of a change made alone leaves an admin: its actor, if that is one,
\* or else whoever was, for the target was none.
LEMMA UpdateKeepsAdmin ==
  ASSUME AccountsTypeOK, AdminInv, PatchesInv, ~overlapped, deletions = 0,
         NEW s \in Session, CommitUpdate(s)
  PROVE  \E u \in DOMAIN users' : Admin(users'[u]) /\ users'[u].active
<1> DEFINE by == hand[s].by
           t == hand[s].target
<1>1. hand[s].op = "patch" /\ hand[s].at = "allowed"
  BY DEF CommitUpdate
<1>2. /\ by \in DOMAIN users /\ hand[s].as = users[by] /\ hand[s].as.active
      /\ t \in DOMAIN users /\ t # by /\ hand[s].seen = users[t]
      /\ AdminRemains
  BY <1>1 DEF AdminInv
<1>3. UpdateAllowed(hand[s].as, FALSE, hand[s].seen, hand[s].change)
  BY <1>1 DEF PatchesInv
<1>4. \A u \in DOMAIN users : u # t => u \in DOMAIN users' /\ users'[u] = users[u]
  BY <1>2 DEF CommitUpdate
<1>5. CASE Admin(hand[s].as)
  BY <1>2, <1>4, <1>5
<1>6. CASE ~Admin(hand[s].as)
  <2>1. ~Admin(users[t])
    BY <1>2, <1>3, <1>6 DEF UpdateAllowed
  <2>2. PICK u \in DOMAIN users : Admin(users[u]) /\ users[u].active
    BY <1>2 DEF AdminRemains
  <2> QED
    BY <1>4, <2>1, <2>2
<1> QED
  BY <1>5, <1>6

LEMMA AdminStep ==
  AccountsTypeOK /\ PatchesInv /\ AdminInv /\ [AccountsNext]_AccountsVars => AdminInv'
<1> SUFFICES ASSUME AccountsTypeOK, PatchesInv, AdminInv, [AccountsNext]_AccountsVars
             PROVE  AdminInv'
  OBVIOUS
<1>a. hand \in [Session -> Requests] /\ deletions \in Nat
  BY DEF AccountsTypeOK
<1>b. NoRequest.op = "none" /\ NoRequest.at = "none"
  BY DEF NoRequest
<1>1. ASSUME NEW s \in Session, NEW x, Accept(s, x), x.op # "patch", UNCHANGED <<users, deletions>>
      PROVE  AdminInv'
  <2>1. CASE overlapped'
    BY <2>1 DEF AdminInv
  <2>2. CASE ~overlapped'
    <3>1. /\ ~overlapped /\ hand'[s] = x
          /\ \A q \in Session : q # s => hand'[q] = NoRequest
      BY <1>1, <2>2, AcceptedAlone
    <3>2. AdminRemains'
      BY <1>1, <3>1 DEF AdminInv, AdminRemains
    <3> QED
      BY <1>1, <3>1, <3>2, OneInHand
  <2> QED
    BY <2>1, <2>2
<1>2. ASSUME NEW s \in Session, NEW by \in Account, AskKey(s, by)
      PROVE  AdminInv'
  BY <1>1, <1>2 DEF AskKey, SignIn, accountVars
<1>3. ASSUME NEW s \in Session, NEW by \in Account, NEW op \in {"create", "update", "delete"},
             NEW h \in Account, NEW m \in KeyLimits, AskProject(s, by, op, h, m)
      PROVE  AdminInv'
  BY <1>1, <1>3 DEF AskProject, SignIn, accountVars
<1>4. ASSUME NEW s \in Session, NEW by \in Account, NEW t \in Account, NEW op \in {"add", "remove"}, NEW u,
             AskAdmin(s, by, op, t, u)
      PROVE  AdminInv'
  BY <1>1, <1>4 DEF AskAdmin, SignIn, accountVars
<1>5. ASSUME NEW s \in Session, NEW t \in Account, NEW r \in NewRoles, NEW c \in Invite, Register(s, t, r, c)
      PROVE  AdminInv'
  BY <1>1, <1>5 DEF Register, userTables
<1>6. ASSUME NEW s \in Session, NEW by \in Account, NEW t \in Account, NEW c \in Changes, AskUpdate(s, by, t, c)
      PROVE  AdminInv'
  <2> DEFINE x == [op |-> "patch", at |-> "signed in", by |-> by, as |-> users[by], target |-> t, change |-> c]
  <2>1. Accept(s, x) /\ UNCHANGED <<users, deletions>> /\ by \in DOMAIN users /\ users[by].active
    BY <1>6 DEF AskUpdate, SignIn, accountVars
  <2>2. CASE overlapped'
    BY <2>2 DEF AdminInv
  <2>3. CASE ~overlapped'
    <3>1. /\ ~overlapped /\ hand'[s] = x
          /\ \A q \in Session : q # s => hand'[q] = NoRequest
      BY <2>1, <2>3, AcceptedAlone
    <3>2. AdminRemains'
      BY <2>1, <3>1 DEF AdminInv, AdminRemains
    <3>3. x.op = "patch" /\ x.at = "signed in" /\ x.by = by /\ x.as = users[by]
      OBVIOUS
    <3> HIDE DEF x
    <3> QED
      BY <1>b, <2>1, <3>1, <3>2, <3>3 DEF AdminInv
  <2> QED
    BY <2>2, <2>3
<1>7. ASSUME NEW s \in Session, CheckKey(s)
      PROVE  AdminInv'
  <2>1. hand[s] \in Asking /\ hand[s] # NoRequest
    BY <1>7, <1>a, <1>b, Kinds DEF CheckKey
  <2>2. [hand[s] EXCEPT !.at = "checked"].op # "patch"
    BY <2>1 DEF Asking
  <2>3. UNCHANGED <<overlapped, users, deletions>>
    BY <1>7 DEF CheckKey, Stage, Finish, Proceed, userTables
  <2> QED
    BY <1>7, <1>b, <2>1, <2>2, <2>3, QuietMove DEF CheckKey, Stage, Finish, Proceed
<1>8. ASSUME NEW s \in Session, CheckProject(s)
      PROVE  AdminInv'
  <2> DEFINE x == [op |-> hand[s].op, at |-> "checked", holder |-> hand[s].holder, max |-> hand[s].max,
                   seen |-> project.max]
  <2>1. /\ hand' = [hand EXCEPT ![s] = x] \/ hand' = [hand EXCEPT ![s] = NoRequest]
        /\ UNCHANGED <<overlapped, users, deletions>>
    BY <1>8 DEF CheckProject, Finish, Proceed, accountVars
  <2>2. hand[s] # NoRequest /\ x.op # "patch"
    BY <1>8, <1>b DEF CheckProject
  <2> HIDE DEF x
  <2> QED
    BY <1>b, <2>1, <2>2, QuietMove
<1>9. ASSUME NEW s \in Session, CommitKey(s) \/ CommitProject(s) \/ MarkInvite(s) \/ Cut(s)
      PROVE  AdminInv'
  <2>1. hand[s] # NoRequest
    BY <1>9, <1>b DEF CommitKey, CommitProject, MarkInvite, Cut
  <2>2. hand' = [hand EXCEPT ![s] = NoRequest] /\ UNCHANGED <<overlapped, users, deletions>>
    BY <1>9 DEF CommitKey, CommitProject, MarkInvite, Cut, Finish, Proceed, userTables
  <2> QED
    BY <1>b, <2>1, <2>2, QuietMove
<1>10. ASSUME NEW s \in Session, CheckUpdate(s), ~overlapped
       PROVE  AdminInv'
  <2> DEFINE t == hand[s].target
             x == [op |-> "patch", at |-> "allowed", as |-> hand[s].as, by |-> hand[s].by,
                   target |-> t, change |-> hand[s].change, seen |-> users[t]]
  <2>1. hand[s].op = "patch" /\ hand[s] # NoRequest /\ UNCHANGED <<overlapped, users, deletions>>
    BY <1>10, <1>b DEF CheckUpdate, Finish, Proceed, accountVars
  <2>2. CASE hand' = [hand EXCEPT ![s] = NoRequest]
    BY <1>b, <2>1, <2>2, QuietMove
  <2>3. CASE hand' # [hand EXCEPT ![s] = NoRequest]
    <3>1. /\ hand' = [hand EXCEPT ![s] = x]
          /\ t \in DOMAIN users /\ UpdateAllowed(hand[s].as, t = hand[s].by, users[t], hand[s].change)
      BY <1>10, <2>3 DEF CheckUpdate, Finish, Proceed
    <3>2. t # hand[s].by
      BY <3>1 DEF UpdateAllowed
    <3>3. x.op = "patch" /\ x.by = hand[s].by /\ x.as = hand[s].as /\ x.target = t /\ x.seen = users[t]
      OBVIOUS
    <3>4. /\ hand'[s] = x
          /\ \A q \in Session : q # s => hand'[q] = NoRequest
      BY <1>10, <2>1, <3>1, MovesAlone
    <3>5. AdminRemains'
      BY <1>10, <2>1 DEF AdminInv, AdminRemains
    <3> HIDE DEF x
    <3>6. deletions' = 0 => /\ hand'[s].by \in DOMAIN users' /\ hand'[s].as = users'[hand'[s].by]
                            /\ hand'[s].as.active
                            /\ hand'[s].target \in DOMAIN users' /\ hand'[s].target # hand'[s].by
                            /\ hand'[s].seen = users'[hand'[s].target]
      BY <1>10, <2>1, <3>1, <3>2, <3>3, <3>4 DEF AdminInv
    <3> QED
      BY <1>b, <3>4, <3>5, <3>6 DEF AdminInv
  <2> QED
    BY <2>2, <2>3
<1>11. ASSUME NEW s \in Session, CommitUpdate(s), ~overlapped
       PROVE  AdminInv'
  <2>1. /\ hand' = [hand EXCEPT ![s] = NoRequest] /\ UNCHANGED <<overlapped, deletions>>
        /\ hand[s] # NoRequest
    BY <1>11, <1>b DEF CommitUpdate, Finish, Proceed
  <2>2. AdminRemains'
    BY <1>11, <2>1, UpdateKeepsAdmin DEF AdminRemains
  <2> QED
    BY <1>11, <1>b, <2>1, <2>2, MovesAlone, OneInHand
<1>12. ASSUME NEW s \in Session, CommitAdmin(s), ~overlapped
       PROVE  AdminInv'
  <2>1. /\ hand' = [hand EXCEPT ![s] = NoRequest] /\ UNCHANGED overlapped
        /\ hand[s] # NoRequest
    BY <1>12, <1>b DEF CommitAdmin, Finish, Proceed
  <2>2. AdminRemains'
    <3>1. CASE hand[s].op = "add"
      BY <1>12, <2>1, <3>1, AddedKeeps, MoreAccounts DEF CommitAdmin, AdminInv, AdminRemains
    <3>2. CASE hand[s].op = "remove"
      <4>1. deletions' # 0
        <5>1. deletions' = deletions + 1
          BY <1>12, <3>2 DEF CommitAdmin
        <5> QED
          BY <1>a, <5>1
      <4> QED
        BY <4>1 DEF AdminRemains
    <3> QED
      BY <1>12, <3>1, <3>2 DEF CommitAdmin
  <2> QED
    BY <1>12, <1>b, <2>1, <2>2, MovesAlone, OneInHand
<1>13. ASSUME NEW s \in Session, CreateAccount(s), ~overlapped
       PROVE  AdminInv'
  <2> DEFINE x == [hand[s] EXCEPT !.at = "created"]
  <2>1. /\ hand' = [hand EXCEPT ![s] = x] \/ hand' = [hand EXCEPT ![s] = NoRequest]
        /\ UNCHANGED <<overlapped, deletions>> /\ hand[s] # NoRequest
    BY <1>13, <1>b DEF CreateAccount, Stage, Finish, Proceed
  <2>2. x.op # "patch"
    <3>1. hand[s] \in Joining
      BY <1>13, <1>a, Kinds DEF CreateAccount
    <3> QED
      BY <3>1 DEF Joining
  <2>3. AdminRemains'
    BY <1>13, <2>1, AddedKeeps, MoreAccounts DEF CreateAccount, AdminInv, AdminRemains
  <2> HIDE DEF x
  <2> QED
    BY <1>13, <1>b, <2>1, <2>2, <2>3, MovesAlone, OneInHand
<1>14. CASE RevokeKey \/ (\E c \in Invite : DeleteInvite(c)) \/ UNCHANGED AccountsVars
  <2>1. UNCHANGED <<hand, overlapped, users, deletions>>
    BY <1>14 DEF RevokeKey, DeleteInvite, AccountsVars, accountVars, sessionVars, userTables
  <2> QED
    BY <2>1 DEF AdminInv, AdminRemains
<1>15. CASE CreateDefaultAdmin
  <2>1. /\ UNCHANGED <<hand, overlapped, deletions>>
        /\ \A u \in DOMAIN users : u \in DOMAIN users' /\ users'[u] = users[u]
    BY <1>15, AddedKeeps DEF CreateDefaultAdmin, sessionVars
  <2>2. ~overlapped /\ deletions = 0 => AdminRemains'
    BY <2>1, MoreAccounts DEF AdminInv
  <2> QED
    BY <2>1, <2>2 DEF AdminInv
<1>16. overlapped /\ UNCHANGED overlapped => AdminInv'
  BY DEF AdminInv
<1>17. ASSUME NEW s \in Session, CheckUpdate(s) \/ CommitUpdate(s) \/ CommitAdmin(s) \/ CreateAccount(s)
       PROVE  UNCHANGED overlapped
  BY <1>17 DEF CheckUpdate, CommitUpdate, CommitAdmin, CreateAccount, Stage, Finish, Proceed
<1> QED
  BY <1>2, <1>3, <1>4, <1>5, <1>6, <1>7, <1>8, <1>9, <1>10, <1>11, <1>12, <1>13, <1>14, <1>15, <1>16, <1>17
  DEF AccountsNext, PeopleNext, ProjectNext

-----------------------------------------------------------------------------
(* The initial states, and the theorem.                                    *)

LEMMA InvInit == Start => AccountsTypeOK /\ PatchesInv /\ KeysInv /\ InvitesInv /\ AdminInv
<1> SUFFICES ASSUME Start
             PROVE  AccountsTypeOK /\ PatchesInv /\ KeysInv /\ InvitesInv /\ AdminInv
  OBVIOUS
<1>1. PICK S \in SUBSET Account : \E start \in [S -> Accounts] :
        /\ \E u \in S : Admin(start[u]) /\ start[u].active
        /\ AccountsInit(start, {NoProject} \cup Projects)
  BY DEF Start
<1>2. PICK start \in [S -> Accounts] :
        /\ \E u \in S : Admin(start[u]) /\ start[u].active
        /\ AccountsInit(start, {NoProject} \cup Projects)
  BY <1>1
<1>3. AccountsTypeOK
  BY <1>2, PeopleTypeInit DEF Start
<1>4. \A s \in Session : hand[s] = NoRequest
  BY DEF Start, SessionsInit
<1>5. NoRequest.op = "none"
  BY DEF NoRequest
<1>6. PatchesInv
  BY <1>4, <1>5 DEF PatchesInv
<1>7. KeysInv
  <2>1. InHand("key", "checked") = {}
    BY <1>4, <1>5 DEF InHand
  <2>2. Cardinality(InHand("key", "checked")) = 0
    BY <2>1, FS_EmptySet
  <2>3. cap = project.max /\ keys = 0 /\ crowd = 0
    BY <1>2 DEF AccountsInit
  <2> QED
    BY <1>3, <2>2, <2>3, LimitType DEF KeysInv, KeysWithinLimit
<1>8. InvitesInv
  <2>1. \A c : Coming(c) = {} /\ Unmarked(c) = {}
    BY <1>4, <1>5 DEF Coming, Unmarked
  <2>2. \A c \in Invite : uses[c] = 0 /\ guests = 0 /\ lost = 0
    BY <1>2 DEF AccountsInit
  <2>3. \A c : Cardinality(Coming(c)) = 0 /\ Cardinality(Unmarked(c)) = 0
    BY <2>1, FS_EmptySet
  <2> QED
    BY <2>2, <2>3 DEF InvitesInv
<1>9. AdminInv
  <2>1. users = start
    BY <1>2 DEF AccountsInit
  <2>2. AdminRemains
    BY <1>2, <2>1 DEF AdminRemains
  <2> QED
    BY <1>4, <1>5, <2>2 DEF AdminInv
<1> QED
  BY <1>3, <1>6, <1>7, <1>8, <1>9

\* However many requests overlap, and wherever they are cut off, the keys of a
\* project, the uses of an invite and the loss of the last admin keep within
\* what the overlaps account for.
THEOREM LimitsAlwaysKept == AccountsSpec => []AccountLimits
<1> DEFINE Inv == AccountsTypeOK /\ PatchesInv /\ KeysInv /\ InvitesInv /\ AdminInv
<1>1. Start => Inv
  BY InvInit
<1>2. Inv /\ [AccountsNext]_AccountsVars => Inv'
  BY PeopleTypeStep, PatchesStep, KeysStep, InvitesStep, AdminStep
<1>3. Inv => AccountLimits
  <2> SUFFICES ASSUME Inv
               PROVE  AccountLimits
    OBVIOUS
  <2>1. KeysWithinLimit
    BY DEF KeysInv
  <2>2. InviteSpentOnce
    <3> SUFFICES ASSUME RequireInvite, NEW c \in Invite
                 PROVE  uses[c] <= MostOf(1, guests) + lost
      BY DEF InviteSpentOnce
    <3>1. uses[c] + Cardinality(Coming(c)) <= guests + lost
      BY DEF InvitesInv
    <3>2. uses[c] \in Nat /\ guests \in Nat /\ lost \in Nat
      BY DEF AccountsTypeOK
    <3> QED
      BY <3>1, <3>2, RegisteringFinite DEF MostOf
  <2>3. AdminRemains
    BY DEF AdminInv, AdminRemains
  <2> QED
    BY <2>1, <2>2, <2>3 DEF AccountLimits
<1> HIDE DEF Inv
<1> QED
  BY <1>1, <1>2, <1>3, SpecForm, PTL

-----------------------------------------------------------------------------
(* Federation.                                                             *)

fedVars == <<sessionVars, federationVars>>

-----------------------------------------------------------------------------
(* Types.                                                                  *)

LEMMA RowTypes ==
  /\ Gone \in Rows /\ NoList \in [row : Rows, until : Int] /\ NoQuery \in [row : Rows, since : Int]
  /\ Sleeping \in [at : Stages, row : Rows, cached : BOOLEAN, answer : Offered, base : Rows, since : Int]
BY DEF Gone, NoList, NoQuery, Sleeping, Rows, Stages, Offered

LEMMA NoEdit == NoRequest \notin Edits
BY DEF NoRequest, Edits

LEMMA Bounds == ListTtl \in Nat /\ Patience \in Nat /\ MaxMoment \in Nat
BY FederationAssumption

\* Where the loop goes with a row, that row is what it holds.
LEMMA GoToType ==
  ASSUME FederationTypeOK, NEW w \in Replica, NEW at \in Stages, NEW row \in Rows, NEW cached \in BOOLEAN,
         polling' = GoTo(w, at, row, cached)
  PROVE  /\ polling' \in [Replica -> [at : Stages, row : Rows, cached : BOOLEAN, answer : Offered, base : Rows, since : Int]]
         /\ polling'[w].at = at /\ polling'[w].row = row /\ polling'[w].since = moment
         /\ \A u \in Replica : u # w => polling'[u] = polling[u]
<1> DEFINE pass == [Sleeping EXCEPT !.at = at, !.row = row, !.cached = cached, !.since = moment]
<1>1. pass \in [at : Stages, row : Rows, cached : BOOLEAN, answer : Offered, base : Rows, since : Int]
  <2>1. moment \in Int
    BY DEF FederationTypeOK
  <2>2. Sleeping \in [at : Stages, row : Rows, cached : BOOLEAN, answer : Offered, base : Rows, since : Int]
    BY RowTypes
  <2> QED
    BY <2>1, <2>2
<1>2. pass.at = at /\ pass.row = row /\ pass.since = moment
  BY DEF Sleeping
<1>3. polling' = [polling EXCEPT ![w] = pass]
  BY DEF GoTo
<1> HIDE DEF pass
<1> QED
  BY <1>1, <1>2, <1>3 DEF FederationTypeOK

LEMMA RelistType ==
  ASSUME FederationTypeOK, NEW w \in Replica, NEW entry \in [row : Rows, until : Int], Relist(w, entry)
  PROVE  /\ listing' \in [Replica -> [row : Rows, until : Int]]
         /\ listing'[w] = entry /\ \A u \in Replica : u # w => listing'[u] = listing[u]
         /\ polling' \in [Replica -> [at : Stages, row : Rows, cached : BOOLEAN, answer : Offered, base : Rows, since : Int]]
         /\ \A u \in Replica : /\ polling'[u].at = polling[u].at /\ polling'[u].row = polling[u].row
                               /\ polling'[u].since = polling[u].since
BY DEF FederationTypeOK, Relist

\* What a request writes, and what a poll does.
LEMMA MergedType ==
  ASSUME FederationTypeOK, NEW w \in Replica
  PROVE  Merged(w) \in Rows
BY DEF FederationTypeOK, Merged, Column, Rows

-----------------------------------------------------------------------------
(* A copy that was read late enough stays so, whatever is written.         *)

LEMMA WriteKeeps ==
  ASSUME FederationTypeOK, changedAt <= moment, NEW v \in Rows, Write(v), UNCHANGED moment
  PROVE  /\ server' \in Rows /\ changedAt' \in Nat /\ changedAt <= changedAt' /\ changedAt' <= moment'
         /\ \A copy \in Rows, t \in Int : t <= moment /\ UpToDate(copy, t) => UpToDate(copy, t)'
BY DEF FederationTypeOK, Write, UpToDate

\* A write that touches none of the copies.
LEMMA WriteStep ==
  ASSUME CopiesFresh, NEW v \in Rows, Write(v), UNCHANGED <<moment, listing, reading>>,
         \A w \in Replica : polling'[w].at # "sleeping" => polling'[w] = polling[w]
  PROVE  changedAt' <= moment' /\ ReadingFresh' /\ ListingFresh' /\ PollingFresh'
<1>0. FederationTypeOK /\ changedAt <= moment
  BY DEF CopiesFresh
<1>1. /\ changedAt' <= moment'
      /\ \A copy \in Rows, t \in Int : t <= moment /\ UpToDate(copy, t) => UpToDate(copy, t)'
  BY <1>0, WriteKeeps
<1>2. ReadingFresh'
  <2>1. \A w \in Replica : reading[w].row \in Rows /\ reading[w].since \in Int
    BY <1>0 DEF FederationTypeOK
  <2>2. ReadingFresh
    BY DEF CopiesFresh
  <2> QED
    BY <1>1, <2>1, <2>2 DEF ReadingFresh, Underway
<1>3. ListingFresh'
  <2>1. \A w \in Replica : listing[w].row \in Rows /\ listing[w].until \in Int
    BY <1>0 DEF FederationTypeOK
  <2>2. ListingFresh
    BY DEF CopiesFresh
  <2>3. moment \in Nat
    BY <1>0 DEF FederationTypeOK
  <2> QED
    BY <1>1, <2>1, <2>2, <2>3, Bounds DEF ListingFresh
<1>4. PollingFresh'
  <2>1. \A w \in Replica : polling[w].row \in Rows /\ polling[w].since \in Int
    BY <1>0 DEF FederationTypeOK
  <2>2. PollingFresh
    BY DEF CopiesFresh
  <2>3. moment \in Nat
    BY <1>0 DEF FederationTypeOK
  <2> QED
    BY <1>1, <2>1, <2>2, <2>3, Bounds DEF PollingFresh, Underway
<1> QED
  BY <1>1, <1>2, <1>3, <1>4

-----------------------------------------------------------------------------
(* The steps that write nothing.                                           *)

LEMMA ListServersStep ==
  ASSUME CopiesFresh, NEW w \in Replica, ListServers(w)
  PROVE  CopiesFresh'
<1>0. FederationTypeOK /\ changedAt <= moment /\ ReadingFresh /\ ListingFresh /\ PollingFresh
  BY DEF CopiesFresh
<1>1. UNCHANGED <<sessionVars, server, moment, changedAt>> /\ Relist(w, NoList)
      /\ reading' = [reading EXCEPT ![w] = [row |-> server, since |-> moment]]
  BY DEF ListServers
<1>2. /\ listing'[w] = NoList /\ \A u \in Replica : u # w => listing'[u] = listing[u]
      /\ listing' \in [Replica -> [row : Rows, until : Int]]
      /\ polling' \in [Replica -> [at : Stages, row : Rows, cached : BOOLEAN, answer : Offered, base : Rows, since : Int]]
      /\ \A u \in Replica : /\ polling'[u].at = polling[u].at /\ polling'[u].row = polling[u].row
                            /\ polling'[u].since = polling[u].since
  BY <1>0, <1>1, RowTypes, RelistType
<1>3. FederationTypeOK'
  <2>1. [row |-> server, since |-> moment] \in [row : Rows, since : Int]
    BY <1>0 DEF FederationTypeOK
  <2>2. reading' \in [Replica -> [row : Rows, since : Int]]
    BY <1>0, <1>1, <2>1 DEF FederationTypeOK
  <2> QED
    BY <1>0, <1>1, <1>2, <2>2 DEF FederationTypeOK, sessionVars
<1>4. ReadingFresh'
  BY <1>0, <1>1, Bounds DEF ReadingFresh, Underway, UpToDate, FederationTypeOK
<1>5. ListingFresh'
  BY <1>0, <1>1, <1>2 DEF ListingFresh, UpToDate
<1>6. PollingFresh'
  BY <1>0, <1>1, <1>2 DEF PollingFresh, Underway, UpToDate
<1> QED
  BY <1>0, <1>1, <1>3, <1>4, <1>5, <1>6 DEF CopiesFresh

LEMMA StoreServersStep ==
  ASSUME CopiesFresh, NEW w \in Replica, StoreServers(w)
  PROVE  CopiesFresh'
<1>0. FederationTypeOK /\ changedAt <= moment /\ ReadingFresh /\ ListingFresh /\ PollingFresh
  BY DEF CopiesFresh
<1> DEFINE entry == [row |-> reading[w].row, until |-> moment + ListTtl]
<1>1. UNCHANGED <<sessionVars, server, moment, changedAt>> /\ Relist(w, entry)
      /\ reading' = [reading EXCEPT ![w] = NoQuery] /\ reading[w] # NoQuery
  BY DEF StoreServers
<1>2. entry \in [row : Rows, until : Int]
  BY <1>0, Bounds DEF FederationTypeOK
<1>3. /\ listing'[w] = entry /\ \A u \in Replica : u # w => listing'[u] = listing[u]
      /\ listing' \in [Replica -> [row : Rows, until : Int]]
      /\ polling' \in [Replica -> [at : Stages, row : Rows, cached : BOOLEAN, answer : Offered, base : Rows, since : Int]]
      /\ \A u \in Replica : /\ polling'[u].at = polling[u].at /\ polling'[u].row = polling[u].row
                            /\ polling'[u].since = polling[u].since
  BY <1>0, <1>1, <1>2, RelistType
<1>4. FederationTypeOK'
  BY <1>0, <1>1, <1>3, RowTypes DEF FederationTypeOK, sessionVars
<1>5. ReadingFresh'
  BY <1>0, <1>1 DEF ReadingFresh, Underway, UpToDate, FederationTypeOK
<1>6. ListingFresh'
  <2>1. Underway(reading[w].since) /\ UpToDate(reading[w].row, reading[w].since)
    BY <1>0, <1>1 DEF ReadingFresh
  <2>2. entry.until <= moment + ListTtl /\ UpToDate(entry.row, entry.until - ListTtl - Patience)
    <3>1. moment \in Nat /\ changedAt \in Nat /\ reading[w].since \in Int
      BY <1>0 DEF FederationTypeOK
    <3> QED
      BY <2>1, <3>1, Bounds DEF Underway, UpToDate
  <2> QED
    BY <1>0, <1>1, <1>3, <2>2 DEF ListingFresh, UpToDate
<1>7. PollingFresh'
  BY <1>0, <1>1, <1>3 DEF PollingFresh, Underway, UpToDate
<1> QED
  BY <1>0, <1>1, <1>4, <1>5, <1>6, <1>7 DEF CopiesFresh

LEMMA WakeStep ==
  ASSUME CopiesFresh, NEW w \in Replica, Wake(w)
  PROVE  CopiesFresh'
<1>0. FederationTypeOK /\ changedAt <= moment /\ ReadingFresh /\ ListingFresh /\ PollingFresh
  BY DEF CopiesFresh
<1>1. UNCHANGED <<sessionVars, server, moment, changedAt, reading>>
  BY DEF Wake
<1>2. ReadingFresh'
  BY <1>0, <1>1 DEF ReadingFresh, Underway, UpToDate
<1>3. moment \in Nat /\ changedAt \in Nat /\ server \in Rows
  BY <1>0 DEF FederationTypeOK
<1>4. CASE Fresh(w)
  <2>1. listing[w].row # Gone /\ polling' = GoTo(w, "asking", listing[w].row, TRUE) /\ UNCHANGED listing
    BY <1>4 DEF Wake
  <2>2. listing[w].row \in Rows /\ listing[w].until \in Int /\ listing[w] # NoList
    BY <1>0, <2>1 DEF FederationTypeOK, NoList
  <2>3. /\ polling' \in [Replica -> [at : Stages, row : Rows, cached : BOOLEAN, answer : Offered, base : Rows, since : Int]]
        /\ polling'[w].at = "asking" /\ polling'[w].row = listing[w].row /\ polling'[w].since = moment
        /\ \A u \in Replica : u # w => polling'[u] = polling[u]
    BY <1>0, <2>1, <2>2, GoToType DEF Stages
  <2>4. FederationTypeOK'
    BY <1>0, <1>1, <2>1, <2>3 DEF FederationTypeOK, sessionVars
  <2>5. ListingFresh'
    BY <1>0, <1>1, <2>1 DEF ListingFresh, UpToDate
  <2>6. Underway(moment) /\ UpToDate(listing[w].row, moment - ListTtl - Patience)
    <3>1. UpToDate(listing[w].row, listing[w].until - ListTtl - Patience) /\ listing[w].until >= moment
      BY <1>0, <1>4, <2>2 DEF ListingFresh, Fresh
    <3> QED
      BY <1>3, <2>2, <3>1, Bounds DEF UpToDate, Underway
  <2>7. PollingFresh'
    BY <1>0, <1>1, <2>3, <2>6 DEF PollingFresh, Underway, UpToDate
  <2> QED
    BY <1>0, <1>1, <1>2, <2>4, <2>5, <2>7 DEF CopiesFresh
<1>5. CASE ~Fresh(w)
  <2>1. polling' = GoTo(w, "listing", server, FALSE) /\ listing' = [listing EXCEPT ![w] = NoList]
    BY <1>5 DEF Wake
  <2>2. /\ polling' \in [Replica -> [at : Stages, row : Rows, cached : BOOLEAN, answer : Offered, base : Rows, since : Int]]
        /\ polling'[w].at = "listing" /\ polling'[w].row = server /\ polling'[w].since = moment
        /\ \A u \in Replica : u # w => polling'[u] = polling[u]
    BY <1>0, <1>3, <2>1, GoToType DEF Stages
  <2>3. FederationTypeOK'
    BY <1>0, <1>1, <2>1, <2>2, RowTypes DEF FederationTypeOK, sessionVars
  <2>4. ListingFresh'
    BY <1>0, <1>1, <2>1 DEF ListingFresh, UpToDate, FederationTypeOK
  <2>5. Underway(moment) /\ UpToDate(server, moment)
    BY <1>3, Bounds DEF UpToDate, Underway
  <2>6. PollingFresh'
    BY <1>0, <1>1, <2>2, <2>5 DEF PollingFresh, Underway, UpToDate
  <2> QED
    BY <1>0, <1>1, <1>2, <2>3, <2>4, <2>6 DEF CopiesFresh
<1> QED
  BY <1>4, <1>5

LEMMA ListedStep ==
  ASSUME CopiesFresh, NEW w \in Replica, Listed(w)
  PROVE  CopiesFresh'
<1>0. FederationTypeOK /\ changedAt <= moment /\ ReadingFresh /\ ListingFresh /\ PollingFresh
  BY DEF CopiesFresh
<1> DEFINE entry == [row |-> polling[w].row, until |-> moment + ListTtl]
<1>1. /\ UNCHANGED <<sessionVars, server, moment, changedAt, reading>>
      /\ polling[w].at = "listing" /\ listing' = [listing EXCEPT ![w] = entry]
  BY DEF Listed
<1>2. ReadingFresh'
  BY <1>0, <1>1 DEF ReadingFresh, Underway, UpToDate
<1>3. moment \in Nat /\ changedAt \in Nat /\ polling[w].row \in Rows /\ polling[w].since \in Int
  BY <1>0 DEF FederationTypeOK
<1>4. entry \in [row : Rows, until : Int] /\ listing' \in [Replica -> [row : Rows, until : Int]]
  BY <1>0, <1>1, <1>3, Bounds DEF FederationTypeOK
<1>5. Underway(polling[w].since) /\ UpToDate(polling[w].row, polling[w].since)
  BY <1>0, <1>1 DEF PollingFresh
<1>6. ListingFresh'
  <2>1. entry.until <= moment + ListTtl /\ UpToDate(entry.row, entry.until - ListTtl - Patience)
    BY <1>3, <1>5, Bounds DEF Underway, UpToDate
  <2> QED
    BY <1>0, <1>1, <1>4, <2>1 DEF ListingFresh, UpToDate, FederationTypeOK
<1>7. polling' \in [Replica -> [at : Stages, row : Rows, cached : BOOLEAN, answer : Offered, base : Rows, since : Int]]
      /\ PollingFresh'
  <2>1. CASE polling[w].row = Gone
    <3>1. polling' = [polling EXCEPT ![w] = Sleeping]
      BY <2>1 DEF Listed
    <3>2. Sleeping.at = "sleeping"
      BY DEF Sleeping
    <3> QED
      BY <1>0, <1>1, <3>1, <3>2, RowTypes DEF FederationTypeOK, PollingFresh, Underway, UpToDate
  <2>2. CASE polling[w].row # Gone
    <3>1. /\ polling' \in [Replica -> [at : Stages, row : Rows, cached : BOOLEAN, answer : Offered, base : Rows, since : Int]]
          /\ polling'[w].at = "asking" /\ polling'[w].row = polling[w].row /\ polling'[w].since = moment
          /\ \A u \in Replica : u # w => polling'[u] = polling[u]
      BY <1>0, <1>3, <2>2, GoToType DEF Stages, Listed
    <3>2. Underway(moment) /\ UpToDate(polling[w].row, moment - ListTtl - Patience)
      BY <1>3, <1>5, Bounds DEF Underway, UpToDate
    <3> QED
      BY <1>0, <1>1, <3>1, <3>2 DEF PollingFresh, Underway, UpToDate
  <2> QED
    BY <2>1, <2>2
<1>8. FederationTypeOK'
  BY <1>0, <1>1, <1>4, <1>7 DEF FederationTypeOK, sessionVars
<1> QED
  BY <1>0, <1>1, <1>2, <1>6, <1>7, <1>8 DEF CopiesFresh

-----------------------------------------------------------------------------
(* Between the query of the loop and its commit, its row is the same but   *)
(* for the models.                                                         *)

LEMMA PassStep ==
  ASSUME CopiesFresh, UNCHANGED <<server, moment, changedAt, reading>>,
         \A u \in Replica : /\ listing'[u].until = listing[u].until
                            /\ listing'[u].row.config = listing[u].row.config,
         \A u \in Replica : polling'[u].at # "sleeping" =>
           /\ polling[u].at # "sleeping" /\ polling'[u].since = polling[u].since
           /\ polling'[u].row.config = polling[u].row.config
           /\ (polling'[u].at = "listing") = (polling[u].at = "listing")
  PROVE  changedAt' <= moment' /\ ReadingFresh' /\ ListingFresh' /\ PollingFresh'
<1>0. FederationTypeOK /\ changedAt <= moment /\ ReadingFresh /\ ListingFresh /\ PollingFresh
  BY DEF CopiesFresh
<1>1. moment \in Nat /\ changedAt \in Nat
  BY <1>0 DEF FederationTypeOK
<1>2. ReadingFresh'
  BY <1>0 DEF ReadingFresh, Underway, UpToDate
<1>3. ListingFresh'
  <2> SUFFICES ASSUME NEW u \in Replica, listing'[u] # NoList
               PROVE  /\ listing'[u].until <= moment + ListTtl
                      /\ UpToDate(listing'[u].row, listing[u].until - ListTtl - Patience)
    BY DEF ListingFresh, UpToDate
  <2>1. CASE listing[u] = NoList
    BY <1>1, <2>1, Bounds DEF NoList, UpToDate
  <2>2. CASE listing[u] # NoList
    BY <1>0, <2>2 DEF ListingFresh, UpToDate
  <2> QED
    BY <2>1, <2>2
<1>4. PollingFresh'
  BY <1>0 DEF PollingFresh, Underway, UpToDate
<1> QED
  BY <1>0, <1>2, <1>3, <1>4

LEMMA FetchedStep ==
  ASSUME CopiesFresh, NEW w \in Replica, NEW models \in Offers \cup {{}}, Fetched(w, models)
  PROVE  CopiesFresh'
<1>0. FederationTypeOK
  BY DEF CopiesFresh
<1>1. /\ UNCHANGED <<sessionVars, server, moment, changedAt, listing, reading>>
      /\ polling[w].at = "asking" /\ models \in Offered
  BY DEF Fetched, Offered
<1>2. Sleeping.at = "sleeping"
  BY DEF Sleeping
<1>3. /\ polling' \in [Replica -> [at : Stages, row : Rows, cached : BOOLEAN, answer : Offered, base : Rows, since : Int]]
      /\ \A u \in Replica : polling'[u].at # "sleeping" =>
           /\ polling[u].at # "sleeping" /\ polling'[u].since = polling[u].since
           /\ polling'[u].row = polling[u].row
           /\ (polling'[u].at = "listing") = (polling[u].at = "listing")
  <2>1. CASE models = {}
    BY <1>0, <1>1, <1>2, <2>1, RowTypes DEF Fetched, FederationTypeOK
  <2>2. CASE models # {}
    BY <1>0, <1>1, <2>2 DEF Fetched, FederationTypeOK, Stages
  <2> QED
    BY <2>1, <2>2
<1>4. FederationTypeOK'
  BY <1>0, <1>1, <1>3 DEF FederationTypeOK, sessionVars
<1> QED
  BY <1>1, <1>3, <1>4, PassStep DEF CopiesFresh

LEMMA AdoptStep ==
  ASSUME CopiesFresh, NEW w \in Replica, Adopt(w)
  PROVE  CopiesFresh'
<1>0. FederationTypeOK
  BY DEF CopiesFresh
<1> DEFINE models == polling[w].answer
<1>1. /\ UNCHANGED <<sessionVars, server, moment, changedAt, reading>>
      /\ polling[w].at = "answered" /\ models \in Offered
  BY <1>0 DEF Adopt, FederationTypeOK
<1>2. CASE models = polling[w].row.models
  <2>1. polling' = [polling EXCEPT ![w] = Sleeping] /\ UNCHANGED listing /\ Sleeping.at = "sleeping"
    BY <1>2 DEF Adopt, Sleeping
  <2>2. FederationTypeOK'
    BY <1>0, <1>1, <2>1, RowTypes DEF FederationTypeOK, sessionVars
  <2>3. \A u \in Replica : polling'[u].at # "sleeping" => polling'[u] = polling[u]
    BY <1>0, <2>1 DEF FederationTypeOK
  <2> QED
    BY <1>1, <2>1, <2>2, <2>3, PassStep DEF CopiesFresh
<1>3. CASE models # polling[w].row.models
  <2>1. /\ polling' = [polling EXCEPT ![w].at = "merging", ![w].row.models = models]
        /\ listing' = IF polling[w].cached THEN [listing EXCEPT ![w].row.models = models] ELSE listing
    BY <1>3 DEF Adopt
  <2>2. /\ polling[w].row \in Rows /\ listing[w].row \in Rows
        /\ [polling[w].row EXCEPT !.models = models] \in Rows
        /\ [listing[w].row EXCEPT !.models = models] \in Rows
    BY <1>0, <1>1 DEF FederationTypeOK, Rows
  <2>3. /\ polling' = [polling EXCEPT ![w] = [polling[w] EXCEPT !.at = "merging", !.row = [polling[w].row EXCEPT !.models = models]]]
        /\ [polling[w].row EXCEPT !.models = models].config = polling[w].row.config
        /\ [listing[w].row EXCEPT !.models = models].config = listing[w].row.config
    BY <1>0, <2>1, <2>2 DEF FederationTypeOK, Rows
  <2>4. /\ polling' \in [Replica -> [at : Stages, row : Rows, cached : BOOLEAN, answer : Offered, base : Rows, since : Int]]
        /\ \A u \in Replica : polling'[u].at # "sleeping" =>
             /\ polling[u].at # "sleeping" /\ polling'[u].since = polling[u].since
             /\ polling'[u].row.config = polling[u].row.config
             /\ (polling'[u].at = "listing") = (polling[u].at = "listing")
    BY <1>0, <1>1, <2>2, <2>3 DEF FederationTypeOK, Stages
  <2>5. /\ listing' \in [Replica -> [row : Rows, until : Int]]
        /\ \A u \in Replica : listing'[u].until = listing[u].until /\ listing'[u].row.config = listing[u].row.config
    <3>1. CASE ~polling[w].cached
      BY <1>0, <2>1, <3>1 DEF FederationTypeOK
    <3>2. CASE polling[w].cached
      <4>1. listing' = [listing EXCEPT ![w] = [listing[w] EXCEPT !.row = [listing[w].row EXCEPT !.models = models]]]
        BY <1>0, <2>1, <3>2 DEF FederationTypeOK
      <4> QED
        BY <1>0, <2>2, <2>3, <4>1 DEF FederationTypeOK
    <3> QED
      BY <3>1, <3>2
  <2>6. FederationTypeOK'
    BY <1>0, <1>1, <2>4, <2>5 DEF FederationTypeOK, sessionVars
  <2> QED
    BY <1>1, <2>4, <2>5, <2>6, PassStep DEF CopiesFresh
<1> QED
  BY <1>2, <1>3

LEMMA MergeStep ==
  ASSUME CopiesFresh, NEW w \in Replica, Merge(w)
  PROVE  CopiesFresh'
<1>0. FederationTypeOK
  BY DEF CopiesFresh
<1>1. /\ UNCHANGED <<sessionVars, server, moment, changedAt, listing, reading>>
      /\ polling[w].at = "merging" /\ polling' = [polling EXCEPT ![w].at = "merged", ![w].base = server]
  BY DEF Merge
<1>2. /\ polling' \in [Replica -> [at : Stages, row : Rows, cached : BOOLEAN, answer : Offered, base : Rows, since : Int]]
      /\ \A u \in Replica : polling'[u].at # "sleeping" =>
           /\ polling[u].at # "sleeping" /\ polling'[u].since = polling[u].since
           /\ polling'[u].row = polling[u].row
           /\ (polling'[u].at = "listing") = (polling[u].at = "listing")
  BY <1>0, <1>1 DEF FederationTypeOK, Stages
<1>3. FederationTypeOK'
  BY <1>0, <1>1, <1>2 DEF FederationTypeOK, sessionVars
<1> QED
  BY <1>1, <1>2, <1>3, PassStep DEF CopiesFresh

-----------------------------------------------------------------------------
(* The commits.                                                            *)

\* A poll that changes more than the models has found an older row.
LEMMA CommitPollOld ==
  ASSUME CopiesFresh, NEW w \in Replica, NEW ok \in BOOLEAN, CommitPoll(w, ok), server'.config # server.config
  PROVE  moment - changedAt <= ListTtl + 2 * Patience
<1>0. FederationTypeOK /\ PollingFresh
  BY DEF CopiesFresh
<1>1. polling[w].at = "merged" /\ server' \in {polling[w].row, Merged(w), server}
  BY DEF CommitPoll, Write
<1>2. server'.config = polling[w].row.config
  <2>1. CASE server' = polling[w].row
    BY <2>1
  <2>2. CASE server' = Merged(w)
    BY <2>2 DEF Merged, Column
  <2> QED
    BY <1>1, <2>1, <2>2
<1>3. Underway(polling[w].since) /\ polling[w].since - ListTtl - Patience <= changedAt
  BY <1>0, <1>1, <1>2 DEF PollingFresh, UpToDate
<1>4. moment \in Nat /\ changedAt \in Nat /\ polling[w].since \in Int
  BY <1>0 DEF FederationTypeOK
<1> QED
  BY <1>3, <1>4, Bounds DEF Underway

LEMMA CommitPollStep ==
  ASSUME CopiesFresh, NEW w \in Replica, NEW ok \in BOOLEAN, CommitPoll(w, ok)
  PROVE  CopiesFresh'
<1>0. FederationTypeOK /\ changedAt <= moment
  BY DEF CopiesFresh
<1> DEFINE v == IF ok /\ (polling[w].base = Gone) = (server = Gone)
                  THEN IF server = Gone THEN polling[w].row ELSE Merged(w)
                  ELSE server
<1>1. /\ Write(v) /\ polling' = [polling EXCEPT ![w] = Sleeping]
      /\ UNCHANGED <<sessionVars, moment, listing, reading>>
  BY DEF CommitPoll
<1>2. v \in Rows
  BY <1>0, MergedType DEF FederationTypeOK
<1> HIDE DEF v
<1>3. /\ polling' \in [Replica -> [at : Stages, row : Rows, cached : BOOLEAN, answer : Offered, base : Rows, since : Int]]
      /\ \A u \in Replica : polling'[u].at # "sleeping" => polling'[u] = polling[u]
  <2>1. Sleeping.at = "sleeping"
    BY DEF Sleeping
  <2> QED
    BY <1>0, <1>1, <2>1, RowTypes DEF FederationTypeOK
<1>4. server' \in Rows /\ changedAt' \in Nat
  BY <1>0, <1>1, <1>2, WriteKeeps
<1>5. FederationTypeOK'
  BY <1>0, <1>1, <1>3, <1>4 DEF FederationTypeOK, sessionVars
<1> QED
  BY <1>1, <1>2, <1>3, <1>5, WriteStep DEF CopiesFresh

LEMMA AskServerStep ==
  ASSUME CopiesFresh, NEW s \in Session, NEW w \in Replica, NEW op \in {"patch", "remove", "sync", "register"},
         NEW models \in Offered, AskServer(s, w, op, models)
  PROVE  CopiesFresh'
<1>0. FederationTypeOK
  BY DEF CopiesFresh
<1> DEFINE request == [op |-> op, at |-> "asked", process |-> w, models |-> models,
                       config |-> requests + 1, was |-> server]
<1>1. /\ hand' = [hand EXCEPT ![s] = request] /\ requests' = requests + 1
      /\ UNCHANGED federationVars
  BY DEF AskServer, Accept
<1>2. request \in Edits
  BY <1>0 DEF FederationTypeOK, Edits
<1> HIDE DEF request
<1>3. FederationTypeOK'
  BY <1>0, <1>1, <1>2 DEF FederationTypeOK, federationVars
<1> QED
  BY <1>1, <1>3 DEF CopiesFresh, federationVars, ReadingFresh, ListingFresh, PollingFresh, Underway, UpToDate

\* A request that is at some stage is one of Edits.
LEMMA HandType ==
  ASSUME FederationTypeOK, NEW s \in Session, hand[s].at \in {"asked", "cleared"}
  PROVE  hand[s] \in Edits
<1>1. NoRequest.at = "none"
  BY DEF NoRequest
<1> QED
  BY <1>1 DEF FederationTypeOK

LEMMA ClearListStep ==
  ASSUME CopiesFresh, NEW s \in Session, ClearList(s)
  PROVE  CopiesFresh'
<1>0. FederationTypeOK /\ changedAt <= moment /\ ReadingFresh /\ ListingFresh /\ PollingFresh
  BY DEF CopiesFresh
<1>1. hand[s].at = "asked" /\ hand[s] \in Edits /\ UNCHANGED <<server, moment, changedAt, reading>>
  BY <1>0, HandType DEF ClearList
<1>2. ReadingFresh'
  BY <1>0, <1>1 DEF ReadingFresh, Underway, UpToDate
<1>3. CASE server = Gone /\ hand[s].op # "register"
  <2>1. Finish(s) /\ UNCHANGED <<listing, polling>>
    BY <1>3 DEF ClearList
  <2>2. FederationTypeOK'
    BY <1>0, <1>1, <2>1 DEF FederationTypeOK, Finish, Proceed
  <2> QED
    BY <1>0, <1>1, <1>2, <2>1, <2>2 DEF CopiesFresh, ListingFresh, PollingFresh, Underway, UpToDate
<1>4. CASE ~(server = Gone /\ hand[s].op # "register")
  <2> DEFINE request == [hand[s] EXCEPT !.at = "cleared"]
             w == hand[s].process
  <2>1. Proceed(s, request) /\ Relist(w, NoList) /\ w \in Replica
    BY <1>1, <1>4 DEF ClearList, Edits, Stage
  <2>2. request \in Edits
    BY <1>0, <1>1 DEF FederationTypeOK, Edits
  <2> HIDE DEF request, w
  <2>3. /\ listing'[w] = NoList /\ \A u \in Replica : u # w => listing'[u] = listing[u]
        /\ listing' \in [Replica -> [row : Rows, until : Int]]
        /\ polling' \in [Replica -> [at : Stages, row : Rows, cached : BOOLEAN, answer : Offered, base : Rows, since : Int]]
        /\ \A u \in Replica : /\ polling'[u].at = polling[u].at /\ polling'[u].row = polling[u].row
                              /\ polling'[u].since = polling[u].since
    BY <1>0, <2>1, RowTypes, RelistType
  <2>4. FederationTypeOK'
    BY <1>0, <1>1, <2>1, <2>2, <2>3 DEF FederationTypeOK, Proceed
  <2>5. ListingFresh'
    BY <1>0, <1>1, <2>1, <2>3 DEF ListingFresh, UpToDate
  <2>6. PollingFresh'
    BY <1>0, <1>1, <2>3 DEF PollingFresh, Underway, UpToDate
  <2> QED
    BY <1>0, <1>1, <1>2, <2>4, <2>5, <2>6 DEF CopiesFresh
<1> QED
  BY <1>3, <1>4

LEMMA CommitServerStep ==
  ASSUME CopiesFresh, NEW s \in Session, CommitServer(s)
  PROVE  CopiesFresh'
<1>0. FederationTypeOK /\ changedAt <= moment
  BY DEF CopiesFresh
<1>1. hand[s] \in Edits /\ Finish(s) /\ UNCHANGED <<moment, listing, reading, polling>>
  BY <1>0, HandType DEF CommitServer
<1>2. PICK v \in Rows : Write(v)
  <2>1. server \in Rows /\ Gone \in Rows
    BY <1>0, RowTypes DEF FederationTypeOK
  <2>2. hand[s].op \in {"patch", "remove", "sync", "register"} /\ hand[s].config \in Int /\ hand[s].models \in Offered
    BY <1>1 DEF Edits
  <2>3. CASE hand[s].op = "register"
    <3>1. Write(IF server = Gone THEN [config |-> hand[s].config, models |-> hand[s].models] ELSE server)
      BY <2>3 DEF CommitServer
    <3>2. [config |-> hand[s].config, models |-> hand[s].models] \in Rows
      BY <2>2 DEF Rows
    <3> QED
      BY <2>1, <3>1, <3>2
  <2>4. CASE hand[s].op = "remove"
    BY <2>1, <2>4 DEF CommitServer
  <2>5. CASE hand[s].op = "patch"
    <3>1. Write(IF server = Gone THEN server ELSE [server EXCEPT !.config = hand[s].config])
      BY <2>5 DEF CommitServer
    <3>2. [server EXCEPT !.config = hand[s].config] \in Rows
      BY <2>1, <2>2 DEF Rows
    <3> QED
      BY <2>1, <3>1, <3>2
  <2>6. CASE hand[s].op = "sync"
    <3> DEFINE kept == [server EXCEPT !.models = Column(@, hand[s].was.models, hand[s].models)]
    <3>1. Write(IF server = Gone THEN server ELSE kept)
      BY <2>6 DEF CommitServer
    <3>2. kept \in Rows
      BY <2>1, <2>2 DEF Rows, Column
    <3> HIDE DEF kept
    <3> QED
      BY <2>1, <3>1, <3>2
  <2> QED
    BY <2>2, <2>3, <2>4, <2>5, <2>6
<1>3. server' \in Rows /\ changedAt' \in Nat
  BY <1>0, <1>1, <1>2, WriteKeeps
<1>4. FederationTypeOK'
  BY <1>0, <1>1, <1>3 DEF FederationTypeOK, Finish, Proceed
<1> QED
  BY <1>1, <1>2, <1>4, WriteStep DEF CopiesFresh

LEMMA NextMomentStep ==
  ASSUME CopiesFresh, NextMoment
  PROVE  CopiesFresh'
<1>0. FederationTypeOK /\ changedAt <= moment /\ ReadingFresh /\ ListingFresh /\ PollingFresh
  BY DEF CopiesFresh
<1>1. /\ moment' = moment + 1 /\ UNCHANGED <<sessionVars, server, changedAt, listing, reading, polling>>
      /\ \A w \in Replica : /\ polling[w].at # "sleeping" => moment - polling[w].since < Patience
                            /\ reading[w] # NoQuery => moment - reading[w].since < Patience
  BY DEF NextMoment
<1>2. moment \in Nat /\ changedAt \in Nat
      /\ \A w \in Replica : listing[w].until \in Int /\ reading[w].since \in Int /\ polling[w].since \in Int
  BY <1>0 DEF FederationTypeOK
<1>3. FederationTypeOK' /\ changedAt' <= moment'
  BY <1>0, <1>1, <1>2 DEF FederationTypeOK, sessionVars
<1>4. ReadingFresh'
  BY <1>0, <1>1, <1>2, Bounds DEF ReadingFresh, Underway, UpToDate
<1>5. ListingFresh'
  BY <1>0, <1>1, <1>2, Bounds DEF ListingFresh, UpToDate
<1>6. PollingFresh'
  BY <1>0, <1>1, <1>2, Bounds DEF PollingFresh, Underway, UpToDate
<1> QED
  BY <1>3, <1>4, <1>5, <1>6 DEF CopiesFresh

-----------------------------------------------------------------------------
LEMMA CopiesFreshInit ==
  ASSUME SessionsInit(0), FederationInit
  PROVE  CopiesFresh
<1>1. hand = [s \in Session |-> NoRequest] /\ requests = 0
  BY DEF SessionsInit
<1>2. /\ moment = 0 /\ changedAt = 0
      /\ listing = [w \in Replica |-> NoList] /\ reading = [w \in Replica |-> NoQuery]
      /\ polling = [w \in Replica |-> Sleeping]
  BY DEF FederationInit
<1>3. server \in Rows
  BY RowTypes DEF FederationInit, Rows, Offered
<1>4. FederationTypeOK
  BY <1>1, <1>2, <1>3, RowTypes DEF FederationTypeOK
<1>5. Sleeping.at = "sleeping"
  BY DEF Sleeping
<1> QED
  BY <1>2, <1>4, <1>5 DEF CopiesFresh, ReadingFresh, ListingFresh, PollingFresh

LEMMA CopiesFreshNext ==
  ASSUME CopiesFresh, [FederationNext]_fedVars
  PROVE  CopiesFresh'
<1>1. CASE \E w \in Replica : LoopStep(w)
  <2> PICK w \in Replica : LoopStep(w)
    BY <1>1
  <2>1. \/ ListServers(w) \/ StoreServers(w) \/ Wake(w) \/ Listed(w) \/ Adopt(w) \/ Merge(w)
        \/ \E models \in Offers \cup {{}} : Fetched(w, models)
        \/ \E ok \in BOOLEAN : CommitPoll(w, ok)
    BY DEF LoopStep
  <2> QED
    BY <2>1, ListServersStep, StoreServersStep, WakeStep, ListedStep, AdoptStep, MergeStep, FetchedStep,
       CommitPollStep
<1>2. CASE \E s \in Session : ManagerStep(s)
  <2> PICK s \in Session : ManagerStep(s)
    BY <1>2
  <2>1. \/ \E w \in Replica, op \in {"patch", "remove", "sync", "register"}, models \in Offered :
             AskServer(s, w, op, models)
        \/ ClearList(s) \/ CommitServer(s)
    BY DEF ManagerStep, Offered
  <2> QED
    BY <2>1, AskServerStep, ClearListStep, CommitServerStep
<1>3. CASE NextMoment
  BY <1>3, NextMomentStep
<1>4. CASE UNCHANGED fedVars
  BY <1>4 DEF CopiesFresh, fedVars, sessionVars, federationVars, FederationTypeOK, ReadingFresh, ListingFresh,
     PollingFresh, Underway, UpToDate
<1> QED
  BY <1>1, <1>2, <1>3, <1>4 DEF FederationNext

-----------------------------------------------------------------------------
(* No copy of the row that a process holds, in its list, in a query or in  *)
(* its loop, is older than the ttl and the patience allow.                 *)
THEOREM CopiesAlwaysFresh == FederationSpec => []CopiesFresh
<1>1. SessionsInit(0) /\ FederationInit => CopiesFresh
  BY CopiesFreshInit
<1>2. CopiesFresh /\ [FederationNext]_<<sessionVars, federationVars>> => CopiesFresh'
  BY CopiesFreshNext DEF fedVars
<1> QED
  BY <1>1, <1>2, PTL DEF FederationSpec

(* A manager's change that has stood for ListTtl + 2 * Patience is undone  *)
(* by no poll of any process.                                              *)
THEOREM ChangesSettle == FederationSpec => KeptOnceSettled
<1>1. CopiesFresh /\ [FederationNext]_<<sessionVars, federationVars>> =>
        [\A w \in Replica, ok \in BOOLEAN :
           CommitPoll(w, ok) /\ server'.config # server.config
             => moment - changedAt <= ListTtl + 2 * Patience]_federationVars
  BY CommitPollOld
<1> QED
  BY <1>1, CopiesAlwaysFresh, PTL DEF FederationSpec, KeptOnceSettled

-----------------------------------------------------------------------------
(* Integrations: what runs and what is sent.                               *)

integVars == <<sessionVars, integrationVars>>
EditOps == {"save", "toggle", "drop"}

\* A request is being decided, or applies the rows that it has read.
RequestOK(job) ==
  \/ job = NoRequest
  \/ /\ {"op", "at", "name", "worker"} \subseteq DOMAIN job
     /\ job.op \in EditOps /\ job.at \in {"reading", "read"} /\ job.name \in Tool /\ job.worker \in Worker
  \/ /\ {"op", "at", "worker"} \subseteq DOMAIN job
     /\ job.op = "load" /\ job.at \in {"committed", "loaded"} /\ job.worker \in Worker
     /\ job.at = "loaded" => DOMAIN job.rows \subseteq Tool

SpanType == [worker : Worker \cup {"none"}, env : SUBSET Tool, own : SUBSET Tool, due : SUBSET Tool,
             sent : [Tool -> Nat], calm : SUBSET Tool]

ShapeInv ==
  /\ DOMAIN hand = Session /\ \A s \in Session : RequestOK(hand[s])
  /\ DOMAIN rows \subseteq Tool
  /\ DOMAIN active = Worker /\ \A w \in Worker : DOMAIN active[w] \subseteq Tool
  /\ DOMAIN superseded = Worker
  /\ applying \in [Worker -> {"no", "built", "cleared"}]
  /\ DOMAIN last = Worker
  /\ DOMAIN loop = Worker
  /\ \A w \in Worker : DOMAIN loop[w] = {"at", "stamp", "rows"} /\ DOMAIN loop[w].rows \subseteq Tool
  /\ spans \in [Span -> SpanType]

\* What is sent of a span to a tool that was not turned on or off under it:
\* its own exporter is one that runs, and the environment's drops exactly
\* what that one sends, but for the time in which the set is filled again.
Told(x, n) ==
  LET w == spans[x].worker
      ran == DOMAIN active[w]
  IN  /\ n \in spans[x].own => n \in ran
      /\ n \in spans[x].env => n \in EnvTools
      /\ n \in spans[x].due <=> n \in EnvTools \cup ran
      /\ applying[w] # "cleared" => (n \in superseded[w] <=> n \in ran)
      /\ spans[x].sent[n] = IF n \in ran \ spans[x].own \/ n \in EnvTools \ (ran \cup spans[x].env) THEN 1 ELSE 0

SentInv ==
  /\ \A w \in Worker : applying[w] = "no" => superseded[w] = DOMAIN active[w]
  /\ \A x \in Span :
       /\ spans[x].worker = "none" => spans[x] = Unborn
       /\ spans[x].worker # "none" => \A n \in spans[x].calm : Told(x, n)

LEMMA EmptyRows == DOMAIN <<>> = {}
OBVIOUS

LEMMA RestingIs ==
  /\ DOMAIN Resting = {"at", "stamp", "rows"} /\ Resting.at = "resting" /\ DOMAIN Resting.rows = {}
  /\ \A at, st, r : /\ DOMAIN [at |-> at, stamp |-> st, rows |-> r] = {"at", "stamp", "rows"}
BY DEF Resting

LEMMA RequestsAre ==
  /\ RequestOK(NoRequest) /\ NoRequest.op = "none" /\ NoRequest.at = "none"
  /\ \A r : RequestOK(r) /\ r.op \in EditOps =>
       r.name \in Tool /\ r.worker \in Worker /\ {"op", "at", "name", "worker"} \subseteq DOMAIN r
  /\ \A r : RequestOK(r) /\ r.op = "load" /\ r.at = "loaded" => DOMAIN r.rows \subseteq Tool
  /\ \A r : RequestOK(r) /\ r.op = "load" => r.worker \in Worker
BY DEF RequestOK, NoRequest, EditOps

LEMMA WasAdded ==
  ASSUME NEW r, RequestOK(r), r.op \in EditOps, NEW was
  PROVE  LET q == [r EXCEPT !.at = "read", !.was = was]
         IN  RequestOK(q) /\ q.op = r.op /\ q.at = "read"
<1> DEFINE q == [r EXCEPT !.at = "read", !.was = was]
<1>1. r.name \in Tool /\ r.worker \in Worker /\ {"op", "at", "name", "worker"} \subseteq DOMAIN r
  BY RequestsAre
<1>2. DOMAIN q = DOMAIN r /\ q["at"] = "read" /\ q["op"] = r["op"] /\ q["name"] = r["name"] /\ q["worker"] = r["worker"]
  BY <1>1
<1> HIDE DEF q
<1>3. RequestOK(q) /\ q.op = r.op /\ q.at = "read"
  BY <1>1, <1>2 DEF RequestOK
<1> QED
  BY <1>3 DEF q

LEMMA HandTo ==
  ASSUME ShapeInv, NEW s \in Session, NEW job, Proceed(s, job)
  PROVE  /\ DOMAIN hand' = Session /\ hand'[s] = job /\ \A t \in Session \ {s} : hand'[t] = hand[t]
         /\ UNCHANGED <<requests, overlapped>>
BY DEF ShapeInv, Proceed

LEMMA ShapeHands ==
  ASSUME ShapeInv, NEW s \in Session, NEW job, RequestOK(job),
         hand' = [hand EXCEPT ![s] = job]
  PROVE  DOMAIN hand' = Session /\ \A t \in Session : RequestOK(hand'[t])
BY DEF ShapeInv

\* What applying rows does, and what it does to a span.
SpanApplied(x, w, r) ==
  /\ spans'[x].worker = spans[x].worker
  /\ spans[x].worker # w => spans'[x] = spans[x]
  /\ spans[x].worker = w =>
       /\ spans'[x].env = spans[x].env /\ spans'[x].due = spans[x].due
       /\ spans'[x].own = spans[x].own \ Torn(w, r)
       /\ spans'[x].calm = spans[x].calm \ Toggled(w, r)
       /\ spans'[x].sent = Sent(spans[x].sent, spans[x].own \cap Torn(w, r))

LEMMA ApplyIs ==
  ASSUME ShapeInv, NEW w \in Worker, NEW r, DOMAIN r \subseteq Tool, Apply(w, r)
  PROVE  /\ DOMAIN active' = Worker /\ \A v \in Worker : DOMAIN active'[v] \subseteq Tool
         /\ active'[w] = [n \in Startable(w, r) |-> r[n].config]
         /\ \A v \in Worker \ {w} : active'[v] = active[v] /\ applying'[v] = applying[v]
         /\ applying' \in [Worker -> {"no", "built", "cleared"}] /\ applying'[w] = "built"
         /\ spans' \in [Span -> SpanType]
         /\ \A x \in Span : SpanApplied(x, w, r)
         /\ UNCHANGED <<rows, now, dropped, superseded>>
<1>0. /\ DOMAIN active = Worker /\ \A v \in Worker : DOMAIN active[v] \subseteq Tool
      /\ applying \in [Worker -> {"no", "built", "cleared"}] /\ spans \in [Span -> SpanType]
  BY DEF ShapeInv
<1>1. Startable(w, r) \subseteq Tool
  BY DEF Startable, Wanted
<1>2. DOMAIN [n \in Startable(w, r) |-> r[n].config] = Startable(w, r)
  OBVIOUS
<1>3. active' = [active EXCEPT ![w] = [n \in Startable(w, r) |-> r[n].config]]
  BY DEF Apply
<1>4. /\ DOMAIN active' = Worker /\ \A v \in Worker : DOMAIN active'[v] \subseteq Tool
      /\ active'[w] = [n \in Startable(w, r) |-> r[n].config]
      /\ \A v \in Worker \ {w} : active'[v] = active[v]
  BY <1>0, <1>1, <1>2, <1>3
<1>5. /\ applying' \in [Worker -> {"no", "built", "cleared"}] /\ applying'[w] = "built"
      /\ \A v \in Worker \ {w} : applying'[v] = applying[v]
  BY <1>0 DEF Apply
<1>6. ASSUME NEW x \in Span
      PROVE  spans'[x] \in SpanType /\ SpanApplied(x, w, r)
  <2>1. spans'[x] = IF spans[x].worker # w THEN spans[x]
                    ELSE [spans[x] EXCEPT !.sent = Sent(@, spans[x].own \cap Torn(w, r)),
                                          !.own = @ \ Torn(w, r),
                                          !.calm = @ \ Toggled(w, r)]
    BY DEF Apply
  <2>2. spans[x] \in SpanType
    BY <1>0
  <2>3. Sent(spans[x].sent, spans[x].own \cap Torn(w, r)) \in [Tool -> Nat]
    BY <2>2 DEF Sent, SpanType
  <2>4. CASE spans[x].worker # w
    BY <2>1, <2>2, <2>4 DEF SpanApplied
  <2>5. CASE spans[x].worker = w
    <3> DEFINE o == spans[x].own \ Torn(w, r)
               t == Sent(spans[x].sent, spans[x].own \cap Torn(w, r))
               c == spans[x].calm \ Toggled(w, r)
    <3>1. o \in SUBSET Tool /\ t \in [Tool -> Nat] /\ c \in SUBSET Tool
      BY <2>2, <2>3 DEF SpanType
    <3>2. spans'[x] = [spans[x] EXCEPT !.sent = t, !.own = o, !.calm = c]
      BY <2>1, <2>5
    <3>3. /\ spans'[x] \in SpanType /\ spans'[x].worker = spans[x].worker
          /\ spans'[x].env = spans[x].env /\ spans'[x].due = spans[x].due
          /\ spans'[x].own = o /\ spans'[x].calm = c /\ spans'[x].sent = t
      <4> HIDE DEF o, t, c
      <4>1. spans'[x] = [worker |-> spans[x].worker, env |-> spans[x].env, own |-> o, due |-> spans[x].due,
                         sent |-> t, calm |-> c]
        BY <2>2, <3>2 DEF SpanType
      <4> QED
        BY <2>2, <3>1, <4>1 DEF SpanType
    <3> QED
      BY <2>5, <3>3 DEF SpanApplied
  <2> QED
    BY <2>4, <2>5
<1>7. spans' \in [Span -> SpanType]
  <2>1. spans' = [x \in Span |-> spans'[x]]
    BY DEF Apply
  <2> QED
    BY <1>6, <2>1
<1> QED
  BY <1>4, <1>5, <1>6, <1>7 DEF Apply

\* What the integrations are has its shape, and what is sent is as told.
ExportInv == ShapeInv /\ SentInv

LEMMA ExportInit == SessionsInit(0) /\ IntegrationsInit => ExportInv
<1> SUFFICES ASSUME SessionsInit(0), IntegrationsInit
             PROVE  ExportInv
  OBVIOUS
<1>1. Unborn \in SpanType /\ Unborn.worker = "none"
  BY DEF Unborn, SpanType
<1>2. ShapeInv
  BY <1>1, RequestsAre, EmptyRows, RestingIs DEF ShapeInv, SessionsInit, IntegrationsInit
<1>3. SentInv
  BY <1>1, EmptyRows DEF SentInv, IntegrationsInit
<1> QED
  BY <1>2, <1>3 DEF ExportInv

LEMMA ShapeKept ==
  ASSUME ShapeInv, UNCHANGED <<sessionVars, integrationVars>>
  PROVE  ShapeInv'
BY DEF ShapeInv, RequestOK, sessionVars, integrationVars

\* A span stays as told while its worker does.
LEMMA ToldKept ==
  ASSUME SentInv, NEW x \in Span, UNCHANGED <<active, superseded, applying>>, spans'[x] = spans[x]
  PROVE  /\ spans'[x].worker = "none" => spans'[x] = Unborn
         /\ spans'[x].worker # "none" => \A n \in spans'[x].calm : Told(x, n)'
BY DEF SentInv, Told

LEMMA SentKept ==
  ASSUME SentInv, UNCHANGED <<active, superseded, applying, spans>>
  PROVE  SentInv'
BY DEF SentInv, Told

\* So does one of another worker.
LEMMA ElsewhereKept ==
  ASSUME ShapeInv, SentInv, NEW w, NEW x \in Span, spans[x].worker # w, spans'[x] = spans[x],
         \A v \in Worker \ {w} : /\ active'[v] = active[v] /\ applying'[v] = applying[v]
                                 /\ superseded'[v] = superseded[v]
  PROVE  /\ spans'[x].worker = "none" => spans'[x] = Unborn
         /\ spans'[x].worker # "none" => \A n \in spans'[x].calm : Told(x, n)'
<1>1. spans[x].worker \in Worker \/ spans[x].worker = "none"
  BY DEF ShapeInv, SpanType
<1>2. CASE spans[x].worker = "none"
  BY <1>2 DEF SentInv
<1>3. CASE spans[x].worker \in Worker
  <2> DEFINE v == spans[x].worker
  <2>1. v \in Worker \ {w} /\ v # "none"
    BY <1>3, IntegrationsAssumption
  <2>2. active'[v] = active[v] /\ applying'[v] = applying[v] /\ superseded'[v] = superseded[v]
    BY <2>1
  <2>3. ASSUME NEW n \in spans[x].calm
        PROVE  Told(x, n)'
    <3>1. Told(x, n)
      BY <2>1, <2>3 DEF SentInv
    <3> QED
      BY <2>2, <3>1 DEF Told
  <2> QED
    BY <2>1, <2>3
<1> QED
  BY <1>1, <1>2, <1>3

\* A tool that is not turned on or off is told what its old exporter held.
LEMMA ApplyTold ==
  ASSUME ShapeInv, SentInv, NEW w \in Worker, NEW r, DOMAIN r \subseteq Tool, Apply(w, r), applying[w] = "no",
         NEW x \in Span, spans[x].worker = w, NEW n \in spans[x].calm, n \notin Toggled(w, r)
  PROVE  Told(x, n)'
<1> DEFINE ran == DOMAIN active[w]
           span == spans[x]
           next == DOMAIN active'[w]
<1>1. /\ spans'[x].worker = w /\ spans'[x].env = span.env /\ spans'[x].due = span.due
      /\ spans'[x].own = span.own \ Torn(w, r)
      /\ spans'[x].sent = Sent(span.sent, span.own \cap Torn(w, r))
      /\ next = Startable(w, r) /\ superseded' = superseded
  <2>1. SpanApplied(x, w, r)
    BY ApplyIs
  <2>2. active'[w] = [m \in Startable(w, r) |-> r[m].config]
    BY ApplyIs
  <2>3. superseded' = superseded
    BY DEF Apply
  <2> QED
    BY <2>1, <2>2, <2>3 DEF SpanApplied
<1>2. n \in Tool /\ span.sent \in [Tool -> Nat]
  BY DEF ShapeInv, SpanType
<1>3. Told(x, n) /\ superseded[w] = ran
  BY IntegrationsAssumption DEF SentInv
<1>4. n \in ran <=> n \in next
  BY <1>1, <1>2 DEF Toggled
<1>5. n \in span.own => n \in ran
  BY <1>3 DEF Told
<1>6. n \in span.env => n \in EnvTools
  BY <1>3 DEF Told
<1>7. n \in span.due <=> n \in EnvTools \cup ran
  BY <1>3 DEF Told
<1>8. span.sent[n] = IF n \in ran \ span.own \/ n \in EnvTools \ (ran \cup span.env) THEN 1 ELSE 0
  BY <1>3 DEF Told
<1>9. spans'[x].sent[n] = span.sent[n] + IF n \in span.own \cap Torn(w, r) THEN 1 ELSE 0
  BY <1>1, <1>2 DEF Sent
<1> HIDE DEF ran, next, span
<1>10. spans'[x].sent[n] = IF n \in next \ spans'[x].own \/ n \in EnvTools \ (next \cup spans'[x].env)
                           THEN 1 ELSE 0
  BY <1>1, <1>4, <1>5, <1>8, <1>9
<1>11. n \in superseded'[w] <=> n \in next
  BY <1>1, <1>3, <1>4
<1>12. n \in spans'[x].own => n \in next
  BY <1>1, <1>4, <1>5
<1>13. n \in spans'[x].env => n \in EnvTools
  BY <1>1, <1>6
<1>14. n \in spans'[x].due <=> n \in EnvTools \cup next
  BY <1>1, <1>4, <1>7
<1> QED
  BY <1>1, <1>10, <1>11, <1>12, <1>13, <1>14 DEF Told, next

LEMMA ApplySent ==
  ASSUME ShapeInv, SentInv, NEW w \in Worker, NEW r, DOMAIN r \subseteq Tool, Apply(w, r), applying[w] = "no"
  PROVE  SentInv'
<1>1. /\ \A v \in Worker \ {w} : active'[v] = active[v] /\ applying'[v] = applying[v]
      /\ applying'[w] = "built" /\ superseded' = superseded
      /\ \A x \in Span : SpanApplied(x, w, r)
  <2>1. superseded' = superseded
    BY DEF Apply
  <2> QED
    BY <2>1, ApplyIs
<1>2. ASSUME NEW v \in Worker, applying'[v] = "no"
      PROVE  superseded'[v] = DOMAIN active'[v]
  BY <1>1, <1>2 DEF SentInv
<1>3. ASSUME NEW x \in Span
      PROVE  /\ spans'[x].worker = "none" => spans'[x] = Unborn
             /\ spans'[x].worker # "none" => \A n \in spans'[x].calm : Told(x, n)'
  <2>1. CASE spans[x].worker = w
    BY <1>1, <2>1, ApplyTold, IntegrationsAssumption DEF SpanApplied
  <2>2. CASE spans[x].worker # w
    <3>1. spans'[x] = spans[x]
      BY <1>1, <2>2 DEF SpanApplied
    <3>2. \A v \in Worker \ {w} : /\ active'[v] = active[v] /\ applying'[v] = applying[v]
                                  /\ superseded'[v] = superseded[v]
      BY <1>1
    <3> QED
      BY <2>2, <3>1, <3>2, ElsewhereKept
  <2> QED
    BY <2>1, <2>2
<1> QED
  BY <1>2, <1>3 DEF SentInv

\* Requests only move rows.
LEMMA HandsKeep ==
  ASSUME ExportInv, NEW s \in Session, NEW job, RequestOK(job), hand' = [hand EXCEPT ![s] = job],
         DOMAIN rows' \subseteq Tool, UNCHANGED workerVars
  PROVE  ExportInv'
<1>1. DOMAIN hand' = Session /\ \A t \in Session : RequestOK(hand'[t])
  BY ShapeHands DEF ExportInv
<1>2. (\A t \in Session : RequestOK(hand[t]))'
  BY <1>1 DEF RequestOK
<1>3. ShapeInv'
  BY <1>1, <1>2 DEF ExportInv, ShapeInv, workerVars
<1> QED
  BY <1>3, SentKept DEF ExportInv, workerVars

LEMMA AskExported ==
  ASSUME ExportInv, NEW s \in Session, NEW w \in Worker, NEW n \in Tool, NEW op \in EditOps, NEW on, NEW c,
         AskIntegration(s, w, n, op, on, c)
  PROVE  ExportInv'
<1> DEFINE job == [op |-> op, at |-> "reading", worker |-> w, name |-> n, on |-> on, config |-> c, was |-> {}]
<1>1. RequestOK(job)
  BY DEF RequestOK
<1>2. hand' = [hand EXCEPT ![s] = job] /\ UNCHANGED integrationVars
  BY DEF AskIntegration, Accept
<1> HIDE DEF job
<1> QED
  BY <1>1, <1>2, HandsKeep DEF ExportInv, ShapeInv, integrationVars, workerVars

LEMMA ReadExported ==
  ASSUME ExportInv, NEW s \in Session, ReadIntegration(s)
  PROVE  ExportInv'
<1> DEFINE was == {rows[n] : n \in DOMAIN rows \cap {hand[s].name}}
           job == [hand[s] EXCEPT !.at = "read", !.was = was]
<1>1. hand[s].op \in EditOps /\ RequestOK(hand[s])
  BY DEF ReadIntegration, EditOps, ExportInv, ShapeInv
<1>2. RequestOK(job) /\ RequestOK(NoRequest)
  BY <1>1, WasAdded, RequestsAre
<1>3. hand' = [hand EXCEPT ![s] = NoRequest] \/ hand' = [hand EXCEPT ![s] = job]
  BY DEF ReadIntegration, Finish, Proceed
<1>4. UNCHANGED integrationVars
  BY DEF ReadIntegration
<1> HIDE DEF job
<1> QED
  BY <1>2, <1>3, <1>4, HandsKeep DEF ExportInv, ShapeInv, integrationVars, workerVars

LEMMA CommitExported ==
  ASSUME ExportInv, NEW s \in Session, CommitIntegration(s)
  PROVE  ExportInv'
<1> DEFINE n == hand[s].name
           job == [op |-> "load", at |-> "committed", worker |-> hand[s].worker]
<1>1. hand[s].op \in EditOps /\ RequestOK(hand[s])
  BY DEF CommitIntegration, EditOps, ExportInv, ShapeInv
<1>2. n \in Tool
  BY <1>1, RequestsAre
<1>3. RequestOK(job) /\ RequestOK(NoRequest)
  BY <1>1, RequestsAre DEF RequestOK
<1>4. hand' = [hand EXCEPT ![s] = NoRequest] \/ hand' = [hand EXCEPT ![s] = job]
  BY DEF CommitIntegration, Finish, Proceed
<1>5. DOMAIN rows' \subseteq DOMAIN rows \cup {n}
  BY DEF CommitIntegration
<1>6. UNCHANGED workerVars /\ DOMAIN rows \subseteq Tool
  BY DEF CommitIntegration, ExportInv, ShapeInv
<1> HIDE DEF job, n
<1>7. DOMAIN rows' \subseteq Tool
  BY <1>2, <1>5, <1>6
<1> QED
  BY <1>3, <1>4, <1>6, <1>7, HandsKeep

LEMMA LoadExported ==
  ASSUME ExportInv, NEW s \in Session, LoadForRequest(s)
  PROVE  ExportInv'
<1> DEFINE job == [op |-> "load", at |-> "loaded", worker |-> hand[s].worker, rows |-> rows]
<1>1. RequestOK(job)
  BY RequestsAre DEF RequestOK, ExportInv, ShapeInv, LoadForRequest
<1>2. hand' = [hand EXCEPT ![s] = job] /\ UNCHANGED integrationVars
  BY DEF LoadForRequest, Proceed
<1> HIDE DEF job
<1> QED
  BY <1>1, <1>2, HandsKeep DEF ExportInv, ShapeInv, integrationVars, workerVars

\* Applying rows, whoever does.
LEMMA ApplyExported ==
  ASSUME ExportInv, NEW w \in Worker, NEW r, DOMAIN r \subseteq Tool, Apply(w, r), applying[w] = "no",
         DOMAIN hand' = Session, \A s \in Session : RequestOK(hand'[s]),
         DOMAIN last' = Worker, DOMAIN loop' = Worker,
         \A v \in Worker : DOMAIN loop'[v] = {"at", "stamp", "rows"} /\ DOMAIN loop'[v].rows \subseteq Tool
  PROVE  ExportInv'
<1>1. (\A s \in Session : RequestOK(hand[s]))'
  BY DEF RequestOK
<1>2. ShapeInv'
  BY <1>1, ApplyIs DEF ExportInv, ShapeInv
<1> QED
  BY <1>2, ApplySent DEF ExportInv

LEMMA ApplyRequestExported ==
  ASSUME ExportInv, NEW s \in Session, ApplyForRequest(s)
  PROVE  ExportInv'
<1>1. DOMAIN hand[s].rows \subseteq Tool /\ hand[s].worker \in Worker
  BY RequestsAre DEF ApplyForRequest, ExportInv, ShapeInv
<1>2. hand' = [hand EXCEPT ![s] = NoRequest]
  BY DEF ApplyForRequest, Finish, Proceed
<1>3. DOMAIN hand' = Session /\ \A t \in Session : RequestOK(hand'[t])
  BY <1>2, ShapeHands, RequestsAre DEF ExportInv
<1>4. Apply(hand[s].worker, hand[s].rows) /\ applying[hand[s].worker] = "no" /\ UNCHANGED <<loop, last>>
  BY DEF ApplyForRequest, Runs
<1> QED
  BY <1>1, <1>3, <1>4, ApplyExported DEF ExportInv, ShapeInv

LEMMA ApplyLoopExported ==
  ASSUME ExportInv, NEW w \in Worker, ApplyForLoop(w)
  PROVE  ExportInv'
<1>1. DOMAIN loop[w].rows \subseteq Tool
  BY DEF ExportInv, ShapeInv
<1>2. /\ DOMAIN loop = Worker /\ DOMAIN last = Worker /\ DOMAIN hand = Session
      /\ \A v \in Worker : DOMAIN loop[v] = {"at", "stamp", "rows"} /\ DOMAIN loop[v].rows \subseteq Tool
      /\ \A s \in Session : RequestOK(hand[s])
  BY DEF ExportInv, ShapeInv
<1>3. Apply(w, loop[w].rows) /\ applying[w] = "no" /\ hand' = hand /\ DOMAIN last' = Worker
      /\ loop' = [loop EXCEPT ![w] = Resting]
  BY <1>2 DEF ApplyForLoop, Loop, Runs, sessionVars
<1>4. DOMAIN loop' = Worker
      /\ \A v \in Worker : DOMAIN loop'[v] = {"at", "stamp", "rows"} /\ DOMAIN loop'[v].rows \subseteq Tool
  BY <1>2, <1>3, RestingIs
<1> QED
  BY <1>1, <1>2, <1>3, <1>4, ApplyExported

LEMMA SupersedeExported ==
  ASSUME ExportInv, NEW w \in Worker, ClearSuperseded(w) \/ FillSuperseded(w)
  PROVE  ExportInv'
<1>1. /\ DOMAIN superseded = Worker /\ applying \in [Worker -> {"no", "built", "cleared"}]
      /\ spans \in [Span -> SpanType]
  BY DEF ExportInv, ShapeInv
<1>2. UNCHANGED <<hand, rows, active, loop, last, spans>>
  BY DEF ClearSuperseded, FillSuperseded, sessionVars
<1>3. /\ applying[w] # "no" /\ applying' \in [Worker -> {"no", "built", "cleared"}]
      /\ \A v \in Worker \ {w} : applying'[v] = applying[v] /\ superseded'[v] = superseded[v]
      /\ applying'[w] = "no" => superseded'[w] = DOMAIN active[w]
      /\ applying'[w] \in {"no", "cleared"}
      /\ DOMAIN superseded' = Worker
  BY <1>1 DEF ClearSuperseded, FillSuperseded
<1>4. ShapeInv'
  BY <1>2, <1>3 DEF ExportInv, ShapeInv, RequestOK
<1>5. ASSUME NEW x \in Span, spans[x].worker # "none", NEW n \in spans[x].calm
      PROVE  Told(x, n)'
  <2>1. Told(x, n) /\ spans[x].worker \in Worker
    BY <1>1, <1>5 DEF ExportInv, SentInv, SpanType
  <2>2. CASE spans[x].worker # w
    <3>1. /\ applying'[spans[x].worker] = applying[spans[x].worker]
          /\ superseded'[spans[x].worker] = superseded[spans[x].worker]
      BY <1>3, <2>1, <2>2
    <3> QED
      BY <1>2, <2>1, <3>1 DEF Told
  <2>3. CASE spans[x].worker = w
    <3>1. applying'[w] # "cleared" => superseded'[w] = DOMAIN active'[w]
      BY <1>2, <1>3
    <3> QED
      BY <1>2, <2>1, <2>3, <3>1 DEF Told
  <2> QED
    BY <2>2, <2>3
<1>6. SentInv'
  BY <1>2, <1>3, <1>5 DEF ExportInv, SentInv
<1> QED
  BY <1>4, <1>6 DEF ExportInv

LEMMA LoopExported ==
  ASSUME ExportInv, NEW w \in Worker, NEW fails, ReadStamp(w) \/ LoadForLoop(w, fails)
  PROVE  ExportInv'
<1>1. UNCHANGED <<hand, rows, active, superseded, applying, last, spans>>
  BY DEF ReadStamp, LoadForLoop, sessionVars
<1>2. /\ DOMAIN loop = Worker /\ DOMAIN rows \subseteq Tool
      /\ \A v \in Worker : DOMAIN loop[v] = {"at", "stamp", "rows"} /\ DOMAIN loop[v].rows \subseteq Tool
  BY DEF ExportInv, ShapeInv
<1>3. PICK state : /\ loop' = [loop EXCEPT ![w] = state]
                   /\ DOMAIN state = {"at", "stamp", "rows"} /\ DOMAIN state.rows \subseteq Tool
  <2>1. CASE ReadStamp(w)
    <3> DEFINE new == [at |-> "changed", stamp |-> Stamp, rows |-> <<>>]
    <3>1. DOMAIN new = {"at", "stamp", "rows"} /\ DOMAIN new.rows \subseteq Tool
      BY EmptyRows
    <3>2. loop' = [loop EXCEPT ![w] = new]
      BY <2>1 DEF ReadStamp, Loop
    <3> QED
      BY <3>1, <3>2
  <2>2. CASE LoadForLoop(w, fails)
    <3> DEFINE full == [loop[w] EXCEPT !.at = "loaded", !.rows = rows]
    <3>1. DOMAIN full = {"at", "stamp", "rows"} /\ full["rows"] = rows
      BY <1>2
    <3>2. loop' = [loop EXCEPT ![w] = Resting] \/ loop' = [loop EXCEPT ![w] = full]
      BY <2>2 DEF LoadForLoop, Loop
    <3> HIDE DEF full
    <3> QED
      BY <1>2, <3>1, <3>2, RestingIs
  <2> QED
    BY <2>1, <2>2
<1>4. DOMAIN loop' = Worker
      /\ \A v \in Worker : DOMAIN loop'[v] = {"at", "stamp", "rows"} /\ DOMAIN loop'[v].rows \subseteq Tool
  BY <1>2, <1>3
<1>5. ShapeInv'
  BY <1>1, <1>4 DEF ExportInv, ShapeInv, RequestOK
<1> QED
  BY <1>1, <1>5, SentKept DEF ExportInv

LEMMA RestartExported ==
  ASSUME ExportInv, NEW w \in Worker, Restart(w)
  PROVE  ExportInv'
<1>1. ShapeInv /\ SentInv /\ spans \in [Span -> SpanType]
  BY DEF ExportInv, ShapeInv
<1>2. /\ DOMAIN active' = Worker /\ DOMAIN active'[w] = {} /\ superseded'[w] = {} /\ applying'[w] = "no"
      /\ \A v \in Worker \ {w} : /\ active'[v] = active[v] /\ superseded'[v] = superseded[v]
                                 /\ applying'[v] = applying[v]
      /\ DOMAIN superseded' = Worker /\ DOMAIN last' = Worker /\ applying' \in [Worker -> {"no", "built", "cleared"}]
  BY <1>1, EmptyRows DEF Restart, ShapeInv
<1>3. /\ DOMAIN loop' = Worker /\ rows' = rows
      /\ \A v \in Worker : DOMAIN loop'[v] = {"at", "stamp", "rows"} /\ DOMAIN loop'[v].rows \subseteq Tool
  BY <1>1, RestingIs DEF Restart, Loop, ShapeInv
<1>4. DOMAIN hand' = Session /\ \A s \in Session : hand'[s] = NoRequest \/ hand'[s] = hand[s]
  BY <1>1 DEF Restart, ShapeInv
<1>5. (\A s \in Session : RequestOK(hand[s]))'
  BY <1>1, <1>4, RequestsAre DEF ShapeInv, RequestOK
<1>6. ASSUME NEW x \in Span
      PROVE  /\ spans'[x] \in SpanType /\ spans'[x].worker = spans[x].worker
             /\ spans[x].worker = w => spans'[x].calm = {}
             /\ spans[x].worker # w => spans'[x] = spans[x]
  <2>1. spans'[x] = IF spans[x].worker = w THEN [spans[x] EXCEPT !.env = {}, !.own = {}, !.calm = {}] ELSE spans[x]
    BY DEF Restart
  <2>2. CASE spans[x].worker # w
    BY <1>1, <2>1, <2>2
  <2>3. CASE spans[x].worker = w
    <3>1. spans[x] \in SpanType
      BY <1>1
    <3>2. spans'[x] = [worker |-> spans[x].worker, env |-> {}, own |-> {}, due |-> spans[x].due,
                       sent |-> spans[x].sent, calm |-> {}]
      BY <2>1, <2>3, <3>1 DEF SpanType
    <3> QED
      BY <2>3, <3>1, <3>2 DEF SpanType
  <2> QED
    BY <2>2, <2>3
<1>7. spans' \in [Span -> SpanType]
  <2>1. spans' = [x \in Span |-> spans'[x]]
    BY DEF Restart
  <2> QED
    BY <1>6, <2>1
<1>8. ShapeInv'
  <2>1. \A v \in Worker : DOMAIN active'[v] \subseteq Tool
    BY <1>1, <1>2 DEF ShapeInv
  <2> QED
    BY <1>1, <1>2, <1>3, <1>4, <1>5, <1>7, <2>1 DEF ShapeInv
<1>9. ASSUME NEW x \in Span
      PROVE  /\ spans'[x].worker = "none" => spans'[x] = Unborn
             /\ spans'[x].worker # "none" => \A n \in spans'[x].calm : Told(x, n)'
  <2>1. CASE spans[x].worker = w
    BY <1>6, <2>1, IntegrationsAssumption
  <2>2. CASE spans[x].worker # w
    BY <1>1, <1>2, <1>6, <2>2, ElsewhereKept
  <2> QED
    BY <2>1, <2>2
<1>10. \A v \in Worker : applying'[v] = "no" => superseded'[v] = DOMAIN active'[v]
  BY <1>1, <1>2 DEF SentInv
<1>11. SentInv'
  BY <1>9, <1>10 DEF SentInv
<1> QED
  BY <1>8, <1>11 DEF ExportInv

\* One span moves on.
LEMMA SpanMoves ==
  ASSUME ExportInv, NEW x \in Span, NEW sp \in SpanType, sp.worker # "none",
         spans' = [spans EXCEPT ![x] = sp],
         UNCHANGED <<sessionVars, rows, now, dropped, active, superseded, applying, loop, last>>,
         \A n \in sp.calm : Told(x, n)'
  PROVE  ExportInv'
<1>1. /\ spans' \in [Span -> SpanType] /\ spans'[x] = sp
      /\ \A y \in Span \ {x} : spans'[y] = spans[y]
  BY DEF ExportInv, ShapeInv
<1>2. ShapeInv'
  BY <1>1 DEF ExportInv, ShapeInv, RequestOK, sessionVars
<1>3. ASSUME NEW y \in Span \ {x}
      PROVE  /\ spans'[y].worker = "none" => spans'[y] = Unborn
             /\ spans'[y].worker # "none" => \A n \in spans'[y].calm : Told(y, n)'
  BY <1>1, ToldKept DEF ExportInv
<1>4. \A v \in Worker : applying'[v] = "no" => superseded'[v] = DOMAIN active'[v]
  BY DEF ExportInv, SentInv
<1>5. SentInv'
  BY <1>1, <1>3, <1>4 DEF SentInv
<1> QED
  BY <1>2, <1>5 DEF ExportInv

LEMMA EndExported ==
  ASSUME ExportInv, NEW x \in Span, NEW w \in Worker, EndSpan(x, w)
  PROVE  ExportInv'
<1> DEFINE ran == DOMAIN active[w]
           sp == [worker |-> w, env |-> EnvTools, own |-> ran, due |-> EnvTools \cup ran,
                  sent |-> [n \in Tool |-> 0], calm |-> Tool]
<1>1. ran \subseteq Tool /\ applying[w] = "no" /\ superseded[w] = ran /\ spans \in [Span -> SpanType]
  BY DEF ExportInv, ShapeInv, SentInv, EndSpan, Runs
<1>2. /\ spans' = [spans EXCEPT ![x] = sp]
      /\ UNCHANGED <<sessionVars, rows, now, dropped, active, superseded, applying, loop, last>>
  BY DEF EndSpan
<1>3. sp \in SpanType /\ sp.worker # "none"
  BY <1>1, IntegrationsAssumption DEF SpanType
<1>4. spans'[x] = sp
  BY <1>1, <1>2
<1>5. ASSUME NEW n \in sp.calm
      PROVE  Told(x, n)'
  BY <1>1, <1>2, <1>4 DEF Told
<1> HIDE DEF sp
<1> QED
  BY <1>2, <1>3, <1>5, SpanMoves

LEMMA SendEnvExported ==
  ASSUME ExportInv, NEW x \in Span, NEW n \in Tool, SendEnv(x, n)
  PROVE  ExportInv'
<1> DEFINE span == spans[x]
           w == span.worker
           out == {m \in {n} : EnvSends(w, n)}
           calm == IF applying[w] = "cleared" THEN span.calm \ {n} ELSE span.calm
           sp == [worker |-> w, env |-> span.env \ {n}, own |-> span.own, due |-> span.due,
                  sent |-> Sent(span.sent, out), calm |-> calm]
<1>1. span \in SpanType /\ n \in span.env /\ spans \in [Span -> SpanType]
  BY DEF ExportInv, ShapeInv, SendEnv
<1>2. /\ spans' = [spans EXCEPT ![x] = sp] /\ spans'[x] = sp
      /\ UNCHANGED <<sessionVars, rows, now, dropped, active, superseded, applying, loop, last>>
  <2>1. spans' = [spans EXCEPT ![x].sent = Sent(span.sent, out), ![x].env = span.env \ {n}, ![x].calm = calm]
    BY DEF SendEnv
  <2>2. Sent(span.sent, out) \in [Tool -> Nat]
    BY <1>1 DEF Sent, SpanType
  <2> DEFINE t == Sent(span.sent, out)
             o == span.env \ {n}
  <2> HIDE DEF t, o, calm
  <2>3. ASSUME NEW q, q = [span EXCEPT !.sent = t, !.env = o, !.calm = calm]
        PROVE  q = [worker |-> span.worker, env |-> o, own |-> span.own, due |-> span.due, sent |-> t, calm |-> calm]
    BY <1>1, <2>3 DEF SpanType
  <2> QED
    BY <1>1, <2>1, <2>3 DEF SendEnv, t, o
<1>3. w # "none" /\ w \in Worker
  <2>1. w # "none"
    BY <1>1 DEF ExportInv, SentInv, Unborn
  <2> QED
    BY <1>1, <2>1 DEF SpanType
<1>4. sp \in SpanType
  BY <1>1 DEF SpanType, Sent
<1>5. ASSUME NEW m \in calm
      PROVE  Told(x, m)'
  <2>1. Told(x, m) /\ m \in Tool /\ span.sent \in [Tool -> Nat]
    BY <1>1, <1>3, <1>5 DEF ExportInv, SentInv, SpanType
  <2>2. sp.sent[m] = span.sent[m] + IF m = n /\ EnvSends(w, n) THEN 1 ELSE 0
    BY <2>1 DEF Sent
  <2>3. m = n => (EnvSends(w, n) <=> n \notin DOMAIN active[w])
    BY <1>5, <2>1 DEF Told, EnvSends
  <2>4. m = n => n \in EnvTools
    BY <1>1, <2>1 DEF Told
  <2>5. /\ m \in span.own => m \in DOMAIN active[w]
        /\ m \in span.env => m \in EnvTools
        /\ m \in span.due <=> m \in EnvTools \cup DOMAIN active[w]
        /\ applying[w] # "cleared" => (m \in superseded[w] <=> m \in DOMAIN active[w])
    BY <2>1 DEF Told
  <2>6. span.sent[m] = IF m \in DOMAIN active[w] \ span.own \/ m \in EnvTools \ (DOMAIN active[w] \cup span.env)
                       THEN 1 ELSE 0
    BY <2>1 DEF Told
  <2>7. sp.worker = w /\ sp.own = span.own /\ sp.due = span.due /\ sp.env = span.env \ {n}
    OBVIOUS
  <2>8. spans'[x] = sp /\ UNCHANGED <<active, superseded, applying>>
    BY <1>2
  <2> HIDE DEF sp
  <2>9. sp.sent[m] = IF m \in DOMAIN active[w] \ sp.own \/ m \in EnvTools \ (DOMAIN active[w] \cup sp.env)
                     THEN 1 ELSE 0
    BY <1>1, <2>2, <2>3, <2>4, <2>5, <2>6, <2>7
  <2> QED
    BY <2>5, <2>7, <2>8, <2>9 DEF Told
<1> HIDE DEF sp
<1>6. sp.worker = w /\ sp.calm = calm
  BY DEF sp
<1> QED
  BY <1>2, <1>3, <1>4, <1>5, <1>6, SpanMoves

LEMMA SendOwnExported ==
  ASSUME ExportInv, NEW x \in Span, NEW n \in Tool, SendOwn(x, n)
  PROVE  ExportInv'
<1> DEFINE span == spans[x]
           w == span.worker
           sp == [worker |-> w, env |-> span.env, own |-> span.own \ {n}, due |-> span.due,
                  sent |-> Sent(span.sent, {n}), calm |-> span.calm]
<1>1. span \in SpanType /\ n \in span.own /\ spans \in [Span -> SpanType]
  BY DEF ExportInv, ShapeInv, SendOwn
<1>2. /\ spans' = [spans EXCEPT ![x] = sp] /\ spans'[x] = sp
      /\ UNCHANGED <<sessionVars, rows, now, dropped, active, superseded, applying, loop, last>>
  <2>1. spans' = [spans EXCEPT ![x].sent = Sent(span.sent, {n}), ![x].own = span.own \ {n}]
    BY DEF SendOwn
  <2>2. Sent(span.sent, {n}) \in [Tool -> Nat]
    BY <1>1 DEF Sent, SpanType
  <2> DEFINE t == Sent(span.sent, {n})
             o == span.own \ {n}
  <2> HIDE DEF t, o
  <2>3. ASSUME NEW q, q = [span EXCEPT !.sent = t, !.own = o]
        PROVE  q = [worker |-> span.worker, env |-> span.env, own |-> o, due |-> span.due, sent |-> t, calm |-> span.calm]
    BY <1>1, <2>3 DEF SpanType
  <2> QED
    BY <1>1, <2>1, <2>3 DEF SendOwn, t, o
<1>3. w # "none" /\ w \in Worker
  <2>1. w # "none"
    BY <1>1 DEF ExportInv, SentInv, Unborn
  <2> QED
    BY <1>1, <2>1 DEF SpanType
<1>4. sp \in SpanType
  BY <1>1 DEF SpanType, Sent
<1>5. ASSUME NEW m \in span.calm
      PROVE  Told(x, m)'
  <2>1. Told(x, m) /\ m \in Tool /\ span.sent \in [Tool -> Nat]
    BY <1>1, <1>3, <1>5 DEF ExportInv, SentInv, SpanType
  <2>2. sp.sent[m] = span.sent[m] + IF m = n THEN 1 ELSE 0
    BY <2>1 DEF Sent
  <2>3. sp.sent[m] = IF m \in DOMAIN active[w] \ (span.own \ {n}) \/ m \in EnvTools \ (DOMAIN active[w] \cup span.env)
                     THEN 1 ELSE 0
    BY <1>1, <2>1, <2>2 DEF Told
  <2>4. sp.worker = w /\ sp.own = span.own \ {n} /\ sp.due = span.due /\ sp.env = span.env
    OBVIOUS
  <2>5. spans'[x] = sp /\ UNCHANGED <<active, superseded, applying>>
    BY <1>2
  <2> HIDE DEF sp
  <2> QED
    BY <2>1, <2>3, <2>4, <2>5 DEF Told
<1> HIDE DEF sp
<1>6. sp.worker = w /\ sp.calm = span.calm
  BY DEF sp
<1> QED
  BY <1>2, <1>3, <1>4, <1>5, <1>6, SpanMoves

LEMMA SettingsExported ==
  ASSUME ExportInv, SettingsNext(Session, Worker)
  PROVE  ExportInv'
<1>1. CASE \E s \in Session, w \in Worker, n \in Tool, on \in BOOLEAN, c \in Config :
             AskIntegration(s, w, n, "save", on, c)
  BY <1>1, AskExported DEF EditOps
<1>2. CASE \E s \in Session, w \in Worker, n \in Tool, on \in BOOLEAN : AskIntegration(s, w, n, "toggle", on, NoConfig)
  BY <1>2, AskExported DEF EditOps
<1>3. CASE \E s \in Session, w \in Worker, n \in Tool : AskIntegration(s, w, n, "drop", FALSE, NoConfig)
  BY <1>3, AskExported DEF EditOps
<1>4. CASE \E s \in Session : ReadIntegration(s) \/ CommitIntegration(s) \/ LoadForRequest(s) \/ ApplyForRequest(s)
  BY <1>4, ReadExported, CommitExported, LoadExported, ApplyRequestExported
<1>5. CASE \E w \in Worker : ClearSuperseded(w) \/ FillSuperseded(w) \/ ReadStamp(w) \/ ApplyForLoop(w) \/ Restart(w)
  BY <1>5, SupersedeExported, LoopExported, ApplyLoopExported, RestartExported
<1>6. CASE \E w \in Worker, fails \in BOOLEAN : LoadForLoop(w, fails)
  BY <1>6, LoopExported
<1> QED
  BY <1>1, <1>2, <1>3, <1>4, <1>5, <1>6 DEF SettingsNext

LEMMA ExportStep == ExportInv /\ [IntegrationsNext]_integVars => ExportInv'
<1> SUFFICES ASSUME ExportInv, [IntegrationsNext]_integVars
             PROVE  ExportInv'
  OBVIOUS
<1>1. CASE SettingsNext(Session, Worker)
  BY <1>1, SettingsExported
<1>2. CASE SpanNext(Worker)
  BY <1>2, EndExported, SendEnvExported, SendOwnExported DEF SpanNext
<1>3. CASE UNCHANGED integVars
  BY <1>3, ShapeKept, SentKept DEF integVars, ExportInv, integrationVars
<1> QED
  BY <1>1, <1>2, <1>3 DEF IntegrationsNext

LEMMA ExportImplies == ExportInv => ExportedOnce
<1> SUFFICES ASSUME ExportInv, NEW x \in Span,
                    NEW n \in spans[x].calm \ (spans[x].env \cup spans[x].own)
             PROVE  spans[x].sent[n] = IF n \in spans[x].due THEN 1 ELSE 0
  BY DEF ExportedOnce
<1>1. CASE spans[x].worker = "none"
  BY <1>1 DEF ExportInv, SentInv, Unborn
<1>2. CASE spans[x].worker # "none"
  BY <1>2 DEF ExportInv, SentInv, Told
<1> QED
  BY <1>1, <1>2

\* A span reaches a tool that was due when it ended once and no other one,
\* whatever is applied under it, unless the tool itself is turned on or off
\* or its environment's exporter sends while the set that silences it is
\* filled again (sinks.py:106-108, 131-152, manager.py:38-50, 188-220).
THEOREM ExportsHappenOnce == IntegrationsSpec => []ExportedOnce
<1>1. IntegrationsSpec => []ExportInv
  BY ExportInit, ExportStep, PTL DEF IntegrationsSpec, integVars
<1> QED
  BY <1>1, ExportImplies, PTL

-----------------------------------------------------------------------------
(* Integrations: what runs is what is stored.                              *)

\* What the rows say that a worker runs.
Stored == [n \in {n \in DOMAIN rows : rows[n].on /\ rows[n].config \notin Broken} |-> rows[n].config]

Alone == \A s \in Session, t \in Session : s = t \/ hand[s] = NoRequest \/ hand[t] = NoRequest

\* Until a row is deleted the latest time grows with every change.
TimesInv ==
  /\ now \in Nat
  /\ ~dropped =>
       /\ \A n \in DOMAIN rows : rows[n].time \in Nat /\ rows[n].time <= now
       /\ Stamp[2] \in Nat /\ Stamp[2] <= now
       /\ \A w \in Worker : /\ last[w][2] \in Int /\ last[w][2] <= now
                            /\ loop[w].stamp[2] \in Int /\ loop[w].stamp[2] <= now
                            /\ loop[w].at = "loaded" /\ loop[w].stamp = Stamp => loop[w].rows = rows

\* A worker that has seen the present stamp and is not about to apply what
\* it has moved itself runs what is stored.
AppliedInv ==
  ~overlapped =>
    /\ Alone
    /\ ~dropped =>
         /\ \A s \in Session : hand[s].op = "load" /\ hand[s].at = "loaded" => hand[s].rows = rows
         /\ \A w \in Worker :
              last[w] = Stamp /\ (\A s \in Session : hand[s].op = "load" => hand[s].worker # w) => active[w] = Stored

StoredInv == ShapeInv /\ TimesInv /\ AppliedInv

LEMMA StoredIs == \A w : Stored = [n \in Startable(w, rows) |-> rows[n].config]
BY DEF Stored, Startable, Wanted

LEMMA MaxIs ==
  ASSUME NEW S, S \subseteq Nat, NEW m \in S, \A x \in S : x <= m
  PROVE  Max(S) = m
<1>1. Max(S) \in S /\ \A y \in S : Max(S) >= y
  <2>1. \E x \in S : \A y \in S : x >= y
    OBVIOUS
  <2> QED
    BY <2>1 DEF Max
<1>2. Max(S) \in Nat /\ m \in Nat /\ Max(S) >= m /\ Max(S) <= m
  BY <1>1
<1> QED
  BY <1>2

LEMMA NoStampIs == NoStamp[2] = -1 /\ Resting.stamp = NoStamp /\ Resting.at = "resting"
BY DEF NoStamp, Resting

LEMMA StoredInit == SessionsInit(0) /\ IntegrationsInit => StoredInv
<1> SUFFICES ASSUME SessionsInit(0), IntegrationsInit
             PROVE  StoredInv
  OBVIOUS
<1>1. ShapeInv
  BY ExportInit DEF ExportInv
<1>2. DOMAIN rows = {} /\ now = 0
  BY EmptyRows DEF IntegrationsInit
<1>3. Stamp[2] = 0
  <2>1. {0} \cup {rows[n].time : n \in DOMAIN rows} = {0}
    BY <1>2
  <2>2. Max({0}) = 0
    BY MaxIs
  <2> QED
    BY <2>1, <2>2 DEF Stamp
<1>4. \A w \in Worker : last[w] = NoStamp /\ loop[w] = Resting
  BY DEF IntegrationsInit
<1>5. TimesInv
  BY <1>2, <1>3, <1>4, NoStampIs DEF TimesInv
<1>6. AppliedInv
  <2>1. \A s \in Session : hand[s] = NoRequest
    BY DEF SessionsInit
  <2>2. \A w \in Worker : last[w] # Stamp
    BY <1>3, <1>4, NoStampIs
  <2> QED
    BY <2>1, <2>2, RequestsAre DEF AppliedInv, Alone
<1> QED
  BY <1>1, <1>5, <1>6 DEF StoredInv

\* While the rows stay, what is stored and its stamp do.
LEMMA RowsKeep ==
  ASSUME rows' = rows
  PROVE  Stored' = Stored /\ Stamp' = Stamp
BY DEF Stored, Stamp

LEMMA TimesKept ==
  ASSUME TimesInv, UNCHANGED <<rows, now, dropped, last, loop>>
  PROVE  TimesInv'
BY RowsKeep DEF TimesInv

LEMMA AppliedKept ==
  ASSUME AppliedInv, UNCHANGED <<rows, dropped, last, active, hand, overlapped>>
  PROVE  AppliedInv'
BY RowsKeep DEF AppliedInv, Alone

\* One request moves on and the rows stay.
LEMMA AppliedMoves ==
  ASSUME ShapeInv, AppliedInv, NEW s \in Session, NEW job,
         hand' = [hand EXCEPT ![s] = job], overlapped' = overlapped,
         UNCHANGED <<rows, dropped, last, active>>,
         job = NoRequest \/ hand[s] # NoRequest,
         job.op = "load" /\ job.at = "loaded" => job.rows = rows,
         hand[s].op = "load" => job.op = "load" /\ job.worker = hand[s].worker
  PROVE  AppliedInv'
<1>1. DOMAIN hand = Session /\ hand'[s] = job /\ \A t \in Session \ {s} : hand'[t] = hand[t]
  BY DEF ShapeInv
<1>2. Stored' = Stored /\ Stamp' = Stamp
  BY RowsKeep
<1>3. Alone => Alone'
  BY <1>1 DEF Alone
<1>4. ASSUME NEW w \in Worker, \A t \in Session : hand'[t].op = "load" => hand'[t].worker # w
      PROVE  \A t \in Session : hand[t].op = "load" => hand[t].worker # w
  BY <1>1, <1>4
<1>5. ASSUME ~overlapped, ~dropped, NEW t \in Session, hand'[t].op = "load", hand'[t].at = "loaded"
      PROVE  hand'[t].rows = rows
  BY <1>1, <1>5 DEF AppliedInv
<1> QED
  BY <1>2, <1>3, <1>4, <1>5 DEF AppliedInv

LEMMA AskStored ==
  ASSUME StoredInv, NEW s \in Session, NEW w \in Worker, NEW n \in Tool, NEW op \in EditOps, NEW on, NEW c,
         AskIntegration(s, w, n, op, on, c)
  PROVE  TimesInv' /\ AppliedInv'
<1> DEFINE job == [op |-> op, at |-> "reading", worker |-> w, name |-> n, on |-> on, config |-> c, was |-> {}]
<1>1. /\ hand' = [hand EXCEPT ![s] = job] /\ hand[s] = NoRequest
      /\ overlapped' = (overlapped \/ \E other \in Session \ {s} : hand[other] # NoRequest)
      /\ UNCHANGED integrationVars
  BY DEF AskIntegration, Accept
<1>2. job.op # "load"
  BY DEF EditOps
<1> HIDE DEF job
<1>3. TimesInv'
  BY <1>1, TimesKept DEF StoredInv, integrationVars
<1>4. DOMAIN hand = Session /\ hand'[s] = job /\ \A t \in Session \ {s} : hand'[t] = hand[t]
  BY <1>1 DEF StoredInv, ShapeInv
<1>5. ASSUME ~overlapped'
      PROVE  ~overlapped /\ Alone'
  BY <1>1, <1>4, <1>5 DEF Alone
<1>6. ASSUME NEW v \in Worker, \A t \in Session : hand'[t].op = "load" => hand'[t].worker # v
      PROVE  \A t \in Session : hand[t].op = "load" => hand[t].worker # v
  BY <1>1, <1>4, <1>6, RequestsAre
<1>7. \A t \in Session : hand'[t].op = "load" => hand'[t] = hand[t]
  BY <1>2, <1>4
<1>8. Stored' = Stored /\ Stamp' = Stamp /\ rows' = rows /\ dropped' = dropped /\ last' = last /\ active' = active
  BY <1>1, RowsKeep DEF integrationVars
<1>9. AppliedInv'
  BY <1>5, <1>6, <1>7, <1>8 DEF AppliedInv, StoredInv
<1> QED
  BY <1>3, <1>9

LEMMA ReadStored ==
  ASSUME StoredInv, NEW s \in Session, ReadIntegration(s)
  PROVE  TimesInv' /\ AppliedInv'
<1> DEFINE was == {rows[n] : n \in DOMAIN rows \cap {hand[s].name}}
           job == [hand[s] EXCEPT !.at = "read", !.was = was]
<1>1. hand[s].op \in EditOps /\ RequestOK(hand[s])
  BY DEF ReadIntegration, EditOps, StoredInv, ShapeInv
<1>2. job.op = hand[s].op
  BY <1>1, WasAdded
<1>3. hand' = [hand EXCEPT ![s] = NoRequest] \/ hand' = [hand EXCEPT ![s] = job]
  BY DEF ReadIntegration, Finish, Proceed
<1>4. UNCHANGED integrationVars /\ overlapped' = overlapped
  BY DEF ReadIntegration, Finish, Proceed
<1>5. hand[s].op # "load" /\ NoRequest.op # "load" /\ hand[s] # NoRequest
  BY <1>1, RequestsAre DEF EditOps
<1> HIDE DEF job
<1>6. AppliedInv'
  BY <1>2, <1>3, <1>4, <1>5, AppliedMoves DEF StoredInv, integrationVars
<1> QED
  BY <1>4, <1>6, TimesKept DEF StoredInv, integrationVars

LEMMA LoadStored ==
  ASSUME StoredInv, NEW s \in Session, LoadForRequest(s)
  PROVE  TimesInv' /\ AppliedInv'
<1> DEFINE job == [op |-> "load", at |-> "loaded", worker |-> hand[s].worker, rows |-> rows]
<1>1. /\ hand' = [hand EXCEPT ![s] = job] /\ overlapped' = overlapped /\ UNCHANGED integrationVars
      /\ hand[s].op = "load"
  BY DEF LoadForRequest, Proceed
<1>2. job.op = "load" /\ job.worker = hand[s].worker /\ job.rows = rows
  OBVIOUS
<1>3. hand[s] # NoRequest
  BY <1>1, RequestsAre
<1> HIDE DEF job
<1>4. AppliedInv'
  BY <1>1, <1>2, <1>3, AppliedMoves DEF StoredInv, integrationVars
<1> QED
  BY <1>1, <1>4, TimesKept DEF StoredInv, integrationVars

\* What a commit leaves, unless it deletes: the rows as they are, or a row
\* that is newer than all others.
LEMMA CommitRows ==
  ASSUME StoredInv, NEW s \in Session, CommitIntegration(s), ~dropped'
  PROVE  /\ ~dropped /\ now' = now + 1
         /\ \A n \in DOMAIN rows' : rows'[n].time \in Nat /\ rows'[n].time <= now'
         /\ (rows' = rows /\ hand' = [hand EXCEPT ![s] = NoRequest]) \/ Stamp'[2] = now + 1
<1> DEFINE n == hand[s].name
           ok == hand[s].op = "drop" \/ (hand[s].was # {}) = (n \in DOMAIN rows)
           new == [m \in DOMAIN rows \cup {n} |->
                     IF m # n THEN rows[m]
                     ELSE IF n \in DOMAIN rows THEN Saved(rows[n], CHOOSE x \in hand[s].was : TRUE, hand[s])
                     ELSE [on |-> hand[s].on, config |-> hand[s].config, time |-> now + 1]]
<1>1. ~dropped /\ hand[s].op # "drop" /\ now' = now + 1
  BY DEF CommitIntegration
<1>2. rows' = IF ok THEN new ELSE rows
  <2>1. CASE ok
    BY <1>1, <2>1 DEF CommitIntegration
  <2>2. CASE ~ok
    BY <1>1, <2>2 DEF CommitIntegration
  <2> QED
    BY <2>1, <2>2
<1>3. now \in Nat /\ \A m \in DOMAIN rows : rows[m].time \in Nat /\ rows[m].time <= now
  BY <1>1 DEF StoredInv, TimesInv
<1>4. CASE ~ok
  <2>1. hand' = [hand EXCEPT ![s] = NoRequest]
    BY <1>4 DEF CommitIntegration, Finish, Proceed
  <2> HIDE DEF ok, new
  <2> QED
    BY <1>1, <1>2, <1>3, <1>4, <2>1
<1>5. CASE ok
  <2>1. DOMAIN new = DOMAIN rows \cup {n} /\ new[n].time = now + 1 /\ \A m \in DOMAIN rows \ {n} : new[m] = rows[m]
    BY DEF Saved
  <2>2. rows' = new
    BY <1>2, <1>5
  <2> HIDE DEF ok, new, n
  <2>3. \A m \in DOMAIN rows' : rows'[m].time \in Nat /\ rows'[m].time <= now + 1
    BY <1>3, <2>1, <2>2
  <2> DEFINE times == {0} \cup {rows'[m].time : m \in DOMAIN rows'}
  <2>4. times \subseteq Nat /\ now + 1 \in times /\ \A t \in times : t <= now + 1
    BY <1>3, <2>1, <2>2, <2>3
  <2>5. Stamp' = <<Cardinality(DOMAIN rows'), Max(times)>>
    BY DEF Stamp
  <2> HIDE DEF times
  <2>6. Stamp'[2] = now + 1
    BY <2>4, <2>5, MaxIs
  <2> QED
    BY <1>1, <2>3, <2>6
<1> QED
  BY <1>4, <1>5

LEMMA CommitStored ==
  ASSUME StoredInv, NEW s \in Session, CommitIntegration(s)
  PROVE  TimesInv' /\ AppliedInv'
<1> DEFINE job == [op |-> "load", at |-> "committed", worker |-> hand[s].worker]
<1>0. now \in Nat /\ now' = now + 1 /\ DOMAIN hand = Session
  BY DEF StoredInv, TimesInv, ShapeInv, CommitIntegration
<1>1. UNCHANGED workerVars /\ overlapped' = overlapped
  BY DEF CommitIntegration, Finish, Proceed
<1>2. hand' = [hand EXCEPT ![s] = NoRequest] \/ hand' = [hand EXCEPT ![s] = job]
  BY DEF CommitIntegration, Finish, Proceed
<1>3. hand[s].op \in EditOps /\ hand[s] # NoRequest
  BY RequestsAre DEF CommitIntegration, EditOps
<1>4. ASSUME ~dropped'
      PROVE  /\ ~dropped
             /\ \A n \in DOMAIN rows' : rows'[n].time \in Nat /\ rows'[n].time <= now'
             /\ \/ rows' = rows /\ Stamp' = Stamp /\ hand' = [hand EXCEPT ![s] = NoRequest]
                \/ Stamp'[2] = now + 1
  BY <1>4, CommitRows, RowsKeep
<1> HIDE DEF job
<1>5. TimesInv'
  BY <1>0, <1>1, <1>4 DEF StoredInv, TimesInv, workerVars
<1>6. ASSUME ~overlapped, ~dropped', NEW w \in Worker, last[w] = Stamp',
             \A t \in Session : hand'[t].op = "load" => hand'[t].worker # w
      PROVE  active[w] = Stored'
  <2>1. last[w][2] \in Int /\ last[w][2] <= now
    BY <1>4, <1>6 DEF StoredInv, TimesInv
  <2>2. rows' = rows /\ Stamp' = Stamp /\ hand' = [hand EXCEPT ![s] = NoRequest] /\ Stored' = Stored
    BY <1>0, <1>4, <1>6, <2>1, RowsKeep
  <2>3. \A t \in Session : hand[t].op = "load" => hand[t].worker # w
    BY <1>0, <1>3, <1>6, <2>2 DEF EditOps
  <2> QED
    BY <1>4, <1>6, <2>2, <2>3 DEF StoredInv, AppliedInv
<1>7. ASSUME ~overlapped
      PROVE  \A t \in Session \ {s} : hand'[t] = NoRequest
  BY <1>0, <1>2, <1>3, <1>7 DEF StoredInv, AppliedInv, Alone
<1>8. ASSUME ~overlapped, ~dropped', NEW t \in Session, hand'[t].op = "load", hand'[t].at = "loaded"
      PROVE  hand'[t].rows = rows'
  <2>1. t = s
    BY <1>7, <1>8, RequestsAre
  <2>2. hand'[s].at # "loaded"
    BY <1>0, <1>2, RequestsAre DEF job
  <2> QED
    BY <1>8, <2>1, <2>2
<1>9. AppliedInv'
  <2>1. ~overlapped => Alone'
    BY <1>7 DEF Alone
  <2>2. UNCHANGED <<last, active>>
    BY <1>1 DEF workerVars
  <2> QED
    BY <1>1, <1>6, <1>8, <2>1, <2>2 DEF AppliedInv
<1> QED
  BY <1>5, <1>9

LEMMA ApplyRequestStored ==
  ASSUME StoredInv, NEW s \in Session, ApplyForRequest(s)
  PROVE  TimesInv' /\ AppliedInv'
<1> DEFINE v == hand[s].worker
           r == hand[s].rows
<1>1. DOMAIN r \subseteq Tool /\ v \in Worker /\ DOMAIN hand = Session
  BY RequestsAre DEF ApplyForRequest, StoredInv, ShapeInv
<1>2. /\ hand' = [hand EXCEPT ![s] = NoRequest] /\ overlapped' = overlapped /\ UNCHANGED <<loop, last>>
      /\ Apply(v, r) /\ hand[s].op = "load" /\ hand[s].at = "loaded"
  BY DEF ApplyForRequest, Finish, Proceed
<1>3. /\ UNCHANGED <<rows, now, dropped>>
      /\ active'[v] = [n \in Startable(v, r) |-> r[n].config]
      /\ \A w \in Worker \ {v} : active'[w] = active[w]
  BY <1>1, <1>2, ApplyIs DEF StoredInv
<1>4. hand'[s] = NoRequest /\ \A t \in Session \ {s} : hand'[t] = hand[t]
  BY <1>1, <1>2
<1>5. Alone => Alone'
  BY <1>4 DEF Alone
<1>6. Stored' = Stored /\ Stamp' = Stamp
  BY <1>3, RowsKeep
<1>7. ASSUME ~overlapped, ~dropped, NEW w \in Worker, last[w] = Stamp,
             \A t \in Session : hand'[t].op = "load" => hand'[t].worker # w
      PROVE  active'[w] = Stored
  <2>1. CASE w = v
    <3>1. r = rows
      BY <1>2, <1>7 DEF StoredInv, AppliedInv
    <3> QED
      BY <1>3, <2>1, <3>1, StoredIs
  <2>2. CASE w # v
    <3>1. \A t \in Session : hand[t].op = "load" => hand[t].worker # w
      BY <1>4, <1>7, <2>2
    <3> QED
      BY <1>3, <1>7, <2>2, <3>1 DEF StoredInv, AppliedInv
  <2> QED
    BY <2>1, <2>2
<1>8. ASSUME ~overlapped, ~dropped, NEW t \in Session, hand'[t].op = "load", hand'[t].at = "loaded"
      PROVE  hand'[t].rows = rows
  BY <1>4, <1>8, RequestsAre DEF StoredInv, AppliedInv
<1>9. AppliedInv'
  BY <1>2, <1>3, <1>5, <1>6, <1>7, <1>8 DEF StoredInv, AppliedInv
<1> QED
  BY <1>2, <1>3, <1>9, TimesKept DEF StoredInv

LEMMA ApplyLoopStored ==
  ASSUME StoredInv, NEW v \in Worker, ApplyForLoop(v)
  PROVE  TimesInv' /\ AppliedInv'
<1> DEFINE r == loop[v].rows
<1>1. /\ DOMAIN r \subseteq Tool /\ DOMAIN loop = Worker /\ DOMAIN last = Worker
  BY DEF StoredInv, ShapeInv
<1>2. /\ Apply(v, r) /\ UNCHANGED <<hand, overlapped>> /\ loop[v].at = "loaded"
      /\ last' = [last EXCEPT ![v] = loop[v].stamp] /\ loop' = [loop EXCEPT ![v] = Resting]
  BY DEF ApplyForLoop, StampApplied, Loop, sessionVars
<1>3. /\ UNCHANGED <<rows, now, dropped>>
      /\ active'[v] = [n \in Startable(v, r) |-> r[n].config]
      /\ \A w \in Worker \ {v} : active'[w] = active[w]
  BY <1>1, <1>2, ApplyIs DEF StoredInv
<1>4. /\ last'[v] = loop[v].stamp /\ loop'[v] = Resting
      /\ \A w \in Worker \ {v} : last'[w] = last[w] /\ loop'[w] = loop[w]
  BY <1>1, <1>2
<1>5. Stored' = Stored /\ Stamp' = Stamp
  BY <1>3, RowsKeep
<1>6. TimesInv'
  BY <1>3, <1>4, <1>5, NoStampIs DEF StoredInv, TimesInv
<1>7. ASSUME ~overlapped, ~dropped, NEW w \in Worker, last'[w] = Stamp,
             \A t \in Session : hand[t].op = "load" => hand[t].worker # w
      PROVE  active'[w] = Stored
  <2>1. CASE w = v
    <3>1. r = rows
      BY <1>2, <1>4, <1>7, <2>1 DEF StoredInv, TimesInv
    <3> QED
      BY <1>3, <2>1, <3>1, StoredIs
  <2>2. CASE w # v
    BY <1>3, <1>4, <1>7, <2>2 DEF StoredInv, AppliedInv
  <2> QED
    BY <2>1, <2>2
<1>8. AppliedInv'
  BY <1>2, <1>3, <1>5, <1>7 DEF StoredInv, AppliedInv, Alone
<1> QED
  BY <1>6, <1>8

LEMMA LoopStored ==
  ASSUME StoredInv, NEW v \in Worker, NEW fails, ReadStamp(v) \/ LoadForLoop(v, fails)
  PROVE  TimesInv' /\ AppliedInv'
<1>1. UNCHANGED <<hand, overlapped, rows, now, dropped, active, last>>
  BY DEF ReadStamp, LoadForLoop, sessionVars
<1>2. /\ DOMAIN loop = Worker /\ DOMAIN loop[v] = {"at", "stamp", "rows"}
  BY DEF StoredInv, ShapeInv
<1>3. Stored' = Stored /\ Stamp' = Stamp
  BY <1>1, RowsKeep
<1>4. \A w \in Worker \ {v} : loop'[w] = loop[w]
  BY <1>2 DEF ReadStamp, LoadForLoop, Loop
<1>5. \/ loop'[v].at # "loaded" /\ loop'[v].stamp \in {Stamp, NoStamp}
      \/ loop'[v].stamp = loop[v].stamp /\ loop'[v].rows = rows
  <2>1. CASE ReadStamp(v)
    BY <1>2, <2>1 DEF ReadStamp, Loop
  <2>2. CASE LoadForLoop(v, fails) /\ fails
    BY <1>2, <2>2, NoStampIs DEF LoadForLoop, Loop
  <2>3. CASE LoadForLoop(v, fails) /\ ~fails
    <3> DEFINE full == [loop[v] EXCEPT !.at = "loaded", !.rows = rows]
    <3>1. full["stamp"] = loop[v]["stamp"] /\ full["rows"] = rows
      BY <1>2
    <3>2. loop'[v] = full
      BY <1>2, <2>3 DEF LoadForLoop, Loop
    <3> QED
      BY <3>1, <3>2
  <2> QED
    BY <2>1, <2>2, <2>3
<1>6. TimesInv'
  BY <1>1, <1>3, <1>4, <1>5, NoStampIs DEF StoredInv, TimesInv
<1> QED
  BY <1>1, <1>6, AppliedKept DEF StoredInv

LEMMA RestartStored ==
  ASSUME StoredInv, NEW v \in Worker, Restart(v)
  PROVE  TimesInv' /\ AppliedInv'
<1>1. /\ UNCHANGED <<overlapped, rows, now, dropped>>
      /\ last'[v] = NoStamp /\ loop'[v] = Resting
      /\ \A w \in Worker \ {v} : last'[w] = last[w] /\ loop'[w] = loop[w] /\ active'[w] = active[w]
  BY DEF Restart, Loop, StoredInv, ShapeInv
<1>2. Stored' = Stored /\ Stamp' = Stamp
  BY <1>1, RowsKeep
<1>3. /\ \A s \in Session : hand'[s] = NoRequest \/ hand'[s] = hand[s]
      /\ \A s \in Session : hand[s] # NoRequest /\ hand[s].worker # v => hand'[s] = hand[s]
      /\ \A s \in Session : hand'[s] # NoRequest => hand'[s] = hand[s]
  BY DEF Restart, StoredInv, ShapeInv
<1>4. TimesInv'
  BY <1>1, <1>2, NoStampIs DEF StoredInv, TimesInv
<1>5. Alone => Alone'
  BY <1>3 DEF Alone
<1>6. ASSUME ~overlapped, ~dropped, NEW t \in Session, hand'[t].op = "load", hand'[t].at = "loaded"
      PROVE  hand'[t].rows = rows
  BY <1>3, <1>6, RequestsAre DEF StoredInv, AppliedInv
<1>7. ASSUME ~overlapped, ~dropped, NEW w \in Worker, last'[w] = Stamp,
             \A t \in Session : hand'[t].op = "load" => hand'[t].worker # w
      PROVE  active'[w] = Stored
  <2>1. w # v
    BY <1>1, <1>7, NoStampIs DEF StoredInv, TimesInv
  <2>2. \A t \in Session : hand[t].op = "load" => hand[t].worker # w
    BY <1>3, <1>7, <2>1, RequestsAre
  <2> QED
    BY <1>1, <1>7, <2>1, <2>2 DEF StoredInv, AppliedInv
<1>8. AppliedInv'
  BY <1>1, <1>2, <1>5, <1>6, <1>7 DEF StoredInv, AppliedInv
<1> QED
  BY <1>4, <1>8

LEMMA SettingsStored ==
  ASSUME StoredInv, SettingsNext(Session, Worker)
  PROVE  TimesInv' /\ AppliedInv'
<1>1. CASE \E s \in Session, w \in Worker, n \in Tool, on \in BOOLEAN, c \in Config :
             AskIntegration(s, w, n, "save", on, c)
  BY <1>1, AskStored DEF EditOps
<1>2. CASE \E s \in Session, w \in Worker, n \in Tool, on \in BOOLEAN : AskIntegration(s, w, n, "toggle", on, NoConfig)
  BY <1>2, AskStored DEF EditOps
<1>3. CASE \E s \in Session, w \in Worker, n \in Tool : AskIntegration(s, w, n, "drop", FALSE, NoConfig)
  BY <1>3, AskStored DEF EditOps
<1>4. CASE \E s \in Session : ReadIntegration(s) \/ CommitIntegration(s) \/ LoadForRequest(s) \/ ApplyForRequest(s)
  BY <1>4, ReadStored, CommitStored, LoadStored, ApplyRequestStored
<1>5. CASE \E w \in Worker : ReadStamp(w) \/ ApplyForLoop(w) \/ Restart(w)
  BY <1>5, LoopStored, ApplyLoopStored, RestartStored
<1>6. CASE \E w \in Worker, fails \in BOOLEAN : LoadForLoop(w, fails)
  BY <1>6, LoopStored
<1>7. CASE \E w \in Worker : ClearSuperseded(w) \/ FillSuperseded(w)
  BY <1>7, TimesKept, AppliedKept DEF ClearSuperseded, FillSuperseded, sessionVars, StoredInv
<1> QED
  BY <1>1, <1>2, <1>3, <1>4, <1>5, <1>6, <1>7 DEF SettingsNext

LEMMA StoredStep == ExportInv /\ StoredInv /\ [IntegrationsNext]_integVars => TimesInv' /\ AppliedInv'
<1> SUFFICES ASSUME ExportInv, StoredInv, [IntegrationsNext]_integVars
             PROVE  TimesInv' /\ AppliedInv'
  OBVIOUS
<1>1. CASE SettingsNext(Session, Worker)
  BY <1>1, SettingsStored
<1>2. CASE SpanNext(Worker)
  BY <1>2, TimesKept, AppliedKept DEF SpanNext, EndSpan, SendEnv, SendOwn, sessionVars, StoredInv
<1>3. CASE UNCHANGED integVars
  BY <1>3, TimesKept, AppliedKept DEF integVars, sessionVars, integrationVars, StoredInv
<1> QED
  BY <1>1, <1>2, <1>3 DEF IntegrationsNext

LEMMA StoredImplies == StoredInv => RunsWhatIsStored
BY StoredIs DEF StoredInv, AppliedInv, RunsWhatIsStored

\* A worker whose loop has nothing new to apply runs what the rows say
\* (manager.py:263-296), unless requests have overlapped or a row was
\* deleted: the latest time grows with every other change, so that a stamp
\* that a worker has applied never comes back over other rows.
THEOREM WorkersRunWhatIsStored == IntegrationsSpec => []RunsWhatIsStored
<1>1. IntegrationsSpec => [](ExportInv /\ StoredInv)
  <2>1. SessionsInit(0) /\ IntegrationsInit => ExportInv /\ StoredInv
    BY ExportInit, StoredInit
  <2>2. ExportInv /\ StoredInv /\ [IntegrationsNext]_integVars => ExportInv' /\ StoredInv'
    BY ExportStep, StoredStep DEF ExportInv, StoredInv
  <2> QED
    BY <2>1, <2>2, PTL DEF IntegrationsSpec, integVars
<1> QED
  BY <1>1, StoredImplies, PTL

-----------------------------------------------------------------------------
(* Pricing: the prices set by hand.                                        *)

pricingVars == <<sessionVars, priceVars>>

InCat(e) == e[2] \in DOMAIN Catalog /\ e[1] \in DOMAIN Catalog[e[2]]
Cat(e) == Catalog[e[2]][e[1]]

\* A row of e as it is or was.
RowKind(e, row) ==
  /\ row.id \in Nat /\ row.id <= ids
  /\ row.source \in {"catalog", "manual"}
  /\ row.source = "catalog" => InCat(e) /\ (row.rate = Cat(e) \/ outdated)

\* What may have become of a row since it was read: it is set by hand for
\* good, and seeding gives it the rate of the catalog.
Since(e, row) ==
  e \in DOMAIN prices /\ prices[e].id = row.id =>
    /\ row.source = "manual" => prices[e].source = "manual"
    /\ row.source = "catalog" /\ prices[e].source = "catalog" => prices[e].rate \in {row.rate, Cat(e)}

ReadRow(e, row) == RowKind(e, row) /\ Since(e, row)

\* A price that managers have agreed to.
ByHand(e, rate) ==
  /\ rate \in said[e].all \/ (overlapped /\ outdated /\ InCat(e) /\ rate = Cat(e))
  /\ ~overlapped => rate = said[e].last

RowInv ==
  \A e \in DOMAIN prices :
    /\ e = <<e[1], e[2]>>
    /\ prices[e] = Row(prices[e].rate, prices[e].source, prices[e].id)
    /\ RowKind(e, prices[e])
    /\ prices[e].source = "manual" => e \in Entries /\ ByHand(e, prices[e].rate)

\* What requests hold of the rows, and whether it is still so.
HeldOK(job) ==
  \/ job.op = "none"
  \/ job.op = "seed" /\ job.at = "reading"
  \/ /\ job.op = "seed" /\ job.at = "read"
     /\ \A e \in DOMAIN job.seen : e[2] = Canonical(Head(job.todo)) /\ ReadRow(e, job.seen[e])
     /\ ~overlapped => \A e \in DOMAIN job.seen : e \in DOMAIN prices /\ prices[e] = job.seen[e]
  \/ job.op = "price" /\ job.at = "reading" /\ job.row \in Entries
  \/ /\ job.op = "price" /\ job.at = "read" /\ job.row \in Entries
     /\ job.was = {} \/ \E row : job.was = {row} /\ ReadRow(job.row, row)
     /\ ~overlapped => job.was = RowOf(job.row)
  \/ job.op = "unprice"

PriceInv ==
  /\ ids \in Nat /\ outdated \in BOOLEAN /\ overlapped \in BOOLEAN
  /\ DOMAIN said = Entries /\ \A e \in Entries : said[e] = [last |-> said[e].last, all |-> said[e].all]
  /\ RowInv
  /\ DOMAIN hand = Session /\ \A s \in Session : HeldOK(hand[s])
  /\ ~overlapped => Alone

LEMMA PriceRequests ==
  /\ NoRequest.op = "none" /\ HeldOK(NoRequest)
  /\ \A job : HeldOK(job) /\ job.op = "seed" /\ job.at = "read" =>
       /\ \A e \in DOMAIN job.seen : e[2] = Canonical(Head(job.todo)) /\ ReadRow(e, job.seen[e])
       /\ ~overlapped => \A e \in DOMAIN job.seen : e \in DOMAIN prices /\ prices[e] = job.seen[e]
  /\ \A job : HeldOK(job) /\ job.op = "price" => job.row \in Entries
  /\ \A job : HeldOK(job) /\ job.op = "price" /\ job.at = "read" =>
       /\ job.was = {} \/ \E row : job.was = {row} /\ ReadRow(job.row, row)
       /\ ~overlapped => job.was = RowOf(job.row)
BY DEF HeldOK, NoRequest

LEMMA ReadNow ==
  ASSUME PriceInv, NEW e \in DOMAIN prices
  PROVE  ReadRow(e, prices[e])
BY DEF PriceInv, RowInv, ReadRow, Since, RowKind

LEMMA PriceInit == SessionsInit(0) /\ PricingInit => PriceInv
<1> SUFFICES ASSUME SessionsInit(0), PricingInit
             PROVE  PriceInv
  OBVIOUS
<1>1. RowInv
  <2>1. CASE prices = <<>>
    BY <2>1, EmptyRows DEF RowInv
  <2>2. ASSUME NEW p \in DOMAIN Catalog, prices = Seeded(p, outdated)
        PROVE  RowInv
    <3>1. ASSUME NEW e \in DOMAIN prices
          PROVE  /\ e = <<e[1], e[2]>> /\ InCat(e)
                 /\ \/ prices[e] = Row(Cat(e), "catalog", 1)
                    \/ prices[e] = Row(OldRate, "catalog", 1) /\ outdated
      BY <2>2, <3>1 DEF Seeded, InCat, Cat
    <3>2. ids = 1
      BY DEF PricingInit
    <3> QED
      BY <3>1, <3>2 DEF RowInv, RowKind, Row
  <2> QED
    BY <2>1, <2>2 DEF PricingInit
<1>2. ids \in Nat /\ outdated \in BOOLEAN /\ overlapped \in BOOLEAN /\ ~overlapped
  BY DEF PricingInit, SessionsInit
<1>3. DOMAIN said = Entries /\ \A e \in Entries : said[e] = [last |-> said[e].last, all |-> said[e].all]
  BY DEF PricingInit
<1>4. DOMAIN hand = Session /\ \A s \in Session : hand[s] = NoRequest
  BY DEF SessionsInit
<1> QED
  BY <1>1, <1>2, <1>3, <1>4, PriceRequests DEF PriceInv, Alone

\* A request begins.
LEMMA PriceAsked ==
  ASSUME PriceInv, NEW s \in Session, NEW job, Accept(s, job), HeldOK(job)', UNCHANGED priceVars
  PROVE  PriceInv'
<1>1. /\ hand[s] = NoRequest /\ hand' = [hand EXCEPT ![s] = job]
      /\ overlapped' = (overlapped \/ \E other \in Session \ {s} : hand[other] # NoRequest)
      /\ UNCHANGED <<prices, ids, said, outdated>>
  BY DEF Accept, priceVars
<1>2. DOMAIN hand' = Session /\ hand'[s] = job /\ \A t \in Session \ {s} : hand'[t] = hand[t]
  BY <1>1 DEF PriceInv
<1>3. overlapped' \in BOOLEAN /\ (overlapped => overlapped') /\ (~overlapped' => ~overlapped /\ Alone')
  BY <1>1, <1>2 DEF PriceInv, Alone
<1>4. RowInv'
  BY <1>1, <1>3 DEF PriceInv, RowInv, RowKind, ByHand
<1>5. ASSUME NEW t \in Session \ {s}, NEW held, held = hand[t]
      PROVE  HeldOK(held)'
  <2>1. HeldOK(held)
    BY <1>5 DEF PriceInv
  <2>2. \A e, row : ReadRow(e, row) => ReadRow(e, row)'
    BY <1>1 DEF ReadRow, RowKind, Since
  <2>3. \A e : RowOf(e)' = RowOf(e)
    BY <1>1 DEF RowOf
  <2> QED
    BY <1>1, <1>3, <2>1, <2>2, <2>3 DEF HeldOK
<1>6. (\A t \in Session : HeldOK(hand[t]))'
  <2>1. ASSUME NEW t \in Session, NEW held, held = hand'[t]
        PROVE  HeldOK(held)'
    BY <1>2, <1>5, <2>1
  <2> QED
    BY <2>1
<1> QED
  BY <1>1, <1>2, <1>3, <1>4, <1>6 DEF PriceInv

\* What a commit may do to a row.
Moved(e) ==
  e \in DOMAIN prices' =>
    \/ /\ e \in DOMAIN prices /\ prices'[e].id = prices[e].id
       /\ prices'[e].source \in {"catalog", "manual"}
       /\ prices[e].source = "manual" => prices'[e].source = "manual"
       /\ prices'[e].source = "catalog" => prices'[e].rate \in {prices[e].rate, Cat(e)}
    \/ prices'[e].id = ids + 1

LEMMA ReadKept ==
  ASSUME PriceInv, ids' \in {ids, ids + 1}, outdated' = outdated, NEW e, NEW row, ReadRow(e, row), Moved(e)
  PROVE  ReadRow(e, row)'
<1>1. RowKind(e, row)'
  BY DEF PriceInv, ReadRow, RowKind
<1>2. ASSUME e \in DOMAIN prices', prices'[e].id = row.id
      PROVE  /\ row.source = "manual" => prices'[e].source = "manual"
             /\ row.source = "catalog" /\ prices'[e].source = "catalog" => prices'[e].rate \in {row.rate, Cat(e)}
  <2>1. row.id \in Nat /\ row.id <= ids /\ ids \in Nat
    BY DEF ReadRow, RowKind, PriceInv
  <2>2. /\ e \in DOMAIN prices /\ prices'[e].id = prices[e].id
        /\ prices[e].source = "manual" => prices'[e].source = "manual"
        /\ prices'[e].source = "catalog" => prices'[e].rate \in {prices[e].rate, Cat(e)}
    BY <1>2, <2>1 DEF Moved
  <2>3. prices[e].source \in {"catalog", "manual"}
    BY <2>2 DEF PriceInv, RowInv, RowKind
  <2> QED
    BY <1>2, <2>2, <2>3 DEF ReadRow, Since
<1> QED
  BY <1>1, <1>2 DEF ReadRow, Since

\* A request goes on, and the others hold what they held.
LEMMA PriceMoves ==
  ASSUME PriceInv, NEW s \in Session, NEW job, hand' = [hand EXCEPT ![s] = job], HeldOK(job)',
         hand[s] # NoRequest, overlapped' = overlapped, outdated' = outdated, ids' \in {ids, ids + 1},
         \A e : Moved(e), RowInv',
         DOMAIN said' = Entries, \A e \in Entries : said'[e] = [last |-> said'[e].last, all |-> said'[e].all]
  PROVE  PriceInv'
<1>1. DOMAIN hand' = Session /\ hand'[s] = job /\ \A t \in Session \ {s} : hand'[t] = hand[t]
  BY DEF PriceInv
<1>2. ASSUME ~overlapped
      PROVE  Alone' /\ \A t \in Session \ {s} : hand'[t] = NoRequest
  BY <1>1, <1>2 DEF PriceInv, Alone
<1>3. ASSUME NEW t \in Session \ {s}, NEW held, held = hand'[t]
      PROVE  HeldOK(held)'
  <2>1. HeldOK(held)
    BY <1>1, <1>3 DEF PriceInv
  <2>2. \A e, row : ReadRow(e, row) => ReadRow(e, row)'
    BY ReadKept
  <2>3. CASE ~overlapped
    BY <1>2, <1>3, <2>3 DEF HeldOK, NoRequest
  <2>4. CASE overlapped
    BY <2>1, <2>2, <2>4 DEF HeldOK
  <2> QED
    BY <2>3, <2>4
<1>4. (\A t \in Session : HeldOK(hand[t]))'
  <2>1. ASSUME NEW t \in Session, NEW held, held = hand'[t]
        PROVE  HeldOK(held)'
    BY <1>1, <1>3, <2>1
  <2> QED
    BY <2>1
<1> QED
  BY <1>1, <1>2, <1>4 DEF PriceInv

\* It reads, or is done.
LEMMA PriceReads ==
  ASSUME PriceInv, NEW s \in Session, NEW job, hand' = [hand EXCEPT ![s] = job], HeldOK(job),
         hand[s] # NoRequest, overlapped' = overlapped, UNCHANGED priceVars
  PROVE  PriceInv'
<1>1. UNCHANGED <<prices, ids, said, outdated>>
  BY DEF priceVars
<1>2. \A e : Moved(e)
  BY <1>1 DEF Moved, PriceInv, RowInv, RowKind
<1>3. RowInv'
  BY <1>1 DEF PriceInv, RowInv, RowKind, ByHand
<1>4. HeldOK(job)'
  BY <1>1 DEF HeldOK, ReadRow, RowKind, Since, RowOf
<1>5. DOMAIN said' = Entries /\ \A e \in Entries : said'[e] = [last |-> said'[e].last, all |-> said'[e].all]
  BY <1>1 DEF PriceInv
<1>6. ids' \in {ids, ids + 1} /\ outdated' = outdated
  BY <1>1
<1> QED
  BY <1>2, <1>3, <1>4, <1>5, <1>6, PriceMoves

LEMMA ReadCatalogStep ==
  ASSUME PriceInv, NEW s \in Session, ReadCatalogRows(s)
  PROVE  PriceInv'
<1> DEFINE p == Canonical(Head(hand[s].todo))
           job == [op |-> "seed", at |-> "read", todo |-> hand[s].todo, seen |-> Seen(p)]
<1>1. \A e \in DOMAIN Seen(p) : e[2] = p /\ e \in DOMAIN prices /\ Seen(p)[e] = prices[e]
  BY DEF Seen, Of
<1>2. HeldOK(job)
  BY <1>1, ReadNow DEF HeldOK
<1>3. hand' = [hand EXCEPT ![s] = NoRequest] \/ hand' = [hand EXCEPT ![s] = job]
  BY DEF ReadCatalogRows, Finish, Proceed
<1>4. overlapped' = overlapped /\ UNCHANGED priceVars /\ hand[s] # NoRequest
  BY PriceRequests DEF ReadCatalogRows, Finish, Proceed
<1> HIDE DEF job
<1> QED
  BY <1>2, <1>3, <1>4, PriceReads, PriceRequests

LEMMA RowOfIs ==
  /\ \A e : e \in DOMAIN prices => RowOf(e) = {prices[e]}
  /\ \A e : e \notin DOMAIN prices => RowOf(e) = {}
BY DEF RowOf

LEMMA ReadPriceStep ==
  ASSUME PriceInv, NEW s \in Session, ReadPrice(s)
  PROVE  PriceInv'
<1> DEFINE e == hand[s].row
           job == [op |-> "price", at |-> "read", row |-> e, rate |-> hand[s].rate, was |-> RowOf(e)]
<1>1. e \in Entries
  BY PriceRequests DEF ReadPrice, PriceInv
<1>2. RowOf(e) = {} \/ \E row : RowOf(e) = {row} /\ ReadRow(e, row)
  BY RowOfIs, ReadNow
<1>3. HeldOK(job)
  BY <1>1, <1>2 DEF HeldOK
<1>4. hand' = [hand EXCEPT ![s] = NoRequest] \/ hand' = [hand EXCEPT ![s] = job]
  BY DEF ReadPrice, Finish, Proceed
<1>5. overlapped' = overlapped /\ UNCHANGED priceVars /\ hand[s] # NoRequest
  BY PriceRequests DEF ReadPrice, Finish, Proceed
<1> HIDE DEF job
<1> QED
  BY <1>3, <1>4, <1>5, PriceReads, PriceRequests

\* Two rows of one id are one row.
LEMMA SameId ==
  ASSUME NEW e, NEW id
  PROVE  /\ Ids(RowOf(e)) = {id} => e \in DOMAIN prices /\ prices[e].id = id
         /\ Ids(RowOf(e)) = {} => e \notin DOMAIN prices
<1>1. CASE e \in DOMAIN prices
  <2>1. Ids(RowOf(e)) = {prices[e].id}
    BY <1>1, RowOfIs DEF Ids
  <2> QED
    BY <1>1, <2>1
<1>2. CASE e \notin DOMAIN prices
  <2>1. Ids(RowOf(e)) = {}
    BY <1>2, RowOfIs DEF Ids
  <2> QED
    BY <1>2, <2>1
<1> QED
  BY <1>1, <1>2

LEMMA CatIs == \A e : InCat(e) => CatalogRate(e[1], e[2]) = Cat(e)
BY DEF InCat, Cat, CatalogRate, InCatalog

\* RowKind and ByHand of what stays when the state changes.
KindNext(e, row) ==
  /\ row.id \in Nat /\ row.id <= ids'
  /\ row.source \in {"catalog", "manual"}
  /\ row.source = "catalog" => InCat(e) /\ (row.rate = Cat(e) \/ outdated')

HandNext(e, rate) ==
  /\ rate \in said'[e].all \/ (overlapped' /\ outdated' /\ InCat(e) /\ rate = Cat(e))
  /\ ~overlapped' => rate = said'[e].last

LEMMA RowsNext ==
  ASSUME \A e \in DOMAIN prices' :
           /\ e = <<e[1], e[2]>>
           /\ prices'[e] = Row(prices'[e].rate, prices'[e].source, prices'[e].id)
           /\ KindNext(e, prices'[e])
           /\ prices'[e].source = "manual" => e \in Entries /\ HandNext(e, prices'[e].rate)
  PROVE  RowInv'
BY DEF RowInv, RowKind, ByHand, KindNext, HandNext

LEMMA RowsStay ==
  ASSUME RowInv, ids \in Nat, ids' \in {ids, ids + 1}, UNCHANGED <<overlapped, outdated>>, NEW e \in DOMAIN prices,
         said'[e] = said[e]
  PROVE  /\ e = <<e[1], e[2]>>
         /\ prices[e] = Row(prices[e].rate, prices[e].source, prices[e].id)
         /\ KindNext(e, prices[e])
         /\ prices[e].source = "manual" => e \in Entries /\ HandNext(e, prices[e].rate)
BY DEF RowInv, RowKind, ByHand, KindNext, HandNext

LEMMA CommitSeedStep ==
  ASSUME PriceInv, NEW s \in Session, CommitSeed(s)
  PROVE  PriceInv'
<1> DEFINE seen == hand[s].seen
           p == Canonical(Head(hand[s].todo))
           moved == {e \in Refreshed(seen, p) : seen[e].rate # Catalog[p][e[1]]}
           added == Missing(seen, p)
           next == [e \in DOMAIN prices \cup added |->
                      IF e \in added THEN Row(Catalog[p][e[1]], "catalog", ids + 1)
                      ELSE IF e \in moved THEN [prices[e] EXCEPT !.rate = Catalog[p][e[1]]] ELSE prices[e]]
           job == [op |-> "seed", at |-> "reading", todo |-> Tail(hand[s].todo)]
<1>1. HeldOK(hand[s]) /\ hand[s].op = "seed" /\ hand[s].at = "read" /\ hand[s] # NoRequest
  BY PriceRequests DEF CommitSeed, PriceInv
<1>2. /\ \A e \in DOMAIN seen : e[2] = p /\ ReadRow(e, seen[e])
      /\ ~overlapped => \A e \in DOMAIN seen : e \in DOMAIN prices /\ prices[e] = seen[e]
  BY <1>1, PriceRequests
<1>3. /\ hand' = [hand EXCEPT ![s] = NoRequest] \/ hand' = [hand EXCEPT ![s] = job]
      /\ overlapped' = overlapped /\ UNCHANGED <<said, outdated>> /\ ids' = ids + 1
  BY DEF CommitSeed, Finish, Proceed
<1>4. PICK held : HeldOK(held)' /\ hand' = [hand EXCEPT ![s] = held]
  <2>1. ASSUME NEW held, held \in {job, NoRequest}
        PROVE  HeldOK(held)'
    BY <2>1 DEF HeldOK, NoRequest
  <2> HIDE DEF job
  <2> QED
    BY <1>3, <2>1
<1>5. \/ prices' = prices
      \/ /\ p \in DOMAIN Catalog /\ prices' = next
         /\ \A e \in moved : Ids(RowOf(e)) = {seen[e].id}
  BY DEF CommitSeed
<1>6. /\ ids \in Nat /\ RowInv /\ overlapped \in BOOLEAN
      /\ DOMAIN said = Entries /\ \A e \in Entries : said[e] = [last |-> said[e].last, all |-> said[e].all]
  BY DEF PriceInv
<1>7. ASSUME NEW e \in DOMAIN prices
      PROVE  /\ e = <<e[1], e[2]>> /\ KindNext(e, prices[e])
             /\ prices[e].source = "manual" => e \in Entries /\ HandNext(e, prices[e].rate)
             /\ prices[e] = Row(prices[e].rate, prices[e].source, prices[e].id)
  BY <1>3, <1>6, RowsStay
<1>8. CASE prices' = prices
  <2>1. RowInv'
    BY <1>7, <1>8, RowsNext
  <2>2. \A e : Moved(e)
    BY <1>6, <1>8 DEF Moved, RowInv, RowKind
  <2>3. DOMAIN said' = Entries /\ \A e \in Entries : said'[e] = [last |-> said'[e].last, all |-> said'[e].all]
    BY <1>3, <1>6
  <2> QED
    BY <1>1, <1>3, <1>4, <2>1, <2>2, <2>3, PriceMoves
<1>9. CASE p \in DOMAIN Catalog /\ prices' = next /\ \A e \in moved : Ids(RowOf(e)) = {seen[e].id}
  <2>1. ASSUME NEW e \in added
        PROVE  e = <<e[1], e[2]>> /\ InCat(e) /\ e[2] = p /\ next[e] = Row(Cat(e), "catalog", ids + 1)
    BY <1>9 DEF Missing, InCat, Cat
  <2>2. ASSUME NEW e \in moved, e \notin added
        PROVE  /\ e \in DOMAIN prices /\ InCat(e)
               /\ next[e] = Row(Cat(e), prices[e].source, prices[e].id)
               /\ prices[e].source = "manual" => overlapped /\ outdated
    <3>1. /\ e \in DOMAIN seen /\ e[1] \in DOMAIN Catalog[p] /\ seen[e].source = "catalog"
          /\ seen[e].rate # Catalog[p][e[1]] /\ e[2] = p
      BY <1>2 DEF Refreshed
    <3>2. InCat(e) /\ Cat(e) = Catalog[p][e[1]]
      BY <1>9, <3>1 DEF InCat, Cat
    <3>3. e \in DOMAIN prices
      BY <1>9, SameId
    <3>4. next[e] = [prices[e] EXCEPT !.rate = Cat(e)]
      BY <2>2, <3>2, <3>3
    <3>5. prices[e] = Row(prices[e].rate, prices[e].source, prices[e].id)
      BY <1>7, <3>3
    <3>6. ASSUME NEW q, q = [prices[e] EXCEPT !.rate = Cat(e)]
          PROVE  q = Row(Cat(e), prices[e].source, prices[e].id)
      BY <3>5, <3>6 DEF Row
    <3>7. outdated
      BY <1>2, <3>1, <3>2 DEF ReadRow, RowKind
    <3>8. ~overlapped => prices[e].source = "catalog"
      BY <1>2, <3>1
    <3> QED
      BY <3>2, <3>3, <3>4, <3>6, <3>7, <3>8
  <2>3. ASSUME NEW e \in DOMAIN prices, e \notin added, e \notin moved
        PROVE  next[e] = prices[e]
    BY <2>3
  <2>4. DOMAIN prices' = DOMAIN prices \cup added /\ \A e : prices'[e] = next[e]
    BY <1>9
  <2> HIDE DEF next, added, moved
  <2>5. ASSUME NEW e \in DOMAIN prices'
        PROVE  /\ e = <<e[1], e[2]>>
               /\ prices'[e] = Row(prices'[e].rate, prices'[e].source, prices'[e].id)
               /\ KindNext(e, prices'[e])
               /\ prices'[e].source = "manual" => e \in Entries /\ HandNext(e, prices'[e].rate)
               /\ Moved(e)
    <3>1. CASE e \in added
      <4>1. e = <<e[1], e[2]>> /\ InCat(e) /\ prices'[e] = Row(Cat(e), "catalog", ids + 1)
        BY <2>1, <2>4, <3>1
      <4>2. prices'[e].rate = Cat(e) /\ prices'[e].source = "catalog" /\ prices'[e].id = ids + 1
        BY <4>1 DEF Row
      <4> QED
        BY <1>3, <1>6, <4>1, <4>2 DEF Moved, KindNext
    <3>2. CASE e \in moved /\ e \notin added
      <4>1. /\ e \in DOMAIN prices /\ InCat(e)
            /\ prices'[e] = Row(Cat(e), prices[e].source, prices[e].id)
            /\ prices[e].source = "manual" => overlapped /\ outdated
        BY <2>2, <2>4, <3>2
      <4>2. e = <<e[1], e[2]>> /\ RowKind(e, prices[e])
        BY <1>6, <4>1 DEF RowInv
      <4>3. prices[e].source = "manual" => e \in Entries
        BY <1>6, <4>1 DEF RowInv
      <4>4. prices'[e].rate = Cat(e) /\ prices'[e].source = prices[e].source /\ prices'[e].id = prices[e].id
        BY <4>1 DEF Row
      <4>5. prices[e].source = "manual" => HandNext(e, Cat(e))
        BY <1>3, <1>6, <4>1 DEF HandNext
      <4>6. prices[e].id \in Nat /\ prices[e].id <= ids /\ prices[e].source \in {"catalog", "manual"}
        BY <4>2 DEF RowKind
      <4>7. KindNext(e, prices'[e])
        BY <1>3, <1>6, <4>1, <4>4, <4>6 DEF KindNext
      <4>8. Moved(e)
        BY <4>1, <4>4, <4>6 DEF Moved
      <4> QED
        BY <4>1, <4>2, <4>3, <4>4, <4>5, <4>7, <4>8
    <3>3. CASE e \notin added /\ e \notin moved
      <4>1. e \in DOMAIN prices /\ prices'[e] = prices[e]
        BY <2>3, <2>4, <3>3
      <4>2. RowKind(e, prices[e]) /\ e = <<e[1], e[2]>>
        BY <1>6, <4>1 DEF RowInv
      <4>3. prices[e].source = "manual" => e \in Entries /\ HandNext(e, prices[e].rate)
        BY <1>7, <4>1
      <4>4. prices[e] = Row(prices[e].rate, prices[e].source, prices[e].id)
        BY <1>7, <4>1
      <4>5. Moved(e)
        BY <4>1, <4>2 DEF Moved, RowKind
      <4> QED
        BY <1>7, <4>1, <4>2, <4>3, <4>4, <4>5
    <3> QED
      BY <3>1, <3>2, <3>3
  <2>6. RowInv'
    BY <2>5, RowsNext
  <2>7. \A e : Moved(e)
    BY <2>5 DEF Moved
  <2>8. DOMAIN said' = Entries /\ \A e \in Entries : said'[e] = [last |-> said'[e].last, all |-> said'[e].all]
    BY <1>3, <1>6
  <2> QED
    BY <1>1, <1>3, <1>4, <2>6, <2>7, <2>8, PriceMoves
<1> QED
  BY <1>5, <1>8, <1>9

LEMMA CommitPriceStep ==
  ASSUME PriceInv, NEW s \in Session, CommitPrice(s)
  PROVE  PriceInv'
<1> DEFINE e == hand[s].row
           was == hand[s].was
           rate == hand[s].rate
           ok == Ids(was) = Ids(RowOf(e))
           next == [x \in DOMAIN prices \cup {e} |->
                      IF x # e THEN prices[x]
                      ELSE IF was = {} THEN Row(rate, "manual", ids + 1)
                      ELSE Overridden(prices[e], CHOOSE w \in was : TRUE, rate)]
<1>1. HeldOK(hand[s]) /\ hand[s].op = "price" /\ hand[s].at = "read" /\ hand[s] # NoRequest
  BY PriceRequests DEF CommitPrice, PriceInv
<1>2. /\ e \in Entries
      /\ was = {} \/ \E row : was = {row} /\ ReadRow(e, row)
      /\ ~overlapped => was = RowOf(e)
  BY <1>1, PriceRequests
<1>3. /\ hand' = [hand EXCEPT ![s] = NoRequest]
      /\ overlapped' = overlapped /\ outdated' = outdated /\ ids' = ids + 1
  BY DEF CommitPrice, Finish, Proceed
<1>4. HeldOK(NoRequest)'
  BY DEF HeldOK, NoRequest
<1>5. \/ prices' = prices /\ said' = said
      \/ ok /\ prices' = next /\ said' = [said EXCEPT ![e] = [last |-> rate, all |-> @.all \cup {rate}]]
  BY DEF CommitPrice
<1>6. /\ ids \in Nat /\ RowInv /\ overlapped \in BOOLEAN
      /\ DOMAIN said = Entries /\ \A x \in Entries : said[x] = [last |-> said[x].last, all |-> said[x].all]
  BY DEF PriceInv
<1>7. CASE prices' = prices /\ said' = said
  <2>1. RowInv'
    BY <1>3, <1>6, <1>7, RowsStay, RowsNext
  <2>2. \A x : Moved(x)
    BY <1>6, <1>7 DEF Moved, RowInv, RowKind
  <2> QED
    BY <1>1, <1>3, <1>4, <1>6, <1>7, <2>1, <2>2, PriceMoves
<1>8. CASE ok /\ prices' = next /\ said' = [said EXCEPT ![e] = [last |-> rate, all |-> @.all \cup {rate}]]
  <2>1. /\ DOMAIN said' = Entries /\ said'[e] = [last |-> rate, all |-> said[e].all \cup {rate}]
        /\ \A x \in Entries \ {e} : said'[x] = said[x]
    BY <1>2, <1>6, <1>8
  <2>2. DOMAIN prices' = DOMAIN prices \cup {e} /\ \A x \in DOMAIN prices \ {e} : prices'[x] = prices[x]
    BY <1>8
  <2>3. \/ prices'[e] = Row(rate, "manual", ids + 1)
        \/ /\ e \in DOMAIN prices
           /\ \E r : /\ prices'[e] = Row(r, "manual", prices[e].id)
                     /\ HandNext(e, r)
    <3>1. CASE was = {}
      BY <1>8, <3>1
    <3>2. ASSUME NEW row, was = {row}, ReadRow(e, row)
          PROVE  /\ e \in DOMAIN prices
                 /\ \E r : prices'[e] = Row(r, "manual", prices[e].id) /\ HandNext(e, r)
      <4> DEFINE r == Column(prices[e].rate, row.rate, rate)
      <4>1. Ids(RowOf(e)) = {row.id}
        BY <1>8, <3>2 DEF Ids
      <4>2. e \in DOMAIN prices /\ prices[e].id = row.id
        BY <4>1, SameId
      <4>3. (CHOOSE w \in was : TRUE) = row
        BY <3>2
      <4>4. prices'[e] = Overridden(prices[e], row, rate)
        BY <1>8, <3>2, <4>2, <4>3
      <4>5. /\ prices[e] = Row(prices[e].rate, prices[e].source, prices[e].id) /\ RowKind(e, prices[e])
            /\ prices[e].source = "manual" => ByHand(e, prices[e].rate)
        BY <1>6, <4>2 DEF RowInv
      <4>6. RowKind(e, row) /\ (row.source = "manual" => prices[e].source = "manual")
            /\ (row.source = "catalog" /\ prices[e].source = "catalog" => prices[e].rate \in {row.rate, Cat(e)})
        BY <3>2, <4>2 DEF ReadRow, Since
      <4>7. Column(prices[e].source, row.source, "manual") = "manual"
        BY <4>6 DEF Column
      <4>8. ASSUME NEW q, NEW o, q = [prices[e] EXCEPT !.rate = o, !.source = "manual"]
            PROVE  q = Row(o, "manual", prices[e].id)
        BY <4>5, <4>8 DEF Row
      <4>9. prices'[e] = Row(r, "manual", prices[e].id)
        BY <4>4, <4>7, <4>8 DEF Overridden
      <4>10. ~overlapped => r = rate
        <5>1. ~overlapped => prices[e] = row
          BY <1>2, <3>2, <4>2, RowOfIs
        <5> QED
          BY <5>1 DEF Column
      <4>11. r \in said[e].all \cup {rate} \/ (overlapped /\ outdated /\ InCat(e) /\ r = Cat(e))
        <5>1. CASE ~overlapped
          BY <4>10, <5>1
        <5>2. CASE overlapped /\ rate # row.rate
          BY <5>2 DEF Column
        <5>3. CASE overlapped /\ rate = row.rate /\ prices[e].source = "manual"
          BY <4>5, <5>3 DEF Column, ByHand
        <5>4. CASE overlapped /\ rate = row.rate /\ prices[e].source = "catalog"
          <6>1. r = prices[e].rate /\ row.source = "catalog"
            BY <4>6, <5>4 DEF Column, RowKind
          <6> QED
            BY <4>6, <5>4, <6>1 DEF RowKind
        <5> QED
          BY <5>1, <5>2, <5>3, <5>4, <4>5 DEF RowKind
      <4> HIDE DEF r
      <4>12. HandNext(e, r)
        BY <1>3, <2>1, <4>10, <4>11 DEF HandNext
      <4> QED
        BY <4>2, <4>9, <4>12
    <3> QED
      BY <1>2, <3>1, <3>2
  <2>4. HandNext(e, rate)
    BY <2>1 DEF HandNext
  <2>5. e = <<e[1], e[2]>>
    BY <1>2, PricingAssumption
  <2>6. /\ prices'[e] = Row(prices'[e].rate, prices'[e].source, prices'[e].id)
        /\ prices'[e].source = "manual" /\ HandNext(e, prices'[e].rate)
        /\ prices'[e].id \in Nat /\ prices'[e].id <= ids' /\ Moved(e)
    <3>1. CASE prices'[e] = Row(rate, "manual", ids + 1)
      BY <1>3, <1>6, <2>4, <3>1 DEF Row, Moved
    <3>2. ASSUME NEW r, e \in DOMAIN prices, prices'[e] = Row(r, "manual", prices[e].id), HandNext(e, r)
          PROVE  /\ prices'[e] = Row(prices'[e].rate, prices'[e].source, prices'[e].id)
                 /\ prices'[e].source = "manual" /\ HandNext(e, prices'[e].rate)
                 /\ prices'[e].id \in Nat /\ prices'[e].id <= ids' /\ Moved(e)
      <4>1. prices'[e].rate = r /\ prices'[e].source = "manual" /\ prices'[e].id = prices[e].id
        BY <3>2 DEF Row
      <4>2. prices[e].id \in Nat /\ prices[e].id <= ids
        BY <1>6, <3>2 DEF RowInv, RowKind
      <4> QED
        BY <1>3, <1>6, <3>2, <4>1, <4>2 DEF Moved
    <3> QED
      BY <2>3, <3>1, <3>2
  <2>7. ASSUME NEW x \in DOMAIN prices \ {e}
        PROVE  /\ x = <<x[1], x[2]>> /\ prices[x] = Row(prices[x].rate, prices[x].source, prices[x].id)
               /\ KindNext(x, prices[x])
               /\ prices[x].source = "manual" => x \in Entries /\ HandNext(x, prices[x].rate)
    <3>1. said'[x] = said[x]
      BY <1>6, <1>8
    <3> QED
      BY <1>3, <1>6, <3>1, RowsStay
  <2>8. RowInv'
    <3>1. KindNext(e, prices'[e])
      BY <2>6 DEF KindNext
    <3>2. ASSUME NEW x \in DOMAIN prices'
          PROVE  /\ x = <<x[1], x[2]>> /\ prices'[x] = Row(prices'[x].rate, prices'[x].source, prices'[x].id)
                 /\ KindNext(x, prices'[x])
                 /\ prices'[x].source = "manual" => x \in Entries /\ HandNext(x, prices'[x].rate)
      <4>1. CASE x = e
        BY <1>2, <2>5, <2>6, <3>1, <4>1
      <4>2. CASE x # e
        BY <2>2, <2>7, <4>2
      <4> QED
        BY <4>1, <4>2
    <3> QED
      BY <3>2, RowsNext
  <2>9. ASSUME NEW x
        PROVE  Moved(x)
    <3>1. CASE x = e
      BY <2>6, <3>1
    <3>2. CASE x # e
      BY <1>6, <2>2, <3>2 DEF Moved, RowInv, RowKind
    <3> QED
      BY <3>1, <3>2
  <2>10. \A x \in Entries : said'[x] = [last |-> said'[x].last, all |-> said'[x].all]
    BY <1>6, <2>1
  <2> QED
    BY <1>1, <1>3, <1>4, <1>6, <2>1, <2>8, <2>9, <2>10, PriceMoves
<1> QED
  BY <1>5, <1>7, <1>8

LEMMA CommitDeleteStep ==
  ASSUME PriceInv, NEW s \in Session, CommitDelete(s)
  PROVE  PriceInv'
<1>1. hand[s] # NoRequest
  BY PriceRequests DEF CommitDelete
<1>2. /\ hand' = [hand EXCEPT ![s] = NoRequest] /\ overlapped' = overlapped
      /\ UNCHANGED <<ids, said, outdated>>
  BY DEF CommitDelete, Finish, Proceed
<1>3. HeldOK(NoRequest)'
  BY DEF HeldOK, NoRequest
<1>4. DOMAIN prices' \subseteq DOMAIN prices /\ \A x \in DOMAIN prices' : prices'[x] = prices[x]
  BY DEF CommitDelete
<1>5. RowInv'
  BY <1>2, <1>4 DEF PriceInv, RowInv, RowKind, ByHand
<1>6. \A x : Moved(x)
  BY <1>4 DEF Moved, PriceInv, RowInv, RowKind
<1>7. DOMAIN said' = Entries /\ \A x \in Entries : said'[x] = [last |-> said'[x].last, all |-> said'[x].all]
  BY <1>2 DEF PriceInv
<1> QED
  BY <1>1, <1>2, <1>3, <1>5, <1>6, <1>7, PriceMoves

LEMMA AskStep ==
  ASSUME PriceInv, NEW s \in Session
  PROVE  /\ \A todo : AskSeed(s, todo) => PriceInv'
         /\ \A e \in Entries : \A r, strict : AskPrice(s, e, r, strict) => PriceInv'
         /\ \A e : AskDelete(s, e) => PriceInv'
<1>1. ASSUME NEW todo, AskSeed(s, todo)
      PROVE  PriceInv'
  <2> DEFINE job == [op |-> "seed", at |-> "reading", todo |-> todo]
  <2>1. HeldOK(job)'
    BY DEF HeldOK
  <2> HIDE DEF job
  <2> QED
    BY <1>1, <2>1, PriceAsked DEF AskSeed, job
<1>2. ASSUME NEW e \in Entries, NEW r, NEW strict, AskPrice(s, e, r, strict)
      PROVE  PriceInv'
  <2> DEFINE job == [op |-> "price", at |-> "reading", row |-> e, rate |-> r, strict |-> strict]
  <2>1. HeldOK(job)'
    BY DEF HeldOK
  <2> HIDE DEF job
  <2> QED
    BY <1>2, <2>1, PriceAsked DEF AskPrice, job
<1>3. ASSUME NEW e, AskDelete(s, e)
      PROVE  PriceInv'
  <2>1. PICK was : Accept(s, [op |-> "unprice", at |-> "read", row |-> e, was |-> was]) /\ UNCHANGED priceVars
    BY <1>3 DEF AskDelete
  <2> DEFINE job == [op |-> "unprice", at |-> "read", row |-> e, was |-> was]
  <2>2. HeldOK(job)'
    BY DEF HeldOK
  <2> HIDE DEF job
  <2> QED
    BY <2>1, <2>2, PriceAsked DEF job
<1> QED
  BY <1>1, <1>2, <1>3

LEMMA PriceStep == PriceInv /\ [PricingNext]_pricingVars => PriceInv'
<1> SUFFICES ASSUME PriceInv, [PricingNext]_pricingVars
             PROVE  PriceInv'
  OBVIOUS
<1>1. CASE PricingNext
  BY <1>1, AskStep, ReadCatalogStep, CommitSeedStep, ReadPriceStep, CommitPriceStep, CommitDeleteStep DEF PricingNext
<1>2. CASE UNCHANGED pricingVars
  <2>1. UNCHANGED <<hand, overlapped, prices, ids, said, outdated>>
    BY <1>2 DEF pricingVars, sessionVars, priceVars
  <2>2. RowInv'
    BY <2>1 DEF PriceInv, RowInv, RowKind, ByHand
  <2>3. (\A s \in Session : HeldOK(hand[s]))'
    BY <2>1 DEF PriceInv, HeldOK, ReadRow, RowKind, Since, RowOf
  <2> QED
    BY <2>1, <2>2, <2>3 DEF PriceInv, Alone
<1> QED
  BY <1>1, <1>2

LEMMA PriceImplies == PriceInv => ManualPrice
<1> SUFFICES ASSUME PriceInv, NEW e \in DOMAIN prices, prices[e].source = "manual"
             PROVE  /\ \/ prices[e].rate = said[e].last
                       \/ overlapped /\ prices[e].rate \in said[e].all
                       \/ overlapped /\ outdated /\ prices[e].rate = CatalogRate(e[1], e[2])
                    /\ e[2] # "google" => Cost(e[1], e[2]) = prices[e].rate
  BY DEF ManualPrice
<1>1. e = <<e[1], e[2]>> /\ ByHand(e, prices[e].rate) /\ overlapped \in BOOLEAN
  BY DEF PriceInv, RowInv
<1>2. e[2] # "google" => Cost(e[1], e[2]) = prices[e].rate
  BY <1>1 DEF Cost, Canonical
<1> QED
  BY <1>1, <1>2, CatIs DEF ByHand

\* What a manager sets is what the model costs: seeding, which reads and
\* then writes (pricing_catalog.py:296-347), replaces it only where it
\* overlaps with a request and the catalog has moved since.
THEOREM ManualPricesStand == PricingSpec => []ManualPrice
<1>1. PricingSpec => []PriceInv
  BY PriceInit, PriceStep, PTL DEF PricingSpec, pricingVars
<1> QED
  BY <1>1, PriceImplies, PTL

=============================================================================
