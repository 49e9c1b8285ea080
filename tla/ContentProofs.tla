---------------------------- MODULE ContentProofs ----------------------------
(***************************************************************************)
(* Theorems about the caches and about what is sent in a request.          *)
(* ReadThroughCache: type correctness, and, from one inductive invariant,  *)
(* how long a replaced row or an expired key can be served and what an     *)
(* invalidation guarantees, for any readers, writers, workers, ttl and     *)
(* delay.  ResponseCache: that answers are honest and that memory          *)
(* overgrows only with live entries, for any requests, processes,          *)
(* similarities, sizes and ttl.  Translation: that the two formats ask a   *)
(* server for the same talk, for any bodies of the two shapes.             *)
(***************************************************************************)
EXTENDS ReadThroughCache, ResponseCache, Translation, FiniteSetTheorems, SequenceTheorems, TLAPS

-----------------------------------------------------------------------------
(* Types.                                                                  *)

\* Entries are well typed when they are set and dropped.
LEMMA CacheType ==
  ASSUME TypeOK, NEW w \in Worker, NEW v \in Nat, Set(w, v) \/ Drop(w) \/ UNCHANGED cache
  PROVE  cache' \in [Worker -> [value : Nat, expires : Nat \cup {-1}]]
<1>1. Absent \in [value : Nat, expires : Nat \cup {-1}]
  BY DEF Absent
<1>2. [value |-> v, expires |-> clock + Ttl] \in [value : Nat, expires : Nat \cup {-1}]
  BY CacheAssumption DEF TypeOK
<1> QED
  BY <1>1, <1>2 DEF TypeOK, Set, Drop

\* A write appends the time of the write, at most.
LEMMA WriteType ==
  ASSUME TypeOK, Write
  PROVE  /\ until' \in Seq(Nat)
         /\ row \in Nat /\ row' \in Nat /\ row <= row'
         /\ apiKey => row' <= 1
         /\ \A v \in 1..row : until'[v] = until[v]
         /\ \A v \in (row + 1)..row' : until'[v] = clock
         /\ row' <= row + 1
<1>1. CASE until' = until
  BY <1>1 DEF TypeOK, Write, row
<1>2. CASE until' = Append(until, clock) /\ ~(apiKey /\ row = 1)
  <2>1. until \in Seq(Nat) /\ clock \in Nat /\ row \in Nat
    BY DEF TypeOK, row
  <2>2. until' \in Seq(Nat) /\ row' = row + 1
    BY <1>2, <2>1 DEF row
  <2>3. \A v \in 1..row : until'[v] = until[v]
    BY <1>2, <2>1 DEF row
  <2>4. until'[row + 1] = clock
    BY <1>2, <2>1 DEF row
  <2>5. \A v \in (row + 1)..row' : v = row + 1
    BY <2>1, <2>2
  <2>6. apiKey => row' <= 1
    BY <1>2, <2>1, <2>2 DEF TypeOK
  <2> QED
    BY <2>1, <2>2, <2>3, <2>4, <2>5, <2>6
<1> QED
  BY <1>1, <1>2 DEF Write

\* Every step of a reader, a writer, a cache or the clock keeps the types.
LEMMA TypeStep == TypeOK /\ [Next]_vars => TypeOK'
<1> SUFFICES ASSUME TypeOK, [Next]_vars
             PROVE  TypeOK'
  OBVIOUS
<1> USE CacheAssumption
<1>1. ASSUME NEW r \in Reader, Hit(r)
      PROVE  TypeOK'
  BY <1>1 DEF TypeOK, Hit, Give, writerVars, row
<1>2. ASSUME NEW r \in Reader, Miss(r)
      PROVE  TypeOK'
  <2>1. home[r] \in Worker
    BY DEF TypeOK
  <2>2. cache' \in [Worker -> [value : Nat, expires : Nat \cup {-1}]]
    BY <1>2, <2>1, CacheType DEF Miss
  <2> QED
    BY <1>2, <2>2 DEF TypeOK, Miss, writerVars, row
<1>3. ASSUME NEW r \in Reader, Query(r)
      PROVE  TypeOK'
  BY <1>3 DEF TypeOK, Query, writerVars, row
<1>4. ASSUME NEW r \in Reader, Store(r)
      PROVE  TypeOK'
  <2>1. home[r] \in Worker /\ Value(r) \in Nat
    BY DEF TypeOK, Value
  <2>2. cache' \in [Worker -> [value : Nat, expires : Nat \cup {-1}]]
    BY <1>4, <2>1, CacheType DEF Store
  <2> QED
    BY <1>4, <2>1, <2>2 DEF TypeOK, Store, Give, Rest, writerVars, row
<1>5. ASSUME NEW r \in Reader, ReadFails(r)
      PROVE  TypeOK'
  BY <1>5 DEF TypeOK, ReadFails, Rest, writerVars, row
<1>6. ASSUME NEW x \in Writer, ClearFirst(x) \/ Invalidate(x)
      PROVE  TypeOK'
  <2>1. home[x] \in Worker
    BY DEF TypeOK
  <2>2. cache' \in [Worker -> [value : Nat, expires : Nat \cup {-1}]]
    BY <1>6, <2>1, CacheType DEF ClearFirst, Invalidate
  <2>3. step' \in [Writer -> Step]
    BY <1>6 DEF TypeOK, ClearFirst, Invalidate, Go, Step
  <2> QED
    BY <1>6, <2>2, <2>3 DEF TypeOK, ClearFirst, Invalidate, readerVars, row
<1>7. ASSUME NEW x \in Writer, Commit(x)
      PROVE  TypeOK'
  <2>1. /\ until' \in Seq(Nat)
        /\ row' \in Nat
        /\ apiKey => row' <= 1
    BY <1>7, WriteType DEF Commit
  <2>2. step' \in [Writer -> Step]
    BY <1>7 DEF TypeOK, Commit, Go, Step
  <2>3. wrote' \in [Writer -> Nat]
    BY <1>7, <2>1 DEF TypeOK, Commit
  <2> QED
    BY <1>7, <2>1, <2>2, <2>3 DEF TypeOK, Commit, readerVars
<1>8. ASSUME NEW w \in Worker, EvictExpired(w)
      PROVE  TypeOK'
  <2>1. cache' \in [Worker -> [value : Nat, expires : Nat \cup {-1}]]
    BY <1>8, CacheType DEF EvictExpired
  <2> QED
    BY <1>8, <2>1 DEF TypeOK, EvictExpired, readerVars, writerVars, row
<1>9. CASE Tick
  BY <1>9 DEF TypeOK, Tick, readerVars, writerVars, row
<1>10. CASE UNCHANGED vars
  BY <1>10 DEF TypeOK, vars, readerVars, writerVars, row
<1> QED
  BY <1>1, <1>2, <1>3, <1>4, <1>5, <1>6, <1>7, <1>8, <1>9, <1>10 DEF Next

LEMMA TypeInit == Init => TypeOK
<1> SUFFICES ASSUME Init PROVE TypeOK
  OBVIOUS
<1>1. apiKey \in BOOLEAN
  BY CacheAssumption DEF Init
<1>2. order \in [Writer -> Order]
  BY DEF Init, Order
<1> QED
  BY <1>1, <1>2 DEF Init, TypeOK, row, Step, Absent

\* The clock, the versions, the entries and the places of readers and writers are
\* well typed in every state; an API key is never written more than once.
THEOREM TypeCorrect == Spec => []TypeOK
<1> QED
  BY TypeInit, TypeStep, PTL DEF Spec

-----------------------------------------------------------------------------
(* The inductive invariant.                                                *)

LEMMA InvInit == Init => IInv
<1> SUFFICES ASSUME Init PROVE IInv
  OBVIOUS
<1>1. TypeOK /\ row = 0
  BY TypeInit DEF Init, row
<1>2. PastUntil /\ AnswerFresh /\ EntryFresh /\ ServedPast /\ NoneBehind
  BY <1>1 DEF Init, PastUntil, AnswerFresh, EntryFresh, ServedPast, NoneBehind
<1>3. BoundedStaleness /\ ExpiredRejected /\ InvalidationHolds
  BY <1>1, CacheAssumption DEF Init, BoundedStaleness, ExpiredRejected, InvalidationHolds
<1> QED
  BY <1>1, <1>2, <1>3 DEF IInv

LEMMA UntilType ==
  ASSUME TypeOK
  PROVE  row \in Nat /\ \A v \in 1..row : until[v] \in Nat
<1>1. until \in Seq(Nat)
  BY DEF TypeOK
<1> QED
  BY <1>1 DEF row

\* What is served is a live entry or an answer, neither of which is too old.
LEMMA ReaderInv ==
  ASSUME IInv, TypeOK', NEW r \in Reader, Hit(r) \/ Store(r)
  PROVE  ServedPast' /\ BoundedStaleness' /\ ExpiredRejected'
<1> USE CacheAssumption
<1>1. /\ home[r] \in Worker /\ clock \in Nat /\ row \in Nat
      /\ \A v \in 1..row : until[v] \in Nat
  BY UntilType DEF IInv, TypeOK
<1>2. UNCHANGED <<clock, apiKey, until>> /\ row' = row
  BY DEF Hit, Store, row
<1>3. PICK v \in Nat :
        /\ Give(r, v)
        /\ v < row => clock <= until[v + 1] + Ttl + MaxDelay
        /\ apiKey /\ v = 0 => clock <= Expiry + Ttl
  <2>1. CASE Hit(r)
    <3>1. cache[home[r]].value \in Nat /\ cache[home[r]].expires \in Nat \cup {-1}
      BY <1>1 DEF IInv, TypeOK
    <3>2. cache[home[r]].expires >= clock
      BY <2>1 DEF Hit, Live
    <3>3. cache[home[r]] # Absent
      BY <1>1, <3>2 DEF Absent
    <3>4. /\ cache[home[r]].value < row =>
              cache[home[r]].expires <= until[cache[home[r]].value + 1] + Ttl + MaxDelay
          /\ apiKey /\ cache[home[r]].value = 0 => cache[home[r]].expires <= Expiry + Ttl
      BY <1>1, <3>3 DEF IInv, EntryFresh
    <3>5. cache[home[r]].value < row => cache[home[r]].value + 1 \in 1..row
      BY <1>1, <3>1
    <3> QED
      BY <1>1, <2>1, <3>1, <3>2, <3>4, <3>5 DEF Hit
  <2>2. CASE Store(r)
    <3>1. /\ found[r] \in Nat /\ since[r] \in Nat
          /\ clock <= since[r] + MaxDelay
          /\ found[r] < row => since[r] <= until[found[r] + 1]
      BY <2>2 DEF IInv, TypeOK, AnswerFresh, Store
    <3>2. Value(r) \in Nat /\ (Value(r) = found[r] \/ (Value(r) = 1 /\ apiKey))
      BY <3>1 DEF Value
    <3>3. apiKey => row <= 1
      BY DEF IInv, TypeOK
    <3>4. Value(r) < row => Value(r) = found[r] /\ found[r] + 1 \in 1..row
      BY <1>1, <3>1, <3>2, <3>3
    <3>5. apiKey /\ Value(r) = 0 => clock <= Expiry
      BY <1>1 DEF Value
    <3> QED
      BY <1>1, <2>2, <3>1, <3>2, <3>4, <3>5 DEF Store
  <2> QED
    BY <2>1, <2>2
<1>4. \A q \in Reader :
        \/ served'[q] = v /\ servedAt'[q] = clock
        \/ served'[q] = served[q] /\ servedAt'[q] = servedAt[q]
  BY <1>3 DEF IInv, TypeOK, Give
<1>5. ServedPast'
  BY <1>1, <1>2, <1>4 DEF IInv, ServedPast
<1>6. BoundedStaleness'
  BY <1>2, <1>3, <1>4 DEF IInv, BoundedStaleness
<1>7. ExpiredRejected'
  BY <1>2, <1>3, <1>4 DEF IInv, ExpiredRejected
<1> QED
  BY <1>5, <1>6, <1>7

\* A dropped entry can only help.
LEMMA DropInv ==
  ASSUME IInv, NEW w \in Worker, Drop(w), UNCHANGED <<clock, apiKey, until>>
  PROVE  /\ EntryFresh'
         /\ \A u \in Worker : cache'[u] = Absent \/ cache'[u] = cache[u]
<1>1. \A u \in Worker : cache'[u] = Absent \/ cache'[u] = cache[u]
  BY DEF IInv, TypeOK, Drop
<1> QED
  BY <1>1 DEF IInv, EntryFresh, row, Absent

\* Steps that serve nothing, write nothing and do not move the clock leave what
\* was served alone.
LEMMA SameServed ==
  ASSUME IInv, UNCHANGED <<clock, apiKey, until, served, servedAt>>
  PROVE  PastUntil' /\ ServedPast' /\ BoundedStaleness' /\ ExpiredRejected'
BY DEF IInv, PastUntil, ServedPast, BoundedStaleness, ExpiredRejected, row

\* An entry that is kept or dropped keeps an earlier invalidation's promise.
LEMMA SameHolds ==
  ASSUME IInv, UNCHANGED <<home, order, wrote>>,
         \A u \in Worker : cache'[u] = Absent \/ cache'[u] = cache[u],
         NEW x \in Writer, step'[x] = step[x], step[x] = "done", order[x] = "after"
  PROVE  cache'[home[x]] = Absent \/ cache'[home[x]].value >= wrote[x]
<1>1. home[x] \in Worker
  BY DEF IInv, TypeOK
<1> QED
  BY <1>1 DEF IInv, InvalidationHolds

\* Every step keeps the invariant.
LEMMA InvStep == IInv /\ [Next]_vars => IInv'
<1> SUFFICES ASSUME IInv, [Next]_vars
             PROVE  IInv'
  OBVIOUS
<1> USE CacheAssumption
<1>t. TypeOK /\ TypeOK'
  BY TypeStep DEF IInv
<1>u. row \in Nat /\ \A v \in 1..row : until[v] \in Nat
  BY <1>t, UntilType
<1>1. ASSUME NEW r \in Reader, Hit(r)
      PROVE  IInv'
  <2>1. ServedPast' /\ BoundedStaleness' /\ ExpiredRejected'
    BY <1>1, <1>t, ReaderInv
  <2>2. PastUntil' /\ AnswerFresh' /\ EntryFresh' /\ NoneBehind' /\ InvalidationHolds'
    BY <1>1 DEF IInv, Hit, PastUntil, AnswerFresh, EntryFresh, NoneBehind, InvalidationHolds,
                Behind, writerVars, row, Absent
  <2> QED
    BY <1>t, <2>1, <2>2 DEF IInv
<1>2. ASSUME NEW r \in Reader, Miss(r)
      PROVE  IInv'
  <2>1. home[r] \in Worker
    BY <1>t DEF TypeOK
  <2>2. EntryFresh' /\ \A u \in Worker : cache'[u] = Absent \/ cache'[u] = cache[u]
    BY <1>2, <2>1, DropInv DEF Miss
  <2>3. PastUntil' /\ ServedPast' /\ BoundedStaleness' /\ ExpiredRejected'
    BY <1>2, SameServed DEF Miss
  <2>4. \A q \in Reader : phase'[q] = "answered" => phase[q] = "answered"
    BY <1>2, <1>t DEF TypeOK, Miss
  <2>5. AnswerFresh' /\ NoneBehind'
    BY <1>2, <2>4 DEF IInv, Miss, AnswerFresh, NoneBehind, Behind, writerVars, row
  <2>6. InvalidationHolds'
    BY <1>2, <2>2, SameHolds DEF Miss, InvalidationHolds, writerVars, Absent
  <2> QED
    BY <1>t, <2>2, <2>3, <2>5, <2>6 DEF IInv
<1>3. ASSUME NEW r \in Reader, Query(r)
      PROVE  IInv'
  <2>1. PastUntil' /\ ServedPast' /\ BoundedStaleness' /\ ExpiredRejected'
    BY <1>3, SameServed DEF Query
  <2>2. EntryFresh' /\ InvalidationHolds'
    BY <1>3 DEF IInv, Query, EntryFresh, InvalidationHolds, writerVars, row, Absent
  <2>3. \A q \in Reader :
          \/ q = r /\ found'[q] = row /\ since'[q] = clock
          \/ phase'[q] = phase[q] /\ found'[q] = found[q] /\ since'[q] = since[q]
    BY <1>3, <1>t DEF TypeOK, Query
  <2>4. AnswerFresh'
    BY <1>3, <1>t, <1>u, <2>3 DEF IInv, TypeOK, Query, AnswerFresh, row
  <2>5. NoneBehind'
    <3>1. \A x \in Writer : wrote[x] \in Nat
      BY <1>t DEF TypeOK
    <3> QED
      BY <1>3, <1>u, <2>3, <3>1 DEF IInv, Query, NoneBehind, Behind, writerVars, row
  <2> QED
    BY <1>t, <2>1, <2>2, <2>4, <2>5 DEF IInv
<1>4. ASSUME NEW r \in Reader, Store(r)
      PROVE  IInv'
  <2>1. ServedPast' /\ BoundedStaleness' /\ ExpiredRejected'
    BY <1>4, <1>t, ReaderInv
  <2>2. \A q \in Reader : phase'[q] = "answered" =>
          phase[q] = "answered" /\ found'[q] = found[q] /\ since'[q] = since[q]
    BY <1>4, <1>t DEF TypeOK, Store, Rest
  <2>3. PastUntil' /\ AnswerFresh' /\ NoneBehind'
    BY <1>4, <2>2 DEF IInv, Store, PastUntil, AnswerFresh, NoneBehind, Behind, writerVars, row
  <2>4. \A w \in Worker :
          \/ w = home[r] /\ cache'[w] = [value |-> Value(r), expires |-> clock + Ttl]
          \/ w # home[r] /\ cache'[w] = cache[w]
    BY <1>4, <1>t DEF TypeOK, Store, Set
  <2>5. /\ found[r] \in Nat /\ since[r] \in Nat /\ clock \in Nat
        /\ clock <= since[r] + MaxDelay
        /\ found[r] <= row
        /\ found[r] < row => since[r] <= until[found[r] + 1]
    BY <1>4, <1>t DEF IInv, TypeOK, AnswerFresh, Store
  <2>6. /\ Value(r) \in Nat
        /\ Value(r) < row => Value(r) = found[r] /\ found[r] + 1 \in 1..row
        /\ apiKey /\ Value(r) = 0 => clock <= Expiry
    <3>1. apiKey => row <= 1
      BY <1>t DEF TypeOK
    <3> QED
      BY <1>u, <2>5, <3>1 DEF Value
  <2>7. EntryFresh'
    <3>1. ASSUME NEW w \in Worker, w = home[r]
          PROVE  /\ cache'[w].expires <= clock' + Ttl
                 /\ cache'[w].value < row' =>
                      cache'[w].expires <= until'[cache'[w].value + 1] + Ttl + MaxDelay
                 /\ apiKey' /\ cache'[w].value = 0 => cache'[w].expires <= Expiry + Ttl
      <4>1. cache'[w].value = Value(r) /\ cache'[w].expires = clock + Ttl
        BY <2>4, <3>1
      <4>2. UNCHANGED <<clock, apiKey, until>> /\ row' = row
        BY <1>4 DEF Store, row
      <4>3. Value(r) < row => clock + Ttl <= until[Value(r) + 1] + Ttl + MaxDelay
        BY <1>u, <2>5, <2>6
      <4> QED
        BY <2>5, <2>6, <4>1, <4>2, <4>3
    <3> QED
      BY <1>4, <2>4, <3>1 DEF IInv, EntryFresh, Store, row, Absent
  <2>8. InvalidationHolds'
    <3>1. ASSUME NEW x \in Writer, step[x] = "done", order[x] = "after"
          PROVE  cache'[home[x]] = Absent \/ cache'[home[x]].value >= wrote[x]
      <4>1. home[x] \in Worker /\ wrote[x] \in Nat /\ wrote[x] <= row
        BY <1>t, <3>1 DEF IInv, TypeOK, NoneBehind
      <4>2. CASE home[x] = home[r]
        <5>1. found[r] >= wrote[x]
          BY <1>4, <2>5, <3>1, <4>1, <4>2 DEF IInv, NoneBehind, Behind, Store
        <5>2. Value(r) >= wrote[x]
          BY <1>u, <2>5, <2>6, <4>1, <5>1
        <5>3. cache'[home[x]].value = Value(r)
          BY <2>4, <4>1, <4>2
        <5> QED
          BY <5>2, <5>3
      <4>3. CASE home[x] # home[r]
        BY <2>4, <3>1, <4>1, <4>3 DEF IInv, InvalidationHolds
      <4> QED
        BY <4>2, <4>3
    <3> QED
      BY <1>4, <3>1 DEF InvalidationHolds, Store, writerVars, Absent
  <2> QED
    BY <1>t, <2>1, <2>3, <2>7, <2>8 DEF IInv
<1>5. ASSUME NEW r \in Reader, ReadFails(r)
      PROVE  IInv'
  <2>1. PastUntil' /\ ServedPast' /\ BoundedStaleness' /\ ExpiredRejected'
    BY <1>5, SameServed DEF ReadFails
  <2>2. \A q \in Reader : phase'[q] = "answered" =>
          phase[q] = "answered" /\ found'[q] = found[q] /\ since'[q] = since[q]
    BY <1>5, <1>t DEF TypeOK, ReadFails, Rest
  <2>3. AnswerFresh' /\ NoneBehind'
    BY <1>5, <2>2 DEF IInv, ReadFails, AnswerFresh, NoneBehind, Behind, writerVars, row
  <2>4. EntryFresh' /\ InvalidationHolds'
    BY <1>5 DEF IInv, ReadFails, EntryFresh, InvalidationHolds, writerVars, row, Absent
  <2> QED
    BY <1>t, <2>1, <2>3, <2>4 DEF IInv
<1>6. ASSUME NEW x \in Writer, ClearFirst(x) \/ Invalidate(x)
      PROVE  IInv'
  <2>1. /\ home[x] \in Worker
        /\ Drop(home[x])
        /\ UNCHANGED <<clock, apiKey, until, home, phase, found, since, served, servedAt>>
        /\ UNCHANGED <<order, wrote>>
    BY <1>6, <1>t DEF TypeOK, ClearFirst, Invalidate, readerVars
  <2>2. EntryFresh' /\ \A u \in Worker : cache'[u] = Absent \/ cache'[u] = cache[u]
    BY <2>1, DropInv
  <2>3. PastUntil' /\ ServedPast' /\ BoundedStaleness' /\ ExpiredRejected'
    BY <2>1, SameServed
  <2>4. AnswerFresh'
    BY <2>1 DEF IInv, AnswerFresh, row
  <2>5. \A y \in Writer :
          \/ step'[y] = step[y]
          \/ y = x /\ step'[y] = "cleared"
          \/ /\ y = x /\ step[y] = "committed"
             /\ step'[y] = IF Behind(home[x], wrote[x]) THEN "raced" ELSE "done"
    BY <1>6, <1>t DEF TypeOK, ClearFirst, Invalidate, Go
  <2>6. NoneBehind'
    BY <2>1, <2>5 DEF IInv, NoneBehind, Behind, row
  <2>7. InvalidationHolds'
    <3>1. cache'[home[x]] = Absent
      BY <1>t, <2>1 DEF TypeOK, Drop
    <3> QED
      BY <2>1, <2>2, <2>5, <3>1, SameHolds DEF InvalidationHolds, Absent
  <2> QED
    BY <1>t, <2>2, <2>3, <2>4, <2>6, <2>7 DEF IInv
<1>7. ASSUME NEW x \in Writer, Commit(x)
      PROVE  IInv'
  <2>1. /\ until' \in Seq(Nat)
        /\ row' \in Nat /\ row <= row'
        /\ \A v \in 1..row : until'[v] = until[v]
        /\ \A v \in (row + 1)..row' : until'[v] = clock
        /\ clock \in Nat
    BY <1>7, <1>t, WriteType DEF Commit, TypeOK
  <2>2. UNCHANGED <<clock, apiKey, cache, home, order, phase, found, since, served, servedAt>>
    BY <1>7 DEF Commit, readerVars
  <2>3. PastUntil'
    BY <1>u, <2>1, <2>2 DEF IInv, PastUntil
  <2>4. ASSUME NEW v \in Nat, v < row'
        PROVE  \/ v < row /\ until'[v + 1] = until[v + 1] /\ until[v + 1] \in Nat
               \/ until'[v + 1] = clock
    <3>1. CASE v < row
      <4>1. v + 1 \in 1..row
        BY <1>u, <2>1, <3>1
      <4> QED
        BY <1>u, <2>1, <3>1, <4>1
    <3>2. CASE ~(v < row)
      <4>1. v + 1 \in (row + 1)..row'
        BY <1>u, <2>1, <2>4, <3>2
      <4> QED
        BY <2>1, <4>1
    <3> QED
      BY <3>1, <3>2
  <2>5. AnswerFresh'
    <3>1. ASSUME NEW q \in Reader, phase[q] = "answered"
          PROVE  found[q] <= row' /\ (found[q] < row' => since[q] <= until'[found[q] + 1])
      <4>1. /\ found[q] \in Nat /\ since[q] \in Nat /\ since[q] <= clock
            /\ found[q] <= row
            /\ found[q] < row => since[q] <= until[found[q] + 1]
        BY <1>t, <3>1 DEF IInv, AnswerFresh, TypeOK
      <4> QED
        BY <1>u, <2>1, <2>4, <4>1
    <3> QED
      BY <2>2, <3>1 DEF IInv, AnswerFresh
  <2>6. EntryFresh'
    <3>1. \A w \in Worker : cache[w].value \in Nat /\ cache[w].expires \in Nat \cup {-1}
      BY <1>t DEF TypeOK
    <3>2. ASSUME NEW w \in Worker, cache[w] # Absent, cache[w].value < row'
          PROVE  cache[w].expires <= until'[cache[w].value + 1] + Ttl + MaxDelay
      <4>1. /\ cache[w].expires <= clock + Ttl
            /\ cache[w].value < row =>
                 cache[w].expires <= until[cache[w].value + 1] + Ttl + MaxDelay
        BY <3>2 DEF IInv, EntryFresh
      <4>2. \/ /\ cache[w].value < row
               /\ until'[cache[w].value + 1] = until[cache[w].value + 1]
            \/ until'[cache[w].value + 1] = clock
        BY <2>4, <3>1, <3>2
      <4>3. CASE until'[cache[w].value + 1] = clock
        <5>1. cache[w].expires \in Int /\ clock \in Int
          BY <2>1, <3>1
        <5> QED
          BY <4>1, <4>3, <5>1
      <4> QED
        BY <4>1, <4>2, <4>3
    <3> QED
      BY <2>2, <3>2 DEF IInv, EntryFresh, Absent
  <2>7. BoundedStaleness'
    <3>1. ASSUME NEW q \in Reader, served[q] < row'
          PROVE  servedAt[q] <= until'[served[q] + 1] + Ttl + MaxDelay
      <4>1. /\ served[q] \in Nat /\ servedAt[q] \in Nat /\ servedAt[q] <= clock
            /\ served[q] < row => servedAt[q] <= until[served[q] + 1] + Ttl + MaxDelay
        BY <1>t DEF IInv, BoundedStaleness, ServedPast, TypeOK
      <4>2. \/ served[q] < row /\ until'[served[q] + 1] = until[served[q] + 1]
            \/ until'[served[q] + 1] = clock
        BY <2>4, <3>1, <4>1
      <4>3. CASE until'[served[q] + 1] = clock
        BY <2>1, <4>1, <4>3
      <4> QED
        BY <4>1, <4>2, <4>3
    <3> QED
      BY <2>2, <3>1 DEF BoundedStaleness
  <2>8. ServedPast' /\ ExpiredRejected'
    BY <2>2 DEF IInv, ServedPast, ExpiredRejected
  <2>9. \A y \in Writer :
          \/ y # x /\ step'[y] = step[y] /\ wrote'[y] = wrote[y]
          \/ /\ y = x /\ wrote'[y] = row'
             /\ step'[y] = IF order[x] = "after" THEN "committed" ELSE "done"
    BY <1>7, <1>t DEF TypeOK, Commit, Go
  <2>10. NoneBehind'
    <3>1. \A y \in Writer : wrote[y] \in Nat
      BY <1>t DEF TypeOK
    <3> QED
      BY <1>u, <2>1, <2>2, <2>9, <3>1 DEF IInv, NoneBehind, Behind
  <2>11. InvalidationHolds'
    BY <2>2, <2>9 DEF IInv, InvalidationHolds, Absent
  <2> QED
    BY <1>t, <2>3, <2>5, <2>6, <2>7, <2>8, <2>10, <2>11 DEF IInv
<1>8. ASSUME NEW w \in Worker, EvictExpired(w)
      PROVE  IInv'
  <2>1. EntryFresh' /\ \A u \in Worker : cache'[u] = Absent \/ cache'[u] = cache[u]
    BY <1>8, DropInv DEF EvictExpired
  <2>2. PastUntil' /\ ServedPast' /\ BoundedStaleness' /\ ExpiredRejected'
    BY <1>8, SameServed DEF EvictExpired, readerVars
  <2>3. AnswerFresh' /\ NoneBehind'
    BY <1>8 DEF IInv, EvictExpired, AnswerFresh, NoneBehind, Behind, readerVars, writerVars, row
  <2>4. InvalidationHolds'
    BY <1>8, <2>1, SameHolds DEF EvictExpired, InvalidationHolds, writerVars, Absent
  <2> QED
    BY <1>t, <2>1, <2>2, <2>3, <2>4 DEF IInv
<1>9. CASE Tick
  <2>1. /\ UNCHANGED <<apiKey, until, cache, home, phase, found, since, served, servedAt>>
        /\ UNCHANGED <<order, step, wrote>>
        /\ clock' = clock + 1 /\ clock \in Nat
        /\ \A r \in Reader : phase[r] = "answered" => clock < since[r] + MaxDelay
    BY <1>9, <1>t DEF Tick, readerVars, writerVars, TypeOK
  <2>2. PastUntil'
    BY <1>u, <2>1 DEF IInv, PastUntil, row
  <2>3. AnswerFresh'
    BY <1>t, <2>1 DEF IInv, AnswerFresh, TypeOK, row
  <2>4. EntryFresh'
    <3>1. \A w \in Worker : cache[w].expires \in Nat \cup {-1}
      BY <1>t DEF TypeOK
    <3> QED
      BY <2>1, <3>1 DEF IInv, EntryFresh, row, Absent
  <2>5. ServedPast'
    BY <1>t, <2>1 DEF IInv, ServedPast, TypeOK
  <2>6. NoneBehind' /\ BoundedStaleness' /\ ExpiredRejected' /\ InvalidationHolds'
    BY <2>1 DEF IInv, NoneBehind, Behind, BoundedStaleness, ExpiredRejected,
                InvalidationHolds, row, Absent
  <2> QED
    BY <1>t, <2>2, <2>3, <2>4, <2>5, <2>6 DEF IInv
<1>10. CASE UNCHANGED vars
  BY <1>10, <1>t DEF IInv, PastUntil, AnswerFresh, EntryFresh, ServedPast, NoneBehind, Behind,
     BoundedStaleness, ExpiredRejected, InvalidationHolds, vars, readerVars, writerVars, row,
     Absent
<1> QED
  BY <1>1, <1>2, <1>3, <1>4, <1>5, <1>6, <1>7, <1>8, <1>9, <1>10 DEF Next

LEMMA InvCorrect == Spec => []IInv
<1> QED
  BY InvInit, InvStep, PTL DEF Spec

\* A replaced row is served for at most the ttl and the delay of a query, by every
\* worker.
THEOREM StalenessBounded == Spec => []BoundedStaleness
<1>1. IInv => BoundedStaleness
  BY DEF IInv
<1> QED
  BY <1>1, InvCorrect, PTL

\* An expired API key is accepted for at most the ttl.
THEOREM ExpiryBounded == Spec => []ExpiredRejected
<1>1. IInv => ExpiredRejected
  BY DEF IInv
<1> QED
  BY <1>1, InvCorrect, PTL

\* After revoke_key, or another writer that invalidates last, the older row is not
\* in that worker's cache again, unless a reader had it in hand.
THEOREM InvalidationLasts == Spec => []InvalidationHolds
<1>1. IInv => InvalidationHolds
  BY DEF IInv
<1> QED
  BY <1>1, InvCorrect, PTL

-----------------------------------------------------------------------------
(* ResponseCache: what is kept.                                            *)

\* A whole answer, given at t or before, to a request that was not streamed.
Whole(a, t) == a.at \in Nat /\ a.at <= t /\ ~a.cut /\ ~a.request.stream

\* An entry of the exact tiers under its key, and one of the index.
Stored(e, k, t) ==
  /\ Whole(e.answer, t) /\ e.expires = e.answer.at + CacheTtl
  /\ Key(e.answer.request) = k
Indexed(e, t) ==
  /\ Whole(e.answer, t) /\ e.expires = e.answer.at + CacheTtl
  /\ e.model = e.answer.request.model /\ e.prompt = e.answer.request.text

\* A request under way is idle, or knows the process that serves it.
AskedType ==
  /\ similarOn \in BOOLEAN
  /\ asked \in [Slot -> {Idle} \cup
       [at : {"similar", "upstream"}, process : Process, request : Requests,
        keyed : BOOLEAN, similar : BOOLEAN]]

\* What every tier holds, and where its answer came from.
RedisKept == \A k \in DOMAIN redis : Stored(redis[k], k, instant)
MemoryKept == \A p \in Process : \A k \in DOMAIN memory[p] : Stored(memory[p][k], k, instant)
IndexKept == \A p \in Process : \E S : index[p] \in Seq(S) /\ \A e \in S : Indexed(e, instant)
KeptInv ==
  /\ instant \in Nat
  /\ DOMAIN memory = Process /\ DOMAIN index = Process
  /\ RedisKept /\ MemoryKept /\ IndexKept
  /\ AnswersHonest

\* The exact tiers' entries for a request answer it; time does not spoil them.
LEMMA StoredAnswers ==
  ASSUME NEW e, NEW r, Stored(e, Key(r), instant), instant \in Nat,
         instant <= e.expires, NEW s, Answer(s, "exact", e, r)
  PROVE  AnswersHonest'
<1>1. /\ e.answer.request.model = r.model /\ e.answer.request.temperature = r.temperature
      /\ e.answer.request.max = r.max
      /\ r.path = "chat" /\ e.answer.request.path = "chat" => e.answer.request.text = r.text
  BY DEF Stored, Key
<1>2. hit' = [tier |-> "exact", request |-> r, answer |-> e.answer, at |-> instant,
              least |-> threshold]
  BY DEF Answer
<1>3. /\ hit'.tier = "exact" /\ hit'.request = r /\ hit'.answer = e.answer /\ hit'.at = instant
  BY <1>2
<1>4. ~e.answer.cut /\ ~e.answer.request.stream /\ instant <= e.answer.at + CacheTtl
  BY DEF Stored, Whole
<1>5. ExactHonest'
  BY <1>1, <1>3, <1>4 DEF ExactHonest
<1>6. SimilarHonest'
  BY <1>3 DEF SimilarHonest
<1> QED
  BY <1>5, <1>6 DEF AnswersHonest

\* Without a hit there is nothing to be honest about.
LEMMA NoHitHonest ==
  ASSUME hit' = NoHit
  PROVE  AnswersHonest'
BY DEF NoHit, AnswersHonest, ExactHonest, SimilarHonest

\* What was kept stays kept as time goes on.
LEMMA StaysWhole ==
  ASSUME NEW t \in Nat, NEW u \in Nat, t <= u
  PROVE  \A e : /\ \A k : Stored(e, k, t) => Stored(e, k, u)
                /\ Indexed(e, t) => Indexed(e, u)
<1>1. \A a : Whole(a, t) => Whole(a, u)
  BY DEF Whole
<1> QED
  BY <1>1 DEF Stored, Indexed

\* The index keeps some of its entries, in their order, and the new one.
LEMMA IndexGrows ==
  ASSUME NEW p, NEW S, index[p] \in Seq(S), NEW e
  PROVE  PutInIndex(p, e) \in Seq(S \cup {e})
<1> DEFINE n == Cardinality({i \in DOMAIN index[p] : index[p][i].expires <= instant})
           longer == Append(Unexpired(p), e)
<1>1. Len(index[p]) \in Nat /\ DOMAIN index[p] = 1..Len(index[p])
  OBVIOUS
<1>2. IsFiniteSet(DOMAIN index[p])
  BY <1>1, FS_Interval
<1>3. n \in Nat
  BY <1>2, FS_Subset, FS_CardinalityType
<1>4. \A i \in (n + 1)..Len(index[p]) : index[p][i] \in S
  BY <1>1, <1>3
<1>5. Unexpired(p) \in Seq(S)
  BY <1>1, <1>3, <1>4, SubSeqProperties DEF Unexpired
<1>6. longer \in Seq(S \cup {e}) /\ longer # <<>>
  BY <1>5
<1>7. Tail(longer) \in Seq(S \cup {e})
  BY <1>6, HeadTailProperties
<1> QED
  BY <1>6, <1>7 DEF PutInIndex

\* What the end of a body keeps is kept in every tier it reaches, and what was
\* there stays.
LEMMA EndKeeps ==
  ASSUME KeptInv, NEW s \in Slot, NEW cut \in BOOLEAN, NEW json \in BOOLEAN,
         EndOfBody(s, cut, json)
  PROVE  KeptInv'
<1> DEFINE p == asked[s].process
           r == asked[s].request
           a == [request |-> r, cut |-> cut, at |-> instant]
           e == Entry(a)
           x == [model |-> r.model, prompt |-> r.text, answer |-> a, expires |-> e.expires]
<1>0. instant \in Nat /\ instant' = instant /\ AnswersHonest'
  BY NoHitHonest DEF EndOfBody, KeptInv
<1>1. CASE ~Kept(s, cut, json)
  <2>1. UNCHANGED tierVars
    BY <1>1 DEF EndOfBody
  <2> QED
    BY <1>0, <2>1 DEF KeptInv, RedisKept, MemoryKept, IndexKept, tierVars
<1>2. CASE Kept(s, cut, json)
  <2>1. ~a.cut /\ ~a.request.stream /\ a.at = instant /\ a.request = r
    BY <1>2 DEF Kept
  <2>2. e.answer = a /\ e.expires = a.at + CacheTtl
    BY DEF Entry
  <2>3. Stored(e, Key(r), instant)
    BY <1>0, <2>1, <2>2 DEF Stored, Whole
  <2>4. x.model = r.model /\ x.prompt = r.text /\ x.answer = e.answer /\ x.expires = e.expires
    BY DEF Entry
  <2>5. Indexed(x, instant)
    BY <1>0, <2>1, <2>2, <2>4 DEF Indexed, Whole
  <2> HIDE DEF x, e
  <2>6. RedisKept'
    <3>1. redis' = redis \/ redis' = Put(redis, Key(r), e)
      BY <1>2 DEF EndOfBody, StoreInRedis, e
    <3> QED
      BY <1>0, <2>3, <3>1 DEF KeptInv, RedisKept, Put
  <2>7. MemoryKept'
    <3>1. memory' = [memory EXCEPT ![p] = PutInMemory(p, Key(r), e)]
      BY <1>2 DEF EndOfBody, e
    <3>2. p \in Process => \A k \in DOMAIN PutInMemory(p, Key(r), e) : Stored(PutInMemory(p, Key(r), e)[k], k, instant)
      BY <2>3 DEF PutInMemory, Put, KeptInv, MemoryKept
    <3>3. CASE p \in Process
      BY <1>0, <3>1, <3>2, <3>3 DEF KeptInv, MemoryKept
    <3>4. CASE p \notin Process
      BY <1>0, <3>1, <3>4 DEF KeptInv, MemoryKept
    <3> QED
      BY <3>3, <3>4
  <2>8. IndexKept'
    <3>1. index' = [index EXCEPT ![p] = PutInIndex(p, x)]
      BY <1>2 DEF EndOfBody, x, e
    <3>2. CASE p \in Process
      <4>1. PICK S : index[p] \in Seq(S) /\ \A y \in S : Indexed(y, instant)
        BY <3>2 DEF KeptInv, IndexKept
      <4>2. PutInIndex(p, x) \in Seq(S \cup {x}) /\ \A y \in S \cup {x} : Indexed(y, instant)
        BY <2>5, <4>1, IndexGrows
      <4> QED
        BY <1>0, <3>1, <3>2, <4>2 DEF KeptInv, IndexKept
    <3>3. CASE p \notin Process
      BY <1>0, <3>1, <3>3 DEF KeptInv, IndexKept
    <3> QED
      BY <3>2, <3>3
  <2>9. DOMAIN memory' = Process /\ DOMAIN index' = Process
    BY <1>2 DEF EndOfBody, KeptInv
  <2> QED
    BY <1>0, <2>6, <2>7, <2>8, <2>9 DEF KeptInv
<1> QED
  BY <1>1, <1>2

\* A lookup drops nothing but what has expired, and its answer is an honest one.
LEMMA AskKeeps ==
  ASSUME KeptInv, NEW s \in Slot, NEW p \in Process, NEW r \in Requests, Ask(s, p, r)
  PROVE  KeptInv'
<1>0. instant \in Nat /\ instant' = instant /\ redis' = redis /\ index' = index
  BY DEF Ask, KeptInv
<1>1. ASSUME MemoryKept', DOMAIN memory' = Process, AnswersHonest'
      PROVE  KeptInv'
  BY <1>0, <1>1 DEF KeptInv, RedisKept, IndexKept
<1>2. CASE UNCHANGED memory /\ hit' = NoHit
  BY <1>0, <1>1, <1>2, NoHitHonest DEF KeptInv, MemoryKept
<1>3. CASE InRedis(Key(r)) /\ UNCHANGED memory /\ Answer(s, "exact", redis[Key(r)], r)
  <2>1. Stored(redis[Key(r)], Key(r), instant)
    BY <1>3 DEF InRedis, KeptInv, RedisKept
  <2>2. redis[Key(r)].expires \in Nat /\ instant < redis[Key(r)].expires
    BY <1>3, <2>1, ResponseCacheAssumption DEF InRedis, Stored, Whole
  <2>3. AnswersHonest'
    BY <1>0, <1>3, <2>1, <2>2, StoredAnswers
  <2> QED
    BY <1>0, <1>1, <1>3, <2>3 DEF KeptInv, MemoryKept
<1>4. CASE InMemory(p, Key(r)) /\ UNCHANGED memory /\ Answer(s, "exact", memory[p][Key(r)], r)
  <2>1. Stored(memory[p][Key(r)], Key(r), instant) /\ instant <= memory[p][Key(r)].expires
    BY <1>4 DEF InMemory, KeptInv, MemoryKept
  <2>2. AnswersHonest'
    BY <1>0, <1>4, <2>1, StoredAnswers
  <2> QED
    BY <1>0, <1>1, <1>4, <2>2 DEF KeptInv, MemoryKept
<1>5. CASE /\ hit' = NoHit
           /\ memory' = [memory EXCEPT ![p] = [x \in DOMAIN memory[p] \ {Key(r)} |-> memory[p][x]]]
  <2>1. MemoryKept' /\ DOMAIN memory' = Process
    BY <1>0, <1>5 DEF KeptInv, MemoryKept
  <2> QED
    BY <1>1, <1>5, <2>1, NoHitHonest
<1> QED
  BY <1>2, <1>3, <1>4, <1>5 DEF Ask, LookUp, GoOn

\* What the index answers is near enough, whole and of the model.
LEMMA LookUpSimilarKeeps ==
  ASSUME KeptInv, NEW s \in Slot, LookUpSimilar(s), asked[s].process \in Process
  PROVE  KeptInv'
<1> DEFINE p == asked[s].process
           r == asked[s].request
<1>0. instant \in Nat /\ instant' = instant /\ UNCHANGED tierVars
  BY DEF LookUpSimilar, KeptInv
<1>1. ASSUME AnswersHonest'
      PROVE  KeptInv'
  BY <1>0, <1>1 DEF KeptInv, RedisKept, MemoryKept, IndexKept, tierVars
<1>2. CASE hit' = NoHit
  BY <1>1, <1>2, NoHitHonest
<1>3. ASSUME NEW i \in Matches(p, r), Alike(r.text, index[p][i].prompt) >= threshold,
             Answer(s, "similar", index[p][i], r)
      PROVE  AnswersHonest'
  <2>1. /\ i \in DOMAIN index[p] /\ index[p][i].model = r.model
        /\ index[p][i].expires > instant
    BY DEF Matches
  <2>2. PICK S : index[p] \in Seq(S) /\ \A e \in S : Indexed(e, instant)
    BY DEF KeptInv, IndexKept
  <2>3. index[p][i] \in S
    BY <2>1, <2>2
  <2>4. Indexed(index[p][i], instant)
    BY <2>2, <2>3
  <2>5. hit' = [tier |-> "similar", request |-> r, answer |-> index[p][i].answer, at |-> instant,
                least |-> threshold]
    BY <1>3 DEF Answer
  <2>6. /\ hit'.tier = "similar" /\ hit'.request = r /\ hit'.answer = index[p][i].answer
        /\ hit'.at = instant /\ hit'.least = threshold
    BY <2>5
  <2>7. SimilarHonest'
    BY <1>0, <1>3, <2>1, <2>4, <2>6, ResponseCacheAssumption DEF SimilarHonest, Indexed, Whole, Alike
  <2>8. ExactHonest'
    BY <2>6 DEF ExactHonest
  <2> QED
    BY <2>7, <2>8 DEF AnswersHonest
<1>4. \/ hit' = NoHit
      \/ \E i \in Matches(p, r) : /\ Alike(r.text, index[p][i].prompt) >= threshold
                                 /\ Answer(s, "similar", index[p][i], r)
  BY DEF LookUpSimilar
<1> QED
  BY <1>1, <1>2, <1>3, <1>4

\* A request moves to another place of its way.
LEMMA AskedStep == AskedType /\ [ResponseCacheNext]_answerVars => AskedType'
<1> SUFFICES ASSUME AskedType, [ResponseCacheNext]_answerVars
             PROVE  AskedType'
  OBVIOUS
<1>1. ASSUME NEW s \in Slot, Move(s, Idle), UNCHANGED similarOn
      PROVE  AskedType'
  BY <1>1 DEF AskedType, Move
<1>2. ASSUME NEW s \in Slot, NEW p \in Process, NEW r \in Requests, NEW keyed \in BOOLEAN,
             GoOn(s, p, r, keyed), UNCHANGED similarOn
      PROVE  AskedType'
  BY <1>2 DEF AskedType, GoOn, Move
<1>3. ASSUME NEW s \in Slot, NEW p \in Process, NEW r \in Requests, Ask(s, p, r)
      PROVE  AskedType'
  <2>1. UNCHANGED similarOn
    BY <1>3 DEF Ask, settingVars
  <2>2. \/ Move(s, Idle)
        \/ \E keyed \in BOOLEAN : GoOn(s, p, r, keyed)
    BY <1>3 DEF Ask, LookUp, Answer
  <2> QED
    BY <1>1, <1>2, <2>1, <2>2
<1>4. ASSUME NEW s \in Slot, LookUpSimilar(s)
      PROVE  AskedType'
  <2>1. UNCHANGED similarOn /\ asked[s].at = "similar"
    BY <1>4 DEF LookUpSimilar, settingVars
  <2>2. Move(s, Idle) \/ Move(s, [asked[s] EXCEPT !.at = "upstream"])
    BY <1>4 DEF LookUpSimilar, Answer
  <2>3. asked[s] # Idle
    BY <2>1 DEF Idle
  <2>4. ASSUME Move(s, [asked[s] EXCEPT !.at = "upstream"])
        PROVE  AskedType'
    BY <2>1, <2>3, <2>4 DEF AskedType, Move
  <2> QED
    BY <1>1, <2>1, <2>2, <2>4
<1>5. ASSUME NEW s \in Slot, NEW cut, NEW json, EndOfBody(s, cut, json)
      PROVE  AskedType'
  BY <1>1, <1>5 DEF EndOfBody, settingVars
<1>6. CASE Switch
  BY <1>6 DEF Switch, AskedType
<1>7. CASE PassTime \/ UNCHANGED answerVars
  BY <1>7 DEF PassTime, AskedType, answerVars, settingVars
<1> QED
  BY <1>3, <1>4, <1>5, <1>6, <1>7 DEF ResponseCacheNext

\* Every step keeps what the caches hold honest.
LEMMA KeptStep == KeptInv /\ AskedType /\ [ResponseCacheNext]_answerVars => KeptInv'
<1> SUFFICES ASSUME KeptInv, AskedType, [ResponseCacheNext]_answerVars
             PROVE  KeptInv'
  OBVIOUS
<1>1. ASSUME NEW s \in Slot, LookUpSimilar(s)
      PROVE  KeptInv'
  <2>1. asked[s].at = "similar"
    BY <1>1 DEF LookUpSimilar
  <2>2. asked[s].process \in Process
    BY <2>1 DEF AskedType, Idle
  <2> QED
    BY <1>1, <2>2, LookUpSimilarKeeps
<1>2. CASE Switch
  BY <1>2, NoHitHonest DEF Switch, tierVars, KeptInv, RedisKept, MemoryKept, IndexKept
<1>3. CASE PassTime
  <2>1. instant \in Nat /\ instant' \in Nat /\ instant <= instant'
    BY <1>3 DEF PassTime, KeptInv
  <2>2. \A e : /\ \A k : Stored(e, k, instant) => Stored(e, k, instant')
               /\ Indexed(e, instant) => Indexed(e, instant')
    BY <2>1, StaysWhole
  <2>3. RedisKept'
    BY <1>3, <2>2 DEF PassTime, KeptInv, RedisKept
  <2>4. MemoryKept' /\ IndexKept'
    BY <1>3, <2>2 DEF PassTime, KeptInv, MemoryKept, IndexKept
  <2> QED
    BY <1>3, <2>1, <2>3, <2>4, NoHitHonest DEF PassTime, KeptInv
<1>4. CASE UNCHANGED answerVars
  BY <1>4 DEF answerVars, tierVars, KeptInv, RedisKept, MemoryKept, IndexKept,
              AnswersHonest, ExactHonest, SimilarHonest
<1> QED
  BY <1>1, <1>2, <1>3, <1>4, AskKeeps, EndKeeps DEF ResponseCacheNext

\* At first there is nothing to answer from.
LEMMA KeptInit == ResponseCacheInit => KeptInv /\ AskedType
<1> SUFFICES ASSUME ResponseCacheInit
             PROVE  KeptInv /\ AskedType
  OBVIOUS
<1>1. RedisKept /\ MemoryKept /\ IndexKept
  BY DEF ResponseCacheInit, RedisKept, MemoryKept, IndexKept
<1>2. AnswersHonest
  BY DEF ResponseCacheInit, NoHit, AnswersHonest, ExactHonest, SimilarHonest
<1> QED
  BY <1>1, <1>2 DEF ResponseCacheInit, KeptInv, AskedType

\* Whatever tier answers, its answer is whole, is to a request for the same model
\* (and, from the exact tiers, the same messages, temperature and length), near
\* enough to the prompt for the threshold of the moment, and no older than the ttl,
\* whichever process stored it, however Redis fails and the settings are switched.
THEOREM AnswersAlwaysHonest == ResponseCacheSpec => []AnswersHonest
<1>1. KeptInv => AnswersHonest
  BY DEF KeptInv
<1> QED
  BY <1>1, KeptInit, KeptStep, AskedStep, PTL DEF ResponseCacheSpec

-----------------------------------------------------------------------------
(* ResponseCache: how far a memory can grow.                               *)

SizeInv == (\A p \in Process : IsFiniteSet(DOMAIN memory[p])) /\ OvergrownByLive

\* Of a memory m: if it has outgrown its size, it holds nothing that had expired
\* when its last entry was stored.
Overgrown(m) ==
  Cardinality(DOMAIN m) > MemorySize =>
    \A k, l \in DOMAIN m : m[l].expires <= m[k].expires + CacheTtl

\* When an entry is stored, a full memory has dropped what had expired, and what
\* is left expires within a ttl of now.
LEMMA PutGrows ==
  ASSUME KeptInv, SizeInv, NEW p \in Process, NEW k, NEW e, e.expires = instant + CacheTtl
  PROVE  /\ IsFiniteSet(DOMAIN PutInMemory(p, k, e))
         /\ Overgrown(PutInMemory(p, k, e))
<1> DEFINE full == Cardinality(DOMAIN memory[p]) >= MemorySize
           kept == IF full THEN {x \in DOMAIN memory[p] : instant <= memory[p][x].expires}
                           ELSE DOMAIN memory[p]
           m == PutInMemory(p, k, e)
<1>0. CacheTtl \in Nat /\ MemorySize \in Nat /\ instant \in Nat
  BY ResponseCacheAssumption DEF KeptInv
<1>1. \A x \in DOMAIN memory[p] : /\ memory[p][x].expires \in Nat
                                 /\ memory[p][x].expires <= instant + CacheTtl
  BY <1>0 DEF KeptInv, MemoryKept, Stored, Whole
<1>2. /\ DOMAIN m = kept \cup {k}
      /\ \A x \in DOMAIN m : m[x] = IF x = k THEN e ELSE memory[p][x]
  BY DEF PutInMemory, Put
<1>3. IsFiniteSet(DOMAIN memory[p]) /\ kept \in SUBSET DOMAIN memory[p]
  BY DEF SizeInv
<1>4. IsFiniteSet(kept)
  BY <1>3, FS_Subset
<1>5. IsFiniteSet(DOMAIN m)
  BY <1>2, <1>4, FS_AddElement
<1>6. CASE full
  <2>1. \A x \in DOMAIN m : /\ m[x].expires \in Nat
                           /\ instant <= m[x].expires /\ m[x].expires <= instant + CacheTtl
    BY <1>0, <1>1, <1>2, <1>6
  <2>2. Overgrown(m)
    BY <1>0, <2>1 DEF Overgrown
  <2> QED
    BY <1>5, <2>2
<1>7. CASE ~full
  <2>1. Cardinality(DOMAIN memory[p]) \in Nat
    BY <1>3, FS_CardinalityType
  <2>2. Cardinality(DOMAIN m) <= Cardinality(DOMAIN memory[p]) + 1
    BY <1>2, <1>3, <1>7, <2>1, FS_AddElement
  <2>3. Cardinality(DOMAIN m) \in Nat
    BY <1>5, FS_CardinalityType
  <2>4. ~(Cardinality(DOMAIN m) > MemorySize)
    BY <1>0, <1>7, <2>1, <2>2, <2>3
  <2> QED
    BY <1>5, <2>4 DEF Overgrown
<1> QED
  BY <1>6, <1>7

\* A memory that loses an entry has not grown.
LEMMA DropShrinks ==
  ASSUME NEW m, IsFiniteSet(DOMAIN m), Overgrown(m), NEW k
  PROVE  LET n == [x \in DOMAIN m \ {k} |-> m[x]]
         IN  IsFiniteSet(DOMAIN n) /\ Overgrown(n)
<1> DEFINE n == [x \in DOMAIN m \ {k} |-> m[x]]
<1>1. DOMAIN n \in SUBSET DOMAIN m /\ \A x \in DOMAIN n : n[x] = m[x]
  OBVIOUS
<1>2. IsFiniteSet(DOMAIN n) /\ Cardinality(DOMAIN n) <= Cardinality(DOMAIN m)
  BY <1>1, FS_Subset
<1>3. Cardinality(DOMAIN n) \in Nat /\ Cardinality(DOMAIN m) \in Nat /\ MemorySize \in Nat
  BY <1>2, FS_CardinalityType, ResponseCacheAssumption
<1>4. Overgrown(n)
  BY <1>1, <1>2, <1>3 DEF Overgrown
<1> QED
  BY <1>2, <1>4

\* Every step keeps the memories within those bounds.
LEMMA SizeStep ==
  KeptInv /\ AskedType /\ SizeInv /\ [ResponseCacheNext]_answerVars => SizeInv'
<1> SUFFICES ASSUME KeptInv, AskedType, SizeInv, [ResponseCacheNext]_answerVars
             PROVE  SizeInv'
  OBVIOUS
<1>0. /\ DOMAIN memory = Process
      /\ \A p \in Process : IsFiniteSet(DOMAIN memory[p]) /\ Overgrown(memory[p])
  BY DEF KeptInv, SizeInv, OvergrownByLive, Overgrown
<1>1. ASSUME \A p \in Process : IsFiniteSet(DOMAIN memory'[p]) /\ Overgrown(memory'[p])
      PROVE  SizeInv'
  BY <1>1 DEF SizeInv, OvergrownByLive, Overgrown
<1>2. CASE UNCHANGED memory
  BY <1>0, <1>1, <1>2
<1>3. ASSUME NEW p \in Process, NEW m, memory' = [memory EXCEPT ![p] = m],
             IsFiniteSet(DOMAIN m), Overgrown(m)
      PROVE  SizeInv'
  BY <1>0, <1>1, <1>3
<1>4. ASSUME NEW s \in Slot, NEW p \in Process, NEW r \in Requests, Ask(s, p, r)
      PROVE  SizeInv'
  <2> DEFINE m == [x \in DOMAIN memory[p] \ {Key(r)} |-> memory[p][x]]
  <2>1. IsFiniteSet(DOMAIN m) /\ Overgrown(m)
    BY <1>0, DropShrinks
  <2>2. UNCHANGED memory \/ memory' = [memory EXCEPT ![p] = m]
    BY <1>4 DEF Ask, LookUp
  <2> HIDE DEF m
  <2> QED
    BY <1>2, <1>3, <2>1, <2>2
<1>5. ASSUME NEW s \in Slot, NEW cut, NEW json, EndOfBody(s, cut, json)
      PROVE  SizeInv'
  <2> DEFINE p == asked[s].process
             k == Key(asked[s].request)
             e == Entry([request |-> asked[s].request, cut |-> cut, at |-> instant])
  <2>1. p \in Process
    BY <1>5 DEF EndOfBody, AskedType, Idle
  <2>2. IsFiniteSet(DOMAIN PutInMemory(p, k, e)) /\ Overgrown(PutInMemory(p, k, e))
    BY <2>1, PutGrows DEF Entry
  <2>3. UNCHANGED memory \/ memory' = [memory EXCEPT ![p] = PutInMemory(p, k, e)]
    BY <1>5 DEF EndOfBody, tierVars
  <2> QED
    BY <1>2, <1>3, <2>1, <2>2, <2>3
<1>6. CASE (\E s \in Slot : LookUpSimilar(s)) \/ Switch \/ PassTime \/ UNCHANGED answerVars
  BY <1>2, <1>6 DEF LookUpSimilar, Switch, PassTime, tierVars, answerVars
<1> QED
  BY <1>4, <1>5, <1>6 DEF ResponseCacheNext

\* A memory that has outgrown its size holds nothing that had expired when its
\* last entry was stored: it never holds more than what was stored within a ttl,
\* or its size.
THEOREM OnlyLiveOvergrow == ResponseCacheSpec => []OvergrownByLive
<1>1. ResponseCacheInit => SizeInv
  <2> SUFFICES ASSUME ResponseCacheInit, NEW p \in Process
               PROVE  IsFiniteSet(DOMAIN memory[p]) /\ Overgrown(memory[p])
    BY DEF SizeInv, OvergrownByLive, Overgrown
  <2>1. DOMAIN memory[p] = {}
    BY DEF ResponseCacheInit
  <2> QED
    BY <2>1, FS_EmptySet DEF Overgrown
<1>2. SizeInv => OvergrownByLive
  BY DEF SizeInv
<1> QED
  BY <1>1, <1>2, SizeStep, KeptInit, KeptStep, AskedStep, PTL DEF ResponseCacheSpec

-----------------------------------------------------------------------------
(* Translation: what the steps of its loops keep.                          *)

Good(A) == {p \in A : p.type \in {"text", "image"}}

LEMMA KnownIn ==
  ASSUME NEW A, NEW s \in Seq(A)
  PROVE  KnownParts!Fold(<<>>, s) \in Seq(Good(A))
<1>1. \A x \in Seq(Good(A)), a \in A : KeepKnown(x, a) \in Seq(Good(A))
  BY DEF KeepKnown, Good
<1>2. <<>> \in Seq(Good(A))
  OBVIOUS
<1> QED
  BY <1>1, <1>2, KnownParts!FoldType

LEMMA KnownTwice ==
  ASSUME NEW A, NEW s \in Seq(Good(A))
  PROVE  KnownParts!Fold(<<>>, s) = s
<1>1. KnownParts!Appends(Good(A))
  BY DEF KnownParts!Appends, KeepKnown, Good
<1> QED
  BY <1>1, KnownParts!FoldKeeps

LEMMA TextIn ==
  ASSUME NEW A, NEW s \in Seq(A)
  PROVE  TextParts!Fold(<<>>, s) \in Seq({p \in A : p.type = "text"})
<1> DEFINE B == {p \in A : p.type = "text"}
<1>1. \A x \in Seq(B), a \in A : KeepText(x, a) \in Seq(B)
  BY DEF KeepText
<1>2. <<>> \in Seq(B)
  OBVIOUS
<1> HIDE DEF B
<1>3. TextParts!Fold(<<>>, s) \in Seq(B)
  BY <1>1, <1>2, TextParts!FoldType
<1> QED
  BY <1>3 DEF B

LEMMA TextTwice ==
  ASSUME NEW A, NEW s \in Seq(A), \A i \in DOMAIN s : s[i].type = "text"
  PROVE  TextParts!Fold(<<>>, s) = s
<1> DEFINE B == {p \in A : p.type = "text"}
<1>1. s \in Seq(B)
  OBVIOUS
<1>2. TextParts!Appends(B)
  BY DEF TextParts!Appends, KeepText
<1> HIDE DEF B
<1> QED
  BY <1>1, <1>2, TextParts!FoldKeeps

LEMMA ContentKnown ==
  ASSUME NEW c, IsContent(c)
  PROVE  /\ IsContent(Content(c))
         /\ KnownParts!Fold(<<>>, Content(c).parts) = KnownParts!Fold(<<>>, c.parts)
<1> DEFINE R == Range(c.parts)
<1> DEFINE known == KnownParts!Fold(<<>>, c.parts)
<1>1. c.parts \in Seq(R) /\ c.list \in BOOLEAN
  BY DEF IsContent, IsSequence
<1>2. known \in Seq(Good(R))
  BY <1>1, KnownIn
<1>3. IsSequence(known)
  BY <1>2, SeqOfRange DEF IsSequence
<1>4. KnownParts!Fold(<<>>, known) = known
  BY <1>2, KnownTwice
<1>5. KnownParts!Fold(<<>>, <<>>) = <<>>
  BY KnownParts!FoldEmpty
<1>6. IsSequence(<<>>)
  BY DEF IsSequence
<1> HIDE DEF known
<1>7. CASE c.list /\ known # <<>>
  <2>1. Content(c) = [list |-> TRUE, parts |-> known]
    BY <1>7 DEF Content, known
  <2> QED
    BY <2>1, <1>3, <1>4 DEF IsContent, known
<1>8. CASE c.list /\ known = <<>>
  <2>1. Content(c) = [list |-> FALSE, parts |-> <<>>]
    BY <1>8 DEF Content, known, Text
  <2> QED
    BY <2>1, <1>5, <1>6, <1>8 DEF IsContent, known
<1>9. CASE ~c.list
  <2>1. Content(c) = c
    BY <1>9 DEF Content
  <2> QED
    BY <2>1
<1> QED
  BY <1>1, <1>7, <1>8, <1>9

-----------------------------------------------------------------------------
(* Turns.                                                                  *)

LEMMA SpokenTwice ==
  ASSUME NEW M, NEW s \in Seq(M), \A i \in DOMAIN s : s[i].role # "system"
  PROVE  SpokenTurns!Fold(<<>>, s) = s /\ SystemTurns!Fold(<<>>, s) = <<>>
<1> DEFINE B == {m \in M : m.role # "system"}
<1>1. s \in Seq(B)
  OBVIOUS
<1>2. SpokenTurns!Appends(B)
  BY DEF SpokenTurns!Appends, KeepSpoken
<1>3. \A x \in {<<>>}, m \in B : KeepSystem(x, m) \in {<<>>}
  BY DEF KeepSystem
<1> HIDE DEF B
<1>4. SystemTurns!Fold(<<>>, s) \in {<<>>}
  BY <1>1, <1>3, SystemTurns!FoldType
<1> QED
  BY <1>1, <1>2, <1>4, SpokenTurns!FoldKeeps

LEMMA TurnsIn ==
  ASSUME NEW M, NEW s \in Seq(M)
  PROVE  /\ SpokenTurns!Fold(<<>>, s) \in Seq({m \in M : m.role # "system"})
         /\ SystemTurns!Fold(<<>>, s) \in Seq({m \in M : m.role = "system"})
<1> DEFINE A == {m \in M : m.role # "system"}
<1> DEFINE B == {m \in M : m.role = "system"}
<1>1. /\ \A x \in Seq(A), m \in M : KeepSpoken(x, m) \in Seq(A)
      /\ \A x \in Seq(B), m \in M : KeepSystem(x, m) \in Seq(B)
  BY DEF KeepSpoken, KeepSystem
<1>2. <<>> \in Seq(A) /\ <<>> \in Seq(B)
  OBVIOUS
<1> HIDE DEF A, B
<1>3. SpokenTurns!Fold(<<>>, s) \in Seq(A)
  BY <1>1, <1>2, SpokenTurns!FoldType
<1>4. SystemTurns!Fold(<<>>, s) \in Seq(B)
  BY <1>1, <1>2, SystemTurns!FoldType
<1> QED
  BY <1>3, <1>4 DEF A, B

\* What is written of prompts that are no lists are their parts.
LEMMA WrittenParts ==
  ASSUME NEW M, NEW s \in Seq(M), \A m \in M : IsContent(m.content) /\ ~m.content.list
  PROVE  /\ Written!Fold(<<>>, s) = AllParts!Fold(<<>>, s)
         /\ \E P : Written!Fold(<<>>, s) \in Seq(P) /\ \A p \in P : p.type = "text"
<1> DEFINE P == {p \in UNION {Range(m.content.parts) : m \in M} : p.type = "text"}
<1>1. ASSUME NEW m \in M PROVE m.content.parts \in Seq(P)
  <2>1. m.content.parts \in Seq(Range(m.content.parts))
    BY DEF IsContent, IsSequence
  <2>2. \A i \in DOMAIN m.content.parts : m.content.parts[i] \in P
    BY <1>1 DEF IsContent, Range
  <2> HIDE DEF P
  <2> QED
    BY <2>1, <2>2
<1>2. \A p \in P : p.type = "text"
  OBVIOUS
<1> HIDE DEF P
<1> DEFINE Same(u) == Written!Fold(<<>>, u) = AllParts!Fold(<<>>, u) /\ Written!Fold(<<>>, u) \in Seq(P)
<1> DEFINE T == {u \in Seq(M) : Same(u)}
<1>3. Same(<<>>)
  <2>1. Written!Fold(<<>>, <<>>) = <<>> /\ AllParts!Fold(<<>>, <<>>) = <<>>
    BY Written!FoldEmpty, AllParts!FoldEmpty
  <2>2. <<>> \in Seq(P)
    OBVIOUS
  <2> QED
    BY <2>1, <2>2
<1>4. ASSUME NEW u \in Seq(M), NEW m \in M, Same(u) PROVE Same(Append(u, m))
  <2>1. Written!Fold(<<>>, Append(u, m)) = AddWritten(Written!Fold(<<>>, u), m)
    BY Written!FoldAppend
  <2>2. AllParts!Fold(<<>>, Append(u, m)) = AddParts(AllParts!Fold(<<>>, u), m)
    BY AllParts!FoldAppend
  <2>3. ~m.content.list /\ m.content.parts \in Seq(P)
    BY <1>1
  <2> DEFINE w == Written!Fold(<<>>, u)
  <2>4. AddWritten(w, m) = w \o m.content.parts /\ AddParts(w, m) = w \o m.content.parts
    BY <2>3 DEF AddWritten, AddParts
  <2>5. w \in Seq(P) /\ w \o m.content.parts \in Seq(P)
    BY <1>4, <2>3
  <2> QED
    BY <1>4, <2>1, <2>2, <2>4, <2>5
<1>5. s \in T
  <2> HIDE DEF Same
  <2>1. <<>> \in T
    BY <1>3
  <2>2. \A u \in Seq(M), m \in M : u \in T => Append(u, m) \in T
    BY <1>4
  <2> HIDE DEF T
  <2> QED
    BY <2>1, <2>2, Written!SeqInduction
<1> QED
  BY <1>2, <1>5

LEMMA WrittenText ==
  ASSUME NEW M, NEW s \in Seq(M), \A m \in M : IsContent(m.content)
  PROVE  IsContent(Text(Written!Fold(<<>>, s)))
<1> DEFINE Listed == {[type |-> "text", value |-> <<"list", m.content.parts>>] : m \in M}
<1> DEFINE P == {p \in Listed \cup UNION {Range(m.content.parts) : m \in M} : p.type = "text"}
<1>1. ASSUME NEW x \in Seq(P), NEW m \in M PROVE AddWritten(x, m) \in Seq(P)
  <2>1. CASE m.content.list
    <3>1. [type |-> "text", value |-> <<"list", m.content.parts>>] \in P
      OBVIOUS
    <3> HIDE DEF P
    <3> QED
      BY <2>1, <3>1 DEF AddWritten
  <2>2. CASE ~m.content.list
    <3>1. m.content.parts \in Seq(Range(m.content.parts))
      BY DEF IsContent, IsSequence
    <3>2. \A i \in DOMAIN m.content.parts : m.content.parts[i] \in P
      BY <2>2 DEF IsContent, Range
    <3> HIDE DEF P
    <3> QED
      BY <2>2, <3>1, <3>2 DEF AddWritten
  <2> QED
    BY <2>1, <2>2
<1>2. <<>> \in Seq(P)
  OBVIOUS
<1>3. \A p \in P : p.type = "text"
  OBVIOUS
<1> HIDE DEF P
<1>4. Written!Fold(<<>>, s) \in Seq(P)
  BY <1>1, <1>2, Written!FoldType
<1> QED
  BY <1>3, <1>4, SeqOfRange DEF IsContent, IsSequence, Text
-----------------------------------------------------------------------------
(* One translation.                                                        *)

PlainSystem(b) == \A i \in DOMAIN b.messages : b.messages[i].role = "system" => ~b.messages[i].content.list

LEMMA OpenAIKeeps ==
  ASSUME NEW b, AnthropicBody(b)
  PROVE  /\ OpenAIBody(ToOpenAI(b)) /\ PlainSystem(ToOpenAI(b))
         /\ Said(ToOpenAI(b)) = Said(b)
         /\ Told(ToOpenAI(b)) = Told(b)
<1> DEFINE ms == b.messages
<1> DEFINE R == Range(b.system.parts)
<1> DEFINE text == TextParts!Fold(<<>>, b.system.parts)
<1> DEFINE sys == [role |-> "system", content |-> Text(text)]
<1> DEFINE turn(i) == [role |-> ms[i].role, content |-> Content(ms[i].content)]
<1> DEFINE turns == [i \in 1..Len(ms) |-> turn(i)]
<1> DEFINE first == System(b.system)
<1> DEFINE M == {sys} \cup {turn(i) : i \in 1..Len(ms)}
<1> DEFINE c == ToOpenAI(b)
<1>1. /\ ms \in Seq(Range(ms)) /\ Len(ms) \in Nat /\ DOMAIN ms = 1..Len(ms)
      /\ \A i \in 1..Len(ms) : IsMessage(ms[i], {"user", "assistant"})
  BY LenProperties DEF AnthropicBody, IsSequence
<1>2. text \in Seq({p \in R : p.type = "text"})
  BY TextIn DEF AnthropicBody, IsContent, IsSequence
<1>3. IsContent(Text(text))
  <2> HIDE DEF text, R
  <2> QED
    BY <1>2, SeqOfRange DEF IsContent, IsSequence, Text
<1>4. \A i \in 1..Len(ms) :
        /\ turn(i).role = ms[i].role /\ turn(i).role \in {"user", "assistant"}
        /\ IsContent(turn(i).content) /\ DOMAIN turn(i) = {"role", "content"}
        /\ KnownParts!Fold(<<>>, turn(i).content.parts) = KnownParts!Fold(<<>>, ms[i].content.parts)
        /\ turn(i) = [ms[i] EXCEPT !.content = Content(@)]
  BY <1>1, ContentKnown DEF IsMessage
<1>5. c.messages = first \o turns /\ c.format = "openai"
  BY <1>1, <1>4 DEF ToOpenAI
<1>6. first = <<>> \/ first = <<sys>>
  BY DEF System
<1>7. first = <<>> => text = <<>>
  BY DEF System
<1>8. turns \in Seq(M) /\ first \in Seq(M) /\ Len(turns) = Len(ms) /\ DOMAIN turns = 1..Len(ms)
  <2> HIDE DEF turn, sys, first
  <2>1. sys \in M /\ \A i \in 1..Len(ms) : turn(i) \in M
    OBVIOUS
  <2> DEFINE n == Len(ms)
  <2> HIDE DEF M, n
  <2>2. n \in Nat
    BY <1>1 DEF n
  <2>3. [i \in 1..n |-> turn(i)] \in Seq(M)
    BY <2>1, <2>2 DEF n
  <2>4. Len([i \in 1..n |-> turn(i)]) = n
    BY <2>2
  <2>5. first \in Seq(M)
    <3>1. <<>> \in Seq(M) /\ \A x \in M : <<x>> \in Seq(M)
      OBVIOUS
    <3> QED
      BY <1>6, <2>1, <3>1, Zenon
  <2> QED
    BY <2>2, <2>3, <2>4, <2>5 DEF n
<1>9. sys.role = "system" /\ sys.content = Text(text) /\ DOMAIN sys = {"role", "content"}
  OBVIOUS
<1> HIDE DEF turn, sys, first, c, text
<1>10. \A m \in M : /\ m.role \in {"system", "user", "assistant"} /\ IsContent(m.content)
                    /\ DOMAIN m = {"role", "content"} /\ (m.role = "system" => m = sys)
  BY <1>3, <1>4, <1>9
<1>11. c.messages \in Seq(M)
  BY <1>5, <1>8
<1>12. SpokenTurns!Fold(<<>>, c.messages) = turns
  <2>1. SpokenTurns!Fold(<<>>, first) = <<>>
    <3>1. SpokenTurns!Fold(<<>>, <<sys>>) = KeepSpoken(<<>>, sys)
      BY SpokenTurns!FoldOne
    <3> QED
      BY <1>6, <1>9, <3>1, SpokenTurns!FoldEmpty DEF KeepSpoken
  <2>2. SpokenTurns!Fold(<<>>, first \o turns) = SpokenTurns!Fold(SpokenTurns!Fold(<<>>, first), turns)
    <3> HIDE DEF turns, M
    <3> QED
      BY <1>8, SpokenTurns!FoldConcat
  <2>3. \A i \in DOMAIN turns : turns[i].role # "system"
    BY <1>4, <1>8
  <2>4. SpokenTurns!Fold(<<>>, turns) = turns
    <3> HIDE DEF turns, M
    <3> QED
      BY <1>8, <2>3, SpokenTwice
  <2> QED
    BY <1>5, <2>1, <2>2, <2>4
<1>13. SpokenTurns!Fold(<<>>, ms) = ms
  <2>1. \A i \in DOMAIN ms : ms[i].role # "system"
    BY <1>1 DEF IsMessage
  <2> QED
    BY <1>1, <2>1, SpokenTwice
<1>14. Said(c) = Said(b)
  <2> HIDE DEF M
  <2> QED
    BY <1>4, <1>8, <1>12, <1>13 DEF Said
<1>15. SystemTurns!Fold(<<>>, c.messages) = first
  <2>1. SystemTurns!Fold(<<>>, first) = first
    <3>1. SystemTurns!Fold(<<>>, <<sys>>) = KeepSystem(<<>>, sys)
      BY SystemTurns!FoldOne
    <3> QED
      BY <1>6, <1>9, <3>1, SystemTurns!FoldEmpty DEF KeepSystem
  <2>2. SystemTurns!Fold(<<>>, first \o turns) = SystemTurns!Fold(SystemTurns!Fold(<<>>, first), turns)
    <3> HIDE DEF turns, M
    <3> QED
      BY <1>8, SystemTurns!FoldConcat
  <2> DEFINE N == {turn(i) : i \in 1..Len(ms)}
  <2>3. turns \in Seq(N)
    BY <1>1
  <2>4. \A x \in {first}, m \in N : KeepSystem(x, m) \in {first}
    BY <1>4 DEF KeepSystem
  <2>5. SystemTurns!Fold(first, turns) \in {first}
    <3> HIDE DEF turns, M, N
    <3> QED
      BY <2>3, <2>4, SystemTurns!FoldType
  <2> QED
    BY <1>5, <2>1, <2>2, <2>5
<1>16. Told(c) = text
  <2>1. AllParts!Fold(<<>>, <<sys>>) = AddParts(<<>>, sys)
    BY AllParts!FoldOne
  <2>2. AddParts(<<>>, sys) = <<>> \o text
    BY <1>9 DEF AddParts, Text
  <2>3. <<>> \o text = text
    BY <1>2
  <2> QED
    BY <1>5, <1>6, <1>7, <1>15, <2>1, <2>2, <2>3, AllParts!FoldEmpty DEF Told
<1>17. Told(b) = text
  BY DEF Told, AnthropicBody, text
<1>18. OpenAIBody(c) /\ PlainSystem(c)
  <2>1. IsSequence(c.messages)
    <3> HIDE DEF M
    <3> QED
      BY <1>11, SeqOfRange DEF IsSequence
  <2>2. \A i \in DOMAIN c.messages : c.messages[i] \in M
    BY <1>11
  <2> HIDE DEF M
  <2>3. \A i \in DOMAIN c.messages : IsMessage(c.messages[i], {"system", "user", "assistant", "tool"})
    BY <1>10, <2>2 DEF IsMessage
  <2>4. sys.content.list = FALSE
    BY <1>9 DEF Text
  <2>5. PlainSystem(c)
    BY <1>10, <2>2, <2>4 DEF PlainSystem
  <2> QED
    BY <1>5, <2>1, <2>3, <2>5 DEF OpenAIBody
<1> QED
  BY <1>14, <1>16, <1>17, <1>18 DEF c

LEMMA AnthropicKeeps ==
  ASSUME NEW b, OpenAIBody(b)
  PROVE  /\ AnthropicBody(ToAnthropic(b))
         /\ Said(ToAnthropic(b)) = Said(b)
         /\ PlainSystem(b) => Told(ToAnthropic(b)) = Told(b)
<1> DEFINE ms == b.messages
<1> DEFINE R == Range(ms)
<1> DEFINE S == {m \in R : m.role = "system"}
<1> DEFINE spoken == SpokenTurns!Fold(<<>>, ms)
<1> DEFINE prompts == SystemTurns!Fold(<<>>, ms)
<1> DEFINE role(i) == IF spoken[i].role = "assistant" THEN "assistant" ELSE "user"
<1> DEFINE turn(i) == [role |-> role(i), content |-> Content(spoken[i].content)]
<1> DEFINE turns == [i \in 1..Len(spoken) |-> turn(i)]
<1> DEFINE text == Written!Fold(<<>>, prompts)
<1> DEFINE c == ToAnthropic(b)
<1>1. ms \in Seq(R)
  BY DEF OpenAIBody, IsSequence
<1>2. \A m \in R : IsContent(m.content)
  BY DEF OpenAIBody, IsMessage, Range
<1>3. /\ spoken \in Seq({m \in R : m.role # "system"})
      /\ prompts \in Seq(S)
  <2> HIDE DEF R
  <2> QED
    BY <1>1, TurnsIn
<1>4. c.messages = turns /\ c.format = "anthropic" /\ c.system = Text(text)
  BY DEF ToAnthropic
<1> DEFINE n == Len(spoken)
<1>5. n \in Nat /\ \A i \in 1..n : spoken[i] \in R /\ IsContent(spoken[i].content)
  <2> HIDE DEF spoken, R
  <2>1. \A i \in 1..n : spoken[i] \in {m \in R : m.role # "system"}
    BY <1>3, ElementOfSeq
  <2> QED
    BY <1>2, <1>3, <2>1, LenProperties
<1>6. \A i \in 1..n :
        /\ turn(i).role = role(i) /\ role(i) \in {"user", "assistant"}
        /\ IsContent(turn(i).content) /\ DOMAIN turn(i) = {"role", "content"}
        /\ KnownParts!Fold(<<>>, turn(i).content.parts) = KnownParts!Fold(<<>>, spoken[i].content.parts)
  BY <1>5, ContentKnown
<1> HIDE DEF spoken, prompts, text, c
<1> DEFINE M == {turn(i) : i \in 1..n}
<1>7. turns \in Seq(M) /\ Len(turns) = n /\ DOMAIN turns = 1..n /\ \A i \in 1..n : turns[i] = turn(i)
  <2>1. \A i \in 1..n : turn(i) \in M
    OBVIOUS
  <2> HIDE DEF M, n, turn
  <2>2. n \in Nat
    BY <1>5
  <2>3. [i \in 1..n |-> turn(i)] \in Seq(M) /\ Len([i \in 1..n |-> turn(i)]) = n
    BY <2>1, <2>2
  <2> QED
    BY <2>2, <2>3 DEF n
<1> HIDE DEF turn, turns
<1>8. SpokenTurns!Fold(<<>>, c.messages) = turns
  <2>1. \A i \in DOMAIN turns : turns[i].role # "system"
    BY <1>6, <1>7
  <2> HIDE DEF M
  <2> QED
    BY <1>4, <1>7, <2>1, SpokenTwice
<1>9. Said(c) = Said(b)
  <2>1. \A i \in 1..n : /\ turns[i].role = role(i) /\ (role(i) = "assistant" <=> spoken[i].role = "assistant")
                       /\ KnownParts!Fold(<<>>, turns[i].content.parts) = KnownParts!Fold(<<>>, spoken[i].content.parts)
    BY <1>6, <1>7
  <2> DEFINE said(ts) ==
        [i \in 1..Len(ts) |-> <<IF ts[i].role = "assistant" THEN "assistant" ELSE "user",
                                KnownParts!Fold(<<>>, ts[i].content.parts)>>]
  <2>2. said(turns) = said(spoken)
    BY <1>5, <1>7, <2>1
  <2>3. Said(c) = said(turns) /\ Said(b) = said(spoken)
    BY <1>8 DEF Said, spoken
  <2> QED
    BY <2>2, <2>3
<1>10. AnthropicBody(c)
  <2>1. IsContent(Text(text))
    <3> HIDE DEF R, S
    <3>1. \A m \in S : IsContent(m.content)
      BY <1>2 DEF S
    <3> QED
      BY <1>3, <3>1, WrittenText DEF text
  <2>2. IsSequence(turns)
    BY <1>7, SeqOfRange DEF IsSequence
  <2>3. \A i \in DOMAIN turns : IsMessage(turns[i], {"user", "assistant"})
    BY <1>6, <1>7 DEF IsMessage
  <2> QED
    BY <1>4, <2>1, <2>2, <2>3 DEF AnthropicBody
<1>11. ASSUME PlainSystem(b) PROVE Told(c) = Told(b)
  <2>1. \A m \in S : IsContent(m.content) /\ ~m.content.list
    BY <1>2, <1>11 DEF PlainSystem, Range
  <2>2. /\ text = AllParts!Fold(<<>>, prompts)
        /\ \E P : text \in Seq(P) /\ \A p \in P : p.type = "text"
    <3> HIDE DEF S
    <3> QED
      BY <1>3, <2>1, WrittenParts DEF text
  <2>3. TextParts!Fold(<<>>, text) = text
    <3>1. PICK P : text \in Seq(P) /\ \A p \in P : p.type = "text"
      BY <2>2
    <3>2. \A i \in DOMAIN text : text[i].type = "text"
      BY <3>1
    <3> QED
      BY <3>1, <3>2, TextTwice
  <2>4. Told(c) = TextParts!Fold(<<>>, text)
    BY <1>4 DEF Told, Text
  <2>5. Told(b) = AllParts!Fold(<<>>, prompts)
    BY DEF Told, OpenAIBody, prompts
  <2> QED
    BY <2>2, <2>3, <2>4, <2>5
<1> QED
  BY <1>9, <1>10, <1>11 DEF c

-----------------------------------------------------------------------------
(* Any number of translations.                                             *)

\* Both bodies are legal, and what a body says and tells is what was sent; no
\* translation makes a list of a system prompt.
TalkInv ==
  /\ AnthropicBody(sent) \/ OpenAIBody(sent)
  /\ AnthropicBody(body) \/ OpenAIBody(body)
  /\ Said(body) = Said(sent)
  /\ PlainSystem(sent) => PlainSystem(body) /\ Told(body) = Told(sent)
  /\ body.tools = sent.tools
  /\ body.tools # <<>> /\ sent.choice # "none" => body.choice = sent.choice
  /\ sent.max # 0 => body.max = sent.max

LEMMA AnthropicPlain ==
  ASSUME NEW b, AnthropicBody(b)
  PROVE  PlainSystem(b)
BY DEF AnthropicBody, PlainSystem, IsMessage

\* translate_request of both translations: for any bodies of the two shapes, a
\* server is asked with the same turns, texts and images, the same system prompt
\* and tools as the gateway was, there and back again.
THEOREM TalkKept == TranslationSpec => []SameTalk
<1>1. TranslationInit => TalkInv
  BY BodiesAssumption DEF TranslationInit, TalkInv
<1>2. TalkInv /\ [Translate]_translationVars => TalkInv'
  <2> SUFFICES ASSUME TalkInv, [Translate]_translationVars PROVE TalkInv'
    OBVIOUS
  <2>1. CASE Translate
    <3>1. sent' = sent
      BY <2>1 DEF Translate
    <3>2. CASE body.format = "anthropic"
      <4>1. AnthropicBody(body) /\ body' = ToOpenAI(body)
        BY <2>1, <3>2 DEF Translate, TalkInv, OpenAIBody
      <4>2. OpenAIBody(body') /\ PlainSystem(body') /\ Said(body') = Said(body) /\ Told(body') = Told(body)
        BY <4>1, OpenAIKeeps
      <4>3. /\ body'.tools = body.tools /\ body'.max = body.max
            /\ body.tools # <<>> /\ body.choice # "none" => body'.choice = body.choice
        BY <4>1 DEF ToOpenAI
      <4> QED
        BY <3>1, <4>2, <4>3 DEF TalkInv
    <3>3. CASE body.format # "anthropic"
      <4>1. OpenAIBody(body) /\ body' = ToAnthropic(body)
        BY <2>1, <3>3 DEF Translate, TalkInv, AnthropicBody
      <4>2. /\ AnthropicBody(body') /\ PlainSystem(body') /\ Said(body') = Said(body)
            /\ PlainSystem(body) => Told(body') = Told(body)
        BY <4>1, AnthropicKeeps, AnthropicPlain
      <4>3. /\ body'.tools = body.tools /\ (body.max # 0 => body'.max = body.max)
            /\ body.tools # <<>> /\ body.choice # "none" => body'.choice = body.choice
        BY <4>1 DEF ToAnthropic
      <4> QED
        BY <3>1, <4>2, <4>3 DEF TalkInv
    <3> QED
      BY <3>2, <3>3
  <2>2. CASE UNCHANGED translationVars
    BY <2>2 DEF TalkInv, translationVars
  <2> QED
    BY <2>1, <2>2
<1>3. TalkInv => SameTalk
  BY DEF TalkInv, SameTalk, PlainSystem
<1> QED
  BY <1>1, <1>2, <1>3, PTL DEF TranslationSpec

=============================================================================
