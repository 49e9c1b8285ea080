--------------------------- MODULE CollectProofs ---------------------------
(***************************************************************************)
(* Proofs about the live store.  LiveStats: its counts are those of the    *)
(* requests, for every set of requests, servers and models.  Rollups: its  *)
(* seconds, its minute rows and the history made of them count every       *)
(* request, for every set of requests, keys and flushers and any window.   *)
(***************************************************************************)
EXTENDS LiveStats, Rollups, SumsProofs, FiniteSetTheorems, TLAPS

-----------------------------------------------------------------------------
(* Facts about the helpers.                                                *)

\* Resolving a key of the store's universe gives a key of that universe, for
\* the same server.
LEMMA ResolveType ==
  ASSUME NEW K, NEW k \in Key
  PROVE  Resolve(K, k) \in Key /\ Resolve(K, k)[1] = k[1]
BY LiveStatsAssumption DEF Resolve, Key

\* A state lookup returns a key, and leaves a set of keys that contains it.
LEMMA StateType ==
  ASSUME NEW K \in SUBSET Key, NEW la, NEW k \in Key
  PROVE  /\ StateKey(K, la, k) \in Key
         /\ StateKeys(K, la, k) \in SUBSET Key
         /\ StateKey(K, la, k) \in StateKeys(K, la, k)
BY ResolveType DEF StateKey, StateKeys

\* A lookup that updates the activity times keeps them typed.
LEMMA TouchedType ==
  ASSUME NEW K \in SUBSET Key, NEW la \in [Key -> Nat], NEW k \in Key, clock \in Nat
  PROVE  Touched(K, la, k) \in [Key -> Nat]
BY StateType DEF Touched

\* What a store method's lookup leaves behind is typed.
LEMMA TouchType ==
  ASSUME TypeOK, NEW k \in Key
  PROVE  /\ Here(k) \in Key
         /\ Touch(k) => keys' \in SUBSET Key /\ lastActive' \in [Key -> Nat]
<1>1. keys \in SUBSET Key /\ lastActive \in [Key -> Nat] /\ clock \in Nat
  BY DEF TypeOK
<1>2. Here(k) \in Key
  BY <1>1, StateType DEF Here
<1>3. StateKeys(keys, lastActive, k) \in SUBSET Key
  BY <1>1, StateType
<1>4. Touched(keys, lastActive, k) \in [Key -> Nat]
  BY <1>1, TouchedType
<1> QED
  BY <1>2, <1>3, <1>4 DEF Touch

\* The clamp at zero does nothing to a count that is not zero.
LEMMA DecType == \A n \in Nat : Dec(n) \in Nat /\ (n > 0 => Dec(n) = n - 1)
BY DEF Dec

-----------------------------------------------------------------------------
\* Closing a request in the store keeps the counts natural.
LEMMA FinishStoreType ==
  ASSUME TypeOK, NEW r \in Req, FinishStore(r)
  PROVE  /\ keys' \in SUBSET Key
         /\ lastActive' \in [Key -> Nat]
         /\ waiting' \in [Key -> Nat]
         /\ generating' \in [Key -> Nat]
<1> DEFINE k == Here(key[r])
<1>1. waiting \in [Key -> Nat] /\ generating \in [Key -> Nat] /\ key[r] \in Key
  BY DEF TypeOK
<1>2. k \in Key /\ keys' \in SUBSET Key /\ lastActive' \in [Key -> Nat]
  BY <1>1, TouchType DEF FinishStore
<1> HIDE DEF k
<1>3. Dec(waiting[k]) \in Nat /\ Dec(generating[k]) \in Nat
  BY <1>1, <1>2, DecType
<1>4. CASE phase[r] = "generating"
  <2>1. waiting' = waiting
        /\ generating' = [generating EXCEPT ![k] = Dec(generating[k])]
    BY <1>4 DEF FinishStore, k
  <2> QED
    BY <1>1, <1>2, <1>3, <2>1
<1>5. CASE phase[r] # "generating"
  <2>1. generating' = generating
        /\ waiting' = [waiting EXCEPT ![k] = Dec(waiting[k])]
    BY <1>5 DEF FinishStore, k
  <2> QED
    BY <1>1, <1>2, <1>3, <2>1
<1> QED
  BY <1>4, <1>5

\* Every step keeps the state well typed.
LEMMA TypeStep == TypeOK /\ [Next]_vars => TypeOK'
<1> SUFFICES ASSUME TypeOK, [Next]_vars
             PROVE  TypeOK'
  OBVIOUS
<1> USE DEF TypeOK, Phase
<1>1. ASSUME NEW r \in Req, NEW k \in Key, DispatchResolve(r, k)
      PROVE  TypeOK'
  BY <1>1, ResolveType DEF DispatchResolve
<1>2. ASSUME NEW r \in Req, Dispatch(r)
      PROVE  TypeOK'
  BY <1>2, TouchType DEF Dispatch
<1>3. ASSUME NEW r \in Req, NEW k \in Key, RetargetResolve(r, k)
      PROVE  TypeOK'
  BY <1>3, ResolveType DEF RetargetResolve
<1>4. ASSUME NEW r \in Req, Retarget(r)
      PROVE  TypeOK'
  <2> DEFINE from == Here(key[r])
             keys1 == StateKeys(keys, lastActive, key[r])
             last1 == Touched(keys, lastActive, key[r])
             to == StateKey(keys1, last1, pending[r])
  <2>1. /\ from \in Key
        /\ keys1 \in SUBSET Key
        /\ last1 \in [Key -> Nat]
    BY StateType, TouchedType DEF Here
  <2>2. /\ to \in Key
        /\ StateKeys(keys1, last1, pending[r]) \in SUBSET Key
        /\ Touched(keys1, last1, pending[r]) \in [Key -> Nat]
    <3> HIDE DEF keys1, last1
    <3> QED BY <2>1, StateType, TouchedType DEF to
  <2>3. [[waiting EXCEPT ![from] = Dec(@)] EXCEPT ![to] = @ + 1] \in [Key -> Nat]
    <3> HIDE DEF from, to
    <3>1. [waiting EXCEPT ![from] = Dec(@)] \in [Key -> Nat]
      BY <2>1, DecType
    <3> QED BY <3>1, <2>2
  <2> QED
    BY <1>4, <2>2, <2>3 DEF Retarget
<1>5. ASSUME NEW r \in Req, FirstToken(r)
      PROVE  TypeOK'
  BY <1>5, TouchType, DecType DEF FirstToken
<1>6. ASSUME NEW r \in Req, NEW total \in 1..MaxBytes, SetInflightBytes(r, total)
      PROVE  TypeOK'
  <2>1. Here(key[r]) \in Key
    BY StateType DEF Here
  <2>2. bytes[Here(key[r])] + (total - held[r]) \in Nat
    BY <1>6, <2>1, LiveStatsAssumption DEF SetInflightBytes
  <2> QED
    BY <1>6, <2>1, <2>2, TouchType, LiveStatsAssumption
    DEF SetInflightBytes
<1>7. ASSUME NEW r \in Req, FinishStore(r)
      PROVE  /\ keys' \in SUBSET Key
             /\ lastActive' \in [Key -> Nat]
             /\ waiting' \in [Key -> Nat]
             /\ generating' \in [Key -> Nat]
  BY <1>7, FinishStoreType
<1>8. ASSUME NEW r \in Req, Finish(r)
      PROVE  TypeOK'
  BY <1>7, <1>8 DEF Finish
<1>14. ASSUME NEW r \in Req, GiveBack(r)
       PROVE  /\ keys' \in SUBSET Key
              /\ lastActive' \in [Key -> Nat]
              /\ bytes' \in [Key -> Nat]
              /\ held' \in [Req -> 0..MaxBytes]
              /\ phase' \in [Req -> Phase]
  BY <1>14, TouchType, LiveStatsAssumption DEF GiveBack
<1>9. ASSUME NEW r \in Req, FinishBytes(r)
      PROVE  TypeOK'
  BY <1>9, <1>14 DEF FinishBytes
<1>10. ASSUME NEW r \in Req, FinishOpen(r)
       PROVE  TypeOK'
  BY <1>7, <1>10 DEF FinishOpen
<1>15. ASSUME NEW r \in Req, FinishOpenBytes(r)
       PROVE  TypeOK'
  BY <1>14, <1>15 DEF FinishOpenBytes
<1>11. CASE Snapshot
  BY <1>11 DEF Snapshot
<1>12. CASE Tick
  BY <1>12 DEF Tick
<1>13. CASE UNCHANGED vars
  BY <1>13 DEF vars
<1> QED
  BY <1>1, <1>2, <1>3, <1>4, <1>5, <1>6, <1>8, <1>9, <1>10, <1>11, <1>12, <1>13, <1>15
  DEF Next

\* The store starts well typed.
LEMMA TypeInit == Init => TypeOK
<1>1. PICK s \in Server : TRUE
  BY LiveStatsAssumption
<1>2. <<s, Overflow>> \in Key
  BY LiveStatsAssumption DEF Key
<1>3. (CHOOSE k \in Key : TRUE) \in Key
  BY <1>2
<1> QED
  BY <1>3, LiveStatsAssumption DEF Init, TypeOK, Phase

\* Every reachable state is well typed: no count ever leaves the naturals, and
\* every key the store or a tracker holds is a server with one of the models.
THEOREM TypeCorrect == Spec => []TypeOK
BY TypeInit, TypeStep, PTL DEF Spec

-----------------------------------------------------------------------------
(* Counting.                                                               *)

\* One request more under a key is one more to count.
LEMMA CardAdd ==
  ASSUME NEW S, IsFiniteSet(S), NEW r, r \notin S
  PROVE  Cardinality(S \cup {r}) = Cardinality(S) + 1
BY FS_AddElement

\* One request less is one less, of a count that was not zero.
LEMMA CardRemove ==
  ASSUME NEW S, IsFiniteSet(S), NEW r \in S
  PROVE  /\ Cardinality(S) \in Nat \ {0}
         /\ Cardinality(S \ {r}) = Cardinality(S) - 1
<1>1. Cardinality(S) \in Nat
  BY FS_CardinalityType
<1>2. Cardinality(S) # 0
  BY FS_EmptySet
<1> QED
  BY <1>1, <1>2, FS_RemoveElement

\* The requests a key's counts stand for are finitely many.
LEMMA OnFinite ==
  \A k : IsFiniteSet(WaitingOn(k)) /\ IsFiniteSet(GeneratingOn(k))
BY LiveStatsAssumption, FS_Subset DEF WaitingOn, GeneratingOn

\* One element of BytesOn(k) for each byte held by a tracker of k.
LEMMA BytesMember ==
  ASSUME NEW k
  PROVE  \A x : x \in BytesOn(k) <=>
           \E q \in Req : key[q] = k /\ x \in {q} \X (1..held[q])
BY DEF BytesOn

\* The bytes held under a key are finitely many.
LEMMA BytesFinite ==
  ASSUME TypeOK, NEW k
  PROVE  IsFiniteSet(BytesOn(k))
<1>1. IsFiniteSet(Req) /\ IsFiniteSet(1..MaxBytes)
  BY LiveStatsAssumption, FS_Interval
<1>2. IsFiniteSet(Req \X (1..MaxBytes))
  BY <1>1, FS_Product
<1>3. ASSUME NEW x \in BytesOn(k)
      PROVE  x \in Req \X (1..MaxBytes)
  <2>1. PICK q \in Req : x \in {q} \X (1..held[q])
    BY <1>3, BytesMember
  <2>2. held[q] \in 0..MaxBytes
    BY DEF TypeOK
  <2>3. 1..held[q] \in SUBSET (1..MaxBytes)
    BY <2>2, LiveStatsAssumption
  <2> QED
    BY <2>1, <2>3
<1> QED
  BY <1>2, <1>3, FS_Subset

\* A run of bytes of one request has as many elements as bytes.
LEMMA BlockCard ==
  ASSUME NEW r, NEW a \in Nat, NEW b \in Nat, a <= b
  PROVE  /\ IsFiniteSet({r} \X (a+1..b))
         /\ Cardinality({r} \X (a+1..b)) = b - a
<1>1. /\ IsFiniteSet(a+1..b)
      /\ Cardinality(a+1..b) = IF a + 1 > b THEN 0 ELSE b - (a + 1) + 1
  BY FS_Interval
<1>2. Cardinality(a+1..b) = b - a
  BY <1>1
<1>3. IsFiniteSet({r}) /\ Cardinality({r}) = 1
  BY FS_Singleton
<1>4. /\ IsFiniteSet({r} \X (a+1..b))
      /\ Cardinality({r} \X (a+1..b)) = Cardinality({r}) * Cardinality(a+1..b)
  BY <1>1, <1>3, FS_Product
<1>5. 1 * (b - a) = b - a
  OBVIOUS
<1> QED
  BY <1>2, <1>3, <1>4, <1>5

\* The key of an open request is never idle.
LEMMA OpenNotIdle ==
  ASSUME TypeOK, CountsMatch, BytesMatch, HeldWhile,
         NEW r \in Req, Open(r), NEW K, NEW la
  PROVE  key[r] \notin Idle(K, la)
<1>1. key[r] \in Key /\ phase[r] \in Phase
  BY DEF TypeOK
<1>2. CASE phase[r] \in WaitPhase
  <2>1. r \in WaitingOn(key[r])
    BY <1>2 DEF WaitingOn
  <2>2. waiting[key[r]] # 0
    BY <1>1, <2>1, OnFinite, CardRemove DEF CountsMatch
  <2> QED
    BY <2>2 DEF Idle
<1>3. CASE phase[r] = "generating"
  <2>1. r \in GeneratingOn(key[r])
    BY <1>3 DEF GeneratingOn
  <2>2. generating[key[r]] # 0
    BY <1>1, <2>1, OnFinite, CardRemove DEF CountsMatch
  <2> QED
    BY <2>2 DEF Idle
<1>4. CASE phase[r] \in {"closing", "givingBack"}
  <2>1. held[r] \in Nat /\ held[r] > 0
    BY <1>4, LiveStatsAssumption DEF HeldWhile, TypeOK
  <2>2. <<r, 1>> \in BytesOn(key[r])
    <3>1. <<r, 1>> \in {r} \X (1..held[r])
      BY <2>1
    <3> QED
      BY <3>1, BytesMember
  <2>3. bytes[key[r]] # 0
    BY <1>1, <2>2, BytesFinite, CardRemove DEF BytesMatch
  <2> QED
    BY <2>3 DEF Idle
<1> QED
  BY <1>1, <1>2, <1>3, <1>4 DEF Open, Phase, WaitPhase

\* No state lookup evicts the key of an open request.
LEMMA LookupKeepsOpen ==
  ASSUME TypeOK, CountsMatch, BytesMatch, HeldWhile, OpenKeyKept,
         NEW la, NEW k, NEW r \in Req, Open(r)
  PROVE  key[r] \in StateKeys(keys, la, k)
BY OpenNotIdle DEF OpenKeyKept, StateKeys

\* A key that is present, or the overflow key, or within the server's cap is
\* found under its own name: eviction only makes room.
LEMMA StableKey ==
  ASSUME NEW K, IsFiniteSet(K), NEW la, NEW k \in Key,
         \/ k \in K
         \/ k[2] = Overflow
         \/ Cardinality(KeysOf(K, k[1])) < MaxModels
  PROVE  StateKey(K, la, k) = k
<1>1. k = <<k[1], k[2]>>
  BY DEF Key
<1>2. CASE k \in K
  BY <1>2 DEF StateKey
<1>3. CASE k \notin K /\ k[2] = Overflow
  BY <1>1, <1>3 DEF StateKey, Resolve
<1>4. CASE k \notin K /\ Cardinality(KeysOf(K, k[1])) < MaxModels
  <2> DEFINE small == KeysOf(K \ Idle(K, la), k[1])
             large == KeysOf(K, k[1])
  <2>1. IsFiniteSet(large)
    BY FS_Subset DEF KeysOf
  <2>2. small \in SUBSET large
    BY DEF KeysOf
  <2>3. Cardinality(small) <= Cardinality(large)
    BY <2>1, <2>2, FS_Subset
  <2>4. IsFiniteSet(small)
    BY <2>1, <2>2, FS_Subset
  <2>5. Cardinality(small) \in Nat /\ Cardinality(large) \in Nat
    BY <2>1, <2>4, FS_CardinalityType
  <2>6. Cardinality(small) < MaxModels
    <3> HIDE DEF small, large
    <3>1. Cardinality(large) < MaxModels
      BY <1>4 DEF large
    <3> QED BY <2>3, <2>5, <3>1, LiveStatsAssumption
  <2> QED
    BY <1>4, <2>6 DEF StateKey, Resolve
<1> QED
  BY <1>2, <1>3, <1>4

\* Looking up a key's state leaves finitely many keys.
LEMMA LookupFinite ==
  ASSUME NEW K, IsFiniteSet(K), NEW la, NEW k
  PROVE  IsFiniteSet(StateKeys(K, la, k))
<1>1. IsFiniteSet(K \ Idle(K, la))
  BY FS_Subset
<1> QED
  BY <1>1, FS_AddElement DEF StateKeys

\* A key just resolved will resolve to itself again.
LEMMA ResolveStays ==
  ASSUME NEW K, NEW k \in Key
  PROVE  \/ Resolve(K, k) \in K
         \/ Resolve(K, k)[2] = Overflow
         \/ Cardinality(KeysOf(K, Resolve(K, k)[1])) < MaxModels
BY DEF Resolve

-----------------------------------------------------------------------------
(* What a tracker's move does to the counts.                               *)

\* A request that gets its first byte, or ends without one, leaves the waiting
\* count of its key one lower and the others as they were.
LEMMA LeaveWaiting ==
  ASSUME TypeOK, CountsMatch, NEW r \in Req, phase[r] \in WaitPhase,
         NEW p \in Phase \ WaitPhase,
         phase' = [phase EXCEPT ![r] = p], key' = key,
         waiting' = [waiting EXCEPT ![key[r]] = Dec(@)]
  PROVE  \A k \in Key : waiting'[k] = Cardinality(WaitingOn(k)')
<1> TAKE k \in Key
<1>1. key[r] \in Key /\ waiting \in [Key -> Nat] /\ phase \in [Req -> Phase]
  BY DEF TypeOK
<1>2. CASE k = key[r]
  <2>1. WaitingOn(k)' = WaitingOn(k) \ {r}
    BY <1>1 DEF WaitingOn
  <2>2. r \in WaitingOn(k)
    BY <1>2 DEF WaitingOn
  <2>3. waiting'[k] = Dec(waiting[k])
    BY <1>1, <1>2
  <2>4. /\ waiting[k] = Cardinality(WaitingOn(k))
        /\ waiting[k] \in Nat \ {0}
        /\ Cardinality(WaitingOn(k) \ {r}) = Cardinality(WaitingOn(k)) - 1
    BY <2>2, OnFinite, CardRemove DEF CountsMatch
  <2> QED
    BY <2>1, <2>3, <2>4, DecType
<1>3. CASE k # key[r]
  <2>1. WaitingOn(k)' = WaitingOn(k)
    BY <1>1, <1>3 DEF WaitingOn
  <2> QED
    BY <1>1, <1>3, <2>1 DEF CountsMatch
<1> QED
  BY <1>2, <1>3

\* A request that ends after its first byte leaves the generating count of its
\* key one lower and the others as they were.
LEMMA LeaveGenerating ==
  ASSUME TypeOK, CountsMatch, NEW r \in Req, phase[r] = "generating",
         NEW p \in Phase \ {"generating"},
         phase' = [phase EXCEPT ![r] = p], key' = key,
         generating' = [generating EXCEPT ![key[r]] = Dec(@)]
  PROVE  \A k \in Key : generating'[k] = Cardinality(GeneratingOn(k)')
<1> TAKE k \in Key
<1>1. key[r] \in Key /\ generating \in [Key -> Nat] /\ phase \in [Req -> Phase]
  BY DEF TypeOK
<1>2. CASE k = key[r]
  <2>1. GeneratingOn(k)' = GeneratingOn(k) \ {r}
    BY <1>1 DEF GeneratingOn
  <2>2. r \in GeneratingOn(k)
    BY <1>2 DEF GeneratingOn
  <2>3. generating'[k] = Dec(generating[k])
    BY <1>1, <1>2
  <2>4. /\ generating[k] = Cardinality(GeneratingOn(k))
        /\ generating[k] \in Nat \ {0}
        /\ Cardinality(GeneratingOn(k) \ {r}) = Cardinality(GeneratingOn(k)) - 1
    BY <2>2, OnFinite, CardRemove DEF CountsMatch
  <2> QED
    BY <2>1, <2>3, <2>4, DecType
<1>3. CASE k # key[r]
  <2>1. GeneratingOn(k)' = GeneratingOn(k)
    BY <1>1, <1>3 DEF GeneratingOn
  <2> QED
    BY <1>1, <1>3, <2>1 DEF CountsMatch
<1> QED
  BY <1>2, <1>3

\* The first byte of a request adds one to the generating count of its key.
LEMMA EnterGenerating ==
  ASSUME TypeOK, CountsMatch, NEW r \in Req, phase[r] # "generating",
         phase' = [phase EXCEPT ![r] = "generating"], key' = key,
         generating' = [generating EXCEPT ![key[r]] = @ + 1]
  PROVE  \A k \in Key : generating'[k] = Cardinality(GeneratingOn(k)')
<1> TAKE k \in Key
<1>1. key[r] \in Key /\ generating \in [Key -> Nat] /\ phase \in [Req -> Phase]
  BY DEF TypeOK
<1>2. CASE k = key[r]
  <2>1. GeneratingOn(k)' = GeneratingOn(k) \cup {r}
    BY <1>1, <1>2 DEF GeneratingOn
  <2>2. r \notin GeneratingOn(k)
    BY DEF GeneratingOn
  <2>3. generating'[k] = generating[k] + 1
    BY <1>1, <1>2
  <2> QED
    BY <2>1, <2>2, <2>3, OnFinite, CardAdd DEF CountsMatch
<1>3. CASE k # key[r]
  <2>1. GeneratingOn(k)' = GeneratingOn(k)
    BY <1>1, <1>3 DEF GeneratingOn
  <2> QED
    BY <1>1, <1>3, <2>1 DEF CountsMatch
<1> QED
  BY <1>2, <1>3

\* A step that moves no request into, out of or between the waiting requests
\* keeps their counts right; the same for the generating ones.
LEMMA KeepWaiting ==
  ASSUME CountsMatch, waiting' = waiting,
         \A q \in Req : phase'[q] \in WaitPhase <=> phase[q] \in WaitPhase,
         \A q \in Req : phase[q] \in WaitPhase => key'[q] = key[q]
  PROVE  \A k \in Key : waiting'[k] = Cardinality(WaitingOn(k)')
<1>1. \A k : WaitingOn(k)' = WaitingOn(k)
  BY DEF WaitingOn
<1> QED
  BY <1>1 DEF CountsMatch

\* A step that moves no request to or from generating keeps those counts.
LEMMA KeepGenerating ==
  ASSUME CountsMatch, generating' = generating,
         \A q \in Req : phase'[q] = "generating" <=> phase[q] = "generating",
         \A q \in Req : phase[q] = "generating" => key'[q] = key[q]
  PROVE  \A k \in Key : generating'[k] = Cardinality(GeneratingOn(k)')
<1>1. \A k : GeneratingOn(k)' = GeneratingOn(k)
  BY DEF GeneratingOn
<1> QED
  BY <1>1 DEF CountsMatch

\* A step that moves no bytes, and re-keys and finishes only requests that
\* hold none, keeps the bytes right.
LEMMA KeepBytes ==
  ASSUME TypeOK, BytesMatch, bytes' = bytes, held' = held,
         \A q \in Req : key'[q] = key[q] \/ held[q] = 0,
         \A q \in Req : phase'[q] = "finished" => phase[q] = "finished" \/ held[q] = 0
  PROVE  BytesMatch'
<1>1. ASSUME NEW k \in Key
      PROVE  BytesOn(k)' = BytesOn(k)
  <2>1. ASSUME NEW q \in Req, key'[q] # key[q]
        PROVE  {q} \X (1..held[q]) = {}
    <3>1. held[q] = 0
      BY <2>1
    <3>2. 1..held[q] = {}
      BY <3>1
    <3> QED
      BY <3>2
  <2> QED
    BY <2>1 DEF BytesOn
<1> QED
  BY <1>1 DEF BytesMatch

-----------------------------------------------------------------------------
(* The inductive invariant.                                                *)

\* The invariant holds of the empty store.
LEMMA InvInit == Init => IInv
<1> SUFFICES ASSUME Init PROVE IInv
  OBVIOUS
<1>1. TypeOK
  BY TypeInit
<1>2. \A k : WaitingOn(k) = {} /\ GeneratingOn(k) = {}
  BY DEF Init, WaitingOn, GeneratingOn, WaitPhase
<1>3. CountsMatch
  BY <1>2, FS_EmptySet DEF Init, CountsMatch
<1>4. BytesMatch
  <2>1. ASSUME NEW k \in Key
        PROVE  BytesOn(k) = {}
    <3>1. ASSUME NEW q \in Req
          PROVE  {q} \X (1..held[q]) = {}
      <4>1. held[q] = 0
        BY DEF Init
      <4>2. 1..held[q] = {}
        BY <4>1
      <4> QED
        BY <4>2
    <3> QED
      BY <3>1 DEF BytesOn
  <2> QED
    BY <2>1, FS_EmptySet DEF Init, BytesMatch
<1>5. IsFiniteSet(keys) /\ OneMidway /\ HeldWhile /\ OpenKeyKept /\ PendingStays
  BY FS_EmptySet DEF Init, OneMidway, HeldWhile, OpenKeyKept, PendingStays, Open
<1> QED
  BY <1>1, <1>3, <1>4, <1>5 DEF IInv

\* A store call for an open request finds its key, and keeps the keys.
LEMMA OpenLookup ==
  ASSUME IInv, NEW r \in Req, Open(r)
  PROVE  /\ key[r] \in Key
         /\ key[r] \in keys
         /\ Here(key[r]) = key[r]
         /\ Touch(key[r]) => keys' = keys
<1>1. key[r] \in Key /\ key[r] \in keys
  BY DEF IInv, TypeOK, OpenKeyKept
<1> QED
  BY <1>1 DEF Here, Touch, StateKey, StateKeys

\* Everything but the counts survives a step that keeps the keys and in which
\* one tracker, with nothing under way, moves on to a phase of its own.
LEMMA RestKept ==
  ASSUME IInv, NEW r \in Req, NEW p \in Phase,
         keys' = keys, key' = key, pending' = pending,
         phase' = [phase EXCEPT ![r] = p],
         Open(r), p \notin {"resolved", "retargeting"},
         p = "closing" => busy' = {r},
         busy' = busy \/ busy = {}
  PROVE  IsFiniteSet(keys)' /\ OneMidway' /\ OpenKeyKept' /\ PendingStays'
<1> USE DEF IInv
<1>1. phase \in [Req -> Phase]
  BY DEF TypeOK
<1>2. OneMidway'
  BY <1>1 DEF OneMidway
<1>3. OpenKeyKept'
  BY <1>1 DEF OpenKeyKept, Open
<1>4. PendingStays'
  BY <1>1 DEF PendingStays
<1> QED
  BY <1>2, <1>3, <1>4

\* Dispatching under the resolved key.
LEMMA DispatchInv ==
  ASSUME IInv, NEW r \in Req, Dispatch(r), TypeOK'
  PROVE  IInv'
<1> USE DEF IInv
<1>1. /\ phase[r] = "resolved" /\ pending[r] \in Key
      /\ phase' = [phase EXCEPT ![r] = "waiting"]
      /\ key' = [key EXCEPT ![r] = pending[r]]
      /\ busy = {r} /\ busy' = {} /\ pending' = pending
      /\ phase \in [Req -> Phase] /\ key \in [Req -> Key]
  BY DEF Dispatch, TypeOK, OneMidway
<1>2. Here(pending[r]) = pending[r]
  BY <1>1, StableKey DEF PendingStays, Here
<1>3. /\ keys' = StateKeys(keys, lastActive, pending[r])
      /\ IsFiniteSet(keys')
      /\ pending[r] \in keys'
  BY <1>1, <1>2, LookupFinite, StateType DEF Dispatch, Touch, TypeOK, Here
<1>4. OneMidway'
  BY <1>1 DEF OneMidway
<1>5. OpenKeyKept'
  BY <1>1, <1>3, LookupKeepsOpen DEF OpenKeyKept, Open, WaitPhase
<1>9. HeldWhile' /\ BytesMatch'
  BY <1>1, KeepBytes DEF Dispatch, HeldWhile
<1>6. PendingStays'
  BY <1>1, <1>4 DEF PendingStays, OneMidway
<1>7. \A k \in Key : waiting'[k] = Cardinality(WaitingOn(k)')
  <2> TAKE k \in Key
  <2>1. waiting' = [waiting EXCEPT ![pending[r]] = @ + 1] /\ waiting \in [Key -> Nat]
    BY <1>2 DEF Dispatch, TypeOK
  <2>2. CASE k = pending[r]
    <3>1. WaitingOn(k)' = WaitingOn(k) \cup {r}
      BY <1>1, <2>2 DEF WaitingOn, WaitPhase
    <3>2. r \notin WaitingOn(k)
      BY <1>1 DEF WaitingOn, WaitPhase
    <3> QED
      BY <2>1, <2>2, <3>1, <3>2, OnFinite, CardAdd DEF CountsMatch
  <2>3. CASE k # pending[r]
    <3>1. WaitingOn(k)' = WaitingOn(k)
      BY <1>1, <2>3 DEF WaitingOn, WaitPhase
    <3> QED
      BY <2>1, <2>3, <3>1 DEF CountsMatch
  <2> QED
    BY <2>2, <2>3
<1>8. \A k \in Key : generating'[k] = Cardinality(GeneratingOn(k)')
  BY <1>1, KeepGenerating DEF Dispatch
<1> QED
  BY <1>3, <1>4, <1>5, <1>6, <1>7, <1>8, <1>9 DEF CountsMatch

\* Moving a request to the server and model the fallback chose.
LEMMA RetargetInv ==
  ASSUME IInv, NEW r \in Req, Retarget(r), TypeOK'
  PROVE  IInv'
<1> USE DEF IInv
<1>1. /\ phase[r] = "retargeting" /\ pending[r] \in Key
      /\ phase' = [phase EXCEPT ![r] = "served"]
      /\ key' = [key EXCEPT ![r] = pending[r]]
      /\ busy = {r} /\ busy' = {} /\ pending' = pending
      /\ phase \in [Req -> Phase] /\ key \in [Req -> Key]
  BY DEF Retarget, TypeOK, OneMidway
<1>2. /\ key[r] \in Key /\ key[r] \in keys /\ Here(key[r]) = key[r]
      /\ StateKeys(keys, lastActive, key[r]) = keys
  BY <1>1, OpenLookup DEF Open, WaitPhase, StateKeys
<1> DEFINE last1 == Touched(keys, lastActive, key[r])
<1>3. StateKey(keys, last1, pending[r]) = pending[r]
  BY <1>1, StableKey DEF PendingStays
<1>4. /\ keys' = StateKeys(keys, last1, pending[r])
      /\ waiting' = [[waiting EXCEPT ![key[r]] = Dec(@)] EXCEPT ![pending[r]] = @ + 1]
  BY <1>2, <1>3 DEF Retarget
<1> HIDE DEF last1
<1>5. IsFiniteSet(keys') /\ pending[r] \in keys'
  BY <1>1, <1>3, <1>4, LookupFinite, StateType DEF TypeOK
<1>6. OneMidway'
  BY <1>1 DEF OneMidway
<1>7. OpenKeyKept'
  BY <1>1, <1>4, <1>5, LookupKeepsOpen DEF OpenKeyKept, Open, WaitPhase
<1>8. PendingStays'
  BY <1>1 DEF PendingStays, OneMidway
<1>11. HeldWhile' /\ BytesMatch'
  BY <1>1, KeepBytes DEF Retarget, HeldWhile
<1>9. \A k \in Key : waiting'[k] = Cardinality(WaitingOn(k)')
  <2> TAKE k \in Key
  <2> DEFINE rest == WaitingOn(k) \ {r}
             mid == [waiting EXCEPT ![key[r]] = Dec(@)]
  <2>1. waiting \in [Key -> Nat]
    BY DEF TypeOK
  <2>2. mid[k] = Cardinality(rest)
    <3>1. CASE k = key[r]
      <4>1. r \in WaitingOn(k)
        BY <1>1, <3>1 DEF WaitingOn, WaitPhase
      <4>2. mid[k] = Dec(waiting[k])
        BY <2>1, <3>1
      <4>3. /\ waiting[k] = Cardinality(WaitingOn(k))
            /\ waiting[k] \in Nat \ {0}
            /\ Cardinality(rest) = Cardinality(WaitingOn(k)) - 1
        BY <4>1, OnFinite, CardRemove DEF CountsMatch
      <4> QED
        BY <4>2, <4>3, DecType
    <3>2. CASE k # key[r]
      <4>1. rest = WaitingOn(k)
        BY <3>2 DEF WaitingOn
      <4> QED
        BY <2>1, <3>2, <4>1 DEF CountsMatch
    <3> QED
      BY <3>1, <3>2
  <2>3. mid \in [Key -> Nat]
    BY <2>1, DecType
  <2>4. IsFiniteSet(rest) /\ r \notin rest
    BY OnFinite, FS_Subset
  <2>5. CASE k = pending[r]
    <3>1. WaitingOn(k)' = rest \cup {r}
      BY <1>1, <2>5 DEF WaitingOn, WaitPhase
    <3>2. waiting'[k] = mid[k] + 1
      BY <1>4, <2>3, <2>5
    <3>3. Cardinality(rest \cup {r}) = Cardinality(rest) + 1
      <4> HIDE DEF rest
      <4> QED BY <2>4, CardAdd
    <3> QED
      BY <2>2, <3>1, <3>2, <3>3
  <2>6. CASE k # pending[r]
    <3>1. WaitingOn(k)' = rest
      BY <1>1, <2>6 DEF WaitingOn, WaitPhase
    <3>2. waiting'[k] = mid[k]
      BY <1>4, <2>3, <2>6
    <3> QED
      BY <2>2, <3>1, <3>2
  <2> QED
    BY <2>5, <2>6
<1>10. \A k \in Key : generating'[k] = Cardinality(GeneratingOn(k)')
  BY <1>1, KeepGenerating DEF Retarget
<1> QED
  BY <1>5, <1>6, <1>7, <1>8, <1>9, <1>10, <1>11 DEF CountsMatch

\* Closing a request in the store.
LEMMA FinishInv ==
  ASSUME IInv, NEW r \in Req, FinishStore(r), TypeOK',
         phase[r] \in WaitPhase \cup {"generating"},
         NEW p \in {"closing", "givingBack", "finished"},
         phase' = [phase EXCEPT ![r] = p], p = "finished" <=> held[r] = 0,
         key' = key, pending' = pending, bytes' = bytes, held' = held,
         p = "closing" => busy' = {r},
         busy' = busy \/ busy = {}
  PROVE  IInv'
<1> USE DEF IInv
<1>0. phase \in [Req -> Phase] /\ Open(r) /\ held[r] \in Nat
  BY LiveStatsAssumption DEF TypeOK, Open, WaitPhase
<1>1. Here(key[r]) = key[r] /\ keys' = keys
  BY <1>0, OpenLookup DEF FinishStore
<1>2. IsFiniteSet(keys)' /\ OneMidway' /\ OpenKeyKept' /\ PendingStays'
  BY <1>0, <1>1, RestKept DEF Phase
<1>3. HeldWhile' /\ BytesMatch'
  BY <1>0, KeepBytes DEF HeldWhile
<1>4. CASE phase[r] = "generating"
  <2>1. \A k \in Key : generating'[k] = Cardinality(GeneratingOn(k)')
    BY <1>1, <1>4, LeaveGenerating DEF FinishStore, Phase
  <2>2. \A k \in Key : waiting'[k] = Cardinality(WaitingOn(k)')
    BY <1>0, <1>4, KeepWaiting DEF FinishStore, WaitPhase
  <2> QED
    BY <1>2, <1>3, <2>1, <2>2 DEF CountsMatch
<1>5. CASE phase[r] \in WaitPhase
  <2>1. \A k \in Key : waiting'[k] = Cardinality(WaitingOn(k)')
    BY <1>1, <1>5, LeaveWaiting DEF FinishStore, Phase, WaitPhase
  <2>2. \A k \in Key : generating'[k] = Cardinality(GeneratingOn(k)')
    BY <1>0, <1>5, KeepGenerating DEF FinishStore, WaitPhase
  <2> QED
    BY <1>2, <1>3, <2>1, <2>2 DEF CountsMatch
<1> QED
  BY <1>4, <1>5

\* Giving back the bytes of a closed request.
LEMMA GiveBackInv ==
  ASSUME IInv, NEW r \in Req, GiveBack(r), TypeOK',
         phase[r] \in {"closing", "givingBack"},
         UNCHANGED <<waiting, generating, key, pending>>,
         busy' = IF phase[r] = "closing" THEN {} ELSE busy
  PROVE  IInv'
<1> USE DEF IInv
<1>1. /\ phase \in [Req -> Phase] /\ phase' = [phase EXCEPT ![r] = "finished"]
      /\ held \in [Req -> 0..MaxBytes] /\ held' = [held EXCEPT ![r] = 0]
      /\ held[r] \in Nat \ {0}
      /\ bytes \in [Key -> Nat] /\ key[r] \in Key
  BY LiveStatsAssumption DEF TypeOK, GiveBack, HeldWhile
<1>2. Here(key[r]) = key[r] /\ keys' = keys
  BY <1>1, OpenLookup DEF GiveBack, Open
<1>3. OneMidway'
  BY <1>1 DEF OneMidway
<1>4. OpenKeyKept' /\ HeldWhile'
  BY <1>1, <1>2 DEF OpenKeyKept, Open, HeldWhile
<1>5. PendingStays'
  BY <1>1, <1>2 DEF PendingStays
<1>6. CountsMatch'
  BY <1>1, KeepWaiting, KeepGenerating DEF CountsMatch, WaitPhase
<1>7. ASSUME NEW k \in Key
      PROVE  bytes'[k] = Cardinality(BytesOn(k)')
  <2> DEFINE block == {r} \X (1..held[r])
  <2>1. CASE k = key[r]
    <3>1. BytesOn(k)' = BytesOn(k) \ block
      <4>1. 1..held'[r] = {}
        BY <1>1
      <4> QED
        BY <1>1, <4>1 DEF BytesOn
    <3>2. block \in SUBSET BytesOn(k)
      BY <2>1 DEF BytesOn
    <3>3. Cardinality(block) = held[r]
      <4>1. Cardinality({r} \X (0+1..held[r])) = held[r] - 0
        <5>1. 0 \in Nat /\ held[r] \in Nat /\ 0 <= held[r]
          BY <1>1
        <5> QED
          BY <5>1, BlockCard
      <4>2. 0+1..held[r] = 1..held[r]
        OBVIOUS
      <4> QED
        BY <1>1, <4>1, <4>2
    <3>4. /\ Cardinality(BytesOn(k) \ block)
               = Cardinality(BytesOn(k)) - Cardinality(BytesOn(k) \cap block)
          /\ BytesOn(k) \cap block = block
      BY <3>2, BytesFinite, FS_Difference
    <3>5. Cardinality(BytesOn(k) \ block) \in Nat
      BY BytesFinite, FS_Difference, FS_CardinalityType
    <3>6. bytes[k] = Cardinality(BytesOn(k))
      BY DEF BytesMatch
    <3>7. bytes'[k] = IF bytes[k] > held[r] THEN bytes[k] - held[r] ELSE 0
      BY <1>1, <1>2, <2>1 DEF GiveBack
    <3> HIDE DEF block
    <3> QED
      BY <1>1, <3>1, <3>3, <3>4, <3>5, <3>6, <3>7
  <2>2. CASE k # key[r]
    <3>1. BytesOn(k)' = BytesOn(k)
      BY <1>1, <2>2 DEF BytesOn
    <3> QED
      BY <1>1, <1>2, <2>2, <3>1 DEF BytesMatch, GiveBack
  <2> QED
    BY <2>1, <2>2
<1>8. BytesMatch'
  BY <1>1, <1>7 DEF BytesMatch
<1> QED
  BY <1>2, <1>3, <1>4, <1>5, <1>6, <1>8

\* Counting the bytes of one more chunk.
LEMMA InflightInv ==
  ASSUME IInv, NEW r \in Req, NEW total \in 1..MaxBytes,
         SetInflightBytes(r, total), TypeOK'
  PROVE  IInv'
<1> USE DEF IInv
<1>1. /\ phase[r] = "generating" /\ Touch(key[r])
      /\ UNCHANGED <<waiting, generating, phase, key, pending, busy>>
      /\ held \in [Req -> 0..MaxBytes] /\ held' = [held EXCEPT ![r] = total]
      /\ held[r] \in Nat /\ total \in Nat /\ held[r] < total
      /\ bytes \in [Key -> Nat] /\ key[r] \in Key
  BY LiveStatsAssumption DEF SetInflightBytes, TypeOK
<1>2. Here(key[r]) = key[r] /\ keys' = keys
  BY <1>1, OpenLookup DEF Open
<1>3. OneMidway' /\ OpenKeyKept' /\ PendingStays' /\ HeldWhile'
  BY <1>1, <1>2 DEF OneMidway, OpenKeyKept, PendingStays, Open, HeldWhile
<1>4. CountsMatch'
  BY <1>1, KeepWaiting, KeepGenerating DEF CountsMatch
<1>5. ASSUME NEW k \in Key
      PROVE  bytes'[k] = Cardinality(BytesOn(k)')
  <2> DEFINE block == {r} \X (held[r]+1..total)
  <2>1. CASE k = key[r]
    <3>1. BytesOn(k)' = BytesOn(k) \cup block
      <4>1. 1..total = (1..held[r]) \cup (held[r]+1..total)
        BY <1>1
      <4> QED
        BY <1>1, <2>1, <4>1 DEF BytesOn
    <3>2. BytesOn(k) \cap block = {}
      <4>1. (1..held[r]) \cap (held[r]+1..total) = {}
        BY <1>1
      <4> QED
        BY <4>1 DEF BytesOn
    <3>3. IsFiniteSet(block) /\ Cardinality(block) = total - held[r]
      <4>1. held[r] \in Nat /\ total \in Nat /\ held[r] <= total
        BY <1>1
      <4> QED
        BY <4>1, BlockCard
    <3>4. /\ Cardinality(BytesOn(k) \cup block) = Cardinality(BytesOn(k))
               + Cardinality(block) - Cardinality(BytesOn(k) \cap block)
          /\ Cardinality(BytesOn(k)) \in Nat
      BY <3>3, BytesFinite, FS_Union, FS_CardinalityType
    <3>5. bytes[k] = Cardinality(BytesOn(k))
      BY DEF BytesMatch
    <3>6. bytes'[k] = bytes[k] + (total - held[r])
      BY <1>1, <1>2, <2>1 DEF SetInflightBytes
    <3>7. Cardinality(BytesOn(k) \cap block) = 0
      BY <3>2, FS_EmptySet
    <3> HIDE DEF block
    <3> QED
      BY <1>1, <3>1, <3>3, <3>4, <3>5, <3>6, <3>7
  <2>2. CASE k # key[r]
    <3>1. BytesOn(k)' = BytesOn(k)
      BY <1>1, <2>2 DEF BytesOn
    <3> QED
      BY <1>1, <1>2, <2>2, <3>1 DEF BytesMatch, SetInflightBytes
  <2> QED
    BY <2>1, <2>2
<1>6. BytesMatch'
  BY <1>1, <1>5 DEF BytesMatch
<1> QED
  BY <1>2, <1>3, <1>4, <1>6

\* Without a reader thread, every step keeps the inductive invariant.
LEMMA InvStep ==
  ASSUME ReaderThread = FALSE
  PROVE  IInv /\ [Next]_vars => IInv'
<1> SUFFICES ASSUME IInv, [Next]_vars
             PROVE  IInv'
  OBVIOUS
<1> USE DEF IInv
<1>0. TypeOK' /\ phase \in [Req -> Phase]
  BY TypeStep DEF TypeOK
<1>1. ASSUME NEW r \in Req, NEW k \in Key, DispatchResolve(r, k)
      PROVE  IInv'
  <2>1. /\ phase[r] = "new" /\ busy = {} /\ busy' = {r}
        /\ phase' = [phase EXCEPT ![r] = "resolved"]
        /\ pending' = [pending EXCEPT ![r] = Resolve(keys, k)]
        /\ UNCHANGED <<keys, key, waiting, generating>>
    BY <1>1 DEF DispatchResolve
  <2>2. OneMidway'
    BY <1>0, <2>1 DEF OneMidway
  <2>3. OpenKeyKept' /\ HeldWhile' /\ BytesMatch'
    BY <1>0, <1>1, <2>1, KeepBytes DEF OpenKeyKept, Open, HeldWhile, DispatchResolve
  <2>4. PendingStays'
    BY <1>0, <2>1, ResolveStays DEF PendingStays, OneMidway, TypeOK
  <2>5. CountsMatch'
    BY <1>0, <2>1, KeepWaiting, KeepGenerating DEF CountsMatch, WaitPhase
  <2> QED
    BY <1>0, <2>1, <2>2, <2>3, <2>4, <2>5
<1>2. ASSUME NEW r \in Req, Dispatch(r)
      PROVE  IInv'
  BY <1>0, <1>2, DispatchInv
<1>3. ASSUME NEW r \in Req, NEW k \in Key, RetargetResolve(r, k)
      PROVE  IInv'
  <2>1. /\ phase[r] = "waiting" /\ busy = {}
        /\ UNCHANGED <<keys, key, waiting, generating, bytes, held>>
    BY <1>3 DEF RetargetResolve
  <2>2. CASE Resolve(keys, k) = key[r]
    <3>1. /\ phase' = [phase EXCEPT ![r] = "served"]
          /\ UNCHANGED <<pending, busy>>
      BY <1>3, <2>2 DEF RetargetResolve
    <3>2. IsFiniteSet(keys)' /\ OneMidway' /\ OpenKeyKept' /\ PendingStays'
      BY <2>1, <3>1, RestKept DEF Phase, Open, WaitPhase
    <3>3. CountsMatch'
      BY <1>0, <2>1, <3>1, KeepWaiting, KeepGenerating DEF CountsMatch, WaitPhase
    <3>4. HeldWhile' /\ BytesMatch'
      BY <1>0, <2>1, <3>1, KeepBytes DEF HeldWhile
    <3> QED
      BY <1>0, <3>2, <3>3, <3>4
  <2>3. CASE Resolve(keys, k) # key[r]
    <3>1. /\ phase' = [phase EXCEPT ![r] = "retargeting"]
          /\ pending' = [pending EXCEPT ![r] = Resolve(keys, k)]
          /\ busy' = {r}
      BY <1>3, <2>3 DEF RetargetResolve
    <3>2. OneMidway'
      BY <1>0, <2>1, <3>1 DEF OneMidway
    <3>3. OpenKeyKept' /\ HeldWhile' /\ BytesMatch'
      BY <1>0, <2>1, <3>1, KeepBytes DEF OpenKeyKept, Open, HeldWhile
    <3>4. PendingStays'
      BY <1>0, <2>1, <3>1, ResolveStays DEF PendingStays, OneMidway, TypeOK
    <3>5. CountsMatch'
      BY <1>0, <2>1, <3>1, KeepWaiting, KeepGenerating DEF CountsMatch, WaitPhase
    <3> QED
      BY <1>0, <2>1, <3>2, <3>3, <3>4, <3>5
  <2> QED
    BY <2>2, <2>3
<1>4. ASSUME NEW r \in Req, Retarget(r)
      PROVE  IInv'
  BY <1>0, <1>4, RetargetInv
<1>5. ASSUME NEW r \in Req, FirstToken(r)
      PROVE  IInv'
  <2>1. /\ phase[r] = "served" /\ busy = {} /\ busy' = busy
        /\ phase' = [phase EXCEPT ![r] = "generating"]
        /\ key' = key /\ pending' = pending
        /\ Touch(key[r])
    BY <1>5 DEF FirstToken
  <2>2. Here(key[r]) = key[r] /\ keys' = keys
    BY <2>1, OpenLookup DEF Open, WaitPhase
  <2>3. IsFiniteSet(keys)' /\ OneMidway' /\ OpenKeyKept' /\ PendingStays'
    BY <2>1, <2>2, RestKept DEF Phase, Open, WaitPhase
  <2>4. \A k \in Key : waiting'[k] = Cardinality(WaitingOn(k)')
    BY <1>5, <2>1, <2>2, LeaveWaiting DEF FirstToken, Phase, WaitPhase
  <2>5. \A k \in Key : generating'[k] = Cardinality(GeneratingOn(k)')
    BY <1>5, <2>1, <2>2, EnterGenerating DEF FirstToken
  <2>6. HeldWhile' /\ BytesMatch'
    BY <1>0, <1>5, <2>1, KeepBytes DEF FirstToken, HeldWhile
  <2> QED
    BY <1>0, <2>3, <2>4, <2>5, <2>6 DEF CountsMatch
<1>6. ASSUME NEW r \in Req, NEW total \in 1..MaxBytes, SetInflightBytes(r, total)
      PROVE  IInv'
  BY <1>0, <1>6, InflightInv
<1>7. ASSUME NEW r \in Req, Finish(r)
      PROVE  IInv'
  <2>1. CASE held[r] > 0
    BY <1>0, <1>7, <2>1, FinishInv DEF Finish, WaitPhase
  <2>2. CASE held[r] = 0
    BY <1>0, <1>7, <2>2, FinishInv DEF Finish, WaitPhase
  <2> QED
    BY <2>1, <2>2, LiveStatsAssumption DEF TypeOK
<1>8. ASSUME NEW r \in Req, FinishBytes(r)
      PROVE  IInv'
  BY <1>0, <1>8, GiveBackInv DEF FinishBytes
<1>9. ASSUME NEW r \in Req, FinishOpen(r)
      PROVE  IInv'
  <2>1. CASE held[r] > 0
    <3>1. phase' = [phase EXCEPT ![r] = "givingBack"]
      BY <1>9, <2>1 DEF FinishOpen
    <3>4. held[r] # 0
      BY <2>1, LiveStatsAssumption DEF TypeOK
    <3>2. /\ FinishStore(r) /\ phase[r] \in WaitPhase \cup {"generating"}
          /\ UNCHANGED <<bytes, key, pending, held, busy>>
      BY <1>9 DEF FinishOpen, WaitPhase
    <3>3. "givingBack" \in {"closing", "givingBack", "finished"}
          /\ "givingBack" # "finished" /\ "givingBack" # "closing"
      OBVIOUS
    <3> QED
      BY <1>0, <3>1, <3>2, <3>3, <3>4, FinishInv
  <2>2. CASE held[r] = 0
    <3>1. phase' = [phase EXCEPT ![r] = "finished"]
      BY <1>9, <2>2 DEF FinishOpen
    <3> QED
      BY <1>0, <1>9, <2>2, <3>1, FinishInv DEF FinishOpen, WaitPhase
  <2> QED
    BY <2>1, <2>2, LiveStatsAssumption DEF TypeOK
<1>13. ASSUME NEW r \in Req, FinishOpenBytes(r)
       PROVE  IInv'
  BY <1>0, <1>13, GiveBackInv DEF FinishOpenBytes
<1>10. CASE Snapshot
  <2>1. /\ busy = {} /\ keys' = keys \ Idle(keys, lastActive)
        /\ UNCHANGED <<waiting, generating, phase, key, pending, busy>>
    BY <1>10 DEF Snapshot
  <2>2. IsFiniteSet(keys')
    BY <2>1, FS_Subset
  <2>3. OneMidway'
    BY <2>1 DEF OneMidway
  <2>4. OpenKeyKept'
    BY <2>1, OpenNotIdle DEF OpenKeyKept, Open
  <2>5. PendingStays'
    BY <2>1 DEF PendingStays, OneMidway
  <2>6. CountsMatch'
    BY <2>1, KeepWaiting, KeepGenerating DEF CountsMatch
  <2>7. HeldWhile' /\ BytesMatch'
    BY <1>10, <2>1, KeepBytes DEF Snapshot, HeldWhile
  <2> QED
    BY <1>0, <2>2, <2>3, <2>4, <2>5, <2>6, <2>7
<1>11. CASE Tick
  BY <1>0, <1>11, KeepWaiting, KeepGenerating, KeepBytes
  DEF Tick, CountsMatch, OneMidway, OpenKeyKept, PendingStays, Open, HeldWhile
<1>12. CASE UNCHANGED vars
  BY <1>0, <1>12, KeepWaiting, KeepGenerating, KeepBytes
  DEF vars, CountsMatch, OneMidway, OpenKeyKept, PendingStays, Open, HeldWhile
<1> QED
  BY <1>1, <1>2, <1>3, <1>4, <1>5, <1>6, <1>7, <1>8, <1>9, <1>10, <1>11, <1>12,
     <1>13
  DEF Next

\* While snapshots are taken on the event loop only, the counts of the store
\* are right in every reachable state, whatever the number of requests, servers
\* and models, the cap and the eviction delay: dispatch, fallback retargeting,
\* first byte, finish, a background task's late finish and idle eviction never
\* double count a request, forget one, or count it under a key it is not on.
THEOREM CountsCorrect ==
  ASSUME ReaderThread = FALSE
  PROVE  Spec => []CountsMatch
<1>1. IInv /\ [Next]_vars => IInv'
  BY InvStep
<1>2. IInv => CountsMatch
  BY DEF IInv
<1> QED
  BY InvInit, <1>1, <1>2, PTL DEF Spec

\* Under the same condition, the in-flight bytes of a key are the bytes its
\* trackers hold.
THEOREM BytesCorrect ==
  ASSUME ReaderThread = FALSE
  PROVE  Spec => []BytesMatch
<1>1. IInv /\ [Next]_vars => IInv'
  BY InvStep
<1>2. IInv => BytesMatch
  BY DEF IInv
<1> QED
  BY InvInit, <1>1, <1>2, PTL DEF Spec

\* Under the same condition, idle eviction never takes the state of the key an
\* open request is accounted under.
THEOREM OpenKeysSafe ==
  ASSUME ReaderThread = FALSE
  PROVE  Spec => []OpenKeyKept
<1>1. IInv /\ [Next]_vars => IInv'
  BY InvStep
<1>2. IInv => OpenKeyKept
  BY DEF IInv
<1> QED
  BY InvInit, <1>1, <1>2, PTL DEF Spec

-----------------------------------------------------------------------------
(* The cap on a server's keys, which needs no condition on the reader.     *)

\* Fewer keys are still few.
LEMMA FewerKeys ==
  ASSUME NEW K, IsFiniteSet(K), FewNamed(K), NEW L \in SUBSET K
  PROVE  IsFiniteSet(L) /\ FewNamed(L)
<1>1. IsFiniteSet(L)
  BY FS_Subset
<1>2. ASSUME NEW s \in Server
      PROVE  Cardinality(Named(L, s)) <= MaxModels
  <2>1. Named(L, s) \subseteq Named(K, s) /\ Named(K, s) \subseteq K
    BY DEF Named, KeysOf
  <2>2. IsFiniteSet(Named(K, s))
    BY <2>1, FS_Subset
  <2>3. /\ Cardinality(Named(L, s)) <= Cardinality(Named(K, s))
        /\ Cardinality(Named(L, s)) \in Nat /\ Cardinality(Named(K, s)) \in Nat
    BY <2>1, <2>2, FS_Subset, FS_CardinalityType
  <2> QED
    BY <2>3, LiveStatsAssumption DEF FewNamed
<1> QED
  BY <1>1, <1>2 DEF FewNamed

\* A key is added only while its server has room, or as the overflow key.
LEMMA LookupFew ==
  ASSUME NEW K \in SUBSET Key, IsFiniteSet(K), FewNamed(K), NEW la, NEW k \in Key
  PROVE  IsFiniteSet(StateKeys(K, la, k)) /\ FewNamed(StateKeys(K, la, k))
<1> DEFINE J == K \ Idle(K, la)
           j == Resolve(J, k)
<1>1. IsFiniteSet(J) /\ FewNamed(J)
  BY FewerKeys
<1>2. CASE k \in K
  BY <1>2 DEF StateKeys
<1>3. CASE k \notin K
  <2>1. StateKeys(K, la, k) = J \cup {j}
    BY <1>3 DEF StateKeys, StateKey
  <2>2. IsFiniteSet(J \cup {j})
    BY <1>1, FS_AddElement
  <2>3. ASSUME NEW s \in Server
        PROVE  Cardinality(Named(J \cup {j}, s)) <= MaxModels
    <3>1. IsFiniteSet(Named(J, s)) /\ Cardinality(Named(J, s)) \in Nat
      BY <1>1, FS_Subset, FS_CardinalityType DEF Named, KeysOf
    <3>2. Cardinality(Named(J, s)) <= MaxModels
      BY <1>1 DEF FewNamed
    <3>3. CASE j \in J \/ j[1] # s \/ j = <<s, Overflow>>
      <4>1. Named(J \cup {j}, s) = Named(J, s)
        BY <3>3 DEF Named, KeysOf
      <4> QED
        BY <3>2, <4>1
    <3>4. CASE ~(j \in J \/ j[1] # s \/ j = <<s, Overflow>>)
      <4>1. j = k /\ k[1] = s /\ Cardinality(KeysOf(J, s)) < MaxModels
        BY <3>4, ResolveType DEF Resolve
      <4>2. /\ IsFiniteSet(KeysOf(J, s))
            /\ Named(J, s) \subseteq KeysOf(J, s)
        BY <1>1, FS_Subset DEF Named, KeysOf
      <4>3. /\ Cardinality(Named(J, s)) <= Cardinality(KeysOf(J, s))
            /\ Cardinality(KeysOf(J, s)) \in Nat
        BY <4>2, FS_Subset, FS_CardinalityType
      <4>4. Named(J \cup {j}, s) = Named(J, s) \cup {j} /\ j \notin Named(J, s)
        BY <3>4, <4>1 DEF Named, KeysOf
      <4>5. Cardinality(Named(J \cup {j}, s)) = Cardinality(Named(J, s)) + 1
        BY <3>1, <4>4, FS_AddElement
      <4> QED
        BY <3>1, <4>1, <4>3, <4>5, LiveStatsAssumption
    <3> QED
      BY <3>3, <3>4
  <2> QED
    BY <2>1, <2>2, <2>3 DEF FewNamed
<1> QED
  BY <1>2, <1>3

\* Every step looks keys up, drops idle ones, or leaves them alone.
LEMMA FewStep ==
  TypeOK /\ IsFiniteSet(keys) /\ FewNamed(keys) /\ [Next]_vars
    => IsFiniteSet(keys') /\ FewNamed(keys')
<1> SUFFICES ASSUME TypeOK, IsFiniteSet(keys), FewNamed(keys), [Next]_vars
             PROVE  IsFiniteSet(keys') /\ FewNamed(keys')
  OBVIOUS
<1>1. keys \in SUBSET Key
  BY DEF TypeOK
<1>2. ASSUME NEW k \in Key, Touch(k)
      PROVE  IsFiniteSet(keys') /\ FewNamed(keys')
  BY <1>1, <1>2, LookupFew DEF Touch
<1>3. ASSUME NEW r \in Req, Retarget(r)
      PROVE  IsFiniteSet(keys') /\ FewNamed(keys')
  <2> DEFINE keys1 == StateKeys(keys, lastActive, key[r])
             last1 == Touched(keys, lastActive, key[r])
  <2>1. key[r] \in Key /\ pending[r] \in Key
    BY DEF TypeOK
  <2>2. keys1 \in SUBSET Key /\ IsFiniteSet(keys1) /\ FewNamed(keys1)
    BY <1>1, <2>1, StateType, LookupFew
  <2>3. keys' = StateKeys(keys1, last1, pending[r])
    BY <1>3 DEF Retarget
  <2> HIDE DEF keys1, last1
  <2> QED
    BY <2>1, <2>2, <2>3, LookupFew
<1>4. CASE Snapshot
  BY <1>4, FewerKeys DEF Snapshot
<1>5. CASE \E r \in Req : \/ Dispatch(r) \/ FirstToken(r) \/ Finish(r) \/ FinishBytes(r)
                         \/ FinishOpen(r) \/ FinishOpenBytes(r)
  <2>1. PICK r \in Req : Touch(key[r]) \/ Touch(pending[r])
    BY <1>5 DEF Dispatch, FirstToken, Finish, FinishBytes, FinishOpen, FinishOpenBytes, FinishStore, GiveBack
  <2> QED
    BY <1>2, <2>1 DEF TypeOK
<1>6. CASE \E r \in Req, total \in 1..MaxBytes : SetInflightBytes(r, total)
  BY <1>2, <1>6 DEF SetInflightBytes, TypeOK
<1>7. CASE \/ \E r \in Req, k \in Key : DispatchResolve(r, k) \/ RetargetResolve(r, k)
           \/ Tick \/ UNCHANGED vars
  <2>1. keys' = keys
    BY <1>7 DEF DispatchResolve, RetargetResolve, Tick, vars
  <2> QED
    BY <2>1
<1> QED
  BY <1>3, <1>4, <1>5, <1>6, <1>7 DEF Next

\* However many model names clients invent, and whatever thread takes the
\* snapshots, the store keeps at most MaxModels keys and the overflow key for
\* a server.
THEOREM KeysCapped == Spec => []KeysBounded
<1> DEFINE KInv == TypeOK /\ IsFiniteSet(keys) /\ FewNamed(keys)
<1>1. Init => KInv
  <2> SUFFICES ASSUME Init PROVE KInv
    OBVIOUS
  <2>1. keys = {} /\ TypeOK
    BY TypeInit DEF Init
  <2>2. \A s \in Server : Named(keys, s) = {}
    BY <2>1 DEF Named, KeysOf
  <2> QED
    BY <2>1, <2>2, FS_EmptySet, LiveStatsAssumption DEF FewNamed
<1>2. KInv /\ [Next]_vars => KInv'
  BY TypeStep, FewStep
<1>3. KInv => KeysBounded
  <2> SUFFICES ASSUME KInv, NEW s \in Server
               PROVE  Cardinality(KeysOf(keys, s)) <= MaxModels + 1
    BY DEF KeysBounded
  <2> DEFINE o == <<s, Overflow>>
  <2>1. IsFiniteSet(Named(keys, s)) /\ Cardinality(Named(keys, s)) \in Nat
    BY FS_Subset, FS_CardinalityType DEF Named, KeysOf
  <2>2. o \notin Named(keys, s) /\ KeysOf(keys, s) \subseteq Named(keys, s) \cup {o}
    BY DEF Named
  <2>3. /\ IsFiniteSet(Named(keys, s) \cup {o})
        /\ Cardinality(Named(keys, s) \cup {o}) = Cardinality(Named(keys, s)) + 1
    BY <2>1, <2>2, FS_AddElement
  <2>4. /\ Cardinality(KeysOf(keys, s)) <= Cardinality(Named(keys, s) \cup {o})
        /\ Cardinality(KeysOf(keys, s)) \in Nat
    BY <2>2, <2>3, FS_Subset, FS_CardinalityType
  <2>5. Cardinality(Named(keys, s)) <= MaxModels
    BY DEF FewNamed
  <2> QED
    BY <2>1, <2>3, <2>4, <2>5, LiveStatsAssumption
<1> QED
  BY <1>1, <1>2, <1>3, PTL DEF Spec

-----------------------------------------------------------------------------
(* The minute rows.                                                        *)

\* Rows of minutes up to this one.
RowsOK(rows) == Summable(rows) /\ DOMAIN rows \subseteq (0..Minute) \X Pair

RowsInv ==
  /\ second \in 0..LastSecond
  /\ stage \in [Request -> {"new", "waiting", "finished"}]
  /\ DOMAIN countedAt = {r \in Request : stage[r] = "waiting"}
  /\ \A r \in DOMAIN countedAt : countedAt[r] \in Pair
  /\ RowsOK(memory)
  /\ RowsOK(db)
  /\ flushing = [f \in Flusher |-> flushing[f]]
  /\ \A f \in Flusher : RowsOK(flushing[f])
  /\ {gone, stray} \subseteq Nat
  /\ polled \in BOOLEAN
  /\ fresh \subseteq Dispatched

LEMMA MinuteType ==
  ASSUME RowsInv
  PROVE  second \in Nat /\ Minute \in Nat /\ \A k \in Pair : Now(k) \in (0..Minute) \X Pair
BY RollupsAssumption DEF RowsInv, Minute, Now

\* A row is a row of this minute and of every later one.
LEMMA RowsStay ==
  ASSUME NEW rows, RowsOK(rows), Minute \in Nat, Minute' \in Nat, Minute <= Minute'
  PROVE  RowsOK(rows)'
BY DEF RowsOK, Summable

LEMMA NoRowsOK == RowsOK(NoRows) /\ Sum(NoRows) = 0
<1>1. DOMAIN NoRows = {}
  BY DEF NoRows
<1>2. RowsOK(NoRows)
  BY <1>1, FS_EmptySet DEF RowsOK, Summable
<1> QED
  BY <1>1, <1>2, SumNone

\* Adding to the row of this minute, taking one from it.
LEMMA RecordOK ==
  ASSUME RowsInv, NEW rows, RowsOK(rows), NEW k \in Pair, NEW add \in Nat
  PROVE  /\ RowsOK(Record(rows, Now(k), add))
         /\ \A x : At(Record(rows, Now(k), add), x) = At(rows, x) + (IF x = Now(k) THEN add ELSE 0)
         /\ Sum(Record(rows, Now(k), add)) = Sum(rows) + add
<1> DEFINE new == Record(rows, Now(k), add)
<1>1. At(rows, Now(k)) \in Nat /\ \A x : At(rows, x) \in Nat
  BY DEF RowsOK, Summable, At
<1>2. IsFiniteSet(DOMAIN new)
  BY FS_AddElement DEF Record, RowsOK, Summable
<1>3. RowsOK(new)
  BY <1>1, <1>2, MinuteType DEF Record, RowsOK, Summable
<1>4. \A x : At(new, x) = At(rows, x) + (IF x = Now(k) THEN add ELSE 0)
  BY <1>1 DEF Record, At
<1>5. \A x : x # Now(k) => At(new, x) = At(rows, x)
  BY <1>1, <1>4
<1>6. At(new, Now(k)) = At(rows, Now(k)) + add
  BY <1>4
<1> HIDE DEF new
<1>7. Sum(new) + At(rows, Now(k)) = Sum(rows) + At(new, Now(k)) /\ Sum(new) \in Nat /\ Sum(rows) \in Nat
  BY <1>3, <1>5, SumChange DEF RowsOK
<1>8. Sum(new) = Sum(rows) + add
  BY <1>1, <1>6, <1>7
<1> QED
  BY <1>3, <1>4, <1>8 DEF new

LEMMA TakeOneOK ==
  ASSUME RowsInv, NEW rows, RowsOK(rows), NEW k \in Pair
  PROVE  LET taken == IF At(rows, Now(k)) > 0 THEN 1 ELSE 0
         IN  /\ RowsOK(TakeOne(rows, Now(k)))
             /\ \A x : At(TakeOne(rows, Now(k)), x) = At(rows, x) - (IF x = Now(k) THEN taken ELSE 0)
             /\ Sum(TakeOne(rows, Now(k))) + taken = Sum(rows)
<1> DEFINE new == TakeOne(rows, Now(k))
<1> DEFINE taken == IF At(rows, Now(k)) > 0 THEN 1 ELSE 0
<1>1. At(rows, Now(k)) \in Nat /\ \A x : At(rows, x) \in Nat
  BY DEF RowsOK, Summable, At
<1>2. IsFiniteSet(DOMAIN new)
  BY FS_AddElement DEF TakeOne, RowsOK, Summable
<1>3. RowsOK(new)
  BY <1>1, <1>2, MinuteType DEF TakeOne, RowsOK, Summable, Floor
<1>4. \A x : At(new, x) = At(rows, x) - (IF x = Now(k) THEN taken ELSE 0)
  BY <1>1 DEF TakeOne, At, Floor
<1>5. \A x : x # Now(k) => At(new, x) = At(rows, x)
  BY <1>1, <1>4
<1>6. At(new, Now(k)) = At(rows, Now(k)) - taken
  BY <1>4
<1> HIDE DEF new
<1>7. Sum(new) + At(rows, Now(k)) = Sum(rows) + At(new, Now(k)) /\ Sum(new) \in Nat /\ Sum(rows) \in Nat
  BY <1>3, <1>5, SumChange DEF RowsOK
<1>8. Sum(new) + taken = Sum(rows)
  BY <1>1, <1>6, <1>7
<1> QED
  BY <1>3, <1>4, <1>8 DEF new

\* A fallback moves one count, or makes one if there is none to move.
LEMMA MoveOK ==
  ASSUME RowsInv, NEW rows, RowsOK(rows), NEW old \in Pair, NEW new \in Pair, old # new
  PROVE  LET taken == IF At(rows, Now(old)) > 0 THEN 1 ELSE 0
         IN  /\ RowsOK(Move(rows, Now(old), Now(new)))
             /\ At(Move(rows, Now(old), Now(new)), Now(old)) = At(rows, Now(old)) - taken
             /\ At(Move(rows, Now(old), Now(new)), Now(new)) = At(rows, Now(new)) + 1
             /\ \A x : x \notin {Now(old), Now(new)} =>
                        At(Move(rows, Now(old), Now(new)), x) = At(rows, x)
             /\ Sum(Move(rows, Now(old), Now(new))) + taken = Sum(rows) + 1
<1> DEFINE mid == TakeOne(rows, Now(old))
<1> DEFINE taken == IF At(rows, Now(old)) > 0 THEN 1 ELSE 0
<1>1. /\ RowsOK(mid)
      /\ \A x : At(mid, x) = At(rows, x) - (IF x = Now(old) THEN taken ELSE 0)
      /\ Sum(mid) + taken = Sum(rows)
  BY TakeOneOK
<1>2. /\ RowsOK(Record(mid, Now(new), 1))
      /\ \A x : At(Record(mid, Now(new), 1), x) = At(mid, x) + (IF x = Now(new) THEN 1 ELSE 0)
      /\ Sum(Record(mid, Now(new), 1)) = Sum(mid) + 1
  <2> HIDE DEF mid
  <2> QED
    BY <1>1, RecordOK
<1>3. \A x : At(rows, x) \in Nat /\ At(mid, x) \in Nat
  BY <1>1 DEF RowsOK, Summable, At
<1>4. Now(old) # Now(new)
  BY DEF Now
<1>5. Sum(mid) \in Nat /\ Sum(rows) \in Nat
  BY <1>1, SumType DEF RowsOK
<1> HIDE DEF mid
<1>6. Move(rows, Now(old), Now(new)) = Record(mid, Now(new), 1)
  BY DEF Move, mid
<1> QED
  BY <1>1, <1>2, <1>3, <1>4, <1>5, <1>6

\* What a flusher has in hand is part of what is underway.
LEMMA UnderwayType ==
  ASSUME RowsInv
  PROVE  Summable([f \in Flusher |-> Sum(flushing[f])]) /\ Underway \in Nat
BY RollupsAssumption, SumType DEF RowsInv, RowsOK, Summable, Underway

LEMMA UnderwayChange ==
  ASSUME RowsInv, NEW f \in Flusher, NEW rows, Summable(rows),
         flushing' = [flushing EXCEPT ![f] = rows]
  PROVE  /\ Underway' + Sum(flushing[f]) = Underway + Sum(rows)
         /\ Underway' \in Nat
<1> DEFINE old == [g \in Flusher |-> Sum(flushing[g])]
<1> DEFINE new == [g \in Flusher |-> Sum(flushing'[g])]
<1>1. Sum(flushing[f]) \in Nat /\ Sum(rows) \in Nat
  BY SumType DEF RowsInv, RowsOK
<1>2. flushing'[f] = rows /\ \A g \in Flusher : g # f => flushing'[g] = flushing[g]
  BY DEF RowsInv
<1>3. Summable(old) /\ Summable(new)
  BY <1>1, <1>2, UnderwayType, RollupsAssumption DEF Summable
<1>4. \A g : g # f => At(old, g) = At(new, g)
  BY <1>2 DEF At
<1>5. At(old, f) = Sum(flushing[f]) /\ At(new, f) = Sum(rows)
  BY <1>2 DEF At
<1>6. Sum(new) + At(old, f) = Sum(old) + At(new, f) /\ Sum(new) \in Nat
  <2> HIDE DEF old, new
  <2> QED
    BY <1>3, <1>4, SumChange
<1>7. Underway = Sum(old) /\ Underway' = Sum(new)
  BY DEF Underway
<1> QED
  BY <1>5, <1>6, <1>7

LEMMA RowsInitially == RollupsInit => RowsInv
<1> SUFFICES ASSUME RollupsInit PROVE RowsInv
  OBVIOUS
<1>1. second \in 0..LastSecond
  BY RollupsAssumption DEF RollupsInit
<1>2. \A f \in Flusher : RowsOK(flushing[f])
  BY NoRowsOK DEF RollupsInit
<1>3. RowsOK(memory) /\ RowsOK(db)
  BY NoRowsOK DEF RollupsInit
<1>4. countedAt = [r \in {} |-> 0] /\ DOMAIN countedAt = {}
  BY DEF RollupsInit
<1>5. /\ stage \in [Request -> {"new", "waiting", "finished"}]
      /\ {r \in Request : stage[r] = "waiting"} = {}
  BY DEF RollupsInit
<1>6. flushing = [f \in Flusher |-> flushing[f]]
  BY DEF RollupsInit
<1>7. gone \in Nat /\ stray \in Nat /\ polled \in BOOLEAN /\ fresh \subseteq Dispatched
  BY DEF RollupsInit
<1> QED
  BY <1>1, <1>2, <1>3, <1>4, <1>5, <1>6, <1>7 DEF RowsInv

\* Steps that leave rows alone keep them as they are.
LEMMA RowsSame ==
  ASSUME RowsInv, second' = second, NEW rows, RowsOK(rows)
  PROVE  RowsOK(rows)'
BY DEF RowsOK, Summable, Minute

LEMMA DispatchRows ==
  ASSUME RowsInv, NEW r \in Request, NEW k \in Pair, CountDispatch(r, k)
  PROVE  RowsInv' /\ Counted' = Counted + 1
<1>1. RowsOK(memory') /\ Sum(memory') = Sum(memory) + 1
  BY RecordOK DEF RowsInv, CountDispatch
<1>2. Sum(memory) \in Nat /\ Sum(db) \in Nat /\ gone \in Nat
  BY SumType DEF RowsInv, RowsOK
<1>3. RowsInv'
  BY <1>1 DEF RowsInv, CountDispatch, boundVars, Dispatched, RowsOK, Minute, Summable
<1>4. Underway' = Underway /\ Underway \in Nat /\ db' = db /\ gone' = gone
  BY UnderwayType DEF CountDispatch, Underway
<1> QED
  BY <1>1, <1>2, <1>3, <1>4 DEF Counted

LEMMA MoveRows ==
  ASSUME RowsInv, NEW r \in Request, NEW k \in Pair, CountMove(r, k)
  PROVE  LET taken == IF At(memory, Now(countedAt[r])) > 0 THEN 1 ELSE 0
         IN  RowsInv' /\ Counted' = Counted + 1 - taken /\ Counted' \in Nat
<1> DEFINE taken == IF At(memory, Now(countedAt[r])) > 0 THEN 1 ELSE 0
<1>0. countedAt[r] \in Pair /\ r \in DOMAIN countedAt /\ k # countedAt[r]
  BY DEF RowsInv, CountMove
<1>1. RowsOK(memory') /\ Sum(memory') + taken = Sum(memory) + 1
  BY <1>0, MoveOK DEF RowsInv, CountMove
<1>2. /\ Sum(memory) \in Nat /\ Sum(db) \in Nat /\ gone \in Nat /\ stray \in Nat
      /\ Sum(memory') \in Nat
  BY <1>1, SumType DEF RowsInv, RowsOK
<1>3. stray' \in Nat /\ fresh' \subseteq Dispatched'
  BY <1>2 DEF CountMove, Dispatched, RowsInv
<1>4. RowsInv'
  <2>1. RowsOK(memory)' /\ RowsOK(db)' /\ \A f \in Flusher : RowsOK(flushing[f])'
    BY <1>1 DEF RowsInv, CountMove, RowsOK, Minute, Summable
  <2> QED
    BY <1>0, <1>3, <2>1 DEF RowsInv, CountMove
<1>5. Underway' = Underway /\ Underway \in Nat /\ db' = db /\ gone' = gone
  BY UnderwayType DEF CountMove, Underway
<1> QED
  BY <1>1, <1>2, <1>4, <1>5 DEF Counted

LEMMA EndRows ==
  ASSUME RowsInv, NEW r \in Request, CountEnd(r)
  PROVE  RowsInv' /\ Counted' = Counted
<1>0. countedAt[r] \in Pair /\ r \in DOMAIN countedAt
  BY DEF RowsInv, CountEnd
<1>1. RowsOK(memory') /\ Sum(memory') = Sum(memory) + 0
  BY <1>0, RecordOK DEF RowsInv, CountEnd
<1>2. Sum(memory) \in Nat
  BY SumType DEF RowsInv, RowsOK
<1>3. DOMAIN countedAt' = DOMAIN countedAt \ {r} /\ \A q \in DOMAIN countedAt' : countedAt'[q] = countedAt[q]
  BY DEF CountEnd, Restrict
<1>4. RowsInv'
  <2>1. RowsOK(memory)' /\ RowsOK(db)' /\ \A f \in Flusher : RowsOK(flushing[f])'
    BY <1>1 DEF RowsInv, CountEnd, RowsOK, Minute, Summable
  <2>2. stage' = [stage EXCEPT ![r] = "finished"] /\ stage[r] = "waiting"
    BY DEF CountEnd
  <2> QED
    BY <1>0, <1>3, <2>1, <2>2 DEF RowsInv, CountEnd, historyVars, Dispatched
<1>5. Underway' = Underway /\ db' = db /\ gone' = gone
  BY DEF CountEnd, Underway, historyVars
<1> QED
  BY <1>1, <1>2, <1>4, <1>5 DEF Counted

LEMMA PollRows ==
  ASSUME RowsInv, RecordPollMetrics
  PROVE  RowsInv' /\ Counted' = Counted /\ \A x : At(memory', x) = At(memory, x)
<1>1. IsFiniteSet(Scraped)
  <2> DEFINE row == [k \in Pair |-> Now(k)]
  <2>1. row \in Surjection(Pair, Scraped)
    BY DEF Surjection, Scraped
  <2> QED
    BY <2>1, FS_Surjection, RollupsAssumption
<1>2. DOMAIN memory' = DOMAIN memory \cup Scraped /\ \A x \in DOMAIN memory' : memory'[x] = At(memory, x)
  BY DEF RecordPollMetrics
<1>3. \A x : At(memory, x) \in Nat
  BY DEF At, RowsInv, RowsOK, Summable
<1>4. Scraped \subseteq (0..Minute) \X Pair
  BY MinuteType DEF Scraped
<1>5. RowsOK(memory')
  <2>1. IsFiniteSet(DOMAIN memory')
    <3>1. IsFiniteSet(DOMAIN memory)
      BY DEF RowsInv, RowsOK, Summable
    <3> QED
      BY <1>1, <1>2, <3>1, FS_Union
  <2> QED
    BY <1>2, <1>3, <1>4, <2>1 DEF RowsInv, RowsOK, Summable
<1>6. \A x : At(memory', x) = At(memory, x)
  BY <1>2 DEF At
<1>7. Sum(memory') = Sum(memory)
  BY <1>5, <1>6, SumSame DEF RowsInv, RowsOK
<1>8. RowsInv'
  <2>1. RowsOK(memory)' /\ RowsOK(db)' /\ \A f \in Flusher : RowsOK(flushing[f])'
    BY <1>5 DEF RowsInv, RecordPollMetrics, RowsOK, Minute, Summable
  <2> QED
    BY <2>1 DEF RowsInv, RecordPollMetrics, historyVars, Dispatched
<1>9. Underway' = Underway /\ db' = db /\ gone' = gone
  BY DEF RecordPollMetrics, Underway, historyVars
<1> QED
  BY <1>6, <1>7, <1>8, <1>9 DEF Counted

LEMMA DrainRows ==
  ASSUME RowsInv, NEW f \in Flusher, Drain(f)
  PROVE  RowsInv' /\ Counted' = Counted
<1>1. RowsOK(memory) /\ flushing' = [flushing EXCEPT ![f] = memory] /\ flushing[f] = NoRows /\ memory' = NoRows
  BY DEF RowsInv, Drain, Drained
<1>2. Sum(NoRows) = 0 /\ RowsOK(NoRows) /\ Sum(memory) \in Nat
  BY <1>1, NoRowsOK, SumType DEF RowsOK
<1>3. Underway' + Sum(flushing[f]) = Underway + Sum(memory) /\ Underway \in Nat /\ Underway' \in Nat
  BY <1>1, UnderwayChange, UnderwayType DEF RowsOK
<1>4. RowsInv'
  <2>1. RowsOK(memory)' /\ RowsOK(db)' /\ \A g \in Flusher : RowsOK(flushing[g])'
    BY <1>1, <1>2 DEF RowsInv, Drain, RowsOK, Minute, Summable
  <2> QED
    BY <1>1, <2>1 DEF RowsInv, Drain, Dispatched
<1>5. Sum(db) \in Nat /\ gone \in Nat /\ db' = db /\ gone' = gone
  BY SumType DEF RowsInv, RowsOK, Drain
<1> QED
  BY <1>1, <1>2, <1>3, <1>4, <1>5 DEF Counted

LEMMA CommitRows ==
  ASSUME RowsInv, NEW f \in Flusher, Commit(f)
  PROVE  RowsInv' /\ Counted' = Counted
<1> DEFINE rows == flushing[f]
<1>1. RowsOK(rows) /\ RowsOK(db) /\ flushing' = [flushing EXCEPT ![f] = NoRows] /\ db' = Upsert(rows)
  BY DEF RowsInv, Commit
<1>2. Sum(NoRows) = 0 /\ RowsOK(NoRows) /\ Sum(rows) \in Nat /\ Sum(db) \in Nat
  BY <1>1, NoRowsOK, SumType DEF RowsOK
<1>3. \A x : At(db, x) \in Nat /\ At(rows, x) \in Nat
  BY <1>1 DEF RowsOK, Summable, At
<1> HIDE DEF rows
<1>4. RowsOK(db') /\ \A x : At(db', x) = At(db, x) + At(rows, x)
  <2>1. DOMAIN db' = DOMAIN db \cup DOMAIN rows /\ \A x \in DOMAIN db' : db'[x] = At(db, x) + At(rows, x)
    BY <1>1 DEF Upsert
  <2>2. IsFiniteSet(DOMAIN db')
    BY <1>1, <2>1, FS_Union DEF RowsOK, Summable
  <2> QED
    BY <1>1, <1>3, <2>1, <2>2 DEF RowsOK, Summable, At
<1>5. Sum(db') = Sum(db) + Sum(rows)
  BY <1>1, <1>4, SumAdd DEF RowsOK
<1>6. Underway' + Sum(rows) = Underway + 0 /\ Underway \in Nat /\ Underway' \in Nat
  BY <1>1, <1>2, UnderwayChange, UnderwayType DEF RowsOK, rows
<1>7. RowsInv'
  <2>0. second' = second /\ memory' = memory
    BY DEF Commit, storeVars
  <2>1. RowsOK(memory)' /\ RowsOK(db)' /\ \A g \in Flusher : RowsOK(flushing[g])'
    <3>1. RowsOK(memory)' /\ RowsOK(db)'
      BY <1>4, <2>0 DEF RowsInv, RowsOK, Minute, Summable
    <3>2. ASSUME NEW g \in Flusher PROVE RowsOK(flushing'[g])
      BY <1>1, <1>2 DEF RowsInv
    <3> QED
      BY <2>0, <3>1, <3>2 DEF RowsOK, Minute, Summable
  <2> QED
    BY <1>1, <2>1 DEF RowsInv, Commit, Dispatched, historyVars, storeVars
<1>8. Sum(memory) \in Nat /\ gone \in Nat /\ memory' = memory /\ gone' = gone
  BY SumType DEF RowsInv, RowsOK, Commit, storeVars, historyVars
<1> QED
  BY <1>2, <1>5, <1>6, <1>7, <1>8 DEF Counted

LEMMA FailRows ==
  ASSUME RowsInv, NEW f \in Flusher, FlushFails(f)
  PROVE  RowsInv' /\ Counted' = Counted
<1>1. RowsOK(flushing[f]) /\ flushing' = [flushing EXCEPT ![f] = NoRows] /\ gone' = gone + Sum(flushing[f])
  BY DEF RowsInv, FlushFails
<1>2. Sum(NoRows) = 0 /\ RowsOK(NoRows) /\ Sum(flushing[f]) \in Nat
  BY <1>1, NoRowsOK, SumType DEF RowsOK
<1>3. Underway' + Sum(flushing[f]) = Underway + 0 /\ Underway \in Nat /\ Underway' \in Nat
  BY <1>1, <1>2, UnderwayChange, UnderwayType DEF RowsOK
<1>4. Sum(memory) \in Nat /\ Sum(db) \in Nat /\ gone \in Nat /\ memory' = memory /\ db' = db
  BY SumType DEF RowsInv, RowsOK, FlushFails, storeVars
<1>5. gone' \in Nat
  BY <1>1, <1>2, <1>4
<1>6. RowsInv'
  <2>1. RowsOK(memory)' /\ RowsOK(db)' /\ \A g \in Flusher : RowsOK(flushing[g])'
    BY <1>1, <1>2 DEF RowsInv, FlushFails, RowsOK, Minute, Summable, storeVars
  <2> QED
    BY <1>1, <1>5, <2>1 DEF RowsInv, FlushFails, Dispatched
<1> QED
  BY <1>1, <1>2, <1>3, <1>4, <1>6 DEF Counted

LEMMA PruneRows ==
  ASSUME RowsInv, Prune
  PROVE  RowsInv' /\ Counted' = Counted
<1> DEFINE old == {x \in DOMAIN db : x[1] < Minute - Retain}
<1>1. db' = Restrict(db, DOMAIN db \ old) /\ gone' = gone + Sum(Restrict(db, old))
  BY DEF Prune
<1>2. old \in SUBSET DOMAIN db
  OBVIOUS
<1> HIDE DEF old
<1>3. /\ Summable(Restrict(db, old)) /\ Summable(db')
      /\ Sum(db) = Sum(Restrict(db, old)) + Sum(db')
  BY <1>1, <1>2, SumSplit DEF RowsInv, RowsOK
<1>4. Sum(Restrict(db, old)) \in Nat /\ Sum(db') \in Nat /\ gone \in Nat /\ Sum(memory) \in Nat
  BY <1>3, SumType DEF RowsInv, RowsOK
<1>5. gone' \in Nat
  BY <1>1, <1>4
<1>6. RowsOK(db')
  BY <1>1, <1>3 DEF RowsInv, RowsOK, Restrict
<1>7. RowsInv'
  <2>1. RowsOK(memory)' /\ RowsOK(db)' /\ \A g \in Flusher : RowsOK(flushing[g])'
    BY <1>6 DEF RowsInv, Prune, RowsOK, Minute, Summable, storeVars
  <2> QED
    BY <1>5, <2>1 DEF RowsInv, Prune, Dispatched
<1>8. Underway' = Underway /\ Underway \in Nat /\ memory' = memory
  BY UnderwayType DEF Prune, Underway, storeVars
<1> QED
  BY <1>1, <1>3, <1>4, <1>7, <1>8 DEF Counted

LEMMA CrashRows ==
  ASSUME RowsInv, Crash
  PROVE  RowsInv' /\ Counted' = Counted
<1>1. /\ memory' = NoRows /\ flushing' = [f \in Flusher |-> NoRows] /\ db' = db /\ second' = second
      /\ gone' = gone + Sum(memory) + Underway
      /\ stage' = [r \in Request |-> IF stage[r] = "waiting" THEN "finished" ELSE stage[r]]
      /\ countedAt' = [r \in {} |-> 0] /\ fresh' = {} /\ stray' = stray /\ polled' = FALSE
  BY DEF Crash
<1>2. Sum(NoRows) = 0 /\ RowsOK(NoRows)
  BY NoRowsOK
<1>3. Sum(memory) \in Nat /\ Underway \in Nat /\ gone \in Nat /\ Sum(db) \in Nat
  BY SumType, UnderwayType DEF RowsInv, RowsOK
<1>4. Underway' = 0
  BY <1>1, <1>2, SumNone DEF Underway
<1>5. gone' \in Nat
  BY <1>1, <1>3
<1>6. RowsInv'
  <2>1. RowsOK(memory)' /\ RowsOK(db)' /\ \A g \in Flusher : RowsOK(flushing[g])'
    BY <1>1, <1>2 DEF RowsInv, RowsOK, Minute, Summable
  <2>2. DOMAIN countedAt' = {} /\ {r \in Request : stage'[r] = "waiting"} = {}
    BY <1>1 DEF RowsInv
  <2> QED
    BY <1>1, <1>5, <2>1, <2>2 DEF RowsInv, Dispatched
<1> QED
  BY <1>1, <1>2, <1>3, <1>4, <1>6 DEF Counted

LEMMA SecondRows ==
  ASSUME RowsInv, NextSecond
  PROVE  RowsInv' /\ Counted' = Counted /\ Minute <= Minute'
<1>1. second' = second + 1 /\ second \in Nat /\ second' \in 0..LastSecond
  BY RollupsAssumption DEF RowsInv, NextSecond
<1>2. Minute \in Nat /\ Minute' \in Nat /\ Minute <= Minute'
  BY <1>1, RollupsAssumption DEF Minute
<1>3. RowsInv'
  <2>1. RowsOK(memory)' /\ RowsOK(db)' /\ \A g \in Flusher : RowsOK(flushing[g])'
    BY <1>1, <1>2 DEF RowsInv, NextSecond, RowsOK, Summable, storeVars
  <2> QED
    BY <1>1, <2>1 DEF RowsInv, NextSecond, Dispatched
<1>4. Counted' = Counted
  BY DEF NextSecond, Counted, Underway, storeVars
<1> QED
  BY <1>2, <1>3, <1>4

-----------------------------------------------------------------------------
(* Who is covered by a count.  A key's count may be smaller than the        *)
(* number of recent requests under it: a fallback of a request that is not  *)
(* recent takes somebody else's.  Each such fallback displaces at most one  *)
(* request, and a displaced one makes at most one count too many when it    *)
(* moves itself.                                                           *)

\* Those of E that are waiting under key k.
Held(w, E, k) == {q \in E : q \in DOMAIN w /\ w[q] = k}

\* All recent requests but some, D, are covered by the counts c of their keys,
\* and n counts in all are too many by less than s allows without them.
Covers(F, w, c, n, s, D) ==
  /\ D \subseteq F
  /\ \A k \in Pair : Cardinality(Held(w, F \ D, k)) <= c[k]
  /\ n + Cardinality(D) <= s
Covered(F, w, c, n, s) == \E D : Covers(F, w, c, n, s, D)

LEMMA HeldFinite ==
  ASSUME NEW w, NEW E, IsFiniteSet(E), NEW k
  PROVE  /\ IsFiniteSet(Held(w, E, k)) /\ Cardinality(Held(w, E, k)) \in Nat
         /\ Held(w, E, k) \in SUBSET E
BY FS_Subset, FS_CardinalityType DEF Held

\* Where nothing is recent.
LEMMA CoveredNone ==
  ASSUME NEW w, NEW c \in [Pair -> Nat], NEW n \in Int, NEW s \in Int, n <= s
  PROVE  Covered({}, w, c, n, s)
<1>1. Cardinality({}) = 0
  BY FS_EmptySet
<1>2. \A k \in Pair : Held(w, {} \ {}, k) = {}
  BY DEF Held
<1>3. \A k \in Pair : Cardinality(Held(w, {} \ {}, k)) <= c[k]
  BY <1>1, <1>2
<1>4. Covers({}, w, c, n, s, {})
  BY <1>1, <1>3 DEF Covers
<1> QED
  BY <1>4 DEF Covered

\* When requests end.
LEMMA CoveredLess ==
  ASSUME NEW F, IsFiniteSet(F), NEW w, NEW w2, NEW c \in [Pair -> Nat],
         NEW n \in Int, NEW s \in Int, Covered(F, w, c, n, s),
         DOMAIN w2 \subseteq DOMAIN w, \A q \in DOMAIN w2 : w2[q] = w[q]
  PROVE  Covered(F, w2, c, n, s)
<1>1. PICK D : Covers(F, w, c, n, s, D)
  BY DEF Covered
<1>2. ASSUME NEW k \in Pair PROVE Cardinality(Held(w2, F \ D, k)) <= c[k]
  <2>1. IsFiniteSet(F \ D)
    BY FS_Difference
  <2>2. Held(w2, F \ D, k) \subseteq Held(w, F \ D, k)
    BY DEF Held
  <2>3. /\ IsFiniteSet(Held(w, F \ D, k)) /\ Cardinality(Held(w, F \ D, k)) \in Nat
        /\ Cardinality(Held(w2, F \ D, k)) \in Nat
    BY <2>1, HeldFinite
  <2>4. Cardinality(Held(w2, F \ D, k)) <= Cardinality(Held(w, F \ D, k))
    BY <2>2, <2>3, FS_Subset
  <2>5. Cardinality(Held(w, F \ D, k)) <= c[k] /\ c[k] \in Nat
    BY <1>1 DEF Covers
  <2> QED
    BY <2>3, <2>4, <2>5
<1>3. Covers(F, w2, c, n, s, D)
  BY <1>1, <1>2 DEF Covers
<1> QED
  BY <1>3 DEF Covered

\* When a request is dispatched.
LEMMA CoveredNew ==
  ASSUME NEW F, IsFiniteSet(F), NEW w, NEW w2, NEW c \in [Pair -> Nat], NEW c2,
         NEW n \in Int, NEW s \in Int, Covered(F, w, c, n, s),
         NEW r, r \notin F, r \notin DOMAIN w, NEW k \in Pair,
         DOMAIN w2 = DOMAIN w \cup {r}, w2[r] = k, \A q \in DOMAIN w : w2[q] = w[q],
         c2[k] = c[k] + 1, \A j \in Pair \ {k} : c2[j] = c[j]
  PROVE  Covered(F \cup {r}, w2, c2, n + 1, s + 1)
<1>1. PICK D : Covers(F, w, c, n, s, D)
  BY DEF Covered
<1>2. D \subseteq F /\ r \notin D
  BY <1>1 DEF Covers
<1>3. ASSUME NEW j \in Pair PROVE Cardinality(Held(w2, (F \cup {r}) \ D, j)) <= c2[j]
  <2>1. IsFiniteSet(F \ D)
    BY FS_Difference
  <2> DEFINE T == Held(w, F \ D, j)
  <2>2. IsFiniteSet(T) /\ Cardinality(T) \in Nat /\ r \notin T
    <3>1. IsFiniteSet(T) /\ Cardinality(T) \in Nat
      BY <2>1, HeldFinite
    <3>2. r \notin T
      BY DEF Held
    <3> QED
      BY <3>1, <3>2
  <2>3. Cardinality(T) <= c[j] /\ c[j] \in Nat
    BY <1>1 DEF Covers
  <2>4. Held(w2, (F \cup {r}) \ D, j) = T \cup (IF j = k THEN {r} ELSE {})
    BY <1>2 DEF Held
  <2> HIDE DEF T
  <2>5. CASE j = k
    <3>1. Cardinality(T \cup {r}) = Cardinality(T) + 1
      BY <2>2, FS_AddElement
    <3>2. Held(w2, (F \cup {r}) \ D, j) = T \cup {r}
      BY <2>4, <2>5
    <3>3. c2[j] = c[j] + 1
      BY <2>5
    <3>4. Cardinality(Held(w2, (F \cup {r}) \ D, j)) = Cardinality(T) + 1
      BY <3>1, <3>2
    <3> QED
      BY <2>2, <2>3, <3>3, <3>4
  <2>6. CASE j # k
    <3>1. Held(w2, (F \cup {r}) \ D, j) = T
      BY <2>4, <2>6
    <3> QED
      BY <2>3, <2>6, <3>1
  <2> QED
    BY <2>5, <2>6
<1>4. (n + 1) + Cardinality(D) <= s + 1
  <2>1. Cardinality(D) \in Nat /\ n + Cardinality(D) <= s
    BY <1>1, <1>2, FS_Subset, FS_CardinalityType DEF Covers
  <2> QED
    BY <2>1
<1>5. Covers(F \cup {r}, w2, c2, n + 1, s + 1, D)
  BY <1>2, <1>3, <1>4 DEF Covers
<1> QED
  BY <1>5 DEF Covered

\* When a request falls back.  Whom it displaces: itself, if its count was there;
\* somebody of whom there is one; or nobody.
LEMMA CoveredMove ==
  ASSUME NEW F, IsFiniteSet(F), NEW F2, NEW w, NEW w2, NEW c \in [Pair -> Nat], NEW c2 \in [Pair -> Nat],
         NEW n \in Int, NEW s \in Int, NEW n2 \in Int, NEW s2 \in Int, Covered(F, w, c, n, s),
         NEW r \in DOMAIN w, NEW old \in Pair, w[r] = old, NEW k \in Pair, k # old,
         F2 = F \/ F2 = F \cup {r},
         DOMAIN w2 = DOMAIN w, w2[r] = k, \A q \in DOMAIN w : q # r => w2[q] = w[q],
         NEW taken, taken = IF c[old] > 0 THEN 1 ELSE 0,
         c2[old] = c[old] - taken, c2[k] = c[k] + 1, \A j \in Pair \ {old, k} : c2[j] = c[j],
         n2 = n + 1 - taken, s2 = IF r \in F THEN s ELSE s + 1
  PROVE  Covered(F2, w2, c2, n2, s2)
<1>1. PICK D : Covers(F, w, c, n, s, D)
  BY DEF Covered
<1>2. /\ D \subseteq F /\ IsFiniteSet(D) /\ Cardinality(D) \in Nat
      /\ n + Cardinality(D) <= s
      /\ \A j \in Pair : Cardinality(Held(w, F \ D, j)) <= c[j] /\ c[j] \in Nat
  BY <1>1, FS_Subset, FS_CardinalityType DEF Covers
<1>3. taken \in {0, 1} /\ taken <= c[old] /\ (c[old] > 0 => taken = 1)
  BY <1>2
<1>4. ASSUME NEW E, E \subseteq F, NEW j
      PROVE  IsFiniteSet(Held(w, E, j)) /\ Cardinality(Held(w, E, j)) \in Nat
  BY <1>4, FS_Subset, HeldFinite
\* The rest, when the old key has a count less, for those W that are displaced now.
<1>5. ASSUME NEW W, W \subseteq F, r \notin W,
             \A j \in Pair \ {old} : Held(w, F \ W, j) \subseteq Held(w, F \ D, j),
             Cardinality(Held(w, F \ W, old) \ {r}) <= c[old] - taken,
             n2 + Cardinality(W) <= s2
      PROVE  Covered(F2, w2, c2, n2, s2)
  <2>1. ASSUME NEW j \in Pair PROVE Cardinality(Held(w2, F2 \ W, j)) <= c2[j]
    <3> DEFINE T == Held(w, F \ W, j) \ {r}
    <3>1. IsFiniteSet(T) /\ Cardinality(T) \in Nat /\ r \notin T
      <4>1. IsFiniteSet(Held(w, F \ W, j))
        BY <1>4
      <4> QED
        BY <4>1, FS_RemoveElement, FS_CardinalityType
    <3>2. Held(w2, F2 \ W, j) = T \/ (j = k /\ Held(w2, F2 \ W, j) = T \cup {r})
      <4>1. CASE j = k /\ r \in F2
        <5>1. Held(w2, F2 \ W, j) = T \cup {r}
          BY <1>5, <4>1 DEF Held
        <5> QED
          BY <4>1, <5>1
      <4>2. CASE j # k \/ r \notin F2
        <5>1. Held(w2, F2 \ W, j) = T
          BY <1>5, <4>2 DEF Held
        <5> QED
          BY <5>1
      <4> QED
        BY <4>1, <4>2
    <3>3. CASE j = old
      <4>1. Held(w2, F2 \ W, j) = Held(w, F \ W, old) \ {r}
        BY <3>2, <3>3
      <4> QED
        BY <1>5, <3>3, <4>1
    <3>4. CASE j # old
      <4>1. T \subseteq Held(w, F \ D, j)
        BY <1>5, <3>4
      <4>2. IsFiniteSet(Held(w, F \ D, j)) /\ Cardinality(Held(w, F \ D, j)) \in Nat
        BY <1>4
      <4> HIDE DEF T
      <4>3. Cardinality(T) <= Cardinality(Held(w, F \ D, j))
        BY <4>1, <4>2, FS_Subset
      <4>4. Cardinality(T) <= c[j] /\ c[j] \in Nat
        BY <1>2, <3>1, <4>2, <4>3
      <4>5. Cardinality(T \cup {r}) = Cardinality(T) + 1
        BY <3>1, FS_AddElement
      <4>6. CASE j = k
        <5>1. c2[j] = c[j] + 1
          BY <4>6
        <5>2. \/ Cardinality(Held(w2, F2 \ W, j)) = Cardinality(T)
              \/ Cardinality(Held(w2, F2 \ W, j)) = Cardinality(T) + 1
          BY <3>2, <4>5
        <5> QED
          BY <3>1, <4>4, <5>1, <5>2
      <4>7. CASE j # k
        BY <3>2, <3>4, <4>4, <4>7
      <4> QED
        BY <4>6, <4>7
    <3> QED
      BY <3>3, <3>4
  <2>2. Covers(F2, w2, c2, n2, s2, W)
    BY <1>5, <2>1 DEF Covers
  <2> QED
    BY <2>2 DEF Covered
<1>6. /\ D \ {r} \subseteq F /\ r \notin D \ {r}
      /\ \A j \in Pair \ {old} : Held(w, F \ (D \ {r}), j) \subseteq Held(w, F \ D, j)
      /\ Held(w, F \ (D \ {r}), old) \ {r} = Held(w, F \ D, old) \ {r}
  BY <1>2 DEF Held
<1>7. Cardinality(D \ {r}) = (IF r \in D THEN Cardinality(D) - 1 ELSE Cardinality(D))
  BY <1>2, FS_RemoveElement
<1>8. /\ IsFiniteSet(Held(w, F \ D, old)) /\ Cardinality(Held(w, F \ D, old)) \in Nat
      /\ Cardinality(Held(w, F \ D, old)) <= c[old] /\ c[old] \in Nat
  BY <1>2, <1>4
\* Its own count moves.
<1>9. CASE r \in F \ D
  <2>1. r \in Held(w, F \ D, old)
    BY <1>9 DEF Held
  <2>2. /\ Cardinality(Held(w, F \ D, old) \ {r}) = Cardinality(Held(w, F \ D, old)) - 1
        /\ Cardinality(Held(w, F \ D, old) \ {r}) \in Nat
    BY <1>8, <2>1, FS_RemoveElement, FS_CardinalityType
  <2>3. taken = 1 /\ Cardinality(Held(w, F \ D, old) \ {r}) <= c[old] - taken
    BY <1>3, <1>8, <2>2
  <2>4. n2 + Cardinality(D \ {r}) <= s2
    BY <1>2, <1>7, <1>9, <2>3
  <2>5. Cardinality(Held(w, F \ (D \ {r}), old) \ {r}) <= c[old] - taken
    BY <1>6, <2>3
  <2> QED
    BY <1>5, <1>6, <2>4, <2>5
\* Nobody has a count there.
<1>10. CASE r \notin F \ D /\ Held(w, F \ D, old) = {}
  <2>1. Cardinality(Held(w, F \ (D \ {r}), old) \ {r}) = 0
    <3>1. Held(w, F \ (D \ {r}), old) \ {r} = {}
      BY <1>6, <1>10
    <3> QED
      BY <3>1, FS_EmptySet
  <2>2. Cardinality(Held(w, F \ (D \ {r}), old) \ {r}) <= c[old] - taken
    BY <1>3, <1>8, <2>1
  <2>3. n2 + Cardinality(D \ {r}) <= s2
    BY <1>2, <1>3, <1>7, <1>10
  <2> QED
    BY <1>5, <1>6, <2>2, <2>3
\* It takes somebody's.
<1>11. CASE r \notin F \ D /\ Held(w, F \ D, old) # {}
  <2>1. PICK q : q \in Held(w, F \ D, old)
    BY <1>11
  <2>2. q # r /\ q \in F /\ q \notin D
    BY <1>11, <2>1 DEF Held
  <2> DEFINE W == (D \ {r}) \cup {q}
  <2>3. Cardinality(W) = Cardinality(D \ {r}) + 1
    <3>1. IsFiniteSet(D \ {r}) /\ q \notin D \ {r}
      BY <1>2, <2>2, FS_RemoveElement
    <3> QED
      BY <3>1, FS_AddElement
  <2>4. Held(w, F \ W, old) \ {r} \subseteq Held(w, F \ D, old) \ {q}
    BY DEF Held
  <2>5. /\ Cardinality(Held(w, F \ D, old) \ {q}) = Cardinality(Held(w, F \ D, old)) - 1
        /\ Cardinality(Held(w, F \ D, old) \ {q}) \in Nat /\ IsFiniteSet(Held(w, F \ D, old) \ {q})
    BY <1>8, <2>1, FS_RemoveElement, FS_CardinalityType
  <2>6. /\ Cardinality(Held(w, F \ W, old) \ {r}) <= Cardinality(Held(w, F \ D, old) \ {q})
        /\ Cardinality(Held(w, F \ W, old) \ {r}) \in Nat
    BY <2>4, <2>5, FS_Subset, FS_CardinalityType
  <2>7. taken = 1 /\ Cardinality(Held(w, F \ W, old) \ {r}) <= c[old] - taken
    BY <1>3, <1>8, <2>5, <2>6
  <2>8. \A j \in Pair \ {old} : Held(w, F \ W, j) \subseteq Held(w, F \ D, j)
    BY DEF Held
  <2>9. W \subseteq F /\ r \notin W
    BY <1>2, <2>2
  <2>10. n2 + Cardinality(W) <= s2
    BY <1>2, <1>7, <1>11, <2>3, <2>7
  <2> HIDE DEF W
  <2> QED
    BY <1>5, <2>7, <2>8, <2>9, <2>10
<1> QED
  BY <1>9, <1>10, <1>11

-----------------------------------------------------------------------------
(* RequestsAccounted: the counts of this minute's rows.                    *)

RowCounts == [k \in Pair |-> At(memory, Now(k))]

AccountInv ==
  /\ IsFiniteSet(Dispatched)
  /\ Cardinality(Dispatched) <= Counted
  /\ Covered(fresh, countedAt, RowCounts, Counted, Cardinality(Dispatched) + stray)

LEMMA AccountTypes ==
  ASSUME RowsInv, IsFiniteSet(Dispatched)
  PROVE  /\ Counted \in Nat /\ stray \in Nat /\ Cardinality(Dispatched) \in Nat
         /\ RowCounts \in [Pair -> Nat] /\ IsFiniteSet(fresh)
<1>1. Counted \in Nat
  BY SumType, UnderwayType DEF RowsInv, RowsOK, Counted
<1>2. RowCounts \in [Pair -> Nat] /\ stray \in Nat
  BY DEF RowCounts, RowsInv, RowsOK, Summable, At
<1>3. IsFiniteSet(fresh) /\ Cardinality(Dispatched) \in Nat
  BY FS_Subset, FS_CardinalityType DEF RowsInv
<1> QED
  BY <1>1, <1>2, <1>3

\* A step that counts nothing anew, keeps the rows of this minute and makes no
\* request fresh.
LEMMA QuietAccount ==
  ASSUME RowsInv, RowsInv', AccountInv,
         Counted' = Counted, Dispatched' = Dispatched, stray' = stray,
         \/ fresh' = {}
         \/ /\ fresh' = fresh
            /\ RowCounts' = RowCounts
            /\ DOMAIN countedAt' \subseteq DOMAIN countedAt
            /\ \A q \in DOMAIN countedAt' : countedAt'[q] = countedAt[q]
  PROVE  AccountInv'
<1> DEFINE s == Cardinality(Dispatched) + stray
<1>1. /\ IsFiniteSet(Dispatched) /\ Cardinality(Dispatched) <= Counted
      /\ Covered(fresh, countedAt, RowCounts, Counted, s)
      /\ Counted \in Int /\ s \in Int /\ RowCounts \in [Pair -> Nat] /\ IsFiniteSet(fresh)
  BY AccountTypes DEF AccountInv
<1>2. RowCounts' \in [Pair -> Nat]
  BY DEF RowCounts, RowsInv, RowsOK, Summable, At
<1>3. CASE fresh' = {}
  <2>1. Counted <= s
    <3>1. PICK D : Covers(fresh, countedAt, RowCounts, Counted, s, D)
      BY <1>1 DEF Covered
    <3>2. Cardinality(D) \in Nat /\ Counted + Cardinality(D) <= s
      BY <1>1, <3>1, FS_Subset, FS_CardinalityType DEF Covers
    <3> QED
      BY <1>1, <3>2
  <2> HIDE DEF s
  <2>2. Covered({}, countedAt', RowCounts', Counted, s)
    BY <1>1, <1>2, <2>1, CoveredNone
  <2> QED
    BY <1>1, <1>3, <2>2 DEF AccountInv, s
<1>4. CASE /\ fresh' = fresh
           /\ RowCounts' = RowCounts
           /\ DOMAIN countedAt' \subseteq DOMAIN countedAt
           /\ \A q \in DOMAIN countedAt' : countedAt'[q] = countedAt[q]
  <2> HIDE DEF s
  <2>1. Covered(fresh, countedAt', RowCounts, Counted, s)
    BY <1>1, <1>4, CoveredLess
  <2> QED
    BY <1>1, <1>4, <2>1 DEF AccountInv, s
<1> QED
  BY <1>3, <1>4

LEMMA DispatchAccount ==
  ASSUME RowsInv, AccountInv, NEW r \in Request, NEW k \in Pair, CountDispatch(r, k)
  PROVE  AccountInv'
<1> DEFINE s == Cardinality(Dispatched) + stray
<1>1. /\ IsFiniteSet(Dispatched) /\ Cardinality(Dispatched) <= Counted /\ Cardinality(Dispatched) \in Nat
      /\ Covered(fresh, countedAt, RowCounts, Counted, s)
      /\ Counted \in Int /\ s \in Int /\ RowCounts \in [Pair -> Nat] /\ IsFiniteSet(fresh) /\ stray \in Nat
  BY AccountTypes DEF AccountInv
<1>2. Counted' = Counted + 1
  BY DispatchRows
<1>3. r \notin Dispatched /\ r \notin fresh /\ r \notin DOMAIN countedAt /\ Dispatched' = Dispatched \cup {r}
  BY DEF RowsInv, CountDispatch, Dispatched
<1>4. IsFiniteSet(Dispatched') /\ Cardinality(Dispatched') = Cardinality(Dispatched) + 1
  BY <1>1, <1>3, FS_AddElement
<1>5. fresh' = fresh \cup {r} /\ stray' = stray /\ second' = second /\ memory' = Record(memory, Now(k), 1)
  BY DEF CountDispatch
<1>6. /\ DOMAIN countedAt' = DOMAIN countedAt \cup {r} /\ countedAt'[r] = k
      /\ \A q \in DOMAIN countedAt : countedAt'[q] = countedAt[q]
  BY <1>3 DEF CountDispatch
<1>7. RowCounts'[k] = RowCounts[k] + 1 /\ \A j \in Pair \ {k} : RowCounts'[j] = RowCounts[j]
  <2>1. \A x : At(memory', x) = At(memory, x) + (IF x = Now(k) THEN 1 ELSE 0) /\ At(memory, x) \in Nat
    <3>1. RowsOK(memory)
      BY DEF RowsInv
    <3> QED
      BY <1>5, <3>1, RecordOK DEF RowsOK, Summable, At
  <2>2. \A j \in Pair : Now(j)' = Now(j) /\ (j # k => Now(j) # Now(k))
    BY <1>5 DEF Now, Minute
  <2> QED
    BY <2>1, <2>2 DEF RowCounts
<1>8. s' = s + 1
  BY <1>1, <1>4, <1>5
<1> HIDE DEF s
<1>9. Covered(fresh \cup {r}, countedAt', RowCounts', Counted + 1, s + 1)
  BY <1>1, <1>3, <1>6, <1>7, CoveredNew
<1>10. Covered(fresh', countedAt', RowCounts', Counted', s')
  BY <1>2, <1>5, <1>8, <1>9
<1> QED
  BY <1>1, <1>2, <1>4, <1>10 DEF AccountInv, s

LEMMA MoveAccount ==
  ASSUME RowsInv, AccountInv, NEW r \in Request, NEW k \in Pair, CountMove(r, k)
  PROVE  AccountInv'
<1> DEFINE s == Cardinality(Dispatched) + stray
<1> DEFINE old == countedAt[r]
<1> DEFINE taken == IF At(memory, Now(old)) > 0 THEN 1 ELSE 0
<1>1. /\ IsFiniteSet(Dispatched) /\ Cardinality(Dispatched) <= Counted /\ Cardinality(Dispatched) \in Nat
      /\ Covered(fresh, countedAt, RowCounts, Counted, s)
      /\ Counted \in Int /\ s \in Int /\ RowCounts \in [Pair -> Nat] /\ IsFiniteSet(fresh) /\ stray \in Nat
  BY AccountTypes DEF AccountInv
<1>2. RowsInv' /\ Counted' = Counted + 1 - taken /\ Counted' \in Nat
  BY MoveRows
<1>3. r \in DOMAIN countedAt /\ old \in Pair /\ k # old /\ Dispatched' = Dispatched
  BY DEF CountMove, RowsInv, Dispatched
<1>4. /\ fresh' = fresh \cup {r} /\ second' = second
      /\ memory' = Move(memory, Now(old), Now(k))
      /\ stray' = IF r \in fresh THEN stray ELSE stray + 1
      /\ countedAt' = [countedAt EXCEPT ![r] = k]
  BY DEF CountMove
<1>5. /\ DOMAIN countedAt' = DOMAIN countedAt /\ countedAt'[r] = k
      /\ \A q \in DOMAIN countedAt : q # r => countedAt'[q] = countedAt[q]
  BY <1>3, <1>4
<1>6. /\ \A j \in Pair : RowCounts'[j] = At(memory', Now(j)) /\ RowCounts[j] = At(memory, Now(j))
      /\ RowCounts' \in [Pair -> Nat]
  BY <1>2, <1>4 DEF RowCounts, Now, Minute, RowsInv, RowsOK, Summable, At
<1>7. /\ RowCounts'[old] = RowCounts[old] - taken /\ RowCounts'[k] = RowCounts[k] + 1
      /\ \A j \in Pair \ {old, k} : RowCounts'[j] = RowCounts[j]
  <2>1. RowsOK(memory) /\ \A j \in Pair \ {old, k} : Now(j) \notin {Now(old), Now(k)}
    BY DEF RowsInv, Now
  <2>2. /\ At(memory', Now(old)) = At(memory, Now(old)) - taken
        /\ At(memory', Now(k)) = At(memory, Now(k)) + 1
        /\ \A x : x \notin {Now(old), Now(k)} => At(memory', x) = At(memory, x)
    BY <1>3, <1>4, <2>1, MoveOK
  <2> QED
    BY <1>3, <1>6, <2>1, <2>2
<1>8. s' = (IF r \in fresh THEN s ELSE s + 1) /\ s' \in Int
  BY <1>1, <1>3, <1>4
<1>9. taken = (IF RowCounts[old] > 0 THEN 1 ELSE 0) /\ taken \in {0, 1}
  BY <1>3, <1>6
<1> HIDE DEF s, old, taken
<1>10. Covered(fresh \cup {r}, countedAt', RowCounts', Counted', s')
  <2>1. countedAt[r] = old
    BY DEF old
  <2> QED
    BY <1>1, <1>2, <1>3, <1>5, <1>6, <1>7, <1>8, <1>9, <2>1, CoveredMove
<1>11. Cardinality(Dispatched') <= Counted'
  BY <1>1, <1>2, <1>3, <1>9
<1>12. Covered(fresh', countedAt', RowCounts', Counted', Cardinality(Dispatched') + stray')
  BY <1>4, <1>10 DEF s
<1> QED
  BY <1>1, <1>3, <1>11, <1>12 DEF AccountInv

LEMMA AccountInitially == RollupsInit => AccountInv
<1> SUFFICES ASSUME RollupsInit PROVE AccountInv
  OBVIOUS
<1>1. Dispatched = {} /\ fresh = {} /\ stray = 0 /\ memory = NoRows
  BY DEF RollupsInit, Dispatched
<1>2. Cardinality({}) = 0 /\ IsFiniteSet({})
  BY FS_EmptySet
<1>3. Counted = 0
  <2>1. \A f \in Flusher : Sum(flushing[f]) = 0
    BY NoRowsOK DEF RollupsInit
  <2>2. Underway = 0
    BY <2>1, SumNone DEF Underway
  <2> QED
    BY <2>2, NoRowsOK DEF Counted, RollupsInit
<1>4. RowCounts \in [Pair -> Nat]
  BY <1>1 DEF RowCounts, At, NoRows
<1>5. Covered({}, countedAt, RowCounts, 0, 0)
  BY <1>4, CoveredNone
<1> QED
  BY <1>1, <1>2, <1>3, <1>5 DEF AccountInv

LEMMA RowsAndAccountNext ==
  ASSUME RowsInv, AccountInv, [RollupsNext]_rollupVars
  PROVE  RowsInv' /\ AccountInv'
<1>1. ASSUME NEW r \in Request, NEW k \in Pair, CountDispatch(r, k) PROVE RowsInv' /\ AccountInv'
  BY <1>1, DispatchRows, DispatchAccount
<1>2. ASSUME NEW r \in Request, NEW k \in Pair, CountMove(r, k) PROVE RowsInv' /\ AccountInv'
  BY <1>2, MoveRows, MoveAccount
<1>3. ASSUME NEW r \in Request, CountEnd(r) PROVE RowsInv' /\ AccountInv'
  <2>1. RowsInv' /\ Counted' = Counted
    BY <1>3, EndRows
  <2>2. Dispatched' = Dispatched /\ stray' = stray /\ fresh' = fresh /\ second' = second
    BY <1>3 DEF CountEnd, Dispatched, historyVars, RowsInv
  <2>3. DOMAIN countedAt' \subseteq DOMAIN countedAt /\ \A q \in DOMAIN countedAt' : countedAt'[q] = countedAt[q]
    BY <1>3 DEF CountEnd, Restrict
  <2>4. RowCounts' = RowCounts
    <3>1. RowsOK(memory) /\ countedAt[r] \in Pair /\ memory' = Record(memory, Now(countedAt[r]), 0)
      BY <1>3 DEF RowsInv, CountEnd
    <3>2. \A x : At(memory', x) = At(memory, x) + 0 /\ At(memory, x) \in Nat
      BY <3>1, RecordOK DEF RowsOK, Summable, At
    <3> QED
      BY <2>2, <3>2 DEF RowCounts, Now, Minute
  <2> QED
    BY <2>1, <2>2, <2>3, <2>4, QuietAccount
<1>4. ASSUME RecordPollMetrics PROVE RowsInv' /\ AccountInv'
  <2>1. RowsInv' /\ Counted' = Counted /\ \A x : At(memory', x) = At(memory, x)
    BY <1>4, PollRows
  <2>2. Dispatched' = Dispatched /\ stray' = stray /\ fresh' = fresh /\ second' = second /\ countedAt' = countedAt
    BY <1>4 DEF RecordPollMetrics, Dispatched, historyVars
  <2>3. RowCounts' = RowCounts
    BY <2>1, <2>2 DEF RowCounts, Now, Minute
  <2> QED
    BY <2>1, <2>2, <2>3, QuietAccount
<1>5. CASE EvictIdle \/ UNCHANGED rollupVars
  <2>1. UNCHANGED <<second, polled, stage, countedAt, memory, flushing, db, historyVars>>
    BY <1>5 DEF EvictIdle, rollupVars, storeVars
  <2>2. RowsInv' /\ Counted' = Counted
    BY <2>1 DEF RowsInv, RowsOK, Minute, Summable, Dispatched, historyVars, Counted, Underway
  <2>3. Dispatched' = Dispatched /\ stray' = stray /\ fresh' = fresh /\ countedAt' = countedAt
    BY <2>1 DEF Dispatched, historyVars
  <2>4. RowCounts' = RowCounts
    BY <2>1 DEF RowCounts, Now, Minute
  <2> QED
    BY <2>2, <2>3, <2>4, QuietAccount
<1>6. ASSUME NEW f \in Flusher, Drain(f) PROVE RowsInv' /\ AccountInv'
  <2>1. RowsInv' /\ Counted' = Counted
    BY <1>6, DrainRows
  <2>2. Dispatched' = Dispatched /\ stray' = stray /\ fresh' = {}
    BY <1>6 DEF Drain, Dispatched
  <2> QED
    BY <2>1, <2>2, QuietAccount
<1>7. ASSUME NEW f \in Flusher, Commit(f) \/ FlushFails(f) PROVE RowsInv' /\ AccountInv'
  <2>1. RowsInv' /\ Counted' = Counted
    BY <1>7, CommitRows, FailRows
  <2>2. /\ Dispatched' = Dispatched /\ stray' = stray /\ fresh' = fresh /\ countedAt' = countedAt
        /\ second' = second /\ memory' = memory
    BY <1>7 DEF Commit, FlushFails, Dispatched, historyVars, storeVars
  <2>3. RowCounts' = RowCounts
    BY <2>2 DEF RowCounts, Now, Minute
  <2> QED
    BY <2>1, <2>2, <2>3, QuietAccount
<1>8. ASSUME Prune PROVE RowsInv' /\ AccountInv'
  <2>1. RowsInv' /\ Counted' = Counted
    BY <1>8, PruneRows
  <2>2. /\ Dispatched' = Dispatched /\ stray' = stray /\ fresh' = fresh /\ countedAt' = countedAt
        /\ second' = second /\ memory' = memory
    BY <1>8 DEF Prune, Dispatched, storeVars
  <2>3. RowCounts' = RowCounts
    BY <2>2 DEF RowCounts, Now, Minute
  <2> QED
    BY <2>1, <2>2, <2>3, QuietAccount
<1>9. ASSUME Crash PROVE RowsInv' /\ AccountInv'
  <2>1. RowsInv' /\ Counted' = Counted
    BY <1>9, CrashRows
  <2>2. Dispatched' = Dispatched /\ stray' = stray /\ fresh' = {}
    BY <1>9 DEF Crash, Dispatched, RowsInv
  <2> QED
    BY <2>1, <2>2, QuietAccount
<1>10. ASSUME NextSecond PROVE RowsInv' /\ AccountInv'
  <2>1. RowsInv' /\ Counted' = Counted
    BY <1>10, SecondRows
  <2>2. /\ Dispatched' = Dispatched /\ stray' = stray /\ countedAt' = countedAt /\ memory' = memory
        /\ fresh' = IF Minute' = Minute THEN fresh ELSE {}
    BY <1>10 DEF NextSecond, Dispatched, storeVars
  <2>3. Minute' = Minute => RowCounts' = RowCounts
    BY <2>2 DEF RowCounts, Now
  <2> QED
    BY <2>1, <2>2, <2>3, QuietAccount
<1> QED
  BY <1>1, <1>2, <1>3, <1>4, <1>5, <1>6, <1>7, <1>8, <1>9, <1>10 DEF RollupsNext

LEMMA AccountGives == RowsInv /\ AccountInv => RequestsAccounted
<1> SUFFICES ASSUME RowsInv, AccountInv PROVE RequestsAccounted
  OBVIOUS
<1>1. IsFiniteSet(Dispatched) /\ Cardinality(Dispatched) <= Counted
  BY DEF AccountInv
<1>2. PICK D : Covers(fresh, countedAt, RowCounts, Counted, Cardinality(Dispatched) + stray, D)
  BY DEF AccountInv, Covered
<1>3. Counted \in Nat /\ stray \in Nat /\ Cardinality(Dispatched) \in Nat /\ IsFiniteSet(fresh)
  BY <1>1, AccountTypes
<1>4. Cardinality(D) \in Nat /\ Counted + Cardinality(D) <= Cardinality(Dispatched) + stray
  BY <1>2, <1>3, FS_Subset, FS_CardinalityType DEF Covers
<1> QED
  BY <1>1, <1>3, <1>4 DEF RequestsAccounted

(* Wherever a request's count is, in memory, in a flush, in the table or   *)
(* lost, it is there at least once, and more than once only for fallbacks  *)
(* that came after the count had left the row of the current minute        *)
(* (RequestsAccounted): for any requests, pairs and flushers.              *)
THEOREM RequestsAlwaysAccounted == RollupsSpec => []RequestsAccounted
<1>1. RollupsInit => RowsInv /\ AccountInv
  BY RowsInitially, AccountInitially
<1>2. (RowsInv /\ AccountInv) /\ [RollupsNext]_rollupVars => (RowsInv /\ AccountInv)'
  BY RowsAndAccountNext
<1>3. RowsInv /\ AccountInv => RequestsAccounted
  BY AccountGives
<1> QED
  BY <1>1, <1>2, <1>3, PTL DEF RollupsSpec

-----------------------------------------------------------------------------
(* The series of the history.                                              *)

\* What restricting the table gives is summable.
LEMMA RestrictOK ==
  ASSUME RowsInv, NEW A \in SUBSET DOMAIN db
  PROVE  Summable(Restrict(db, A)) /\ DOMAIN Restrict(db, A) = A /\ \A x \in A : Restrict(db, A)[x] = db[x]
<1>1. IsFiniteSet(A)
  BY FS_Subset DEF RowsInv, RowsOK, Summable
<1> QED
  BY <1>1 DEF RowsInv, RowsOK, Summable, Restrict

\* A row is of a minute up to this one, and of a pair.
LEMMA RowShape ==
  ASSUME RowsInv, NEW x \in DOMAIN db
  PROVE  x = <<x[1], x[2]>> /\ x[1] \in 0..Minute /\ x[2] \in Pair
BY DEF RowsInv, RowsOK

LEMMA ListedComplete ==
  ASSUME RowsInv, NEW tf \in DOMAIN Span
  PROVE  Sum([k \in Listed(tf) |-> Summary(tf, k)])
           = Sum(Restrict(db, {x \in DOMAIN db : x[1] >= Start(tf)}))
<1> DEFINE R == {x \in DOMAIN db : x[1] >= Start(tf)}
<1> DEFINE f == Restrict(db, R)
<1> DEFINE part == [x \in R |-> x[2]]
<1> DEFINE sums == [k \in Listed(tf) |-> Summary(tf, k)]
<1>1. Summable(f) /\ DOMAIN f = R
  BY RestrictOK
<1>2. IsFiniteSet(Listed(tf))
  <2>1. Listed(tf) \subseteq Pair
    BY DEF Listed, Configured
  <2> QED
    BY <2>1, FS_Subset, RollupsAssumption
<1>3. ASSUME NEW k \in Pair PROVE Selected(tf, k) = {x \in R : x[2] = k}
  <2>1. \A x \in DOMAIN db : x[1] <= Minute + 1
    BY RowShape, MinuteType
  <2> QED
    BY <2>1 DEF Selected
<1>4. part \in [R -> Listed(tf)]
  <2> SUFFICES ASSUME NEW x \in R PROVE x[2] \in Listed(tf)
    OBVIOUS
  <2>1. x[2] \in Pair
    BY RowShape
  <2>2. x \in Selected(tf, x[2])
    BY <1>3, <2>1
  <2> QED
    BY <2>1, <2>2 DEF Listed
<1>5. \A k \in Listed(tf) : sums[k] = Sum(Restrict(f, {x \in R : part[x] = k}))
  <2> SUFFICES ASSUME NEW k \in Listed(tf) PROVE sums[k] = Sum(Restrict(f, {x \in R : part[x] = k}))
    OBVIOUS
  <2>1. k \in Pair
    BY DEF Listed, Configured
  <2>2. {x \in R : part[x] = k} = Selected(tf, k)
    BY <1>3, <2>1
  <2>3. Restrict(f, Selected(tf, k)) = Restrict(db, Selected(tf, k))
    BY <1>3, <2>1 DEF Restrict
  <2> QED
    BY <2>2, <2>3 DEF Summary
<1> HIDE DEF f, part, sums, R
<1>6. DOMAIN sums = Listed(tf)
  BY DEF sums
<1>7. Sum(sums) = Sum(f)
  BY <1>1, <1>2, <1>4, <1>5, <1>6, SumParts
<1> QED
  BY <1>7 DEF sums, f, R

BinOf(tf, x) == (x[1] - Start(tf)) \div Bin[tf]
InPoints(tf, k) == {x \in Selected(tf, k) : BinOf(tf, x) \in Points(tf)}

LEMMA PointsAddUp ==
  ASSUME RowsInv, NEW tf, NEW k \in Pair, IsFiniteSet(Points(tf))
  PROVE  Series(tf, k) = Sum(Restrict(db, InPoints(tf, k)))
<1> DEFINE R == InPoints(tf, k)
<1> DEFINE f == Restrict(db, R)
<1> DEFINE part == [x \in R |-> BinOf(tf, x)]
<1> DEFINE sums == [i \in Points(tf) |-> Point(tf, k, i)]
<1>1. Summable(f) /\ DOMAIN f = R
  BY RestrictOK DEF InPoints, Selected
<1>2. part \in [R -> Points(tf)]
  BY DEF InPoints
<1>3. \A i \in Points(tf) : sums[i] = Sum(Restrict(f, {x \in R : part[x] = i}))
  <2> SUFFICES ASSUME NEW i \in Points(tf) PROVE sums[i] = Sum(Restrict(f, {x \in R : part[x] = i}))
    OBVIOUS
  <2>1. {x \in R : part[x] = i} = {x \in Selected(tf, k) : BinOf(tf, x) = i}
    BY DEF InPoints
  <2>2. Restrict(f, {x \in R : part[x] = i}) = Restrict(db, {x \in R : part[x] = i})
    BY DEF Restrict
  <2>3. sums[i] = Sum(Restrict(db, {x \in Selected(tf, k) : BinOf(tf, x) = i}))
    BY DEF Point, BinOf
  <2> QED
    BY <2>1, <2>2, <2>3
<1> HIDE DEF R, f, part, sums
<1>4. DOMAIN sums = Points(tf)
  BY DEF sums
<1>5. Sum(sums) = Sum(f)
  BY <1>1, <1>2, <1>3, <1>4, SumParts
<1> QED
  BY <1>5 DEF Series, sums, f, R

\* An offset falls in a point, unless it is the whole span.
LEMMA Binned ==
  ASSUME NEW B \in Nat \ {0}, NEW L \in Nat, L % B = 0, NEW o \in 0..L
  PROVE  o \div B \in 0..(L \div B - 1) <=> o # L
<1>1. L = B * (L \div B) /\ L \div B \in Nat
  OBVIOUS
<1>2. B * (o \div B) <= o /\ o \div B \in Nat
  OBVIOUS
<1>3. ASSUME o # L, o \div B >= L \div B PROVE FALSE
  <2>1. B * (o \div B) >= B * (L \div B)
    BY <1>1, <1>2, <1>3
  <2> QED
    BY <1>1, <1>2, <1>3, <2>1
<1> QED
  BY <1>1, <1>2, <1>3

LEMMA SeriesComplete ==
  ASSUME RowsInv, NEW k \in Pair
  PROVE  /\ Series("1m", k) = Summary("1m", k)
         /\ Series("long", k) + At(db, Now(k)) = Summary("long", k)
<1>1. Minute \in Nat /\ LongBin \in Nat \ {0} /\ LongSpan \in Nat /\ LongSpan % LongBin = 0
  BY MinuteType, RollupsAssumption
<1>2. /\ Points("1m") = 0..1 /\ Start("1m") = Minute - 1 /\ Bin["1m"] = 1
      /\ Points("long") = 0..(LongSpan \div LongBin - 1)
      /\ Start("long") = Minute - LongSpan /\ Bin["long"] = LongBin
  BY <1>1 DEF Points, End, Start, Bin, Span
<1>3. IsFiniteSet(Points("1m")) /\ IsFiniteSet(Points("long"))
  <2> DEFINE last == LongSpan \div LongBin - 1
  <2>1. last \in Int
    BY <1>1
  <2> HIDE DEF last
  <2>2. \A n \in Int : IsFiniteSet(0..n)
    BY FS_Interval
  <2>3. IsFiniteSet(0..1)
    <3>1. PICK one \in Int : one = 1
      OBVIOUS
    <3>2. IsFiniteSet(0..one)
      BY <2>2
    <3> QED
      BY <3>1, <3>2
  <2>4. IsFiniteSet(0..last)
    BY <2>1, <2>2
  <2> QED
    BY <1>2, <2>3, <2>4 DEF last
<1>4. InPoints("1m", k) = Selected("1m", k)
  <2> SUFFICES ASSUME NEW x \in Selected("1m", k) PROVE BinOf("1m", x) \in Points("1m")
    BY DEF InPoints
  <2>1. x[1] \in 0..Minute /\ x[1] >= Minute - 1
    BY <1>2, RowShape DEF Selected
  <2> QED
    BY <1>1, <1>2, <2>1 DEF BinOf
<1>5. InPoints("long", k) = Selected("long", k) \ {Now(k)}
  <2> SUFFICES ASSUME NEW x \in Selected("long", k) PROVE BinOf("long", x) \in Points("long") <=> x # Now(k)
    BY DEF InPoints
  <2>1. x[1] \in 0..Minute /\ x[1] >= Minute - LongSpan /\ x = <<x[1], x[2]>> /\ x[2] = k
    BY <1>2, RowShape DEF Selected
  <2>2. x[1] - (Minute - LongSpan) \in 0..LongSpan
    BY <1>1, <2>1
  <2>3. BinOf("long", x) \in Points("long") <=> x[1] - (Minute - LongSpan) # LongSpan
    BY <1>1, <1>2, <2>2, Binned DEF BinOf
  <2> QED
    BY <1>1, <2>1, <2>3 DEF Now
<1>6. Series("1m", k) = Summary("1m", k)
  BY <1>3, <1>4, PointsAddUp DEF Summary
<1> DEFINE all == Restrict(db, Selected("long", k))
<1> DEFINE rest == Restrict(db, Selected("long", k) \ {Now(k)})
<1>7. Summable(all) /\ Summable(rest)
  BY RestrictOK DEF Selected
<1>8. \A y : y # Now(k) => At(rest, y) = At(all, y)
  BY DEF At, Restrict
<1>9. At(rest, Now(k)) = 0 /\ At(all, Now(k)) = At(db, Now(k))
  <2>1. Now(k) \in DOMAIN db => Now(k) \in Selected("long", k)
    BY <1>1, <1>2 DEF Selected, Now
  <2> QED
    BY <2>1 DEF At, Restrict, Selected
<1> HIDE DEF all, rest
<1>10. Sum(all) + At(rest, Now(k)) = Sum(rest) + At(all, Now(k)) /\ Sum(all) \in Nat /\ Sum(rest) \in Nat
  BY <1>7, <1>8, SumChange
<1>11. Sum(all) = Sum(rest) + At(db, Now(k))
  BY <1>9, <1>10
<1>12. Series("long", k) = Sum(rest)
  BY <1>3, <1>5, PointsAddUp DEF rest
<1> QED
  BY <1>6, <1>11, <1>12 DEF Summary, all

LEMMA SeriesGives == RowsInv => SeriesAccounts
BY ListedComplete, SeriesComplete DEF SeriesAccounts

-----------------------------------------------------------------------------
(* The ring of seconds.                                                    *)

\* A bucket is of a second that has this place in the ring, or unused.
RingOK(rg) ==
  /\ rg \in [Pair -> [0..(Window - 1) -> [sec : -1..second, requests : Nat]]]
  /\ \A k \in Pair, i \in 0..(Window - 1) :
       /\ rg[k][i].sec = -1 => rg[k][i].requests = 0
       /\ rg[k][i].sec # -1 => rg[k][i].sec % Window = i

\* A key without state has no counts; one with state was active when it counted.
ActiveOK(rg, act) ==
  /\ DOMAIN act \subseteq Pair
  /\ \A k \in Pair \ DOMAIN act : rg[k] = NoRing
  /\ \A k \in DOMAIN act :
       /\ act[k] \in 0..second
       /\ \A i \in 0..(Window - 1) : rg[k][i].sec <= act[k]

BornOK ==
  /\ born \in [Request -> -1..second]
  /\ \A r \in Request : stage[r] = "new" => born[r] = -1
  /\ lateAt \in [0..LastSecond -> Nat]

RingInv == RingOK(ring) /\ ActiveOK(ring, activeAt) /\ BornOK

\* What the ring rg says of second s.
Value(rg, k, s) == IF rg[k][s % Window].sec = s THEN rg[k][s % Window].requests ELSE 0

LEMMA Places ==
  ASSUME NEW n \in Nat
  PROVE  n % Window \in 0..(Window - 1) /\ Window \in Nat \ {0}
BY RollupsAssumption

\* The seconds of the window have places of their own.
LEMMA PlacesDiffer ==
  ASSUME second \in Nat, NEW s \in LastSeconds, s # second
  PROVE  s % Window # second % Window
<1>1. s \in Nat /\ s < second /\ second - s < Window /\ Window \in Nat \ {0}
  BY RollupsAssumption DEF LastSeconds
<1>2. \A n \in Nat : n = Window * (n \div Window) + (n % Window) /\ n \div Window \in Nat /\ n % Window \in Nat
  BY <1>1
<1> SUFFICES ASSUME s % Window = second % Window PROVE FALSE
  OBVIOUS
<1> DEFINE laps == (second \div Window) - (s \div Window)
<1>3. laps \in Int /\ second - s = Window * laps
  BY <1>1, <1>2
<1> HIDE DEF laps
<1>4. laps >= 1
  BY <1>1, <1>3
<1>5. Window * laps >= Window
  BY <1>1, <1>3, <1>4
<1> QED
  BY <1>1, <1>3, <1>5

LEMMA NoRingOK ==
  ASSUME second \in Nat
  PROVE  /\ NoRing \in [0..(Window - 1) -> [sec : -1..second, requests : Nat]]
         /\ \A i \in 0..(Window - 1) : NoRing[i].sec = -1 /\ NoRing[i].requests = 0
BY DEF NoRing, Empty

\* Counting changes the value of this second, and of no other of the window.
LEMMA AddRequestsOK ==
  ASSUME second \in Nat, NEW rg, RingOK(rg), NEW k \in Pair, NEW d \in Int
  PROVE  /\ RingOK(AddRequests(rg, k, d))
         /\ Value(AddRequests(rg, k, d), k, second) = Floor(Value(rg, k, second) + d)
         /\ \A j \in Pair, s \in LastSeconds :
              j # k \/ s # second => Value(AddRequests(rg, k, d), j, s) = Value(rg, j, s)
         /\ \A j \in Pair : j # k => AddRequests(rg, k, d)[j] = rg[j]
<1> DEFINE p == second % Window
<1> DEFINE b == BucketNow(rg, k)
<1> DEFINE new == AddRequests(rg, k, d)
<1>1. p \in 0..(Window - 1)
  BY Places
<1>2. /\ b \in [sec : -1..second, requests : Nat] /\ b.sec = second
      /\ b.requests = Value(rg, k, second)
  <2>1. rg[k][p] \in [sec : -1..second, requests : Nat]
    BY <1>1 DEF RingOK
  <2>2. second \in -1..second
    OBVIOUS
  <2>3. CASE rg[k][p].sec = second
    BY <2>1, <2>3 DEF BucketNow, Value
  <2>4. CASE rg[k][p].sec # second
    BY <2>2, <2>4 DEF BucketNow, Value, Empty
  <2> QED
    BY <2>3, <2>4
<1>3. new = [rg EXCEPT ![k][p] = [b EXCEPT !.requests = Floor(b.requests + d)]]
  BY DEF AddRequests
<1>4. Floor(b.requests + d) \in Nat
  BY <1>2 DEF Floor
<1> HIDE DEF b
<1> DEFINE bucket == [b EXCEPT !.requests = Floor(b.requests + d)]
<1>5. bucket \in [sec : -1..second, requests : Nat] /\ bucket.sec = second /\ bucket.requests = Floor(b.requests + d)
  BY <1>2, <1>4
<1> HIDE DEF bucket
<1>6. rg \in [Pair -> [0..(Window - 1) -> [sec : -1..second, requests : Nat]]]
  BY DEF RingOK
<1>7. new = [rg EXCEPT ![k] = [rg[k] EXCEPT ![p] = bucket]]
  BY <1>3, <1>6 DEF bucket
<1> DEFINE column == [rg[k] EXCEPT ![p] = bucket]
<1>8. /\ column \in [0..(Window - 1) -> [sec : -1..second, requests : Nat]]
      /\ column[p] = bucket /\ \A i \in 0..(Window - 1) : i # p => column[i] = rg[k][i]
  BY <1>1, <1>5, <1>6
<1> HIDE DEF column
<1>9. /\ new \in [Pair -> [0..(Window - 1) -> [sec : -1..second, requests : Nat]]]
      /\ new[k] = column /\ \A j \in Pair : j # k => new[j] = rg[j]
  BY <1>6, <1>7, <1>8 DEF column
<1> HIDE DEF new, p
<1>10. RingOK(new)
  <2>1. ASSUME NEW j \in Pair, NEW i \in 0..(Window - 1)
        PROVE  /\ new[j][i].sec = -1 => new[j][i].requests = 0
               /\ new[j][i].sec # -1 => new[j][i].sec % Window = i
    <3>1. CASE j = k /\ i = p
      <4>1. new[j][i].sec = second
        BY <1>5, <1>8, <1>9, <3>1
      <4> QED
        BY <3>1, <4>1 DEF p
    <3>2. CASE ~(j = k /\ i = p)
      <4>1. new[j][i] = rg[j][i]
        BY <1>8, <1>9, <3>2
      <4> QED
        BY <4>1 DEF RingOK
    <3> QED
      BY <3>1, <3>2
  <2> QED
    BY <1>9, <2>1 DEF RingOK
<1>11. Value(new, k, second) = Floor(Value(rg, k, second) + d)
  BY <1>2, <1>5, <1>8, <1>9 DEF Value, p
<1>12. ASSUME NEW j \in Pair, NEW s \in LastSeconds, j # k \/ s # second
       PROVE  Value(new, j, s) = Value(rg, j, s)
  <2>1. CASE j # k
    BY <1>9, <2>1 DEF Value
  <2>2. CASE j = k
    <3>1. s % Window \in 0..(Window - 1) /\ s % Window # p
      BY <1>12, <2>2, Places, PlacesDiffer DEF LastSeconds, p
    <3> QED
      BY <1>8, <1>9, <2>2, <3>1 DEF Value
  <2> QED
    BY <2>1, <2>2
<1> QED
  BY <1>9, <1>10, <1>11, <1>12 DEF new

\* Idle keys have no counts in the window: evicting them changes no value.
LEMMA EvictOK ==
  ASSUME second \in Nat, RingInv, NEW out, out \subseteq IdlePairs
  PROVE  /\ RingOK(Fresh(out))
         /\ \A k \in Pair, s \in LastSeconds : Value(Fresh(out), k, s) = OneSecond(k, s)
         /\ \A k \in Pair : Fresh(out)[k] = IF k \in out THEN NoRing ELSE ring[k]
<1>1. \A k \in Pair : Fresh(out)[k] = IF k \in out THEN NoRing ELSE ring[k]
  BY DEF Fresh
<1>2. RingOK(Fresh(out))
  BY <1>1, NoRingOK DEF RingOK, RingInv, Fresh
<1>3. ASSUME NEW k \in Pair, NEW s \in LastSeconds
      PROVE  Value(Fresh(out), k, s) = OneSecond(k, s)
  <2>1. CASE k \notin out
    BY <1>1, <2>1 DEF Value, OneSecond
  <2>2. CASE k \in out
    <3>1. s \in Nat /\ s % Window \in 0..(Window - 1) /\ s > second - Window
      BY Places DEF LastSeconds
    <3>2. NoRing[s % Window].sec # s
      BY <3>1, NoRingOK
    <3>3. k \in DOMAIN activeAt /\ second - activeAt[k] > IdleAfter
      BY <2>2 DEF IdlePairs
    <3>4. ring[k][s % Window].sec <= activeAt[k] /\ activeAt[k] \in Nat
      BY <3>1, <3>3 DEF RingInv, ActiveOK
    <3>6. ring[k][s % Window].sec \in Int
      <4>1. ring[k][s % Window] \in [sec : -1..second, requests : Nat]
        BY <3>1 DEF RingInv, RingOK
      <4> QED
        BY <4>1
    <3>5. ring[k][s % Window].sec # s
      BY <3>1, <3>3, <3>4, <3>6, RollupsAssumption
    <3> QED
      BY <1>1, <2>2, <3>2, <3>5 DEF Value, OneSecond
  <2> QED
    BY <2>1, <2>2
<1> QED
  BY <1>1, <1>2, <1>3

\* What a touch of some keys leaves behind.
LEMMA TouchOK ==
  ASSUME second \in Nat, RingInv, NEW K, K \subseteq Pair, TouchPairs(K), second' = second,
         RingOK(ring'), \A k \in Pair \ K : ring'[k] = Fresh(Evicted(K))[k]
  PROVE  RingOK(ring)' /\ ActiveOK(ring, activeAt)' /\ Evicted(K) \subseteq IdlePairs
<1>1. Evicted(K) \subseteq IdlePairs /\ IdlePairs \subseteq DOMAIN activeAt
  BY DEF Evicted, IdlePairs
<1>2. RingOK(ring)'
  BY DEF RingOK
<1>3. /\ DOMAIN activeAt' = (DOMAIN activeAt \ Evicted(K)) \cup K
      /\ \A k \in DOMAIN activeAt' : activeAt'[k] = IF k \in K THEN second ELSE activeAt[k]
  BY DEF TouchPairs
<1>4. ActiveOK(ring, activeAt) /\ DOMAIN activeAt \subseteq Pair
  BY DEF RingInv, ActiveOK
<1>5. ASSUME NEW k \in Pair \ DOMAIN activeAt' PROVE ring'[k] = NoRing
  BY <1>1, <1>3, <1>4, EvictOK DEF ActiveOK
<1>6. ASSUME NEW k \in DOMAIN activeAt'
      PROVE  activeAt'[k] \in 0..second /\ \A i \in 0..(Window - 1) : ring'[k][i].sec <= activeAt'[k]
  <2>1. CASE k \in K
    <3>1. activeAt'[k] = second /\ k \in Pair
      BY <1>3, <2>1
    <3>2. ASSUME NEW i \in 0..(Window - 1) PROVE ring'[k][i].sec <= second
      <4>1. ring'[k][i] \in [sec : -1..second, requests : Nat]
        BY <3>1 DEF RingOK
      <4> QED
        BY <4>1
    <3> QED
      BY <3>1, <3>2
  <2>2. CASE k \notin K
    <3>1. k \in DOMAIN activeAt /\ k \notin Evicted(K) /\ activeAt'[k] = activeAt[k]
      BY <1>3, <2>2
    <3>2. ring'[k] = ring[k]
      BY <1>1, <1>4, <2>2, <3>1, EvictOK
    <3> QED
      BY <1>4, <3>1, <3>2 DEF ActiveOK
  <2> QED
    BY <2>1, <2>2
<1>7. ActiveOK(ring, activeAt)'
  BY <1>3, <1>4, <1>5, <1>6 DEF ActiveOK
<1> QED
  BY <1>1, <1>2, <1>7

-----------------------------------------------------------------------------
(* WindowAccounted.                                                        *)

\* What the ring says of a second, over all keys.
Values(s) == [k \in Pair |-> OneSecond(k, s)]
Read(s) == Sum(Values(s))

BornIn(s) == {r \in Request : born[r] = s}

WindowInv ==
  /\ \A s \in LastSeconds : DispatchedIn(s) <= Read(s)
  /\ \A s \in LastSeconds : s # second => Read(s) <= DispatchedIn(s) + lateAt[s]
  /\ Covered(BornIn(second), countedAt, Values(second), Read(second), DispatchedIn(second) + lateAt[second])

LEMMA ValueType ==
  ASSUME second \in Nat, RingOK(ring), NEW s \in Nat
  PROVE  /\ \A k \in Pair : OneSecond(k, s) \in Nat /\ OneSecond(k, s) = Value(ring, k, s)
         /\ Values(s) \in [Pair -> Nat] /\ Summable(Values(s)) /\ Read(s) \in Nat
<1>1. ASSUME NEW k \in Pair PROVE OneSecond(k, s) \in Nat /\ OneSecond(k, s) = Value(ring, k, s)
  <2>1. s % Window \in 0..(Window - 1)
    BY Places
  <2>2. ring[k][s % Window] \in [sec : -1..second, requests : Nat]
    BY <2>1 DEF RingOK
  <2> QED
    BY <2>2 DEF OneSecond, Value
<1>2. Values(s) \in [Pair -> Nat] /\ Summable(Values(s))
  BY <1>1, RollupsAssumption DEF Values, Summable
<1> QED
  BY <1>1, <1>2, SumType DEF Read

\* Born in some second: finitely many, and dispatched.
LEMMA BornFinite ==
  ASSUME BornOK, IsFiniteSet(Dispatched), stage \in [Request -> {"new", "waiting", "finished"}], NEW s \in Nat
  PROVE  IsFiniteSet(BornIn(s)) /\ BornIn(s) \subseteq Dispatched
         /\ DispatchedIn(s) = Cardinality(BornIn(s)) /\ DispatchedIn(s) \in Nat
<1>1. BornIn(s) \subseteq Dispatched
  BY DEF BornIn, BornOK, Dispatched
<1> QED
  BY <1>1, FS_Subset, FS_CardinalityType DEF BornIn, DispatchedIn

LEMMA SecondsType ==
  ASSUME second \in 0..LastSecond
  PROVE  second \in LastSeconds /\ second \in Nat /\ LastSeconds \subseteq 0..LastSecond /\ LastSeconds \subseteq Nat
BY RollupsAssumption DEF LastSeconds

\* What a step that counts at this second does to the values of the window.
Stays(s) == \A k \in Pair : OneSecond(k, s)' = OneSecond(k, s)

\* Reading is a matter of values.
LEMMA ReadSame ==
  ASSUME NEW s \in Nat, Stays(s)
  PROVE  Values(s)' = Values(s) /\ Read(s)' = Read(s)
BY DEF Stays, Values, Read

\* Steps that leave this second's counts as they are and dispatch nothing.
LEMMA QuietWindow ==
  ASSUME RowsInv, RingInv, AccountInv, WindowInv, second' = second, RingOK(ring)',
         \A s \in LastSeconds : Stays(s),
         born' = born, lateAt' = lateAt,
         DOMAIN countedAt' \subseteq DOMAIN countedAt,
         \A q \in DOMAIN countedAt' : countedAt'[q] = countedAt[q]
  PROVE  WindowInv'
<1>1. second \in LastSeconds /\ second \in Nat /\ LastSeconds \subseteq Nat /\ LastSeconds' = LastSeconds
      /\ LastSeconds \subseteq 0..LastSecond
  BY SecondsType DEF RowsInv, LastSeconds
<1>2. \A s \in LastSeconds : Read(s)' = Read(s) /\ DispatchedIn(s)' = DispatchedIn(s) /\ BornIn(s)' = BornIn(s)
                             /\ Values(s)' = Values(s)
  BY <1>1, ReadSame DEF DispatchedIn, BornIn
<1> DEFINE late == DispatchedIn(second) + lateAt[second]
<1>3. /\ IsFiniteSet(BornIn(second)) /\ Values(second) \in [Pair -> Nat] /\ Read(second) \in Int
      /\ late \in Int
  BY <1>1, BornFinite, ValueType DEF RingInv, BornOK, RowsInv, AccountInv
<1>4. Covered(BornIn(second), countedAt, Values(second), Read(second), late)
  BY DEF WindowInv
<1> HIDE DEF late
<1>5. Covered(BornIn(second), countedAt', Values(second), Read(second), late)
  BY <1>3, <1>4, CoveredLess
<1>6. Covered(BornIn(second), countedAt, Values(second), Read(second), DispatchedIn(second) + lateAt[second])'
  BY <1>1, <1>2, <1>5 DEF late
<1>7. \A s \in LastSeconds' : DispatchedIn(s)' <= Read(s)'
  BY <1>1, <1>2 DEF WindowInv
<1>8. \A s \in LastSeconds' : s # second' => Read(s)' <= DispatchedIn(s)' + lateAt'[s]
  BY <1>1, <1>2 DEF WindowInv
<1> QED
  BY <1>6, <1>7, <1>8 DEF WindowInv

LEMMA DispatchWindow ==
  ASSUME RowsInv, RingInv, AccountInv, WindowInv, NEW r \in Request, NEW k \in Pair, CountDispatch(r, k)
  PROVE  RingInv' /\ WindowInv'
<1> DEFINE base == Fresh(Evicted({k}))
<1> DEFINE new == AddRequests(base, k, 1)
<1>1. second \in LastSeconds /\ second \in Nat /\ LastSeconds \subseteq Nat /\ LastSeconds \subseteq 0..LastSecond
  BY SecondsType DEF RowsInv
<1>2. /\ second' = second /\ LastSeconds' = LastSeconds /\ lateAt' = lateAt /\ ring' = new
      /\ TouchPairs({k}) /\ born' = [born EXCEPT ![r] = second] /\ stage[r] = "new"
      /\ stage' = [stage EXCEPT ![r] = "waiting"]
  BY DEF CountDispatch, LastSeconds
<1>3. Evicted({k}) \subseteq IdlePairs
  BY DEF Evicted
<1>4. /\ RingOK(base)
      /\ \A j \in Pair, s \in LastSeconds : Value(base, j, s) = OneSecond(j, s)
  BY <1>1, <1>3, EvictOK
<1> HIDE DEF base
<1>5. /\ RingOK(new)
      /\ Value(new, k, second) = Floor(Value(base, k, second) + 1)
      /\ \A j \in Pair, s \in LastSeconds : j # k \/ s # second => Value(new, j, s) = Value(base, j, s)
      /\ \A j \in Pair : j # k => new[j] = base[j]
  BY <1>1, <1>4, AddRequestsOK
<1> HIDE DEF new
<1>6. RingOK(ring)' /\ ActiveOK(ring, activeAt)'
  <2>1. \A j \in Pair \ {k} : ring'[j] = Fresh(Evicted({k}))[j]
    BY <1>2, <1>5 DEF base
  <2>2. RingOK(ring')
    BY <1>2, <1>5
  <2> QED
    BY <1>1, <1>2, <2>1, <2>2, TouchOK
<1>7. BornOK'
  BY <1>1, <1>2 DEF RingInv, BornOK, RowsInv
<1>8. PICK now : now = second
  OBVIOUS
<1>9. now \in LastSeconds /\ now \in Nat /\ now = second'
  BY <1>1, <1>2, <1>8
<1>10. /\ OneSecond(k, now)' = OneSecond(k, now) + 1
       /\ \A j \in Pair, s \in LastSeconds : j # k \/ s # now => OneSecond(j, s)' = OneSecond(j, s)
       /\ OneSecond(k, now) \in Nat
  <2>1. OneSecond(k, now) \in Nat
    BY <1>1, <1>8, ValueType DEF RingInv
  <2>2. \A j, s : OneSecond(j, s)' = Value(new, j, s)
    BY <1>2 DEF OneSecond, Value
  <2>3. Value(new, k, now) = OneSecond(k, now) + 1
    BY <1>1, <1>4, <1>5, <1>8, <2>1 DEF Floor
  <2>4. \A j \in Pair, s \in LastSeconds : j # k \/ s # now => Value(new, j, s) = OneSecond(j, s)
    BY <1>4, <1>5, <1>8
  <2> QED
    BY <2>1, <2>2, <2>3, <2>4
<1>11. /\ Values(now) \in [Pair -> Nat] /\ Summable(Values(now)) /\ Read(now) \in Nat
       /\ \A j \in Pair : Values(now)[j] = OneSecond(j, now) /\ OneSecond(j, now) \in Nat
  BY <1>1, <1>9, ValueType DEF RingInv, Values
<1>12. /\ DOMAIN Values(now)' = Pair /\ Summable(Values(now)')
       /\ Values(now)'[k] = Values(now)[k] + 1
       /\ \A j \in Pair \ {k} : Values(now)'[j] = Values(now)[j]
  <2>1. DOMAIN Values(now)' = Pair /\ \A j \in Pair : Values(now)'[j] = OneSecond(j, now)'
    BY DEF Values
  <2>2. \A j \in Pair : OneSecond(j, now)' = IF j = k THEN OneSecond(j, now) + 1 ELSE OneSecond(j, now)
    BY <1>9, <1>10
  <2> QED
    BY <1>11, <2>1, <2>2, RollupsAssumption DEF Summable
<1>13. Read(now)' = Read(now) + 1 /\ \A s \in LastSeconds : s # now => Read(s)' = Read(s)
  <2>2. \A j : j # k => At(Values(now), j) = At(Values(now)', j)
    BY <1>11, <1>12 DEF At
  <2>3. At(Values(now)', k) = At(Values(now), k) + 1 /\ At(Values(now), k) \in Nat
    BY <1>11, <1>12 DEF At
  <2>4. /\ Sum(Values(now)') + At(Values(now), k) = Sum(Values(now)) + At(Values(now)', k)
        /\ Sum(Values(now)') \in Nat
    BY <1>11, <1>12, <2>2, SumChange
  <2>5. Sum(Values(now)') = Sum(Values(now)) + 1
    BY <1>11, <2>3, <2>4 DEF Read
  <2>6. Read(now)' = Sum(Values(now)')
    BY DEF Read
  <2>7. ASSUME NEW s \in LastSeconds, s # now PROVE Read(s)' = Read(s)
    BY <1>1, <1>10, <2>7, ReadSame DEF Stays
  <2> QED
    BY <2>5, <2>6, <2>7 DEF Read
<1>14. /\ r \notin BornIn(now) /\ BornIn(now)' = BornIn(now) \cup {r}
       /\ \A s \in LastSeconds : s # now => BornIn(s)' = BornIn(s)
       /\ r \notin DOMAIN countedAt
  BY <1>1, <1>2, <1>8 DEF RingInv, BornOK, BornIn, RowsInv
<1>15. IsFiniteSet(BornIn(now)) /\ \A s \in LastSeconds : DispatchedIn(s) = Cardinality(BornIn(s)) /\ DispatchedIn(s) \in Nat
  BY <1>1, <1>9, BornFinite DEF RingInv, RowsInv, AccountInv
<1>16. \A s \in LastSeconds : DispatchedIn(s)' = IF s = now THEN DispatchedIn(s) + 1 ELSE DispatchedIn(s)
  <2>1. Cardinality(BornIn(now)') = Cardinality(BornIn(now)) + 1
    BY <1>14, <1>15, FS_AddElement
  <2>2. \A s : DispatchedIn(s)' = Cardinality(BornIn(s)')
    BY DEF DispatchedIn, BornIn
  <2> QED
    BY <1>9, <1>14, <1>15, <2>1, <2>2
<1>17. /\ DOMAIN countedAt' = DOMAIN countedAt \cup {r} /\ countedAt'[r] = k
       /\ \A q \in DOMAIN countedAt : countedAt'[q] = countedAt[q]
  BY <1>14 DEF CountDispatch
<1> DEFINE late == DispatchedIn(now) + lateAt[now]
<1>18. /\ late \in Int /\ Covered(BornIn(now), countedAt, Values(now), Read(now), late)
       /\ DispatchedIn(now)' + lateAt'[now] = late + 1
  <2>1. lateAt[now] \in Nat
    BY <1>1, <1>9 DEF RingInv, BornOK
  <2>2. Covered(BornIn(now), countedAt, Values(now), Read(now), late)
    BY <1>8 DEF WindowInv
  <2> QED
    BY <1>2, <1>9, <1>15, <1>16, <2>1, <2>2
<1> HIDE DEF late
<1>19. Covered(BornIn(now) \cup {r}, countedAt', Values(now)', Read(now) + 1, late + 1)
  BY <1>11, <1>12, <1>14, <1>15, <1>17, <1>18, CoveredNew
<1>20. Covered(BornIn(second), countedAt, Values(second), Read(second), DispatchedIn(second) + lateAt[second])'
  <2>1. Covered(BornIn(now)', countedAt', Values(now)', Read(now)', DispatchedIn(now)' + lateAt'[now])
    BY <1>13, <1>14, <1>18, <1>19
  <2>2. Covered(BornIn(now), countedAt, Values(now), Read(now), DispatchedIn(now) + lateAt[now])'
    BY <2>1
  <2> QED
    BY <1>9, <2>2
<1>21. \A s \in LastSeconds' : DispatchedIn(s)' <= Read(s)'
  BY <1>1, <1>2, <1>11, <1>13, <1>15, <1>16 DEF WindowInv
<1>22. \A s \in LastSeconds' : s # second' => Read(s)' <= DispatchedIn(s)' + lateAt'[s]
  BY <1>1, <1>2, <1>8, <1>13, <1>16 DEF WindowInv
<1> QED
  BY <1>6, <1>7, <1>20, <1>21, <1>22 DEF WindowInv, RingInv

LEMMA MoveWindow ==
  ASSUME RowsInv, RingInv, AccountInv, WindowInv, NEW r \in Request, NEW k \in Pair, CountMove(r, k)
  PROVE  RingInv' /\ WindowInv'
<1>0. PICK old : old = countedAt[r]
  OBVIOUS
<1> DEFINE K == {old, k}
<1> DEFINE base == Fresh(Evicted(K))
<1> DEFINE mid == AddRequests(base, old, -1)
<1> DEFINE new == AddRequests(mid, k, 1)
<1>1. second \in LastSeconds /\ second \in Nat /\ LastSeconds \subseteq Nat /\ LastSeconds \subseteq 0..LastSecond
  BY SecondsType DEF RowsInv
<1>2. /\ second' = second /\ LastSeconds' = LastSeconds /\ stage' = stage /\ ring' = new
      /\ TouchPairs(K) /\ born' = born
      /\ lateAt' = IF born[r] < second THEN [lateAt EXCEPT ![second] = @ + 1] ELSE lateAt
      /\ countedAt' = [countedAt EXCEPT ![r] = k]
  BY <1>0 DEF CountMove, LastSeconds, MoveBucket
<1>3. r \in DOMAIN countedAt /\ old \in Pair /\ k # old /\ K \subseteq Pair
  BY <1>0 DEF CountMove, RowsInv
<1>4. Evicted(K) \subseteq IdlePairs
  BY DEF Evicted
<1>5. /\ RingOK(base)
      /\ \A j \in Pair, s \in LastSeconds : Value(base, j, s) = OneSecond(j, s)
  BY <1>1, <1>4, EvictOK
<1> HIDE DEF base
<1>6. /\ RingOK(mid)
      /\ Value(mid, old, second) = Floor(Value(base, old, second) + (-1))
      /\ \A j \in Pair, s \in LastSeconds : j # old \/ s # second => Value(mid, j, s) = Value(base, j, s)
      /\ \A j \in Pair : j # old => mid[j] = base[j]
  <2>1. -1 \in Int
    OBVIOUS
  <2> QED
    BY <1>1, <1>3, <1>5, <2>1, AddRequestsOK
<1> HIDE DEF mid
<1>7. /\ RingOK(new)
      /\ Value(new, k, second) = Floor(Value(mid, k, second) + 1)
      /\ \A j \in Pair, s \in LastSeconds : j # k \/ s # second => Value(new, j, s) = Value(mid, j, s)
      /\ \A j \in Pair : j # k => new[j] = mid[j]
  BY <1>1, <1>6, AddRequestsOK
<1> HIDE DEF new
<1>8. RingOK(ring)' /\ ActiveOK(ring, activeAt)'
  <2>1. \A j \in Pair \ K : ring'[j] = Fresh(Evicted(K))[j]
    BY <1>2, <1>6, <1>7 DEF base
  <2>2. RingOK(ring')
    BY <1>2, <1>7
  <2> HIDE DEF K
  <2> QED
    BY <1>1, <1>2, <1>3, <2>1, <2>2, TouchOK
<1>9. BornOK'
  BY <1>1, <1>2 DEF RingInv, BornOK, RowsInv
<1>10. PICK now : now = second
  OBVIOUS
<1>11. now \in LastSeconds /\ now \in Nat /\ now = second'
  BY <1>1, <1>2, <1>10
<1>12. /\ Values(now) \in [Pair -> Nat] /\ Summable(Values(now)) /\ Read(now) \in Nat
       /\ \A j \in Pair : Values(now)[j] = OneSecond(j, now) /\ OneSecond(j, now) \in Nat
  BY <1>1, <1>11, ValueType DEF RingInv, Values
<1> DEFINE taken == IF Values(now)[old] > 0 THEN 1 ELSE 0
<1>13. taken \in {0, 1} /\ taken <= Values(now)[old]
  BY <1>3, <1>12
<1>14. /\ OneSecond(old, now)' = OneSecond(old, now) - taken
       /\ OneSecond(k, now)' = OneSecond(k, now) + 1
       /\ \A j \in Pair, s \in LastSeconds : j \notin {old, k} \/ s # now => OneSecond(j, s)' = OneSecond(j, s)
  <2>2. \A j, s : OneSecond(j, s)' = Value(new, j, s)
    BY <1>2 DEF OneSecond, Value
  <2>3. Value(new, old, now) = OneSecond(old, now) - taken
    BY <1>1, <1>3, <1>5, <1>6, <1>7, <1>10, <1>12 DEF Floor
  <2>4. Value(new, k, now) = OneSecond(k, now) + 1
    BY <1>1, <1>3, <1>5, <1>6, <1>7, <1>10, <1>12 DEF Floor
  <2>5. \A j \in Pair, s \in LastSeconds : j \notin {old, k} \/ s # now => Value(new, j, s) = OneSecond(j, s)
    BY <1>5, <1>6, <1>7, <1>10
  <2> HIDE DEF taken
  <2> QED
    BY <2>2, <2>3, <2>4, <2>5
<1>15. countedAt[r] = old /\ taken = IF Values(now)[old] > 0 THEN 1 ELSE 0
  BY <1>0
<1> HIDE DEF K, taken
<1>16. /\ DOMAIN Values(now)' = Pair /\ Values(now)' \in [Pair -> Nat] /\ Summable(Values(now)')
       /\ Values(now)'[old] = Values(now)[old] - taken
       /\ Values(now)'[k] = Values(now)[k] + 1
       /\ \A j \in Pair \ {old, k} : Values(now)'[j] = Values(now)[j]
  <2>1. /\ DOMAIN Values(now)' = Pair /\ \A j \in Pair : Values(now)'[j] = OneSecond(j, now)'
        /\ Values(now)' = [j \in Pair |-> Values(now)'[j]]
    BY DEF Values
  <2>2. \A j \in Pair \ {old, k} : OneSecond(j, now)' = OneSecond(j, now)
    BY <1>11, <1>14
  <2>3. /\ Values(now)'[old] = Values(now)[old] - taken /\ Values(now)'[k] = Values(now)[k] + 1
        /\ \A j \in Pair \ {old, k} : Values(now)'[j] = Values(now)[j]
    BY <1>3, <1>12, <1>14, <2>1, <2>2
  <2>4. \A j \in Pair : Values(now)'[j] \in Nat
    BY <1>3, <1>12, <1>13, <2>3
  <2> QED
    BY <2>1, <2>3, <2>4, RollupsAssumption DEF Summable
<1>17. Read(now)' = Read(now) + 1 - taken
  <2> DEFINE less == [j \in Pair |-> IF j = old THEN Values(now)[j] - taken ELSE Values(now)[j]]
  <2>1. Summable(less)
    BY <1>12, <1>13, RollupsAssumption DEF Summable
  <2>2. /\ At(less, old) = At(Values(now), old) - taken /\ At(Values(now), old) \in Nat
        /\ \A j : j # old => At(Values(now), j) = At(less, j)
    BY <1>3, <1>12 DEF At
  <2>3. /\ At(Values(now)', k) = At(less, k) + 1 /\ At(less, k) \in Nat
        /\ \A j : j # k => At(less, j) = At(Values(now)', j)
    <3>1. Values(now)'[k] = less[k] + 1 /\ less[k] \in Nat
      BY <1>3, <1>12, <1>16
    <3>2. \A j \in Pair : j # k => less[j] = Values(now)'[j]
      BY <1>3, <1>12, <1>16
    <3>3. DOMAIN Values(now)' = Pair /\ DOMAIN less = Pair
      BY <1>16
    <3> HIDE DEF less
    <3> QED
      BY <1>3, <3>1, <3>2, <3>3 DEF At
  <2> HIDE DEF less
  <2>4. Sum(less) + At(Values(now), old) = Sum(Values(now)) + At(less, old) /\ Sum(less) \in Nat
    BY <1>12, <2>1, <2>2, SumChange
  <2>5. Sum(Values(now)') + At(less, k) = Sum(less) + At(Values(now)', k) /\ Sum(Values(now)') \in Nat
    BY <1>16, <2>1, <2>3, SumChange
  <2>6. Sum(less) = Read(now) - taken
    BY <1>12, <1>13, <2>2, <2>4 DEF Read
  <2>7. Sum(Values(now)') = Sum(less) + 1
    BY <2>3, <2>4, <2>5
  <2>8. Read(now)' = Sum(Values(now)')
    BY DEF Read
  <2> QED
    BY <1>12, <1>13, <2>6, <2>7, <2>8
<1>18. \A s \in LastSeconds : s # now => Read(s)' = Read(s)
  BY <1>1, <1>14, ReadSame DEF Stays
<1>19. \A s \in LastSeconds : BornIn(s)' = BornIn(s) /\ DispatchedIn(s)' = DispatchedIn(s) /\ DispatchedIn(s) \in Nat
  BY <1>1, <1>2, BornFinite DEF BornIn, DispatchedIn, RingInv, RowsInv, AccountInv
<1>20. IsFiniteSet(BornIn(now))
  BY <1>11, BornFinite DEF RingInv, RowsInv, AccountInv
<1> DEFINE late == DispatchedIn(now) + lateAt[now]
<1> DEFINE late2 == DispatchedIn(now)' + lateAt'[now]
<1>21. /\ late \in Int /\ Covered(BornIn(now), countedAt, Values(now), Read(now), late)
       /\ late2 = IF r \in BornIn(now) THEN late ELSE late + 1
  <2>1. lateAt[now] \in Nat /\ now \in DOMAIN lateAt
    BY <1>1, <1>11 DEF RingInv, BornOK
  <2>2. r \in BornIn(now) <=> ~ born[r] < second
    BY <1>1, <1>10 DEF RingInv, BornOK, BornIn
  <2>3. lateAt'[now] = IF r \in BornIn(now) THEN lateAt[now] ELSE lateAt[now] + 1
    BY <1>2, <1>10, <2>1, <2>2
  <2>4. Covered(BornIn(now), countedAt, Values(now), Read(now), late)
    BY <1>10 DEF WindowInv
  <2> QED
    BY <1>11, <1>19, <2>1, <2>3, <2>4
<1> HIDE DEF late, late2
<1>22. /\ DOMAIN countedAt' = DOMAIN countedAt /\ countedAt'[r] = k
       /\ \A q \in DOMAIN countedAt : q # r => countedAt'[q] = countedAt[q]
  BY <1>2, <1>3
<1>23. late2 \in Int /\ Read(now)' \in Int /\ Read(now) \in Int
  BY <1>12, <1>13, <1>17, <1>21
<1>24. Covered(BornIn(now), countedAt', Values(now)', Read(now)', late2)
  BY <1>3, <1>12, <1>15, <1>16, <1>17, <1>20, <1>21, <1>22, <1>23, CoveredMove
<1>25. Covered(BornIn(second), countedAt, Values(second), Read(second), DispatchedIn(second) + lateAt[second])'
  <2>1. Covered(BornIn(now)', countedAt', Values(now)', Read(now)', DispatchedIn(now)' + lateAt'[now])
    BY <1>11, <1>19, <1>24 DEF late2
  <2>2. Covered(BornIn(now), countedAt, Values(now), Read(now), DispatchedIn(now) + lateAt[now])'
    BY <2>1
  <2> QED
    BY <1>11, <2>2
<1>26. \A s \in LastSeconds' : DispatchedIn(s)' <= Read(s)'
  <2>1. \A s \in LastSeconds : DispatchedIn(s) <= Read(s)
    BY DEF WindowInv
  <2>2. Read(now)' >= Read(now)
    BY <1>12, <1>13, <1>17
  <2> QED
    BY <1>1, <1>2, <1>12, <1>18, <1>19, <1>23, <2>1, <2>2
<1>27. \A s \in LastSeconds' : s # second' => Read(s)' <= DispatchedIn(s)' + lateAt'[s]
  <2>1. \A s \in LastSeconds : s # second => lateAt'[s] = lateAt[s]
    BY <1>1, <1>2 DEF RingInv, BornOK
  <2> QED
    BY <1>1, <1>2, <1>10, <1>18, <1>19, <2>1 DEF WindowInv
<1> QED
  BY <1>8, <1>9, <1>25, <1>26, <1>27 DEF WindowInv, RingInv

\* The end of a request resets its bucket, if that is of an earlier lap, and
\* counts nothing.
LEMMA EndWindow ==
  ASSUME RowsInv, RingInv, AccountInv, WindowInv, NEW r \in Request, CountEnd(r)
  PROVE  RingInv' /\ WindowInv'
<1>0. PICK k : k = countedAt[r]
  OBVIOUS
<1> DEFINE base == Fresh(Evicted({k}))
<1> DEFINE new == AddRequests(base, k, 0)
<1>1. second \in LastSeconds /\ second \in Nat /\ LastSeconds \subseteq Nat
  BY SecondsType DEF RowsInv
<1>2. /\ second' = second /\ ring' = new /\ k \in Pair /\ born' = born /\ lateAt' = lateAt
      /\ TouchPairs({k}) /\ stage' = [stage EXCEPT ![r] = "finished"]
      /\ DOMAIN countedAt' \subseteq DOMAIN countedAt /\ \A q \in DOMAIN countedAt' : countedAt'[q] = countedAt[q]
  BY <1>0 DEF CountEnd, RowsInv, historyVars, Restrict
<1>3. Evicted({k}) \subseteq IdlePairs
  BY DEF Evicted
<1>4. /\ RingOK(base)
      /\ \A j \in Pair, s \in LastSeconds : Value(base, j, s) = OneSecond(j, s)
  BY <1>1, <1>3, EvictOK
<1> HIDE DEF base
<1>5. /\ RingOK(new)
      /\ Value(new, k, second) = Floor(Value(base, k, second) + 0)
      /\ \A j \in Pair, s \in LastSeconds : j # k \/ s # second => Value(new, j, s) = Value(base, j, s)
      /\ \A j \in Pair : j # k => new[j] = base[j]
  BY <1>1, <1>2, <1>4, AddRequestsOK
<1> HIDE DEF new
<1>6. RingOK(ring)' /\ ActiveOK(ring, activeAt)'
  <2>1. \A j \in Pair \ {k} : ring'[j] = Fresh(Evicted({k}))[j]
    BY <1>2, <1>5 DEF base
  <2>2. RingOK(ring')
    BY <1>2, <1>5
  <2> QED
    BY <1>1, <1>2, <2>1, <2>2, TouchOK
<1>7. BornOK'
  BY <1>1, <1>2 DEF RingInv, BornOK, RowsInv
<1>8. \A s \in LastSeconds : Stays(s)
  <2> SUFFICES ASSUME NEW s \in LastSeconds, NEW j \in Pair PROVE OneSecond(j, s)' = OneSecond(j, s)
    BY DEF Stays
  <2>1. OneSecond(j, s) \in Nat
    BY <1>1, ValueType DEF RingInv
  <2>2. OneSecond(j, s)' = Value(new, j, s)
    BY <1>2 DEF OneSecond, Value
  <2> QED
    BY <1>4, <1>5, <2>1, <2>2 DEF Floor
<1>9. WindowInv'
  BY <1>2, <1>6, <1>8, QuietWindow
<1> QED
  BY <1>6, <1>7, <1>9 DEF RingInv

LEMMA EvictWindow ==
  ASSUME RowsInv, RingInv, AccountInv, WindowInv, EvictIdle
  PROVE  RingInv' /\ WindowInv'
<1>1. second \in LastSeconds /\ second \in Nat /\ LastSeconds \subseteq Nat
  BY SecondsType DEF RowsInv
<1>2. /\ second' = second /\ ring' = Fresh(IdlePairs) /\ born' = born /\ lateAt' = lateAt
      /\ stage' = stage /\ countedAt' = countedAt
      /\ DOMAIN activeAt' = DOMAIN activeAt \ IdlePairs
      /\ \A k \in DOMAIN activeAt' : activeAt'[k] = activeAt[k]
  BY DEF EvictIdle, historyVars, Restrict
<1>3. /\ RingOK(ring')
      /\ \A k \in Pair, s \in LastSeconds : Value(ring', k, s) = OneSecond(k, s)
      /\ \A k \in Pair : ring'[k] = IF k \in IdlePairs THEN NoRing ELSE ring[k]
  BY <1>1, <1>2, EvictOK
<1>4. RingOK(ring)'
  BY <1>2, <1>3 DEF RingOK
<1>5. ActiveOK(ring, activeAt)'
  BY <1>2, <1>3 DEF ActiveOK, RingInv
<1>6. BornOK'
  BY <1>2 DEF RingInv, BornOK
<1>7. \A s \in LastSeconds : Stays(s)
  <2> SUFFICES ASSUME NEW s \in LastSeconds, NEW j \in Pair PROVE OneSecond(j, s)' = OneSecond(j, s)
    BY DEF Stays
  <2>1. OneSecond(j, s)' = Value(ring', j, s)
    BY DEF OneSecond, Value
  <2> QED
    BY <1>3, <2>1
<1>8. WindowInv'
  BY <1>2, <1>4, <1>7, QuietWindow
<1> QED
  BY <1>4, <1>5, <1>6, <1>8 DEF RingInv

\* Steps about rows alone.
LEMMA RestWindow ==
  ASSUME RowsInv, RingInv, AccountInv, WindowInv,
         UNCHANGED <<second, ring, activeAt, stage, countedAt, born, lateAt>>
  PROVE  RingInv' /\ WindowInv'
<1>1. RingInv'
  BY DEF RingInv, RingOK, ActiveOK, BornOK
<1>2. \A s \in LastSeconds : Stays(s)
  BY DEF Stays, OneSecond
<1>3. RingOK(ring)'
  BY <1>1 DEF RingInv
<1>4. WindowInv'
  BY <1>2, <1>3, QuietWindow
<1> QED
  BY <1>1, <1>4

LEMMA CrashWindow ==
  ASSUME RowsInv, RowsInv', RingInv, Crash
  PROVE  RingInv' /\ WindowInv'
<1>1. second \in LastSeconds /\ second \in Nat /\ LastSeconds \subseteq Nat /\ LastSeconds \subseteq 0..LastSecond
  BY SecondsType DEF RowsInv
<1>2. /\ second' = second /\ LastSeconds' = LastSeconds /\ ring' = [k \in Pair |-> NoRing]
      /\ activeAt' = [k \in {} |-> 0] /\ born' = [r \in Request |-> -1] /\ lateAt' = lateAt
  BY DEF Crash, LastSeconds
<1>3. RingOK(ring)'
  BY <1>1, <1>2, NoRingOK DEF RingOK
<1>4. ActiveOK(ring, activeAt)'
  <2>1. DOMAIN activeAt' = {}
    BY <1>2
  <2> QED
    BY <1>2, <2>1 DEF ActiveOK
<1>5. BornOK'
  <2>1. born' \in [Request -> -1..second]
    BY <1>1, <1>2
  <2> QED
    BY <1>2, <2>1 DEF RingInv, BornOK
<1>6. \A s \in LastSeconds, k \in Pair : OneSecond(k, s)' = 0
  <2> SUFFICES ASSUME NEW s \in LastSeconds, NEW k \in Pair PROVE OneSecond(k, s)' = 0
    OBVIOUS
  <2>1. s % Window \in 0..(Window - 1) /\ s \in Nat
    BY <1>1, Places
  <2>2. ring'[k][s % Window].sec = -1
    BY <1>1, <1>2, <2>1, NoRingOK
  <2> QED
    BY <2>1, <2>2 DEF OneSecond
<1>7. \A s \in LastSeconds : Read(s)' = 0 /\ Values(s)' \in [Pair -> Nat]
  <2> SUFFICES ASSUME NEW s \in LastSeconds PROVE Read(s)' = 0 /\ Values(s)' \in [Pair -> Nat]
    OBVIOUS
  <2>1. DOMAIN Values(s)' = Pair /\ (\A k \in Pair : Values(s)'[k] = 0) /\ Values(s)' = [k \in Pair |-> Values(s)'[k]]
    BY <1>6 DEF Values
  <2>2. Sum(Values(s)') = 0
    BY <2>1, SumNone
  <2>3. Read(s)' = Sum(Values(s)')
    BY DEF Read
  <2> QED
    BY <2>1, <2>2, <2>3
<1>8. \A s \in LastSeconds : BornIn(s)' = {} /\ DispatchedIn(s)' = 0
  <2> SUFFICES ASSUME NEW s \in LastSeconds PROVE BornIn(s)' = {} /\ DispatchedIn(s)' = 0
    OBVIOUS
  <2>1. BornIn(s)' = {}
    BY <1>1, <1>2 DEF BornIn
  <2> QED
    BY <2>1, FS_EmptySet DEF BornIn, DispatchedIn
<1>9. PICK now : now = second
  OBVIOUS
<1>10. now \in LastSeconds /\ now = second' /\ lateAt[now] \in Nat
  BY <1>1, <1>2, <1>9 DEF RingInv, BornOK
<1>11. Covered({}, countedAt', Values(now)', 0, lateAt[now])
  BY <1>7, <1>10, CoveredNone
<1>12. Covered(BornIn(second), countedAt, Values(second), Read(second), DispatchedIn(second) + lateAt[second])'
  <2>0. /\ BornIn(now)' = {} /\ Read(now)' = 0
        /\ DispatchedIn(now)' + lateAt'[now] = lateAt[now]
    <3>1. DispatchedIn(now)' = 0 /\ lateAt'[now] = lateAt[now]
      BY <1>2, <1>8, <1>10
    <3>2. BornIn(now)' = {} /\ Read(now)' = 0
      BY <1>7, <1>8, <1>10
    <3> QED
      BY <1>10, <3>1, <3>2
  <2>1. Covered(BornIn(now)', countedAt', Values(now)', Read(now)', DispatchedIn(now)' + lateAt'[now])
    BY <1>11, <2>0
  <2>2. Covered(BornIn(now), countedAt, Values(now), Read(now), DispatchedIn(now) + lateAt[now])'
    BY <2>1
  <2> QED
    BY <1>10, <2>2
<1>13. \A s \in LastSeconds' : DispatchedIn(s)' <= Read(s)' /\ Read(s)' <= DispatchedIn(s)' + lateAt'[s]
  <2> SUFFICES ASSUME NEW s \in LastSeconds
               PROVE  DispatchedIn(s)' <= Read(s)' /\ Read(s)' <= DispatchedIn(s)' + lateAt'[s]
    BY <1>2
  <2>1. lateAt'[s] \in Nat
    BY <1>1, <1>2 DEF RingInv, BornOK
  <2>2. DispatchedIn(s)' = 0 /\ Read(s)' = 0
    BY <1>7, <1>8
  <2> QED
    BY <2>1, <2>2
<1> QED
  BY <1>3, <1>4, <1>5, <1>12, <1>13 DEF RingInv, WindowInv

\* A covered second is not read too high.
LEMMA CoveredBound ==
  ASSUME NEW F, IsFiniteSet(F), NEW w, NEW c, NEW n \in Int, NEW s \in Int, Covered(F, w, c, n, s)
  PROVE  n <= s
<1>1. PICK D : Covers(F, w, c, n, s, D)
  BY DEF Covered
<1>2. Cardinality(D) \in Nat /\ n + Cardinality(D) <= s
  BY <1>1, FS_Subset, FS_CardinalityType DEF Covers
<1> QED
  BY <1>2

LEMMA ReadBound ==
  ASSUME RowsInv, RingInv, AccountInv, WindowInv, NEW s \in LastSeconds
  PROVE  DispatchedIn(s) <= Read(s) /\ Read(s) <= DispatchedIn(s) + lateAt[s]
<1>1. second \in LastSeconds /\ second \in Nat /\ LastSeconds \subseteq Nat /\ LastSeconds \subseteq 0..LastSecond
  BY SecondsType DEF RowsInv
<1>2. /\ IsFiniteSet(BornIn(second)) /\ Read(second) \in Int /\ DispatchedIn(second) \in Nat /\ lateAt[second] \in Nat
  BY <1>1, BornFinite, ValueType DEF RingInv, BornOK, RowsInv, AccountInv
<1> DEFINE late == DispatchedIn(second) + lateAt[second]
<1>3. late \in Int /\ Covered(BornIn(second), countedAt, Values(second), Read(second), late)
  BY <1>2 DEF WindowInv
<1> HIDE DEF late
<1>4. Read(second) <= late
  BY <1>2, <1>3, CoveredBound
<1> QED
  BY <1>4 DEF WindowInv, late

LEMMA SecondWindow ==
  ASSUME RowsInv, RowsInv', RingInv, AccountInv, WindowInv, NextSecond
  PROVE  RingInv' /\ WindowInv'
<1>1. second \in LastSeconds /\ second \in Nat /\ LastSeconds \subseteq Nat /\ LastSeconds \subseteq 0..LastSecond
  BY SecondsType DEF RowsInv
<1>2. /\ second' = second + 1 /\ UNCHANGED <<ring, activeAt, stage, countedAt, born, lateAt>>
      /\ second' \in 0..LastSecond
  BY DEF NextSecond, storeVars, RowsInv
<1>3. RingOK(ring)'
  <2>1. \A k \in Pair, i \in 0..(Window - 1) : ring[k][i] \in [sec : -1..second', requests : Nat]
    <3> SUFFICES ASSUME NEW k \in Pair, NEW i \in 0..(Window - 1) PROVE ring[k][i] \in [sec : -1..second', requests : Nat]
      OBVIOUS
    <3>1. ring[k][i] \in [sec : -1..second, requests : Nat]
      BY DEF RingInv, RingOK
    <3> QED
      BY <1>1, <1>2, <3>1
  <2>2. ring \in [Pair -> [0..(Window - 1) -> [sec : -1..second', requests : Nat]]]
    <3>1. ring \in [Pair -> [0..(Window - 1) -> [sec : -1..second, requests : Nat]]]
      BY DEF RingInv, RingOK
    <3> QED
      BY <2>1, <3>1
  <2> QED
    BY <1>2, <2>2 DEF RingInv, RingOK
<1>4. ActiveOK(ring, activeAt)'
  BY <1>1, <1>2 DEF RingInv, ActiveOK
<1>5. BornOK'
  BY <1>1, <1>2 DEF RingInv, BornOK
<1>6. PICK now : now = second'
  OBVIOUS
<1>7. /\ now \in Nat /\ now = second + 1 /\ now \in 0..LastSecond
      /\ \A s \in LastSeconds' : s = now \/ s \in LastSeconds
  <2>1. now \in Nat /\ now = second + 1 /\ now \in 0..LastSecond
    BY <1>1, <1>2, <1>6
  <2>2. ASSUME NEW s \in LastSeconds' PROVE s = now \/ s \in LastSeconds
    <3>1. s \in 0..now /\ s > now - Window
      BY <1>6 DEF LastSeconds
    <3>2. s = now \/ (s \in 0..second /\ s > second - Window)
      BY <1>1, <2>1, <3>1, RollupsAssumption
    <3> QED
      BY <3>2 DEF LastSeconds
  <2> QED
    BY <2>1, <2>2
<1>8. \A k \in Pair : OneSecond(k, now) = 0
  <2> SUFFICES ASSUME NEW k \in Pair PROVE OneSecond(k, now) = 0
    OBVIOUS
  <2>1. ring[k][now % Window] \in [sec : -1..second, requests : Nat]
    BY <1>7, Places DEF RingInv, RingOK
  <2>2. ring[k][now % Window].sec # now
    BY <1>1, <1>7, <2>1
  <2> QED
    BY <2>2 DEF OneSecond
<1>9. Read(now) = 0 /\ Values(now) \in [Pair -> Nat]
  <2>1. DOMAIN Values(now) = Pair /\ \A k \in Pair : Values(now)[k] = 0
    BY <1>8 DEF Values
  <2> QED
    BY <1>8, <2>1, SumNone DEF Read, Values
<1>10. BornIn(now) = {} /\ DispatchedIn(now) = 0
  <2>1. BornIn(now) = {}
    BY <1>1, <1>7 DEF BornIn, RingInv, BornOK
  <2> QED
    BY <2>1, FS_EmptySet DEF BornIn, DispatchedIn
<1>11. /\ Values(now)' = Values(now) /\ BornIn(now)' = BornIn(now)
       /\ \A s : Read(s)' = Read(s) /\ DispatchedIn(s)' = DispatchedIn(s)
  BY <1>2 DEF Values, Read, OneSecond, BornIn, DispatchedIn
<1>12. lateAt[now] \in Nat
  BY <1>7 DEF RingInv, BornOK
<1>13. Covered({}, countedAt, Values(now), 0, lateAt[now])
  BY <1>9, <1>12, CoveredNone
<1>14. Covered(BornIn(second), countedAt, Values(second), Read(second), DispatchedIn(second) + lateAt[second])'
  <2>1. Covered(BornIn(now)', countedAt', Values(now)', Read(now)', DispatchedIn(now)' + lateAt'[now])
    BY <1>2, <1>9, <1>10, <1>11, <1>12, <1>13
  <2>2. Covered(BornIn(now), countedAt, Values(now), Read(now), DispatchedIn(now) + lateAt[now])'
    BY <2>1
  <2> QED
    BY <1>6, <2>2
<1>15. \A s \in LastSeconds : DispatchedIn(s) <= Read(s) /\ Read(s) <= DispatchedIn(s) + lateAt[s]
  BY ReadBound
<1>16. \A s \in LastSeconds' : DispatchedIn(s)' <= Read(s)'
  BY <1>7, <1>9, <1>10, <1>11, <1>15
<1>17. \A s \in LastSeconds' : s # second' => Read(s)' <= DispatchedIn(s)' + lateAt'[s]
  BY <1>2, <1>6, <1>7, <1>11, <1>15
<1> QED
  BY <1>3, <1>4, <1>5, <1>14, <1>16, <1>17 DEF RingInv, WindowInv

LEMMA WindowInitially == RollupsInit => RingInv /\ WindowInv
<1> SUFFICES ASSUME RollupsInit PROVE RingInv /\ WindowInv
  OBVIOUS
<1>1. /\ second = 0 /\ ring = [k \in Pair |-> NoRing] /\ activeAt = [k \in {} |-> 0]
      /\ born = [r \in Request |-> -1] /\ lateAt = [s \in 0..LastSecond |-> 0]
      /\ countedAt = [r \in {} |-> 0]
  BY DEF RollupsInit
<1>2. second \in Nat /\ second \in 0..LastSecond /\ LastSeconds = {0}
  <2>1. LastSecond \in Nat /\ Window \in Nat \ {0}
    BY RollupsAssumption
  <2>2. 0 \in 0..LastSecond /\ 0 > 0 - Window
    BY <2>1
  <2>3. \A s \in 0..0 : s = 0
    OBVIOUS
  <2>4. LastSeconds = {s \in 0..0 : s > 0 - Window}
    BY <1>1 DEF LastSeconds
  <2> QED
    BY <1>1, <2>2, <2>3, <2>4
<1>3. RingOK(ring)
  BY <1>1, <1>2, NoRingOK DEF RingOK
<1>4. ActiveOK(ring, activeAt)
  <2>1. DOMAIN activeAt = {}
    BY <1>1
  <2> QED
    BY <1>1, <2>1 DEF ActiveOK
<1>5. BornOK
  <2>1. born \in [Request -> -1..second]
    BY <1>1, <1>2
  <2>2. lateAt \in [0..LastSecond -> Nat]
    BY <1>1
  <2> QED
    BY <1>1, <2>1, <2>2 DEF BornOK
<1>6. PICK now : now = second
  OBVIOUS
<1>7. \A k \in Pair : OneSecond(k, now) = 0
  <2> SUFFICES ASSUME NEW k \in Pair PROVE OneSecond(k, now) = 0
    OBVIOUS
  <2>1. now % Window \in 0..(Window - 1) /\ now \in Nat
    BY <1>2, <1>6, Places
  <2>2. ring[k][now % Window].sec = -1
    BY <1>1, <1>2, <2>1, NoRingOK
  <2> QED
    BY <2>1, <2>2 DEF OneSecond
<1>8. Values(now) \in [Pair -> Nat] /\ Read(now) = 0
  <2>1. DOMAIN Values(now) = Pair /\ \A k \in Pair : Values(now)[k] = 0
    BY <1>7 DEF Values
  <2> QED
    BY <1>7, <2>1, SumNone DEF Read, Values
<1>9. BornIn(now) = {} /\ DispatchedIn(now) = 0 /\ lateAt[now] = 0
  <2>1. BornIn(now) = {}
    BY <1>1, <1>6 DEF BornIn
  <2> QED
    BY <1>1, <1>2, <1>6, <2>1, FS_EmptySet DEF BornIn, DispatchedIn
<1>10. DispatchedIn(now) + lateAt[now] = 0
  BY <1>9
<1>11. Covered({}, countedAt, Values(now), 0, 0)
  BY <1>8, CoveredNone
<1>12. Covered(BornIn(now), countedAt, Values(now), Read(now), DispatchedIn(now) + lateAt[now])
  BY <1>8, <1>9, <1>10, <1>11
<1>13. \A s \in LastSeconds : s = now
  BY <1>1, <1>2, <1>6
<1> QED
  BY <1>3, <1>4, <1>5, <1>6, <1>8, <1>9, <1>12, <1>13 DEF RingInv, WindowInv

LEMMA WindowNext ==
  ASSUME RowsInv, RingInv, AccountInv, WindowInv, [RollupsNext]_rollupVars
  PROVE  RingInv' /\ WindowInv'
<1>0. RowsInv'
  BY RowsAndAccountNext
<1>1. ASSUME NEW r \in Request, NEW k \in Pair, CountDispatch(r, k) PROVE RingInv' /\ WindowInv'
  BY <1>1, DispatchWindow
<1>2. ASSUME NEW r \in Request, NEW k \in Pair, CountMove(r, k) PROVE RingInv' /\ WindowInv'
  BY <1>2, MoveWindow
<1>3. ASSUME NEW r \in Request, CountEnd(r) PROVE RingInv' /\ WindowInv'
  BY <1>3, EndWindow
<1>4. ASSUME EvictIdle PROVE RingInv' /\ WindowInv'
  BY <1>4, EvictWindow
<1>5. ASSUME RecordPollMetrics \/ Prune \/ UNCHANGED rollupVars PROVE RingInv' /\ WindowInv'
  <2>1. UNCHANGED <<second, ring, activeAt, stage, countedAt, born, lateAt>>
    BY <1>5 DEF RecordPollMetrics, Prune, rollupVars, historyVars, storeVars
  <2> QED
    BY <2>1, RestWindow
<1>6. ASSUME NEW f \in Flusher, Drain(f) \/ Commit(f) \/ FlushFails(f) PROVE RingInv' /\ WindowInv'
  <2>1. UNCHANGED <<second, ring, activeAt, stage, countedAt, born, lateAt>>
    BY <1>6 DEF Drain, Commit, FlushFails, historyVars, storeVars
  <2> QED
    BY <2>1, RestWindow
<1>7. ASSUME Crash PROVE RingInv' /\ WindowInv'
  BY <1>0, <1>7, CrashWindow
<1>8. ASSUME NextSecond PROVE RingInv' /\ WindowInv'
  BY <1>0, <1>8, SecondWindow
<1> QED
  BY <1>1, <1>2, <1>3, <1>4, <1>5, <1>6, <1>7, <1>8 DEF RollupsNext

\* The series of the live store leave out only keys without counts.
LEMMA LiveSeriesComplete ==
  ASSUME RowsInv, RingInv, NEW s \in LastSeconds
  PROVE  ReadFor(s) = Read(s)
<1>1. second \in Nat /\ s \in Nat
  BY SecondsType DEF RowsInv
<1>2. Values(s) \in [Pair -> Nat] /\ Summable(Values(s)) /\ DOMAIN Values(s) = Pair
  BY <1>1, ValueType DEF RingInv
<1>3. DOMAIN LiveSeries = DOMAIN activeAt \cup Configured /\ DOMAIN LiveSeries \subseteq Pair
  BY DEF LiveSeries, Configured, RingInv, ActiveOK
<1> DEFINE shown == [k \in DOMAIN LiveSeries |-> LiveSeries[k][s]]
<1>4. \A k \in DOMAIN LiveSeries : shown[k] = IF k \in DOMAIN activeAt THEN OneSecond(k, s) ELSE 0
  BY <1>3 DEF LiveSeries
<1>5. DOMAIN shown = DOMAIN LiveSeries
  OBVIOUS
<1> HIDE DEF shown
<1>6. \A k \in Pair \ DOMAIN activeAt : OneSecond(k, s) = 0
  <2> SUFFICES ASSUME NEW k \in Pair \ DOMAIN activeAt PROVE OneSecond(k, s) = 0
    OBVIOUS
  <2>1. s % Window \in 0..(Window - 1)
    BY <1>1, Places
  <2>2. ring[k] = NoRing
    BY DEF RingInv, ActiveOK
  <2>3. ring[k][s % Window].sec = -1
    BY <1>1, <2>1, <2>2, NoRingOK
  <2> QED
    BY <1>1, <2>3 DEF OneSecond
<1>7. \A k \in Pair : Values(s)[k] = OneSecond(k, s) /\ Values(s)[k] \in Nat
  BY <1>2 DEF Values
<1>8. Summable(shown)
  <2>1. IsFiniteSet(DOMAIN shown)
    BY <1>3, <1>5, FS_Subset, RollupsAssumption
  <2>2. \A k \in DOMAIN shown : shown[k] \in Nat
    BY <1>3, <1>4, <1>5, <1>7
  <2> QED
    BY <2>1, <2>2 DEF Summable
<1>9. \A k : At(shown, k) = At(Values(s), k)
  BY <1>2, <1>3, <1>4, <1>5, <1>6, <1>7 DEF At
<1>10. Sum(shown) = Sum(Values(s))
  BY <1>2, <1>8, <1>9, SumSame
<1> QED
  BY <1>10 DEF ReadFor, Read, shown

\* The summary of the window has the same buckets as its points.
LEMMA SummaryOfPoints ==
  ASSUME RowsInv, RingInv, NEW k \in Pair
  PROVE  Sum([i \in InWindow(k, Window) |-> ring[k][i].requests])
           = Sum([s \in LastSeconds |-> OneSecond(k, s)])
<1>1. second \in Nat /\ LastSeconds \subseteq Nat /\ LastSeconds \subseteq 0..second
  BY SecondsType DEF RowsInv, LastSeconds
<1> DEFINE f == [s \in LastSeconds |-> OneSecond(k, s)]
<1> DEFINE g == [i \in InWindow(k, Window) |-> ring[k][i].requests]
<1> DEFINE m == [s \in LastSeconds |-> s % Window]
<1>2. \A i \in 0..(Window - 1) : ring[k][i] \in [sec : -1..second, requests : Nat]
  BY DEF RingInv, RingOK
<1>3. Summable(f)
  <2>1. IsFiniteSet(0..second)
    BY <1>1, FS_Interval
  <2>2. IsFiniteSet(LastSeconds)
    BY <1>1, <2>1, FS_Subset
  <2>3. \A s \in LastSeconds : OneSecond(k, s) \in Nat
    BY <1>1, ValueType DEF RingInv
  <2> QED
    BY <2>2, <2>3 DEF Summable
<1>4. Summable(g)
  <2>1. Window - 1 \in Int
    BY RollupsAssumption
  <2>2. IsFiniteSet(0..(Window - 1)) /\ InWindow(k, Window) \subseteq 0..(Window - 1)
    BY <2>1, FS_Interval DEF InWindow
  <2>3. IsFiniteSet(InWindow(k, Window))
    BY <2>2, FS_Subset
  <2> QED
    BY <1>2, <2>2, <2>3 DEF Summable
<1>5. ASSUME NEW s \in LastSeconds, f[s] > 0
      PROVE  /\ m[s] \in DOMAIN g /\ g[m[s]] = f[s] /\ ring[k][m[s]].sec = s
  <2>1. s % Window \in 0..(Window - 1) /\ s \in Nat
    BY <1>1, Places
  <2>2. ring[k][s % Window].sec = s /\ f[s] = ring[k][s % Window].requests
    BY <1>5, <2>1 DEF OneSecond
  <2>3. s % Window \in InWindow(k, Window)
    BY <2>1, <2>2 DEF InWindow, LastSeconds
  <2> QED
    BY <2>2, <2>3
<1>6. ASSUME NEW z \in DOMAIN g, g[z] > 0
      PROVE  \E s \in DOMAIN f : f[s] > 0 /\ m[s] = z
  <2>1. z \in 0..(Window - 1) /\ ring[k][z].sec > second - Window /\ ring[k][z].sec <= second
    BY DEF InWindow
  <2>2. ring[k][z].sec \in -1..second /\ ring[k][z].requests > 0
    BY <1>2, <1>6, <2>1
  <2>3. ring[k][z].sec # -1 /\ ring[k][z].sec % Window = z
    BY <2>1, <2>2 DEF RingInv, RingOK
  <2>4. PICK s : s = ring[k][z].sec
    OBVIOUS
  <2>5. s \in LastSeconds /\ s % Window = z
    BY <1>1, <2>1, <2>2, <2>3, <2>4 DEF LastSeconds
  <2>6. f[s] = ring[k][z].requests
    BY <2>4, <2>5 DEF OneSecond
  <2> QED
    BY <2>2, <2>5, <2>6
<1>7. DOMAIN f = LastSeconds
  OBVIOUS
<1> HIDE DEF f, g, m
<1>8. \A s \in DOMAIN f : f[s] > 0 => m[s] \in DOMAIN g /\ g[m[s]] = f[s]
  BY <1>5, <1>7
<1>9. \A s \in DOMAIN f : \A t \in DOMAIN f : f[s] > 0 /\ f[t] > 0 /\ m[s] = m[t] => s = t
  BY <1>5, <1>7
<1>10. Sum(f) = Sum(g)
  BY <1>3, <1>4, <1>6, <1>8, <1>9, SumRename
<1> QED
  BY <1>10 DEF f, g

LEMMA WindowGives ==
  ASSUME RowsInv, RingInv, AccountInv, WindowInv
  PROVE  WindowAccounted
<1>1. \A s \in LastSeconds : DispatchedIn(s) <= ReadFor(s) /\ ReadFor(s) <= DispatchedIn(s) + lateAt[s]
  BY ReadBound, LiveSeriesComplete
<1> QED
  BY <1>1, SummaryOfPoints DEF WindowAccounted

(* The ring's rates count every request of a second of the window, and     *)
(* none twice but for fallbacks of earlier requests; the history's points  *)
(* and summaries leave out no row and repeat none (HistoryAccounted): for  *)
(* any requests and pairs, and any length of the window.                   *)
THEOREM HistoryAlwaysAccounted == RollupsSpec => []HistoryAccounted
<1> DEFINE Inv == RowsInv /\ AccountInv /\ RingInv /\ WindowInv
<1>1. RollupsInit => Inv
  BY RowsInitially, AccountInitially, WindowInitially
<1>2. Inv /\ [RollupsNext]_rollupVars => Inv'
  BY RowsAndAccountNext, WindowNext
<1>3. Inv => HistoryAccounted
  BY WindowGives, SeriesGives DEF HistoryAccounted
<1> QED
  BY <1>1, <1>2, <1>3, PTL DEF RollupsSpec

(* Every state of the ring, the rows and the history's counters is well     *)
(* typed: the buckets hold naturals whatever the clamps, a request is       *)
(* accounted under a key exactly while it waits.                            *)
THEOREM RollupsTypeCorrect == RollupsSpec => []RollupsTypeOK
<1> DEFINE Tally == {moves, polls, drains, faults} \subseteq Nat /\ countedAt = [q \in DOMAIN countedAt |-> countedAt[q]]
<1> DEFINE Inv == RowsInv /\ AccountInv /\ RingInv /\ WindowInv /\ Tally
<1>1. RollupsInit => Inv
  <2>1. RollupsInit => Tally
    BY DEF RollupsInit
  <2> QED
    BY <2>1, RowsInitially, AccountInitially, WindowInitially
<1>2. Inv /\ [RollupsNext]_rollupVars => Inv'
  <2> SUFFICES ASSUME Inv, [RollupsNext]_rollupVars PROVE Tally'
    BY RowsAndAccountNext, WindowNext
  <2>1. ASSUME NEW r \in Request, NEW k \in Pair, CountDispatch(r, k) \/ CountMove(r, k) PROVE Tally'
    BY <2>1 DEF CountDispatch, CountMove, boundVars
  <2>2. ASSUME NEW r \in Request, CountEnd(r) PROVE Tally'
    BY <2>2 DEF CountEnd, Restrict, boundVars
  <2>3. ASSUME NEW f \in Flusher, Drain(f) \/ Commit(f) \/ FlushFails(f) PROVE Tally'
    BY <2>3 DEF Drain, Commit, FlushFails, boundVars
  <2>4. CASE RecordPollMetrics \/ EvictIdle \/ Prune \/ NextSecond \/ UNCHANGED rollupVars
    <3>1. polls' = polls \/ polls' = polls + 1
      BY <2>4 DEF RecordPollMetrics, EvictIdle, Prune, NextSecond, rollupVars, boundVars
    <3>2. UNCHANGED <<countedAt, moves, drains, faults>>
      BY <2>4 DEF RecordPollMetrics, EvictIdle, Prune, NextSecond, rollupVars, boundVars
    <3> QED
      BY <3>1, <3>2
  <2>5. CASE Crash
    BY <2>5 DEF Crash
  <2> QED
    BY <2>1, <2>2, <2>3, <2>4, <2>5 DEF RollupsNext
<1>3. Inv => RollupsTypeOK
  <2> SUFFICES ASSUME Inv PROVE RollupsTypeOK
    OBVIOUS
  <2>1. second \in 0..LastSecond /\ LastSecond \in Nat
    BY RollupsAssumption DEF RowsInv
  <2>2. countedAt \in [{r \in Request : stage[r] = "waiting"} -> Pair]
    BY DEF RowsInv
  <2>3. ASSUME NEW k \in Pair, NEW i \in 0..(Window - 1)
        PROVE  ring[k][i].sec \in -1..LastSecond /\ ring[k][i].requests \in Nat
    <3>1. ring[k][i] \in [sec : -1..second, requests : Nat]
      BY DEF RingInv, RingOK
    <3> QED
      BY <2>1, <3>1
  <2>4. \A rows : RowsOK(rows) => \A x \in DOMAIN rows : x[2] \in Pair /\ rows[x] \in Nat
    BY DEF RowsOK, Summable
  <2>5. \A rows \in {memory, db} \cup {flushing[f] : f \in Flusher} : RowsOK(rows)
    BY DEF RowsInv
  <2>6. fresh \subseteq Request
    BY DEF RowsInv, Dispatched
  <2> QED
    BY <2>1, <2>2, <2>3, <2>4, <2>5, <2>6 DEF RollupsTypeOK, RowsInv, RingInv, ActiveOK
<1> QED
  BY <1>1, <1>2, <1>3, PTL DEF RollupsSpec
=============================================================================
