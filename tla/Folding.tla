------------------------------- MODULE Folding -------------------------------
(* A step repeated over the elements of a sequence, from the left, and what *)
(* is so whatever the step: how the fold of a sequence follows from those   *)
(* of its parts.                                                            *)
EXTENDS Integers, Sequences, Folds, SequenceTheorems, WellFoundedInduction, TLAPS

CONSTANT Step(_, _)

Latest(S) == CHOOSE i \in S : \A j \in S : i >= j

\* FoldLeft of SequencesExt, without what that module brings along: every fold
\* of the models is an instance of this one.
Fold(base, s) ==
  MapThenFoldSet(LAMBDA e, sofar : Step(sofar, e), base, LAMBDA i : s[i], LAMBDA S : Latest(S), DOMAIN s)

\* Induction over the naturals, of a set.
LEMMA Induction ==
  ASSUME NEW T, 0 \in T, \A n \in Nat : n \in T => n + 1 \in T
  PROVE  Nat \subseteq T
<1> DEFINE Less == {ss \in Nat \X Nat : ss[1] < ss[2]}
<1> SUFFICES ASSUME Nat \ T # {} PROVE FALSE
  OBVIOUS
<1>1. IsWellFoundedOn(Less, Nat)
  BY Zenon, NatLessThanWellFounded DEF OpToRel
<1>2. PICK n \in Nat \ T : \A m \in Nat \ T : <<m, n>> \notin Less
  <2> HIDE DEF Less
  <2> QED
    BY <1>1, WFMin
<1>3. n \in Nat /\ n # 0 /\ n - 1 \in Nat
  BY <1>2
<1>4. <<n - 1, n>> \in Less
  BY <1>3
<1>5. n - 1 \in T
  BY <1>2, <1>3, <1>4
<1> QED
  BY <1>2, <1>3, <1>5

LEMMA Least ==
  ASSUME NEW S \in SUBSET Nat, S # {}
  PROVE  \E n \in S : \A m \in S : n <= m
<1> DEFINE T == {n \in Nat : \A m \in S : m > n}
<1> SUFFICES ASSUME \A n \in S : \E m \in S : m < n PROVE FALSE
  OBVIOUS
<1>1. 0 \in T
  BY SMT
<1>2. \A n \in Nat : n \in T => n + 1 \in T
  BY SMT
<1>3. Nat \subseteq T
  <2> HIDE DEF T
  <2> QED
    BY <1>1, <1>2, Induction
<1>4. PICK m \in S : m \in T
  BY <1>3
<1> QED
  BY <1>4

\* What MapThenFoldSet stands for.
Iterates(base, s) ==
  CHOOSE iter : iter = [t \in SUBSET DOMAIN s |-> IF t = {} THEN base ELSE Step(iter[t \ {Latest(t)}], s[Latest(t)])]

LEMMA FoldIs ==
  ASSUME NEW base, NEW s
  PROVE  Fold(base, s) = Iterates(base, s)[DOMAIN s]
BY Zenon DEF Fold, MapThenFoldSet, Iterates

Recurs(f, base, s) ==
  f = [t \in SUBSET DOMAIN s |-> IF t = {} THEN base ELSE Step(f[t \ {Latest(t)}], s[Latest(t)])]

LEMMA LatestOfPrefix ==
  ASSUME NEW n \in Nat, NEW t \in SUBSET (1..(n + 1)), n + 1 \in t
  PROVE  Latest(t) = n + 1
<1>1. \A y \in t : n + 1 >= y
  OBVIOUS
<1>2. \A x \in t : (\A y \in t : x >= y) => x = n + 1
  OBVIOUS
<1> QED
  BY <1>1, <1>2, Zenon DEF Latest

\* The sets a fold goes through have what they stand for.
LEMMA IteratesExist ==
  ASSUME NEW base, NEW A, NEW s \in Seq(A)
  PROVE  Recurs(Iterates(base, s), base, s)
<1> DEFINE Right(f, S) == f = [t \in SUBSET S |-> IF t = {} THEN base ELSE Step(f[t \ {Latest(t)}], s[Latest(t)])]
<1> DEFINE T == {n \in Nat : \E f : Right(f, 1..n)}
<1>1. 0 \in T
  <2> DEFINE f == [t \in SUBSET (1..0) |-> base]
  <2>1. 1..0 = {}
    OBVIOUS
  <2>2. Right(f, 1..0)
    BY <2>1
  <2> QED
    BY <2>2
<1>2. ASSUME NEW n \in Nat, n \in T PROVE n + 1 \in T
  <2>1. PICK f : Right(f, 1..n)
    BY <1>2
  <2> HIDE <1>2
  <2> DEFINE Val(t) == IF n + 1 \notin t THEN f[t] ELSE Step(f[t \ {n + 1}], s[n + 1])
  <2> DEFINE g == [t \in SUBSET (1..(n + 1)) |-> Val(t)]
  <2>2. ASSUME NEW t \in SUBSET (1..(n + 1))
        PROVE  g[t] = IF t = {} THEN base ELSE Step(g[t \ {Latest(t)}], s[Latest(t)])
    <3>1. CASE n + 1 \in t
      <4>1. Latest(t) = n + 1
        BY <3>1, LatestOfPrefix
      <4>2. t \ {n + 1} \in SUBSET (1..(n + 1)) /\ n + 1 \notin t \ {n + 1}
        OBVIOUS
      <4>3. g[t \ {n + 1}] = f[t \ {n + 1}]
        BY <4>2
      <4> QED
        BY <3>1, <4>1, <4>3
    <3>2. CASE n + 1 \notin t
      <4>1. t \in SUBSET (1..n)
        BY <3>2
      <4>2. g[t] = f[t]
        BY <3>2
      <4>3. g[t \ {Latest(t)}] = f[t \ {Latest(t)}]
        BY <3>2
      <4>4. f[t] = IF t = {} THEN base ELSE Step(f[t \ {Latest(t)}], s[Latest(t)])
        BY <2>1, <4>1
      <4> QED
        BY <4>2, <4>3, <4>4
    <3> QED
      BY <3>1, <3>2
  <2>3. Right(g, 1..(n + 1))
    <3> HIDE DEF Val
    <3> QED
      BY <2>2
  <2> HIDE DEF Right, g
  <2> QED
    BY <2>3
<1> HIDE DEF T, Right
<1>3. Nat \subseteq T
  BY <1>1, <1>2, Induction
<1>4. Len(s) \in Nat /\ DOMAIN s = 1..Len(s)
  BY LenProperties
<1>5. \E f : Right(f, DOMAIN s)
  BY <1>3, <1>4 DEF T
<1>6. Right(CHOOSE f : Right(f, DOMAIN s), DOMAIN s)
  BY <1>5
<1> QED
  BY <1>6, Zenon DEF Right, Iterates, Recurs

LEMMA IterateStep ==
  ASSUME NEW base, NEW A, NEW s \in Seq(A), NEW k \in 1..Len(s)
  PROVE  Iterates(base, s)[1..k] = Step(Iterates(base, s)[1..(k - 1)], s[k])
<1> DEFINE f == Iterates(base, s)
<1>1. Len(s) \in Nat /\ DOMAIN s = 1..Len(s)
  BY LenProperties
<1>2. 1..k \in SUBSET DOMAIN s /\ 1..k # {}
  <2>1. k \in Nat /\ k >= 1 /\ k <= Len(s)
    BY <1>1
  <2>2. \A i \in 1..k : i \in 1..Len(s)
    BY <2>1, <1>1
  <2>3. k \in 1..k
    BY <2>1
  <2> QED
    BY <2>2, <2>3, <1>1
<1>3. f[1..k] = Step(f[(1..k) \ {Latest(1..k)}], s[Latest(1..k)])
  <2>1. Recurs(f, base, s)
    BY IteratesExist
  <2> HIDE DEF f
  <2> QED
    BY <2>1, <1>2 DEF Recurs
<1>4. Latest(1..k) = k
  <2>1. k - 1 \in Nat /\ 1..k \in SUBSET (1..(k - 1 + 1)) /\ k - 1 + 1 \in 1..k /\ k - 1 + 1 = k
    BY <1>1
  <2>2. \A n \in Nat : \A t \in SUBSET (1..(n + 1)) : n + 1 \in t => Latest(t) = n + 1
    BY LatestOfPrefix
  <2>3. Latest(1..k) = k - 1 + 1
    BY <2>1, <2>2
  <2> QED
    BY <2>1, <2>3
<1>5. (1..k) \ {k} = 1..(k - 1)
  BY <1>1
<1> QED
  BY <1>3, <1>4, <1>5

LEMMA IterateNone ==
  ASSUME NEW base, NEW A, NEW s \in Seq(A)
  PROVE  Iterates(base, s)[{}] = base
<1> DEFINE f == Iterates(base, s)
<1>1. Recurs(f, base, s)
  BY IteratesExist
<1> HIDE DEF f
<1>2. f[{}] = base
  BY <1>1 DEF Recurs
<1> QED
  BY <1>2 DEF f

-----------------------------------------------------------------------------
(* Folds of parts.                                                         *)

LEMMA FoldEmpty ==
  ASSUME NEW base
  PROVE  Fold(base, <<>>) = base
<1>1. <<>> \in Seq({}) /\ DOMAIN <<>> = {}
  OBVIOUS
<1> QED
  BY <1>1, FoldIs, IterateNone

LEMMA FoldAppend ==
  ASSUME NEW base, NEW A, NEW s \in Seq(A), NEW a \in A
  PROVE  Fold(base, Append(s, a)) = Step(Fold(base, s), a)
<1> DEFINE t == Append(s, a)
<1> DEFINE n == Len(s)
<1>1. /\ t \in Seq(A) /\ Len(t) = n + 1 /\ t[n + 1] = a /\ \A i \in 1..n : t[i] = s[i]
      /\ n \in Nat /\ DOMAIN s = 1..n /\ DOMAIN t = 1..(n + 1)
  BY AppendProperties, LenProperties
<1> DEFINE f == Iterates(base, s)
<1> DEFINE g == Iterates(base, t)
<1> DEFINE T == {k \in Nat : k <= n => f[1..k] = g[1..k]}
<1> HIDE DEF t
<1>2. 0 \in T
  <2>1. 1..0 = {}
    OBVIOUS
  <2> QED
    BY <1>1, <2>1, IterateNone
<1>3. ASSUME NEW k \in Nat, k \in T PROVE k + 1 \in T
  <2>1. CASE k + 1 <= n
    <3>1. k + 1 \in 1..n /\ k + 1 \in 1..Len(t) /\ k + 1 - 1 = k /\ k <= n
      BY <2>1, <1>1
    <3>2. f[1..(k + 1)] = Step(f[1..(k + 1 - 1)], s[k + 1])
      BY <3>1, IterateStep
    <3>3. g[1..(k + 1)] = Step(g[1..(k + 1 - 1)], t[k + 1])
      BY <3>1, <1>1, IterateStep
    <3> HIDE DEF f, g
    <3>4. f[1..k] = g[1..k]
      BY <1>3, <3>1
    <3>5. f[1..(k + 1)] = g[1..(k + 1)]
      BY <3>1, <3>2, <3>3, <3>4, <1>1
    <3> QED
      BY <3>5
  <2>2. CASE ~(k + 1 <= n)
    BY <2>2
  <2> QED
    BY <2>1, <2>2
<1>4. f[1..n] = g[1..n]
  <2> HIDE DEF f, g, T
  <2>1. n \in T
    BY <1>1, <1>2, <1>3, Induction
  <2> QED
    BY <2>1, <1>1 DEF T
<1>5. g[1..(n + 1)] = Step(g[1..n], a)
  <2>1. n + 1 \in 1..Len(t) /\ n + 1 - 1 = n
    BY <1>1
  <2>2. g[1..(n + 1)] = Step(g[1..(n + 1 - 1)], t[n + 1])
    BY <1>1, <2>1, IterateStep
  <2> HIDE DEF g
  <2> QED
    BY <2>1, <2>2, <1>1
<1>6. Fold(base, t) = g[1..(n + 1)] /\ Fold(base, s) = f[1..n]
  BY <1>1, FoldIs
<1> HIDE DEF f, g
<1> QED
  BY <1>4, <1>5, <1>6 DEF t

LEMMA PrefixAppend ==
  ASSUME NEW A, NEW s \in Seq(A), NEW n \in Nat, n < Len(s)
  PROVE  /\ SubSeq(s, 1, n) \in Seq(A) /\ s[n + 1] \in A
         /\ SubSeq(s, 1, n + 1) = Append(SubSeq(s, 1, n), s[n + 1])
<1>1. Len(s) \in Nat /\ n + 1 \in 1..Len(s)
  BY LenProperties
<1>2. \A i \in 1..n : s[i] \in A
  BY <1>1, ElementOfSeq
<1>3. SubSeq(s, 1, n) \in Seq(A) /\ s[n + 1] \in A
  BY <1>1, <1>2, ElementOfSeq, SubSeqProperties
<1>4. SubSeq(s, 1, n + 1) = SubSeq(s, 1, n) \o <<s[n + 1]>>
  <2>1. 1 \in 1..Len(s) /\ n + 1 \in 1..Len(s) /\ n + 1 - 1 = n
    BY <1>1
  <2>2. SubSeq(s, 1, n + 1) = SubSeq(s, 1, n + 1 - 1) \o <<s[n + 1]>>
    BY <2>1, SubSeqRecursiveSecond
  <2> QED
    BY <2>1, <2>2
<1> QED
  BY <1>3, <1>4, AppendIsConcat

LEMMA FoldPrefix ==
  ASSUME NEW base, NEW A, NEW s \in Seq(A), NEW n \in Nat, n < Len(s)
  PROVE  Fold(base, SubSeq(s, 1, n + 1)) = Step(Fold(base, SubSeq(s, 1, n)), s[n + 1])
<1> DEFINE t == SubSeq(s, 1, n)
           e == s[n + 1]
<1>1. t \in Seq(A) /\ e \in A /\ SubSeq(s, 1, n + 1) = Append(t, e)
  BY PrefixAppend
<1> HIDE DEF t, e
<1>2. Fold(base, Append(t, e)) = Step(Fold(base, t), e)
  BY <1>1, FoldAppend
<1>3. Fold(base, SubSeq(s, 1, n + 1)) = Step(Fold(base, t), e)
  BY <1>1, <1>2
<1> QED
  BY <1>3 DEF t, e

LEMMA PrefixNone ==
  ASSUME NEW A, NEW s \in Seq(A)
  PROVE  SubSeq(s, 1, 0) = <<>> /\ SubSeq(s, 1, Len(s)) = s /\ Len(s) \in Nat
BY SubSeqEmpty, SubSeqFull, LenProperties

\* A fold stays where every step stays.
LEMMA FoldType ==
  ASSUME NEW S, NEW A, NEW base \in S, NEW s \in Seq(A), \A x \in S, a \in A : Step(x, a) \in S
  PROVE  Fold(base, s) \in S
<1> DEFINE T == {n \in Nat : n <= Len(s) => Fold(base, SubSeq(s, 1, n)) \in S}
<1>1. 0 \in T
  BY PrefixNone, FoldEmpty
<1>2. ASSUME NEW n \in Nat, n \in T PROVE n + 1 \in T
  BY <1>2, PrefixAppend, FoldPrefix, PrefixNone
<1>3. Len(s) \in T
  <2> HIDE DEF T
  <2> QED
    BY <1>1, <1>2, Induction, PrefixNone
<1>4. SubSeq(s, 1, Len(s)) = s /\ Len(s) <= Len(s)
  BY PrefixNone
<1> QED
  BY <1>3, <1>4

LEMMA FoldConcat ==
  ASSUME NEW base, NEW A, NEW s \in Seq(A), NEW t \in Seq(A)
  PROVE  Fold(base, s \o t) = Fold(Fold(base, s), t)
<1> DEFINE T == {n \in Nat : n <= Len(t) =>
                   Fold(base, s \o SubSeq(t, 1, n)) = Fold(Fold(base, s), SubSeq(t, 1, n))}
<1>1. 0 \in T
  BY PrefixNone, FoldEmpty, ConcatEmptySeq
<1>2. ASSUME NEW n \in Nat, n \in T PROVE n + 1 \in T
  <2>1. CASE n + 1 <= Len(t)
    <3>1. n < Len(t) /\ n <= Len(t)
      BY <2>1, PrefixNone
    <3> DEFINE u == SubSeq(t, 1, n)
    <3> DEFINE a == t[n + 1]
    <3>2. u \in Seq(A) /\ a \in A /\ SubSeq(t, 1, n + 1) = Append(u, a)
      BY <3>1, PrefixAppend
    <3>3. Fold(base, s \o u) = Fold(Fold(base, s), u)
      BY <1>2, <3>1
    <3> HIDE DEF u, a
    <3>4. s \o Append(u, a) = Append(s \o u, a) /\ s \o u \in Seq(A)
      <4>1. Append(u, a) = u \o <<a>> /\ <<a>> \in Seq(A) /\ s \o u \in Seq(A)
        BY <3>2, AppendIsConcat, ConcatProperties
      <4>2. s \o (u \o <<a>>) = (s \o u) \o <<a>>
        BY <4>1, <3>2, ConcatAssociative
      <4> QED
        BY <3>2, <4>1, <4>2, AppendIsConcat
    <3>5. Fold(base, Append(s \o u, a)) = Step(Fold(base, s \o u), a)
      <4>1. \A v \in Seq(A), e \in A : Fold(base, Append(v, e)) = Step(Fold(base, v), e)
        BY FoldAppend
      <4> QED
        BY <3>2, <3>4, <4>1
    <3>6. Fold(Fold(base, s), Append(u, a)) = Step(Fold(Fold(base, s), u), a)
      BY <3>2, FoldAppend
    <3>7. Fold(base, s \o SubSeq(t, 1, n + 1)) = Fold(Fold(base, s), SubSeq(t, 1, n + 1))
      BY <3>2, <3>3, <3>4, <3>5, <3>6
    <3> QED
      BY <3>7
  <2>2. CASE ~(n + 1 <= Len(t))
    BY <2>2
  <2> QED
    BY <2>1, <2>2
<1>3. Len(t) \in T
  <2> HIDE DEF T
  <2> QED
    BY <1>1, <1>2, Induction, PrefixNone
<1>4. SubSeq(t, 1, Len(t)) = t /\ Len(t) <= Len(t)
  BY PrefixNone
<1> QED
  BY <1>3, <1>4

LEMMA FoldOne ==
  ASSUME NEW base, NEW a
  PROVE  Fold(base, <<a>>) = Step(base, a)
<1>1. <<>> \in Seq({a}) /\ a \in {a} /\ Append(<<>>, a) = <<a>>
  OBVIOUS
<1>2. Fold(base, Append(<<>>, a)) = Step(Fold(base, <<>>), a)
  BY <1>1, FoldAppend, Zenon
<1> QED
  BY <1>1, <1>2, FoldEmpty

LEMMA FoldHead ==
  ASSUME NEW base, NEW A, NEW s \in Seq(A), s # <<>>
  PROVE  Fold(base, s) = Fold(Step(base, Head(s)), Tail(s))
<1>1. Head(s) \in A /\ Tail(s) \in Seq(A) /\ <<Head(s)>> \in Seq(A) /\ s = <<Head(s)>> \o Tail(s)
  OBVIOUS
<1>2. Fold(base, <<Head(s)>> \o Tail(s)) = Fold(Fold(base, <<Head(s)>>), Tail(s))
  <2>1. \A u, v \in Seq(A) : Fold(base, u \o v) = Fold(Fold(base, u), v)
    BY FoldConcat
  <2> QED
    BY <1>1, <2>1
<1> QED
  BY <1>1, <1>2, FoldOne

\* What a fold begins with stays at its front if every step leaves it there.
Pushes(S, A, p) ==
  \A b \in Seq(S), a \in A : Step(b, a) \in Seq(S) /\ Step(p \o b, a) = p \o Step(b, a)

LEMMA FoldPushes ==
  ASSUME NEW S, NEW A, NEW p \in Seq(S), NEW base \in Seq(S), NEW s \in Seq(A), Pushes(S, A, p)
  PROVE  Fold(p \o base, s) = p \o Fold(base, s)
<1> DEFINE T == {n \in Nat : n <= Len(s) =>
                   Fold(p \o base, SubSeq(s, 1, n)) = p \o Fold(base, SubSeq(s, 1, n))}
<1>1. 0 \in T
  BY PrefixNone, FoldEmpty
<1>2. ASSUME NEW n \in Nat, n \in T PROVE n + 1 \in T
  <2>1. CASE n + 1 <= Len(s)
    <3>1. n < Len(s) /\ n <= Len(s)
      <4>1. Len(s) \in Nat
        BY LenProperties
      <4> QED
        BY <2>1, <4>1
    <3>2. SubSeq(s, 1, n) \in Seq(A) /\ s[n + 1] \in A
      BY <3>1, PrefixAppend
    <3>3. Fold(base, SubSeq(s, 1, n)) \in Seq(S)
      <4> HIDE DEF T
      <4> QED
        BY <3>2, FoldType, Zenon DEF Pushes
    <3>4. \A b : Fold(b, SubSeq(s, 1, n + 1)) = Step(Fold(b, SubSeq(s, 1, n)), s[n + 1])
      BY <3>1, FoldPrefix
    <3>5. Fold(p \o base, SubSeq(s, 1, n)) = p \o Fold(base, SubSeq(s, 1, n))
      BY <1>2, <3>1
    <3>6. Fold(p \o base, SubSeq(s, 1, n + 1)) = p \o Fold(base, SubSeq(s, 1, n + 1))
      <4> DEFINE b == Fold(base, SubSeq(s, 1, n))
      <4>1. Fold(p \o base, SubSeq(s, 1, n + 1)) = Step(p \o b, s[n + 1])
        BY <3>4, <3>5
      <4>2. Step(p \o b, s[n + 1]) = p \o Step(b, s[n + 1])
        <5> HIDE DEF b
        <5>1. b \in Seq(S)
          BY <3>3 DEF b
        <5> QED
          BY <5>1, <3>2 DEF Pushes
      <4> QED
        BY <3>4, <4>1, <4>2
    <3> QED
      BY <3>6 DEF T
  <2>2. CASE ~(n + 1 <= Len(s))
    BY <2>2
  <2> QED
    BY <2>1, <2>2
<1>3. Len(s) \in T
  <2> HIDE DEF T
  <2> QED
    BY <1>1, <1>2, Induction, PrefixNone
<1>4. SubSeq(s, 1, Len(s)) = s /\ Len(s) <= Len(s)
  BY PrefixNone
<1> QED
  BY <1>3, <1>4

\* Induction over the sequences of a set, of a set of them.
LEMMA SeqInduction ==
  ASSUME NEW A, NEW T, <<>> \in T, \A u \in Seq(A), a \in A : u \in T => Append(u, a) \in T
  PROVE  Seq(A) \subseteq T
<1> SUFFICES ASSUME NEW s \in Seq(A) PROVE s \in T
  OBVIOUS
<1> DEFINE N == {n \in Nat : n <= Len(s) => SubSeq(s, 1, n) \in T}
<1>1. 0 \in N
  BY PrefixNone
<1>2. ASSUME NEW n \in Nat, n \in N PROVE n + 1 \in N
  <2>1. CASE n + 1 <= Len(s)
    <3>1. n < Len(s) /\ n <= Len(s)
      BY <2>1, PrefixNone
    <3>2. /\ SubSeq(s, 1, n) \in Seq(A) /\ s[n + 1] \in A
          /\ SubSeq(s, 1, n + 1) = Append(SubSeq(s, 1, n), s[n + 1])
      BY <3>1, PrefixAppend
    <3>3. SubSeq(s, 1, n) \in T
      BY <1>2, <3>1
    <3>4. SubSeq(s, 1, n + 1) \in T
      <4> DEFINE u == SubSeq(s, 1, n)
      <4> DEFINE a == s[n + 1]
      <4> HIDE DEF u, a
      <4>1. u \in Seq(A) /\ a \in A /\ u \in T /\ SubSeq(s, 1, n + 1) = Append(u, a)
        BY <3>2, <3>3 DEF u, a
      <4> QED
        BY <4>1
    <3> QED
      BY <3>4
  <2>2. CASE ~(n + 1 <= Len(s))
    BY <2>2
  <2> QED
    BY <2>1, <2>2
<1>3. Len(s) \in N
  <2> HIDE DEF N
  <2> QED
    BY <1>1, <1>2, Induction, PrefixNone
<1>4. SubSeq(s, 1, Len(s)) = s /\ Len(s) <= Len(s)
  BY PrefixNone
<1> QED
  BY <1>3, <1>4

\* Steps that append what they are given make the sequence again.
Appends(A) == \A out \in Seq(A), a \in A : Step(out, a) = Append(out, a)

LEMMA FoldKeeps ==
  ASSUME NEW A, NEW s \in Seq(A), Appends(A)
  PROVE  Fold(<<>>, s) = s
<1> DEFINE T == {u \in Seq(A) : Fold(<<>>, u) = u}
<1>1. <<>> \in T
  BY FoldEmpty
<1>2. ASSUME NEW u \in Seq(A), NEW a \in A, u \in T PROVE Append(u, a) \in T
  <2>1. Fold(<<>>, u) = u
    BY <1>2
  <2>2. Fold(<<>>, Append(u, a)) = Step(Fold(<<>>, u), a)
    BY FoldAppend
  <2>3. Step(u, a) = Append(u, a)
    BY DEF Appends
  <2> QED
    BY <2>1, <2>2, <2>3
<1> HIDE DEF T
<1>3. s \in T
  BY <1>1, <1>2, SeqInduction
<1> QED
  BY <1>3 DEF T
=============================================================================
