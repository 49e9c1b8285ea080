----------------------------- MODULE SumsProofs -----------------------------
(* What sums over finitely many naturals do: how they split, change, add up *)
(* and compare.                                                             *)
EXTENDS Sums, Functions, FiniteSetTheorems, TLAPS

\* What a sum is taken of: finitely many natural numbers.
Summable(f) == IsFiniteSet(DOMAIN f) /\ \A x \in DOMAIN f : f[x] \in Nat

LEMMA CellIn ==
  ASSUME NEW f, NEW c
  PROVE  c \in Cells(f) <=> \E x \in DOMAIN f : \E n \in 1..f[x] : c = <<x, n>>
<1>1. c \in Cells(f) <=> \E x \in DOMAIN f : c \in {x} \X (1..f[x])
  BY Zenon DEF Cells
<1>2. \A x \in DOMAIN f : c \in {x} \X (1..f[x]) <=> \E n \in 1..f[x] : c = <<x, n>>
  OBVIOUS
<1> QED
  BY <1>1, <1>2

\* A sum of finitely many naturals is a natural.
LEMMA SumType ==
  ASSUME NEW f, Summable(f)
  PROVE  IsFiniteSet(Cells(f)) /\ Sum(f) \in Nat
<1> DEFINE cut == [x \in DOMAIN f |-> {x} \X (1..f[x])]
<1> DEFINE parts == {{x} \X (1..f[x]) : x \in DOMAIN f}
<1>1. cut \in Surjection(DOMAIN f, parts)
  BY DEF Surjection
<1>2. IsFiniteSet(parts)
  BY <1>1, FS_Surjection DEF Summable
<1>3. ASSUME NEW p \in parts PROVE IsFiniteSet(p)
  <2>1. PICK x \in DOMAIN f : p = {x} \X (1..f[x])
    OBVIOUS
  <2>2. f[x] \in Int
    BY DEF Summable
  <2>3. IsFiniteSet({x})
    BY FS_Singleton
  <2>4. IsFiniteSet(1..f[x])
    BY <2>2, FS_Interval
  <2> QED
    BY <2>1, <2>3, <2>4, FS_Product
<1>4. IsFiniteSet(UNION parts)
  <2> HIDE DEF parts
  <2> QED
    BY <1>2, <1>3, FS_UNION
<1> QED
  BY <1>4, FS_CardinalityType DEF Cells, Sum

\* Functions that agree where they are not zero have the same sum.
LEMMA SumSame ==
  ASSUME NEW f, NEW g, Summable(f), Summable(g),
         \A x : At(f, x) = At(g, x)
  PROVE  Sum(f) = Sum(g)
<1>1. ASSUME NEW F, NEW G, Summable(F), Summable(G), \A x : At(F, x) = At(G, x), NEW c \in Cells(F)
      PROVE  c \in Cells(G)
  <2>1. PICK x \in DOMAIN F : \E n \in 1..F[x] : c = <<x, n>>
    BY <1>1, CellIn
  <2>2. F[x] \in Nat /\ F[x] > 0 /\ At(F, x) = F[x]
    BY <1>1, <2>1 DEF Summable, At
  <2>3. x \in DOMAIN G /\ G[x] = F[x]
    BY <1>1, <2>2 DEF At
  <2> QED
    BY <2>1, <2>3, CellIn
<1>2. Cells(f) = Cells(g)
  BY <1>1
<1> QED
  BY <1>2 DEF Sum

\* One column of cells.
LEMMA Column ==
  ASSUME NEW x, NEW n \in Nat
  PROVE  IsFiniteSet({x} \X (1..n)) /\ Cardinality({x} \X (1..n)) = n
<1>1. IsFiniteSet({x}) /\ Cardinality({x}) = 1
  BY FS_Singleton
<1>2. IsFiniteSet(1..n) /\ Cardinality(1..n) = n
  BY FS_Interval
<1>3. /\ IsFiniteSet({x} \X (1..n))
      /\ Cardinality({x} \X (1..n)) = Cardinality({x}) * Cardinality(1..n)
  <2> DEFINE S == {x}
  <2> DEFINE T == 1..n
  <2>1. IsFiniteSet(S) /\ IsFiniteSet(T)
    BY <1>1, <1>2
  <2> HIDE DEF S, T
  <2>2. IsFiniteSet(S \X T) /\ Cardinality(S \X T) = Cardinality(S) * Cardinality(T)
    BY <2>1, FS_Product
  <2> QED
    BY <2>2 DEF S, T
<1>4. 1 * n = n
  OBVIOUS
<1> QED
  BY <1>1, <1>2, <1>3, <1>4

\* Disjoint finite sets have as many elements as both.
LEMMA Apart ==
  ASSUME NEW S, NEW T, IsFiniteSet(S), IsFiniteSet(T), S \cap T = {}
  PROVE  /\ IsFiniteSet(S \cup T) /\ Cardinality(S) \in Nat /\ Cardinality(T) \in Nat
         /\ Cardinality(S \cup T) = Cardinality(S) + Cardinality(T)
<1>1. Cardinality(S \cup T) = Cardinality(S) + Cardinality(T) - Cardinality({})
  BY FS_Union
<1>2. Cardinality({}) = 0
  BY FS_EmptySet
<1>3. Cardinality(S) \in Nat /\ Cardinality(T) \in Nat
  BY FS_CardinalityType
<1> QED
  BY <1>1, <1>2, <1>3, FS_Union

\* A sum splits into two.
LEMMA SumSplit ==
  ASSUME NEW f, Summable(f), NEW A \in SUBSET DOMAIN f
  PROVE  /\ Summable(Restrict(f, A)) /\ Summable(Restrict(f, DOMAIN f \ A))
         /\ Sum(f) = Sum(Restrict(f, A)) + Sum(Restrict(f, DOMAIN f \ A))
<1> DEFINE B == DOMAIN f \ A
<1>1. Summable(Restrict(f, A)) /\ Summable(Restrict(f, B))
  BY FS_Subset DEF Summable, Restrict
<1>2. Cells(f) = Cells(Restrict(f, A)) \cup Cells(Restrict(f, B))
  BY DEF Cells, Restrict
<1>3. Cells(Restrict(f, A)) \cap Cells(Restrict(f, B)) = {}
  BY DEF Cells, Restrict
<1>4. IsFiniteSet(Cells(Restrict(f, A))) /\ IsFiniteSet(Cells(Restrict(f, B)))
  BY <1>1, SumType
<1>5. /\ Cardinality(Cells(Restrict(f, A))) \in Nat /\ Cardinality(Cells(Restrict(f, B))) \in Nat
      /\ Cardinality({}) = 0
  BY <1>4, FS_CardinalityType, FS_EmptySet
<1>6. Cardinality(Cells(f)) = Cardinality(Cells(Restrict(f, A))) + Cardinality(Cells(Restrict(f, B)))
  BY <1>2, <1>3, <1>4, <1>5, Apart
<1> QED
  BY <1>1, <1>6 DEF Sum

\* The sum of one value, and of none.
LEMMA SumOne ==
  ASSUME NEW f, NEW x, DOMAIN f = {x}, f[x] \in Nat
  PROVE  Sum(f) = f[x]
<1>1. Cells(f) = {x} \X (1..f[x])
  BY DEF Cells
<1> QED
  BY <1>1, Column DEF Sum

LEMMA SumNone ==
  ASSUME NEW f, \A x \in DOMAIN f : f[x] = 0
  PROVE  Sum(f) = 0
<1>1. Cells(f) = {}
  BY DEF Cells
<1> QED
  BY <1>1, FS_EmptySet DEF Sum

\* Changing one value changes the sum by as much.
LEMMA SumChange ==
  ASSUME NEW f, NEW g, Summable(f), Summable(g), NEW x,
         \A y : y # x => At(f, y) = At(g, y)
  PROVE  /\ At(f, x) \in Nat /\ At(g, x) \in Nat /\ Sum(f) \in Nat /\ Sum(g) \in Nat
         /\ Sum(g) + At(f, x) = Sum(f) + At(g, x)
<1>1. ASSUME NEW h, Summable(h)
      PROVE  /\ At(h, x) \in Nat
             /\ Sum(h) = At(h, x) + Sum(Restrict(h, DOMAIN h \ {x}))
             /\ Summable(Restrict(h, DOMAIN h \ {x}))
             /\ Sum(Restrict(h, DOMAIN h \ {x})) \in Nat
  <2>0. Summable(Restrict(h, DOMAIN h \ {x}))
    BY <1>1, FS_Subset DEF Summable, Restrict
  <2>1. CASE x \in DOMAIN h
    <3>1. Sum(h) = Sum(Restrict(h, {x})) + Sum(Restrict(h, DOMAIN h \ {x}))
      BY <1>1, <2>1, SumSplit
    <3>2. Sum(Restrict(h, {x})) = h[x]
      <4>1. DOMAIN Restrict(h, {x}) = {x} /\ Restrict(h, {x})[x] = h[x] /\ h[x] \in Nat
        BY <1>1, <2>1 DEF Restrict, Summable
      <4> QED
        BY <4>1, SumOne
    <3> QED
      BY <1>1, <2>0, <2>1, <3>1, <3>2, SumType DEF At, Summable
  <2>2. CASE x \notin DOMAIN h
    <3>1. \A y : At(h, y) = At(Restrict(h, DOMAIN h \ {x}), y)
      BY <2>2 DEF At, Restrict
    <3>2. Sum(h) = Sum(Restrict(h, DOMAIN h \ {x}))
      BY <1>1, <2>0, <3>1, SumSame
    <3>3. At(h, x) = 0
      BY <2>2 DEF At
    <3> QED
      BY <2>0, <3>2, <3>3, SumType
  <2> QED
    BY <2>1, <2>2
<1>2. \A y : At(Restrict(f, DOMAIN f \ {x}), y) = At(Restrict(g, DOMAIN g \ {x}), y)
  BY DEF At, Restrict
<1>3. Sum(Restrict(f, DOMAIN f \ {x})) = Sum(Restrict(g, DOMAIN g \ {x}))
  BY <1>1, <1>2, SumSame
<1>4. /\ At(f, x) \in Nat /\ Sum(f) = At(f, x) + Sum(Restrict(f, DOMAIN f \ {x}))
      /\ Sum(Restrict(f, DOMAIN f \ {x})) \in Nat
  BY <1>1
<1>5. At(g, x) \in Nat /\ Sum(g) = At(g, x) + Sum(Restrict(g, DOMAIN g \ {x}))
  BY <1>1
<1> QED
  BY <1>3, <1>4, <1>5

\* Sums add up pointwise.
LEMMA SumAdd ==
  ASSUME NEW f, NEW g, NEW h, Summable(f), Summable(g), Summable(h),
         \A x : At(h, x) = At(f, x) + At(g, x)
  PROVE  Sum(h) = Sum(f) + Sum(g)
<1> DEFINE above == Cells(h) \ Cells(f)
<1> DEFINE lift == [c \in Cells(g) |-> <<c[1], At(f, c[1]) + c[2]>>]
<1>1. \A x : At(f, x) \in Nat /\ At(g, x) \in Nat
  BY DEF At, Summable
<1>2. ASSUME NEW F, Summable(F), NEW c
      PROVE  c \in Cells(F) <=> \E x : \E n \in 1..At(F, x) : c = <<x, n>>
  BY <1>2, CellIn DEF At, Summable
<1>3. Cells(f) \subseteq Cells(h)
  <2> SUFFICES ASSUME NEW c \in Cells(f) PROVE c \in Cells(h)
    OBVIOUS
  <2>1. PICK x : \E n \in 1..At(f, x) : c = <<x, n>>
    BY <1>2
  <2>2. PICK n \in 1..At(f, x) : c = <<x, n>>
    BY <2>1
  <2>3. n \in 1..At(h, x)
    BY <1>1, <2>2
  <2> QED
    BY <1>2, <2>2, <2>3
<1>4. ASSUME NEW c \in Cells(g)
      PROVE  lift[c] \in above
  <2>1. PICK x : \E n \in 1..At(g, x) : c = <<x, n>>
    BY <1>2
  <2>2. PICK n \in 1..At(g, x) : c = <<x, n>>
    BY <2>1
  <2>3. lift[c] = <<x, At(f, x) + n>>
    BY <2>2
  <2>4. At(f, x) + n \in 1..At(h, x) /\ At(f, x) + n \notin 1..At(f, x)
    BY <1>1, <2>2
  <2>5. <<x, At(f, x) + n>> \in Cells(h)
    BY <1>2, <2>4
  <2>6. <<x, At(f, x) + n>> \notin Cells(f)
    <3> SUFFICES ASSUME NEW y, NEW m \in 1..At(f, y), <<x, At(f, x) + n>> = <<y, m>> PROVE FALSE
      BY <1>2
    <3> QED
      BY <2>4
  <2> QED
    BY <2>3, <2>5, <2>6
<1>5. ASSUME NEW a \in above PROVE \E c \in Cells(g) : lift[c] = a
  <2>1. PICK x : \E n \in 1..At(h, x) : a = <<x, n>>
    BY <1>2
  <2>2. PICK n \in 1..At(h, x) : a = <<x, n>>
    BY <2>1
  <2>3. n \notin 1..At(f, x)
    BY <1>2, <2>2
  <2>4. n - At(f, x) \in 1..At(g, x)
    BY <1>1, <2>2, <2>3
  <2>5. <<x, n - At(f, x)>> \in Cells(g)
    BY <1>2, <2>4
  <2>6. lift[<<x, n - At(f, x)>>] = <<x, At(f, x) + (n - At(f, x))>>
    BY <2>5
  <2> QED
    BY <1>1, <2>2, <2>5, <2>6
<1>6. ASSUME NEW c \in Cells(g), NEW d \in Cells(g), lift[c] = lift[d] PROVE c = d
  <2>1. PICK x : \E n \in 1..At(g, x) : c = <<x, n>>
    BY <1>2
  <2>2. PICK n \in 1..At(g, x) : c = <<x, n>>
    BY <2>1
  <2>3. PICK y : \E m \in 1..At(g, y) : d = <<y, m>>
    BY <1>2
  <2>4. PICK m \in 1..At(g, y) : d = <<y, m>>
    BY <2>3
  <2>5. <<x, At(f, x) + n>> = <<y, At(f, y) + m>>
    BY <1>6, <2>2, <2>4
  <2> QED
    BY <1>1, <2>2, <2>4, <2>5
<1>7. IsFiniteSet(Cells(f)) /\ IsFiniteSet(Cells(g)) /\ IsFiniteSet(Cells(h))
  BY SumType
<1>8. lift \in Bijection(Cells(g), above)
  BY <1>4, <1>5, <1>6 DEF Bijection, Injection, Surjection, IsInjective
<1>9. IsFiniteSet(above) /\ Cardinality(above) = Cardinality(Cells(g))
  BY <1>7, <1>8, FS_Bijection DEF ExistsBijection
<1>10. Cells(f) \cap above = {} /\ Cells(f) \cup above = Cells(h)
  BY <1>3
<1>11. /\ Cardinality(Cells(f)) \in Nat /\ Cardinality(Cells(g)) \in Nat /\ Cardinality({}) = 0
  BY <1>7, FS_CardinalityType, FS_EmptySet
<1> HIDE DEF above
<1> QED
  BY <1>7, <1>9, <1>10, <1>11, Apart DEF Sum

\* A sum is the sum of the sums of its parts.
LEMMA SumParts ==
  ASSUME NEW f, Summable(f), NEW I, IsFiniteSet(I), NEW part \in [DOMAIN f -> I],
         NEW sums, DOMAIN sums = I,
         \A i \in I : sums[i] = Sum(Restrict(f, {x \in DOMAIN f : part[x] = i}))
  PROVE  Summable(sums) /\ Sum(sums) = Sum(f)
<1> DEFINE slice(i) == Cells(Restrict(f, {x \in DOMAIN f : part[x] = i}))
<1>1. ASSUME NEW i \in I
      PROVE  /\ IsFiniteSet(slice(i)) /\ sums[i] = Cardinality(slice(i)) /\ sums[i] \in Nat
             /\ \A c : c \in slice(i) <=> c \in Cells(f) /\ part[c[1]] = i
  <2>1. Summable(Restrict(f, {x \in DOMAIN f : part[x] = i}))
    BY FS_Subset DEF Summable, Restrict
  <2>2. ASSUME NEW c PROVE c \in slice(i) <=> c \in Cells(f) /\ part[c[1]] = i
    <3> DEFINE g == Restrict(f, {x \in DOMAIN f : part[x] = i})
    <3>1. \A x : x \in DOMAIN g <=> x \in DOMAIN f /\ part[x] = i
      BY DEF Restrict
    <3>2. \A x \in DOMAIN g : g[x] = f[x]
      BY DEF Restrict
    <3>3. c \in slice(i) <=> \E x \in DOMAIN g : \E n \in 1..g[x] : c = <<x, n>>
      BY CellIn
    <3>4. c \in Cells(f) <=> \E x \in DOMAIN f : \E n \in 1..f[x] : c = <<x, n>>
      BY CellIn
    <3> HIDE DEF g, slice
    <3> QED
      BY <3>1, <3>2, <3>3, <3>4
  <2> QED
    BY <2>1, <2>2, SumType DEF Sum
<1>2. Summable(sums)
  BY <1>1 DEF Summable
<1> HIDE DEF slice
<1> DEFINE list == [i \in I |-> CHOOSE b : b \in Bijection(1..sums[i], slice(i))]
<1>3. \A i \in I : list[i] \in Bijection(1..sums[i], slice(i))
  <2> SUFFICES ASSUME NEW i \in I PROVE \E b : b \in Bijection(1..sums[i], slice(i))
    OBVIOUS
  <2> QED
    BY <1>1, FS_CardinalityType DEF ExistsBijection
<1> HIDE DEF list
<1> DEFINE name == [c \in Cells(sums) |-> list[c[1]][c[2]]]
<1>4. \A c : c \in Cells(sums) <=> \E i \in I : \E n \in 1..sums[i] : c = <<i, n>>
  BY CellIn
<1>5. ASSUME NEW c \in Cells(sums)
      PROVE  \E i \in I : \E n \in 1..sums[i] : c = <<i, n>> /\ name[c] = list[i][n] /\ name[c] \in slice(i)
  <2>1. PICK i \in I : \E n \in 1..sums[i] : c = <<i, n>>
    BY <1>4
  <2>2. PICK n \in 1..sums[i] : c = <<i, n>>
    BY <2>1
  <2>3. name[c] = list[i][n]
    BY <2>2
  <2>4. list[i][n] \in slice(i)
    BY <1>3, <2>2 DEF Bijection, Injection
  <2> QED
    BY <2>2, <2>3, <2>4
<1>6. ASSUME NEW c \in Cells(sums) PROVE name[c] \in Cells(f)
  BY <1>1, <1>5
<1>7. ASSUME NEW d \in Cells(f) PROVE \E c \in Cells(sums) : name[c] = d
  <2>1. part[d[1]] \in I
    BY CellIn
  <2>2. d \in slice(part[d[1]])
    BY <1>1, <2>1
  <2>3. PICK n \in 1..sums[part[d[1]]] : list[part[d[1]]][n] = d
    BY <1>3, <2>1, <2>2 DEF Bijection, Surjection
  <2>4. <<part[d[1]], n>> \in Cells(sums)
    BY <1>4, <2>1
  <2> QED
    BY <2>3, <2>4
<1>8. ASSUME NEW c \in Cells(sums), NEW d \in Cells(sums), name[c] = name[d] PROVE c = d
  <2>1. PICK i \in I : \E n \in 1..sums[i] : c = <<i, n>> /\ name[c] = list[i][n] /\ name[c] \in slice(i)
    BY <1>5
  <2>2. PICK n \in 1..sums[i] : c = <<i, n>> /\ name[c] = list[i][n] /\ name[c] \in slice(i)
    BY <2>1
  <2>3. PICK j \in I : \E m \in 1..sums[j] : d = <<j, m>> /\ name[d] = list[j][m] /\ name[d] \in slice(j)
    BY <1>5
  <2>4. PICK m \in 1..sums[j] : d = <<j, m>> /\ name[d] = list[j][m] /\ name[d] \in slice(j)
    BY <2>3
  <2>5. i = j
    BY <1>1, <1>8, <2>2, <2>4
  <2>6. list[i][n] = list[i][m] /\ n \in 1..sums[i] /\ m \in 1..sums[i]
    BY <1>8, <2>2, <2>4, <2>5
  <2>7. n = m
    BY <1>3, <2>6 DEF Bijection, Injection, IsInjective
  <2> QED
    BY <2>2, <2>4, <2>5, <2>7
<1>9. name \in Bijection(Cells(sums), Cells(f))
  BY <1>6, <1>7, <1>8 DEF Bijection, Injection, Surjection, IsInjective
<1>10. IsFiniteSet(Cells(sums))
  BY <1>2, SumType
<1> QED
  BY <1>2, <1>9, <1>10, FS_Bijection DEF ExistsBijection, Sum

\* A sum does not depend on how its terms are named.
LEMMA SumRename ==
  ASSUME NEW f, NEW g, Summable(f), Summable(g), NEW m,
         \A x \in DOMAIN f : f[x] > 0 => m[x] \in DOMAIN g /\ g[m[x]] = f[x],
         \A x \in DOMAIN f : \A y \in DOMAIN f : f[x] > 0 /\ f[y] > 0 /\ m[x] = m[y] => x = y,
         \A z \in DOMAIN g : g[z] > 0 => \E x \in DOMAIN f : f[x] > 0 /\ m[x] = z
  PROVE  Sum(f) = Sum(g)
<1> DEFINE name == [c \in Cells(f) |-> <<m[c[1]], c[2]>>]
<1>1. ASSUME NEW h, Summable(h), NEW c \in Cells(h)
      PROVE  \E x \in DOMAIN h : \E n \in 1..h[x] : c = <<x, n>> /\ h[x] > 0 /\ h[x] \in Nat
  <2>1. PICK x \in DOMAIN h : \E n \in 1..h[x] : c = <<x, n>>
    BY <1>1, CellIn
  <2>2. h[x] \in Nat
    BY <1>1, <2>1 DEF Summable
  <2> QED
    BY <2>1, <2>2
<1>2. ASSUME NEW c \in Cells(f) PROVE name[c] \in Cells(g)
  <2>1. PICK x \in DOMAIN f : \E n \in 1..f[x] : c = <<x, n>> /\ f[x] > 0
    BY <1>1
  <2>2. PICK n \in 1..f[x] : c = <<x, n>>
    BY <2>1
  <2>3. m[x] \in DOMAIN g /\ n \in 1..g[m[x]] /\ name[c] = <<m[x], n>>
    BY <2>1, <2>2
  <2> QED
    BY <2>3, CellIn
<1>3. ASSUME NEW d \in Cells(g) PROVE \E c \in Cells(f) : name[c] = d
  <2>1. PICK z \in DOMAIN g : \E n \in 1..g[z] : d = <<z, n>> /\ g[z] > 0
    BY <1>1
  <2>2. PICK n \in 1..g[z] : d = <<z, n>>
    BY <2>1
  <2>3. PICK x \in DOMAIN f : f[x] > 0 /\ m[x] = z
    BY <2>1
  <2>4. <<x, n>> \in Cells(f)
    <3>1. n \in 1..f[x]
      BY <2>2, <2>3
    <3> QED
      BY <3>1, CellIn
  <2> QED
    BY <2>2, <2>3, <2>4
<1>4. ASSUME NEW c \in Cells(f), NEW d \in Cells(f), name[c] = name[d] PROVE c = d
  <2>1. PICK x \in DOMAIN f : \E n \in 1..f[x] : c = <<x, n>> /\ f[x] > 0
    BY <1>1
  <2>2. PICK n \in 1..f[x] : c = <<x, n>>
    BY <2>1
  <2>3. PICK y \in DOMAIN f : \E k \in 1..f[y] : d = <<y, k>> /\ f[y] > 0
    BY <1>1
  <2>4. PICK k \in 1..f[y] : d = <<y, k>>
    BY <2>3
  <2>5. m[x] = m[y] /\ n = k
    BY <1>4, <2>2, <2>4
  <2> QED
    BY <2>1, <2>2, <2>3, <2>4, <2>5
<1>5. name \in Bijection(Cells(f), Cells(g))
  BY <1>2, <1>3, <1>4 DEF Bijection, Injection, Surjection, IsInjective
<1>6. IsFiniteSet(Cells(f))
  BY SumType
<1> QED
  BY <1>5, <1>6, FS_Bijection DEF ExistsBijection, Sum

\* A part of a sum is no more than the sum.
LEMMA SumPart ==
  ASSUME NEW f, Summable(f), NEW A \in SUBSET DOMAIN f
  PROVE  Sum(Restrict(f, A)) <= Sum(f)
<1> DEFINE rest == Restrict(f, DOMAIN f \ A)
           part == Restrict(f, A)
<1>1. Summable(part) /\ Summable(rest) /\ Sum(f) = Sum(part) + Sum(rest)
  BY SumSplit
<1> HIDE DEF part, rest
<1>2. Sum(part) \in Nat /\ Sum(rest) \in Nat
  BY <1>1, SumType
<1>3. Sum(part) <= Sum(f)
  BY <1>1, <1>2
<1> QED
  BY <1>3 DEF part

\* A sum of ones is no more than their number.
LEMMA SumOfOnes ==
  ASSUME NEW f, Summable(f), \A x \in DOMAIN f : f[x] <= 1
  PROVE  Sum(f) <= Cardinality(DOMAIN f)
<1> DEFINE ones == {<<x, 1>> : x \in DOMAIN f}
           name == [x \in DOMAIN f |-> <<x, 1>>]
<1>1. Cells(f) \subseteq ones
  <2> SUFFICES ASSUME NEW c \in Cells(f)
               PROVE  c \in ones
    OBVIOUS
  <2>1. PICK x \in DOMAIN f : \E n \in 1..f[x] : c = <<x, n>>
    BY CellIn
  <2>2. 1..f[x] \subseteq {1}
    BY DEF Summable
  <2> QED
    BY <2>1, <2>2
<1>2. name \in Surjection(DOMAIN f, ones)
  BY DEF Surjection
<1>3. IsFiniteSet(ones) /\ Cardinality(ones) <= Cardinality(DOMAIN f)
  BY <1>2, FS_Surjection DEF Summable
<1> HIDE DEF ones
<1>4. Cardinality(Cells(f)) <= Cardinality(ones)
  BY <1>1, <1>3, FS_Subset
<1>5. IsFiniteSet(Cells(f)) /\ IsFiniteSet(DOMAIN f)
  BY SumType DEF Summable
<1>6. Cardinality(Cells(f)) \in Nat /\ Cardinality(ones) \in Nat /\ Cardinality(DOMAIN f) \in Nat
  BY <1>3, <1>5, FS_CardinalityType
<1> QED
  BY <1>3, <1>4, <1>6 DEF Sum

\* What parts that share nothing add up to is no more than the sum.
LEMMA SumApart ==
  ASSUME NEW f, Summable(f), NEW I, IsFiniteSet(I), NEW part,
         \A i \in I : part[i] \subseteq DOMAIN f,
         \A i \in I : \A j \in I : \A x : x \in part[i] /\ x \in part[j] => i = j,
         NEW sums, DOMAIN sums = I, \A i \in I : sums[i] = Sum(Restrict(f, part[i]))
  PROVE  Summable(sums) /\ Sum(sums) <= Sum(f)
<1> DEFINE all == UNION {part[i] : i \in I}
           of == [x \in all |-> CHOOSE i \in I : x \in part[i]]
           g == Restrict(f, all)
<1>1. all \subseteq DOMAIN f
  OBVIOUS
<1>2. DOMAIN g = all /\ \A x \in all : g[x] = f[x]
  BY DEF Restrict
<1>3. Summable(g)
  BY <1>1, <1>2, FS_Subset DEF Summable
<1>4. of \in [all -> I]
  OBVIOUS
<1>5. ASSUME NEW i \in I
      PROVE  sums[i] = Sum(Restrict(g, {x \in DOMAIN g : of[x] = i}))
  <2>1. {x \in all : of[x] = i} = part[i]
    OBVIOUS
  <2>2. Restrict(g, part[i]) = Restrict(f, part[i])
    BY <1>2, <2>1 DEF Restrict
  <2>3. {x \in DOMAIN g : of[x] = i} = part[i]
    BY <1>2, <2>1
  <2> QED
    BY <1>5, <2>2, <2>3
<1>6. Sum(g) <= Sum(f)
  BY <1>1, SumPart
<1> HIDE DEF all, of, g
<1>7. of \in [DOMAIN g -> I]
  BY <1>2, <1>4
<1>8. Summable(sums) /\ Sum(sums) = Sum(g)
  BY <1>3, <1>5, <1>7, SumParts
<1> QED
  BY <1>6, <1>8
=============================================================================
