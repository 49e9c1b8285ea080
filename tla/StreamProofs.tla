----------------------------- MODULE StreamProofs -----------------------------
(***************************************************************************)
(* Theorems about StreamText, for any answers that keep to their protocol  *)
(* and any division of them in chunks.                                     *)
(*                                                                         *)
(* First the data, by lemmas about the loops (Folding).  What is fed to    *)
(* the parser in any portions is split letter by letter (FeedSplits), so   *)
(* the client gets of a line what is said in it (GivenAgrees), whichever   *)
(* lines a translation drops or joins (PiecesSelect, EventsSelect); and    *)
(* what is counted on the way is what the answer reports (ScansReport,     *)
(* CountGreatest, PiecesFigures, EventsFigures).                           *)
(*                                                                         *)
(* Then the states.  StreamInv is inductive: what was given and counted is *)
(* what follows from the lines passed on so far, and these with those      *)
(* still due are the ones a translation of all that came yields (Reached). *)
(* At the end of a stream this is Delivered and WorkRecorded.              *)
(***************************************************************************)
EXTENDS StreamText, SequenceTheorems, FiniteSetTheorems, TLAPS

\* What texts and tags are made of; the provers do not know of a letter that it
\* is a STRING.
Letter == STRING \cup {"<", "/", "t", ">"}
Letters == Seq(Letter)

\* The letters of a tag are different.
IsTag(tag) ==
  /\ tag \in Letters /\ Len(tag) \in Nat \ {0}
  /\ \A i, j \in 1..Len(tag) : tag[i] = tag[j] => i = j

LEMMA LettersConcat ==
  ASSUME NEW a \in Letters, NEW b \in Letters, NEW c \in Letters
  PROVE  a \o b \in Letters /\ (a \o b) \o c = a \o (b \o c)
BY ConcatAssociative DEF Letters

\* Letters fed in two portions are those fed in one.
LEMMA SplitsConcat ==
  ASSUME NEW z, NEW s \in Letters, NEW t \in Letters
  PROVE  Splits!Fold(z, s \o t) = Splits!Fold(Splits!Fold(z, s), t)
BY Splits!FoldConcat DEF Letters

TagOf(inside) == IF inside THEN Closing ELSE Opening

LEMMA TagsAreTags ==
  /\ IsTag(Opening) /\ Len(Opening) = 3
  /\ IsTag(Closing) /\ Len(Closing) = 4
  /\ \A b : IsTag(TagOf(b))
<1>1. IsTag(Opening) /\ Len(Opening) = 3
  <2>1. Opening \in Letters /\ Len(Opening) = 3
    BY DEF Letters, Letter, Opening
  <2>2. \A i, j \in 1..3 : Opening[i] = Opening[j] => i = j
    BY DEF Opening
  <2> QED
    BY <2>1, <2>2 DEF IsTag
<1>2. IsTag(Closing) /\ Len(Closing) = 4
  <2>1. Closing \in Letters /\ Len(Closing) = 4
    BY DEF Letters, Letter, Closing
  <2>2. \A i, j \in 1..4 : Closing[i] = Closing[j] => i = j
    BY DEF Closing
  <2> QED
    BY <2>1, <2>2 DEF IsTag
<1> QED
  BY <1>1, <1>2 DEF TagOf

\* The last k letters are the first of the tag, letter by letter.
Ends(u, k, tag) == k <= Len(u) /\ k < Len(tag) /\ \A i \in 1..k : u[Len(u) - k + i] = tag[i]

\* The same of a tag at a place.
IsAt(s, tag, i) == i + Len(tag) - 1 <= Len(s) /\ \A j \in 1..Len(tag) : s[i + j - 1] = tag[j]

LEMMA SameLetters ==
  ASSUME NEW s \in Letters, NEW t \in Letters, NEW m \in Nat, NEW k \in Nat,
         m + k <= Len(s), k <= Len(t)
  PROVE  SubSeq(s, m + 1, m + k) = SubSeq(t, 1, k) <=> \A i \in 1..k : s[m + i] = t[i]
<1>1. Len(s) \in Nat /\ Len(t) \in Nat
  BY DEF Letters
<1>2. /\ SubSeq(s, m + 1, m + k) \in Letters /\ Len(SubSeq(s, m + 1, m + k)) = k
      /\ \A i \in 1..k : SubSeq(s, m + 1, m + k)[i] = s[m + i]
  <2>1. \A i \in (m + 1)..(m + k) : s[i] \in Letter
    BY <1>1, ElementOfSeq DEF Letters
  <2> QED
    BY <2>1, SubSeqProperties DEF Letters
<1>3. /\ SubSeq(t, 1, k) \in Letters /\ Len(SubSeq(t, 1, k)) = k
      /\ \A i \in 1..k : SubSeq(t, 1, k)[i] = t[i]
  <2>1. \A i \in 1..k : t[i] \in Letter
    BY <1>1, ElementOfSeq DEF Letters
  <2> QED
    BY <2>1, SubSeqProperties DEF Letters
<1> DEFINE a == SubSeq(s, m + 1, m + k)
<1> DEFINE b == SubSeq(t, 1, k)
<1> HIDE DEF a, b
<1>4. a = b <=> \A i \in 1..k : a[i] = b[i]
  BY <1>2, <1>3, SeqEqual DEF a, b, Letters
<1> QED
  BY <1>2, <1>3, <1>4 DEF a, b

LEMMA AtIs ==
  ASSUME NEW s \in Letters, NEW tag, IsTag(tag), NEW i \in 1..Len(s)
  PROVE  At(s, tag, i) <=> IsAt(s, tag, i)
<1>1. Len(s) \in Nat /\ Len(tag) \in Nat /\ tag \in Letters
  BY DEF IsTag, Letters
<1>2. SubSeq(tag, 1, Len(tag)) = tag
  BY <1>1, SubSeqFull DEF Letters
<1> DEFINE m == i - 1
<1> DEFINE k == Len(tag)
<1>3. m \in Nat /\ k \in Nat /\ m + 1 = i /\ m + k = i + Len(tag) - 1
  BY <1>1
<1> HIDE DEF m, k
<1>4. m + k <= Len(s) => (SubSeq(s, m + 1, m + k) = SubSeq(tag, 1, k) <=> \A j \in 1..k : s[m + j] = tag[j])
  BY <1>1, <1>3, SameLetters DEF k
<1>5. \A j \in 1..k : m + j = i + j - 1
  BY <1>1, <1>3 DEF k
<1> QED
  BY <1>1, <1>2, <1>3, <1>4, <1>5 DEF At, IsAt, k

\* Held is the only beginning of the tag at the end, if there is one.
LEMMA HeldIs ==
  ASSUME NEW u \in Letters, NEW tag, IsTag(tag)
  PROVE  /\ Held(u, tag) \in Nat /\ Held(u, tag) < Len(tag) /\ Ends(u, Held(u, tag), tag)
         /\ \A k \in Nat \ {0} : Ends(u, k, tag) => k = Held(u, tag)
<1>1. Len(u) \in Nat /\ Len(tag) \in Nat \ {0} /\ tag \in Letters
  BY DEF IsTag, Letters
<1> DEFINE sizes == {n \in 0..(Len(tag) - 1) :
                      n <= Len(u) /\ SubSeq(u, Len(u) - n + 1, Len(u)) = SubSeq(tag, 1, n)}
<1>2. \A n : n \in sizes <=> n \in Nat /\ Ends(u, n, tag)
  <2> TAKE n
  <2>1. CASE n \in Nat /\ n <= Len(u) /\ n < Len(tag)
    <3>1. Len(u) - n \in Nat /\ Len(u) - n + n = Len(u) /\ n <= Len(tag)
      BY <1>1, <2>1
    <3> DEFINE m == Len(u) - n
    <3> HIDE DEF m
    <3>2. SubSeq(u, m + 1, m + n) = SubSeq(tag, 1, n) <=> \A i \in 1..n : u[m + i] = tag[i]
      BY <1>1, <2>1, <3>1, SameLetters DEF m
    <3> QED
      BY <1>1, <2>1, <3>1, <3>2 DEF m, Ends
  <2>2. CASE ~(n \in Nat /\ n <= Len(u) /\ n < Len(tag))
    BY <1>1, <2>2 DEF Ends
  <2> QED
    BY <2>1, <2>2
<1>3. ASSUME NEW j \in sizes, NEW k \in sizes, j > 0, k > 0 PROVE j = k
  <2>1. /\ j \in Nat /\ Ends(u, j, tag) /\ k \in Nat /\ Ends(u, k, tag)
    <3> HIDE DEF sizes
    <3> QED
      BY <1>2, <1>3
  <2>2. j \in 1..Len(tag) /\ k \in 1..Len(tag) /\ u[Len(u)] = tag[j] /\ u[Len(u)] = tag[k]
    BY <1>1, <1>3, <2>1 DEF Ends
  <2> QED
    BY <2>2 DEF IsTag
<1>4. 0 \in sizes
  BY <1>1, <1>2 DEF Ends
<1>5. \A n \in sizes : n \in Nat
  BY <1>1
<1> HIDE DEF sizes
<1>6. \E n \in sizes : \A k \in sizes : k <= n
  <2>1. CASE \E n \in sizes : n > 0
    BY <1>3, <1>5, <2>1
  <2>2. CASE ~(\E n \in sizes : n > 0)
    BY <1>4, <1>5, <2>2
  <2> QED
    BY <2>1, <2>2
<1>7. Held(u, tag) \in sizes /\ \A k \in sizes : k <= Held(u, tag)
  BY <1>6 DEF Held, sizes
<1>8. Ends(u, Held(u, tag), tag) /\ Held(u, tag) \in Nat
  BY <1>2, <1>7
<1>9. \A k \in Nat \ {0} : Ends(u, k, tag) => k = Held(u, tag)
  BY <1>2, <1>3, <1>5, <1>7
<1> QED
  BY <1>8, <1>9 DEF Ends

LEMMA FindIs ==
  ASSUME NEW s \in Letters, NEW tag, IsTag(tag)
  PROVE  \/ Find(s, tag) = 0 /\ \A i \in 1..Len(s) : ~IsAt(s, tag, i)
         \/ /\ Find(s, tag) \in 1..Len(s) /\ IsAt(s, tag, Find(s, tag))
            /\ \A i \in 1..Len(s) : IsAt(s, tag, i) => Find(s, tag) <= i
<1> DEFINE places == {i \in 1..Len(s) : At(s, tag, i)}
<1>1. \A i : i \in places <=> i \in 1..Len(s) /\ IsAt(s, tag, i)
  BY AtIs
<1>2. places \in SUBSET Nat
  BY DEF Letters
<1> HIDE DEF places
<1>3. CASE places = {}
  BY <1>1, <1>3 DEF Find, places
<1>4. CASE places # {}
  <2>1. \E i \in places : \A j \in places : i <= j
    BY <1>2, <1>4, Splits!Least
  <2>2. Find(s, tag) \in places /\ \A j \in places : Find(s, tag) <= j
    BY <1>4, <2>1 DEF Find, places
  <2> QED
    BY <1>1, <2>2
<1> QED
  BY <1>3, <1>4

\* What a letter more makes of what is held.
LEMMA HeldNext ==
  ASSUME NEW u \in Letters, NEW x \in Letter, NEW tag, IsTag(tag)
  PROVE  /\ x = tag[Held(u, tag) + 1] /\ Held(u, tag) + 1 < Len(tag) => Held(Append(u, x), tag) = Held(u, tag) + 1
         /\ x = tag[Held(u, tag) + 1] /\ Held(u, tag) + 1 = Len(tag) =>
              \E i \in 1..Len(Append(u, x)) : IsAt(Append(u, x), tag, i)
         /\ x # tag[Held(u, tag) + 1] /\ x = tag[1] => Held(Append(u, x), tag) = 1
         /\ x # tag[Held(u, tag) + 1] /\ x # tag[1] => Held(Append(u, x), tag) = 0
<1> DEFINE k == Held(u, tag)
<1> DEFINE v == Append(u, x)
<1>1. /\ Len(u) \in Nat /\ Len(tag) \in Nat \ {0} /\ tag \in Letters
      /\ v \in Letters /\ Len(v) = Len(u) + 1 /\ v[Len(u) + 1] = x /\ \A i \in 1..Len(u) : v[i] = u[i]
  BY DEF IsTag, Letters
<1>2. /\ k \in Nat /\ k < Len(tag) /\ Ends(u, k, tag)
      /\ \A j \in Nat \ {0} : Ends(u, j, tag) => j = k
  BY HeldIs
<1>3. \A j \in Nat \ {0} : Ends(v, j, tag) => j = Held(v, tag)
  BY <1>1, HeldIs
<1> HIDE DEF k, v
<1>4. k <= Len(u) /\ \A i \in 1..k : u[Len(u) - k + i] = tag[i]
  BY <1>2 DEF Ends
<1>5. \A i \in 1..k : v[Len(u) - k + i] = tag[i]
  BY <1>1, <1>2, <1>4
<1>10. ASSUME x = tag[k + 1], NEW i \in 1..(k + 1) PROVE v[Len(u) - k + i] = tag[i]
  <2>1. CASE i \in 1..k
    BY <1>5, <2>1
  <2>2. CASE i = k + 1
    <3>1. Len(u) - k + i = Len(u) + 1
      BY <1>1, <1>2, <2>2
    <3> QED
      BY <1>1, <1>10, <2>2, <3>1
  <2>3. k \in Nat
    BY <1>2
  <2>4. i \in 1..k \/ i = k + 1
    BY <2>3
  <2> QED
    BY <2>1, <2>2, <2>4
<1>6. ASSUME x = tag[k + 1], k + 1 < Len(tag) PROVE Held(v, tag) = k + 1
  <2>2. Len(v) - (k + 1) = Len(u) - k /\ k + 1 <= Len(v)
    BY <1>1, <1>2, <1>4
  <2>1. Ends(v, k + 1, tag)
    BY <1>6, <1>10, <2>2 DEF Ends
  <2> QED
    BY <1>2, <1>3, <2>1
<1>7. ASSUME x = tag[k + 1], k + 1 = Len(tag)
      PROVE  Len(u) - k + 1 \in 1..Len(v) /\ IsAt(v, tag, Len(u) - k + 1)
  <2>1. \A i \in 1..(k + 1) : Len(u) - k + 1 + i - 1 = Len(u) - k + i
    BY <1>1, <1>2
  <2>2. Len(u) - k + 1 \in 1..Len(v) /\ Len(u) - k + 1 + Len(tag) - 1 <= Len(v)
    BY <1>1, <1>2, <1>4, <1>7
  <2>3. \A i \in 1..Len(tag) : v[Len(u) - k + 1 + i - 1] = tag[i]
    BY <1>7, <1>10, <2>1
  <2> QED
    BY <2>2, <2>3 DEF IsAt
<1>8. ASSUME x # tag[k + 1], x = tag[1] PROVE Held(v, tag) = 1
  <2>1. Ends(v, 1, tag)
    BY <1>1, <1>2, <1>8 DEF Ends
  <2> QED
    BY <1>3, <2>1
<1>9. ASSUME x # tag[k + 1], x # tag[1] PROVE Held(v, tag) = 0
  <2> DEFINE j == Held(v, tag)
  <2> SUFFICES ASSUME j # 0 PROVE FALSE
    OBVIOUS
  <2>1. j \in Nat \ {0} /\ Ends(v, j, tag)
    BY <1>1, HeldIs
  <2> HIDE DEF j
  <2>2. j <= Len(v) /\ j < Len(tag) /\ \A i \in 1..j : v[Len(v) - j + i] = tag[i]
    BY <2>1 DEF Ends
  <2>3. x = tag[j]
    BY <1>1, <2>1, <2>2
  <2>4. j - 1 \in Nat \ {0}
    BY <1>9, <2>1, <2>3
  <2>5. Ends(u, j - 1, tag)
    <3>1. ASSUME NEW i \in 1..(j - 1) PROVE u[Len(u) - (j - 1) + i] = tag[i]
      <4>1. Len(u) - (j - 1) + i = Len(v) - j + i /\ Len(v) - j + i \in 1..Len(u) /\ i \in 1..j
        BY <1>1, <2>1, <2>2
      <4> QED
        BY <1>1, <2>2, <4>1
    <3> QED
      BY <1>1, <2>1, <2>2, <2>4, <3>1 DEF Ends
  <2>6. j - 1 = k
    BY <1>2, <2>4, <2>5
  <2> QED
    BY <1>9, <2>1, <2>3, <2>6
<1> QED
  BY <1>6, <1>7, <1>8, <1>9 DEF k, v

-----------------------------------------------------------------------------
(* Letter by letter.                                                       *)

TalkState == [inside : BOOLEAN, matched : Nat, text : Letters, thought : Letters]

\* The state of one who has heard t and h.
Heard(inside, k, t, h) == [inside |-> inside, matched |-> k, text |-> t, thought |-> h]

LEMMA HeardIs ==
  ASSUME NEW i, NEW k, NEW t, NEW h
  PROVE  /\ Heard(i, k, t, h).inside = i /\ Heard(i, k, t, h).matched = k
         /\ Heard(i, k, t, h).text = t /\ Heard(i, k, t, h).thought = h
BY DEF Heard

LEMMA HeardFlipped ==
  ASSUME NEW i, NEW k, NEW t, NEW h
  PROVE  [Heard(i, k, t, h) EXCEPT !.inside = ~@] = Heard(~i, k, t, h)
BY DEF Heard

LEMMA HeardMatched ==
  ASSUME NEW i, NEW k, NEW t, NEW h, NEW j
  PROVE  [Heard(i, k, t, h) EXCEPT !.matched = j] = Heard(i, j, t, h)
BY DEF Heard

LEMMA HeardType ==
  ASSUME NEW i \in BOOLEAN, NEW k \in Nat, NEW t \in Letters, NEW h \in Letters
  PROVE  Heard(i, k, t, h) \in TalkState
BY DEF Heard, TalkState

\* Letters that are no part of a tag.
Put(a, s) == IF a.inside THEN [a EXCEPT !.thought = @ \o s] ELSE [a EXCEPT !.text = @ \o s]

\* What a text without a tag leaves: all of it but what is held.
Passed(z, u, tag) ==
  [Put(z, SubSeq(u, 1, Len(u) - Held(u, tag))) EXCEPT !.matched = Held(u, tag)]

LEMMA PutType ==
  ASSUME NEW z \in TalkState, NEW s \in Letters, NEW k \in Nat
  PROVE  /\ Put(z, s) \in TalkState /\ [Put(z, s) EXCEPT !.matched = k] \in TalkState
         /\ Put(z, s).inside = z.inside /\ Put(z, s).matched = z.matched
         /\ \A t \in Letters : Put([Put(z, s) EXCEPT !.matched = k], t) = [Put(z, s \o t) EXCEPT !.matched = k]
<1>1. \A a, t \in Letters : (a \o s) \o t = a \o (s \o t) /\ a \o s \in Letters
  BY ConcatAssociative, ConcatProperties DEF Letters
<1> QED
  BY <1>1 DEF Put, TalkState

LEMMA HeldParts ==
  ASSUME NEW u \in Letters, NEW tag, IsTag(tag)
  PROVE  /\ Held(u, tag) \in Nat /\ Held(u, tag) < Len(tag) /\ Held(u, tag) <= Len(u) /\ Len(u) \in Nat
         /\ SubSeq(u, 1, Len(u) - Held(u, tag)) \in Letters /\ SubSeq(tag, 1, Held(u, tag)) \in Letters
         /\ SubSeq(u, 1, Len(u) - Held(u, tag)) \o SubSeq(tag, 1, Held(u, tag)) = u
<1> DEFINE k == Held(u, tag)
<1>1. Len(u) \in Nat /\ Len(tag) \in Nat \ {0} /\ tag \in Letters
  BY DEF IsTag, Letters
<1>2. k \in Nat /\ k < Len(tag) /\ Ends(u, k, tag)
  BY HeldIs
<1> HIDE DEF k
<1>3. k <= Len(u) /\ \A i \in 1..k : u[Len(u) - k + i] = tag[i]
  BY <1>2 DEF Ends
<1> DEFINE m == Len(u) - k
<1>4. m \in Nat /\ m + k = Len(u) /\ m <= Len(u)
  BY <1>1, <1>2, <1>3
<1>5. \A i \in 1..m : u[i] \in Letter
  BY <1>1, <1>4, ElementOfSeq DEF Letters
<1>6. \A i \in 1..k : tag[i] \in Letter
  BY <1>1, <1>2, ElementOfSeq DEF Letters
<1> HIDE DEF m
<1>7. /\ SubSeq(u, 1, m) \in Letters /\ Len(SubSeq(u, 1, m)) = m
      /\ \A i \in 1..m : SubSeq(u, 1, m)[i] = u[i]
  BY <1>4, <1>5, SubSeqProperties DEF Letters
<1>8. /\ SubSeq(tag, 1, k) \in Letters /\ Len(SubSeq(tag, 1, k)) = k
      /\ \A i \in 1..k : SubSeq(tag, 1, k)[i] = tag[i]
  BY <1>2, <1>6, SubSeqProperties DEF Letters
<1> DEFINE a == SubSeq(u, 1, m)
<1> DEFINE b == SubSeq(tag, 1, k)
<1> HIDE DEF a, b
<1>9. a \o b = u
  <2>1. /\ a \o b \in Letters /\ Len(a \o b) = m + k
        /\ \A i \in 1..(m + k) : (a \o b)[i] = IF i <= m THEN a[i] ELSE b[i - m]
    BY <1>7, <1>8, ConcatProperties DEF a, b, Letters
  <2>2. ASSUME NEW i \in 1..(m + k) PROVE (a \o b)[i] = u[i]
    <3>1. CASE i <= m
      BY <2>1, <3>1, <1>4, <1>7 DEF a
    <3>2. CASE ~(i <= m)
      <4>1. i - m \in 1..k /\ m + (i - m) = i
        BY <3>2, <1>4, <1>2
      <4>2. b[i - m] = tag[i - m] /\ u[m + (i - m)] = tag[i - m]
        BY <4>1, <1>3, <1>8 DEF b, m
      <4> QED
        BY <2>1, <3>2, <4>1, <4>2
    <3> QED
      BY <3>1, <3>2
  <2> QED
    BY <1>4, <2>1, <2>2, SeqEqual DEF Letters
<1> QED
  BY <1>1, <1>2, <1>3, <1>7, <1>8, <1>9 DEF a, b, m, k

\* One letter more of a text without a tag.
LEMMA SplitNext ==
  ASSUME NEW z \in TalkState, NEW u \in Letters, NEW x \in Letter, NEW tag, tag = TagOf(z.inside),
         \A i \in 1..Len(Append(u, x)) : ~IsAt(Append(u, x), tag, i)
  PROVE  Split(Passed(z, u, tag), x) = Passed(z, Append(u, x), tag)
<1> DEFINE v == Append(u, x)
<1>14. \A i \in 1..Len(v) : ~IsAt(v, tag, i)
  OBVIOUS
<1> DEFINE k == Held(u, tag)
<1> DEFINE j == Held(v, tag)
<1> DEFINE m == Len(u) - k
<1> DEFINE a == SubSeq(u, 1, m)
<1> DEFINE b == SubSeq(tag, 1, k)
<1> DEFINE y == Put(z, a)
<1>1. IsTag(tag)
  BY TagsAreTags
<1>2. /\ k \in Nat /\ k < Len(tag) /\ k <= Len(u) /\ Len(u) \in Nat /\ a \in Letters /\ b \in Letters
      /\ a \o b = u
  BY <1>1, HeldParts
<1>3. /\ v \in Letters /\ Len(v) = Len(u) + 1 /\ v = u \o <<x>>
      /\ Len(tag) \in Nat /\ SubSeq(v, 1, Len(u)) = u /\ SubSeq(v, 1, m) = a /\ SubSeq(v, 1, Len(v)) = v
  <2>1. /\ v \in Letters /\ Len(v) = Len(u) + 1 /\ v = u \o <<x>> /\ Len(tag) \in Nat /\ <<x>> \in Letters
    BY <1>1 DEF Letters, IsTag, v
  <2>2. SubSeq(v, 1, Len(u)) = u /\ SubSeq(v, 1, Len(v)) = v
    BY <2>1 DEF Letters
  <2>3. SubSeq(v, 1, m) = SubSeq(u, 1, m)
    <3>1. m \in 0..Len(u)
      BY <1>2
    <3> HIDE DEF m, a, b, k
    <3> QED
      BY <3>1, <2>1 DEF Letters
  <2> QED
    BY <2>1, <2>2, <2>3
<1> HIDE DEF v
<1>4. /\ y \in TalkState /\ [y EXCEPT !.matched = k] \in TalkState /\ y.inside = z.inside
      /\ \A t \in Letters : Put([y EXCEPT !.matched = k], t) = [Put(z, a \o t) EXCEPT !.matched = k]
  <2> HIDE DEF a, k
  <2>1. a \in Letters /\ k \in Nat
    BY <1>2
  <2>2. /\ Put(z, a) \in TalkState /\ [Put(z, a) EXCEPT !.matched = k] \in TalkState
        /\ Put(z, a).inside = z.inside
        /\ \A t \in Letters : Put([Put(z, a) EXCEPT !.matched = k], t) = [Put(z, a \o t) EXCEPT !.matched = k]
    BY <2>1, PutType
  <2> QED
    BY <2>2 DEF y
<1> DEFINE p == [y EXCEPT !.matched = k]
<1>5. Passed(z, u, tag) = p
  BY DEF Passed
<1>6. p.matched = k /\ p.inside = z.inside
  BY <1>4 DEF TalkState
<1> HIDE DEF p, y, a, b, k
<1>7. Split(p, x) = IF x = tag[k + 1]
                     THEN IF k + 1 = Len(tag)
                            THEN [p EXCEPT !.inside = ~@, !.matched = 0]
                            ELSE [p EXCEPT !.matched = k + 1]
                     ELSE IF x = tag[1]
                            THEN [Put(p, b) EXCEPT !.matched = 1]
                            ELSE [Put(p, Append(b, x)) EXCEPT !.matched = 0]
  BY <1>6 DEF Split, Put, TagOf, b
<1>8. /\ x = tag[k + 1] /\ k + 1 < Len(tag) => j = k + 1
      /\ ~(x = tag[k + 1] /\ k + 1 = Len(tag))
      /\ x # tag[k + 1] /\ x = tag[1] => j = 1
      /\ x # tag[k + 1] /\ x # tag[1] => j = 0
  <2>2. /\ x = tag[k + 1] /\ k + 1 < Len(tag) => j = k + 1
        /\ x = tag[k + 1] /\ k + 1 = Len(tag) => \E i \in 1..Len(v) : IsAt(v, tag, i)
        /\ x # tag[k + 1] /\ x = tag[1] => j = 1
        /\ x # tag[k + 1] /\ x # tag[1] => j = 0
    <3> HIDE DEF j
    <3> QED
      BY <1>1, HeldNext DEF k, j, v
  <2> QED
    BY <1>14, <2>2
<1> HIDE DEF j
<1>9. Passed(z, v, tag) = [Put(z, SubSeq(v, 1, Len(v) - j)) EXCEPT !.matched = j]
  BY DEF Passed, j
<1>10. CASE x = tag[k + 1]
  <2>1. j = k + 1 /\ k + 1 # Len(tag)
    BY <1>2, <1>3, <1>8, <1>10
  <2>2. Len(v) - j = m
    BY <1>2, <1>3, <2>1
  <2>3. Split(p, x) = [p EXCEPT !.matched = k + 1]
    BY <1>7, <1>10, <2>1
  <2>4. [p EXCEPT !.matched = k + 1] = [y EXCEPT !.matched = k + 1]
    BY <1>4 DEF p, TalkState
  <2> QED
    BY <1>3, <1>5, <1>9, <2>1, <2>2, <2>3, <2>4 DEF y, v
<1>11. CASE x # tag[k + 1] /\ x = tag[1]
  <2>1. j = 1
    BY <1>8, <1>11
  <2>2. Len(v) - j = Len(u)
    BY <1>2, <1>3, <2>1
  <2>3. Split(p, x) = [Put(p, b) EXCEPT !.matched = 1]
    BY <1>7, <1>11
  <2>4. Put(p, b) = [Put(z, u) EXCEPT !.matched = k]
    BY <1>2, <1>4 DEF p
  <2>5. [[Put(z, u) EXCEPT !.matched = k] EXCEPT !.matched = 1] = [Put(z, u) EXCEPT !.matched = 1]
    BY PutType DEF TalkState
  <2> QED
    BY <1>3, <1>5, <1>9, <2>1, <2>2, <2>3, <2>4, <2>5 DEF v
<1>12. CASE x # tag[k + 1] /\ x # tag[1]
  <2>1. j = 0
    BY <1>8, <1>12
  <2>2. Len(v) - j = Len(v)
    BY <1>2, <1>3, <2>1
  <2>3. Split(p, x) = [Put(p, Append(b, x)) EXCEPT !.matched = 0]
    BY <1>7, <1>12
  <2>4. Append(b, x) \in Letters /\ a \o Append(b, x) = v
    <3>1. Append(b, x) = b \o <<x>> /\ <<x>> \in Letters /\ Append(b, x) \in Letters
      BY <1>2, AppendIsConcat DEF Letters
    <3>2. \A c \in Letters : a \o (b \o c) = (a \o b) \o c
      <4>1. a \in Seq(Letter) /\ b \in Seq(Letter)
        BY <1>2 DEF Letters
      <4> TAKE c \in Letters
      <4>2. c \in Seq(Letter)
        BY DEF Letters
      <4> QED
        BY <4>1, <4>2, ConcatAssociative
    <3> QED
      BY <1>2, <1>3, <3>1, <3>2
  <2>5. Put(p, Append(b, x)) = [Put(z, v) EXCEPT !.matched = k]
    BY <1>4, <2>4 DEF p
  <2>6. [[Put(z, v) EXCEPT !.matched = k] EXCEPT !.matched = 0] = [Put(z, v) EXCEPT !.matched = 0]
    BY PutType, <1>2, <1>3 DEF TalkState
  <2> QED
    BY <1>3, <1>5, <1>9, <2>1, <2>2, <2>3, <2>5, <2>6 DEF v
<1> QED
  BY <1>10, <1>11, <1>12
LEMMA NoTagSplits ==
  ASSUME NEW z \in TalkState, z.matched = 0, NEW u \in Letters, NEW tag, tag = TagOf(z.inside),
         \A i \in 1..Len(u) : ~IsAt(u, tag, i)
  PROVE  Splits!Fold(z, u) = Passed(z, u, tag)
<1> DEFINE None(v) == \A i \in 1..Len(v) : ~IsAt(v, tag, i)
<1> DEFINE T == {v \in Letters : None(v) => Splits!Fold(z, v) = Passed(z, v, tag)}
<1>1. <<>> \in T
  <2>1. <<>> \in Letters /\ Len(<<>>) = 0 /\ IsTag(tag)
    BY TagsAreTags DEF Letters
  <2>2. Held(<<>>, tag) = 0
    BY <2>1, HeldParts
  <2>3. SubSeq(<<>>, 1, 0) = <<>>
    BY SubSeqEmpty
  <2>4. \A a \in Letters : a \o <<>> = a
    BY DEF Letters
  <2>5. SubSeq(<<>>, 1, Len(<<>>) - Held(<<>>, tag)) = <<>>
    BY <2>1, <2>2, <2>3
  <2>6. Put(z, <<>>) = z
    BY <2>4 DEF Put, TalkState
  <2>7. Passed(z, <<>>, tag) = [z EXCEPT !.matched = 0]
    BY <2>2, <2>5, <2>6 DEF Passed
  <2>8. Passed(z, <<>>, tag) = z
    BY <2>7 DEF TalkState
  <2> QED
    BY <2>1, <2>8, Splits!FoldEmpty
<1>2. ASSUME NEW v \in Letters, NEW x \in Letter, v \in T PROVE Append(v, x) \in T
  <2> DEFINE w == Append(v, x)
  <2>1. w \in Letters
    BY DEF Letters
  <2> SUFFICES ASSUME None(w) PROVE Splits!Fold(z, w) = Passed(z, w, tag)
    BY <2>1
  <2>2. None(v)
    <3>1. /\ Len(v) \in Nat /\ Len(w) = Len(v) + 1 /\ Len(tag) \in Nat \ {0}
          /\ \A i \in 1..Len(v) : w[i] = v[i]
      BY TagsAreTags DEF Letters, IsTag
    <3> SUFFICES ASSUME NEW i \in 1..Len(v), IsAt(v, tag, i) PROVE FALSE
      OBVIOUS
    <3>2. i + Len(tag) - 1 <= Len(v) /\ \A j \in 1..Len(tag) : v[i + j - 1] = tag[j]
      BY DEF IsAt
    <3> HIDE DEF w
    <3>3. \A j \in 1..Len(tag) : i + j - 1 \in 1..Len(v)
      BY <3>1, <3>2
    <3>4. i \in 1..Len(w) /\ IsAt(w, tag, i)
      BY <3>1, <3>2, <3>3 DEF IsAt
    <3> QED
      BY <3>4
  <2>3. Splits!Fold(z, v) = Passed(z, v, tag)
    BY <1>2, <2>2
  <2>4. Splits!Fold(z, w) = Split(Splits!Fold(z, v), x)
    BY Splits!FoldAppend DEF Letters
  <2>5. Split(Passed(z, v, tag), x) = Passed(z, w, tag)
    BY SplitNext
  <2> QED
    BY <2>3, <2>4, <2>5
<1>3. u \in T
  <2> HIDE DEF T
  <2>1. \A v \in Letters, x \in Letter : v \in T => Append(v, x) \in T
    BY <1>2
  <2> QED
    BY <1>1, <2>1, Splits!SeqInduction DEF Letters
<1> QED
  BY <1>3

\* The letters up to the end of the first tag: those before it, and the other side.
LEMMA TagSplits ==
  ASSUME NEW z \in TalkState, z.matched = 0, NEW r \in Letters, NEW tag, tag = TagOf(z.inside),
         NEW i \in 1..Len(r), IsAt(r, tag, i), \A j \in 1..Len(r) : IsAt(r, tag, j) => i <= j
  PROVE  /\ i + Len(tag) - 1 \in 1..Len(r)
         /\ Splits!Fold(z, SubSeq(r, 1, i + Len(tag) - 1)) = [Put(z, SubSeq(r, 1, i - 1)) EXCEPT !.inside = ~@]
<1> DEFINE n == Len(tag)
<1> DEFINE m == i + n - 2
<1> DEFINE u == SubSeq(r, 1, m)
<1>1. IsTag(tag) /\ n \in Nat /\ n > 2 /\ tag \in Letters
  <2>1. tag = Opening \/ tag = Closing
    BY DEF TagOf
  <2>2. IsTag(tag) /\ (Len(tag) = 3 \/ Len(tag) = 4)
    BY <2>1, TagsAreTags, Zenon
  <2> QED
    BY <2>2 DEF IsTag
<1>2. Len(r) \in Nat /\ i + n - 1 <= Len(r) /\ \A j \in 1..n : r[i + j - 1] = tag[j]
  BY DEF Letters, IsAt
<1>3. m \in Nat /\ m < Len(r) /\ m + 1 = i + n - 1
  BY <1>1, <1>2
<1> HIDE DEF n, m
<1>4. u \in Letters /\ Len(u) = m /\ \A j \in 1..m : u[j] = r[j]
  <2>1. \A j \in 1..m : r[j] \in Letter
    BY <1>2, <1>3, ElementOfSeq DEF Letters
  <2> QED
    BY <1>3, <2>1, SubSeqProperties DEF Letters
<1>5. r[m + 1] = tag[n] /\ r[m + 1] \in Letter /\ SubSeq(r, 1, m + 1) = Append(u, r[m + 1])
  <2>1. SubSeq(r, 1, m + 1) = Append(u, r[m + 1]) /\ r[m + 1] \in Letter
    BY <1>3, Splits!PrefixAppend DEF Letters
  <2>2. n \in 1..n
    BY <1>1
  <2> QED
    BY <1>2, <1>3, <2>1, <2>2
<1> HIDE DEF u
<1>6. ASSUME NEW j \in 1..Len(u), IsAt(u, tag, j) PROVE FALSE
  <2>1. j + n - 1 <= m /\ \A k \in 1..n : u[j + k - 1] = tag[k]
    BY <1>4, <1>6 DEF IsAt, n
  <2>2. \A k \in 1..n : j + k - 1 \in 1..m
    BY <1>1, <1>3, <1>4, <2>1
  <2>3. j \in 1..Len(r) /\ IsAt(r, tag, j)
    BY <1>1, <1>2, <1>3, <1>4, <2>1, <2>2 DEF IsAt, n
  <2> QED
    BY <1>1, <1>3, <1>4, <2>1, <2>3 DEF m
<1>7. Held(u, tag) = n - 1
  <2>1. n - 1 \in Nat \ {0} /\ m - (n - 1) = i - 1
    BY <1>1, <1>3
  <2>2. \A k \in 1..(n - 1) : u[m - (n - 1) + k] = tag[k]
    <3> TAKE k \in 1..(n - 1)
    <3>1. m - (n - 1) + k = i + k - 1 /\ i + k - 1 \in 1..m /\ k \in 1..n
      BY <1>1, <1>3, <2>1
    <3> QED
      BY <1>2, <1>4, <3>1
  <2>3. n - 1 <= m
    BY <1>3, <2>1
  <2>4. Ends(u, n - 1, tag)
    BY <1>1, <1>4, <2>2, <2>3 DEF Ends, n
  <2> QED
    BY <1>1, <1>4, <2>1, <2>4, HeldIs
<1>8. Splits!Fold(z, u) = Passed(z, u, tag)
  BY <1>4, <1>6, NoTagSplits
<1>9. Splits!Fold(z, Append(u, r[m + 1])) = Split(Splits!Fold(z, u), r[m + 1])
  BY <1>4, <1>5, Splits!FoldAppend DEF Letters
<1> DEFINE a == SubSeq(r, 1, i - 1)
<1>10. SubSeq(u, 1, Len(u) - (n - 1)) = a /\ a \in Letters
  <2>1. Len(u) - (n - 1) = i - 1 /\ i - 1 \in Nat /\ i - 1 <= m
    BY <1>1, <1>3, <1>4
  <2>2. \A j \in 1..(i - 1) : u[j] = r[j] /\ u[j] \in Letter /\ r[j] \in Letter
    BY <1>3, <1>4, <2>1, ElementOfSeq DEF Letters
  <2>3. /\ SubSeq(u, 1, i - 1) \in Letters /\ Len(SubSeq(u, 1, i - 1)) = i - 1
        /\ \A j \in 1..(i - 1) : SubSeq(u, 1, i - 1)[j] = u[j]
    BY <2>1, <2>2, SubSeqProperties DEF Letters
  <2>4. /\ a \in Letters /\ Len(a) = i - 1
        /\ \A j \in 1..(i - 1) : a[j] = r[j]
    BY <2>1, <2>2, SubSeqProperties DEF Letters
  <2> HIDE DEF a
  <2>5. SubSeq(u, 1, i - 1) = a
    BY <2>2, <2>3, <2>4, SeqEqual DEF Letters
  <2> QED
    BY <2>1, <2>4, <2>5
<1>11. Passed(z, u, tag) = [Put(z, a) EXCEPT !.matched = n - 1]
  BY <1>7, <1>10 DEF Passed
<1> DEFINE y == Put(z, a)
<1>12. y \in TalkState /\ y.inside = z.inside /\ y.matched = 0
  <2> HIDE DEF a
  <2> QED
    BY <1>10, PutType
<1> HIDE DEF y, a
<1>13. Split([y EXCEPT !.matched = n - 1], tag[n]) = [y EXCEPT !.inside = ~@]
  <2> DEFINE p == [y EXCEPT !.matched = n - 1]
  <2>1. p.matched + 1 = n /\ p.inside = y.inside /\ tag = IF p.inside THEN Closing ELSE Opening
    BY <1>1, <1>12 DEF TalkState, TagOf
  <2> HIDE DEF p
  <2>2. Split(p, tag[n]) = [p EXCEPT !.inside = ~@, !.matched = 0]
    BY <2>1 DEF Split, n
  <2>3. [p EXCEPT !.inside = ~@, !.matched = 0] = [y EXCEPT !.inside = ~@]
    BY <1>12 DEF p, TalkState
  <2> QED
    BY <2>2, <2>3 DEF p
<1>14. Splits!Fold(z, SubSeq(r, 1, m + 1)) = [y EXCEPT !.inside = ~@]
  BY <1>5, <1>8, <1>9, <1>11, <1>13 DEF y
<1>15. i + Len(tag) - 1 = m + 1 /\ m + 1 \in 1..Len(r)
  BY <1>2, <1>3 DEF n
<1> QED
  BY <1>14, <1>15 DEF y, a
-----------------------------------------------------------------------------
(* feed.                                                                   *)

LoopState == [rest : Letters, inside : BOOLEAN, buffer : Letters, text : Letters, thought : Letters]

\* A buffer is a beginning of the awaited tag, and not all of it.
Awaits(p) ==
  LET tag == TagOf(p.inside)
  IN p.buffer = SubSeq(tag, 1, Len(p.buffer)) /\ Len(p.buffer) < Len(tag)

LoopInv(a) == a \in LoopState /\ Awaits(a) /\ (a.rest # <<>> => a.buffer = <<>>)

\* What the loop has given, after t and h, and what it has left to split.
Meaning(a, t, h) ==
  Splits!Fold(Heard(a.inside, Len(a.buffer), t \o a.text, h \o a.thought), a.rest)

\* A turn of the loop of feed changes nothing of what is said in the end, and
\* leaves less to feed.
LEMMA TurnKeeps ==
  ASSUME NEW a, LoopInv(a), NEW x, NEW t \in Letters, NEW h \in Letters
  PROVE  /\ LoopInv(Turn(a, x))
         /\ Meaning(Turn(a, x), t, h) = Meaning(a, t, h)
         /\ a.rest = <<>> => Turn(a, x) = a
         /\ a.rest # <<>> => Len(Turn(a, x).rest) < Len(a.rest)
<1>1. CASE a.rest = <<>>
  <2>1. Turn(a, x) = a
    BY <1>1 DEF Turn
  <2> QED
    BY <1>1, <2>1
<1>2. CASE a.rest # <<>>
  <2> DEFINE r == a.rest
  <2> DEFINE tag == TagOf(a.inside)
  <2> DEFINE n == Len(tag)
  <2> DEFINE i == Find(r, tag)
  <2> DEFINE k == Held(r, tag)
  <2> DEFINE end == IF i > 0 THEN i - 1 ELSE Len(r) - k
  <2> DEFINE piece == SubSeq(r, 1, end)
  <2> DEFINE z == Heard(a.inside, 0, t \o a.text, h \o a.thought)
  <2> DEFINE past == [a EXCEPT !.text = IF a.inside THEN @ ELSE @ \o piece,
                               !.thought = IF a.inside THEN @ \o piece ELSE @]
  <2>1. /\ a \in LoopState /\ r \in Letters /\ Len(r) \in Nat /\ r # <<>> /\ a.buffer = <<>>
        /\ a.inside \in BOOLEAN
    BY <1>2 DEF LoopInv, LoopState, Letters
  <2>2. IsTag(tag) /\ n \in Nat \ {0} /\ tag \in Letters
    BY TagsAreTags DEF IsTag
  <2>3. /\ k \in Nat /\ k < n /\ k <= Len(r)
    BY <2>1, <2>2, HeldParts
  <2>4. \/ i = 0 /\ \A j \in 1..Len(r) : ~IsAt(r, tag, j)
        \/ i \in 1..Len(r) /\ IsAt(r, tag, i) /\ \A j \in 1..Len(r) : IsAt(r, tag, j) => i <= j
    BY <2>1, <2>2, FindIs
  <2>5. \A m \in 0..Len(r) : SubSeq(r, 1, m) \in Letters /\ SubSeq(r, m + 1, Len(r)) \in Letters
    BY <2>1 DEF Letters
  <2>6. piece \in Letters
    <3>1. end \in 0..Len(r)
      BY <2>1, <2>3, <2>4
    <3> HIDE DEF end
    <3> QED
      BY <2>5, <3>1
  <2>7. z \in TalkState /\ z.inside = a.inside /\ z.matched = 0
    <3>1. t \o a.text \in Letters /\ h \o a.thought \in Letters
      BY <2>1 DEF LoopState, Letters
    <3>2. z \in TalkState
      BY <2>1, <3>1, HeardType
    <3>3. z.inside = a.inside /\ z.matched = 0
      BY HeardIs
    <3> QED
      BY <3>2, <3>3
  <2>8. Meaning(a, t, h) = Splits!Fold(z, r)
    BY <2>1 DEF Meaning
  <2>9. Turn(a, x) = IF i > 0 THEN [past EXCEPT !.rest = SubSeq(@, i + n, Len(@)), !.inside = ~@]
                     ELSE [past EXCEPT !.rest = <<>>, !.buffer = SubSeq(r, Len(r) - k + 1, Len(r))]
    BY <1>2 DEF Turn, TagOf
  <2> HIDE DEF piece
  <2>10. /\ past \in LoopState /\ past.rest = r /\ past.inside = a.inside /\ past.buffer = <<>>
         /\ Put(z, piece) = Heard(a.inside, 0, t \o past.text, h \o past.thought)
    <3>1. a.text \in Letters /\ a.thought \in Letters /\ a.text \o piece \in Letters /\ a.thought \o piece \in Letters
      BY <2>1, <2>6 DEF LoopState, Letters
    <3>2. (t \o a.text) \o piece = t \o (a.text \o piece) /\ (h \o a.thought) \o piece = h \o (a.thought \o piece)
      <4> DEFINE v == a.text
      <4> DEFINE w == a.thought
      <4>1. v \in Letters /\ w \in Letters /\ piece \in Letters
        BY <2>6, <3>1
      <4> HIDE DEF v, w
      <4>2. (t \o v) \o piece = t \o (v \o piece)
        BY <4>1, LettersConcat
      <4>3. (h \o w) \o piece = h \o (w \o piece)
        BY <4>1, LettersConcat
      <4> QED
        BY <4>2, <4>3 DEF v, w
    <3> QED
      BY <2>1, <3>1, <3>2 DEF Put, LoopState, Heard
  <2> HIDE DEF past, z, i, k
  <2>11. CASE i > 0
    <3> DEFINE rest == SubSeq(r, i + n, Len(r))
    <3> DEFINE m == i + n - 1
    <3>1. /\ m \in 1..Len(r)
          /\ Splits!Fold(z, SubSeq(r, 1, m)) = [Put(z, SubSeq(r, 1, i - 1)) EXCEPT !.inside = ~@]
      BY <2>1, <2>4, <2>7, <2>11, TagSplits
    <3>2. i - 1 = end /\ m + 1 = i + n
      BY <2>2, <2>4, <2>11
    <3> HIDE DEF m
    <3>3. /\ SubSeq(r, 1, m) \in Letters /\ rest \in Letters
          /\ SubSeq(r, 1, m) \o rest = r /\ Len(rest) < Len(r)
      <4>1. SubSeq(r, 1, m) \in Letters /\ SubSeq(r, m + 1, Len(r)) \in Letters
        BY <2>5, <3>1
      <4>2. SubSeq(r, 1, m) \o SubSeq(r, m + 1, Len(r)) = SubSeq(r, 1, Len(r))
        <5>1. 1 \in 1..(Len(r) + 1) /\ m \in (1 - 1)..Len(r) /\ Len(r) \in m..Len(r)
          BY <2>1, <3>1
        <5> QED
          BY <2>1, <5>1, ConcatAdjacentSubSeq DEF Letters
      <4>3. SubSeq(r, 1, Len(r)) = r
        BY <2>1, SubSeqFull DEF Letters
      <4>4. Len(SubSeq(r, m + 1, Len(r))) < Len(r)
        BY <2>1, <3>1 DEF Letters
      <4> QED
        BY <3>2, <4>1, <4>2, <4>3, <4>4
    <3> DEFINE y == [Put(z, piece) EXCEPT !.inside = ~@]
    <3>4. Splits!Fold(z, r) = Splits!Fold(y, rest)
      <4>1. Splits!Fold(z, SubSeq(r, 1, m) \o rest) = Splits!Fold(Splits!Fold(z, SubSeq(r, 1, m)), rest)
        <5> HIDE DEF rest
        <5> QED
          BY <3>3, SplitsConcat
      <4> QED
        BY <3>1, <3>2, <3>3, <4>1 DEF piece
    <3> DEFINE b == [past EXCEPT !.rest = rest, !.inside = ~@]
    <3>5. Turn(a, x) = b
      BY <2>9, <2>10, <2>11
    <3> HIDE DEF rest
    <3>6. /\ b \in LoopState /\ b.rest = rest /\ b.buffer = <<>> /\ b.inside = ~a.inside
          /\ b.text = past.text /\ b.thought = past.thought
      BY <2>1, <2>10, <3>3 DEF LoopState
    <3>7. Meaning(b, t, h) = Splits!Fold(y, rest)
      <4>1. y = Heard(~a.inside, 0, t \o past.text, h \o past.thought)
        BY <2>10, HeardFlipped
      <4> HIDE DEF b, y
      <4> QED
        BY <3>6, <4>1 DEF Meaning
    <3>8. LoopInv(b)
      <4>1. IsTag(TagOf(~a.inside))
        BY TagsAreTags
      <4>2. SubSeq(TagOf(~a.inside), 1, 0) = <<>>
        BY SubSeqEmpty
      <4> HIDE DEF b
      <4> QED
        BY <3>6, <4>1, <4>2 DEF LoopInv, Awaits, IsTag
    <3> QED
      BY <1>2, <2>8, <3>3, <3>4, <3>5, <3>6, <3>7, <3>8
  <2>12. CASE ~(i > 0)
    <3> DEFINE buffer == SubSeq(r, Len(r) - k + 1, Len(r))
    <3> DEFINE b == [past EXCEPT !.rest = <<>>, !.buffer = buffer]
    <3>1. Turn(a, x) = b
      BY <2>9, <2>12
    <3>2. /\ buffer = SubSeq(tag, 1, k) /\ buffer \in Letters /\ Len(buffer) = k
      <4>1. Ends(r, k, tag)
        BY <2>1, <2>2, HeldIs DEF k
      <4> DEFINE m == Len(r) - k
      <4>2. m \in Nat /\ m + k = Len(r) /\ k <= Len(tag) /\ \A j \in 1..k : r[m + j] = tag[j]
        BY <2>1, <2>3, <4>1 DEF Ends
      <4> HIDE DEF m
      <4>3. SubSeq(r, m + 1, m + k) = SubSeq(tag, 1, k)
        BY <2>1, <2>2, <2>3, <4>2, SameLetters
      <4>4. SubSeq(tag, 1, k) \in Letters /\ Len(SubSeq(tag, 1, k)) = k
        BY <2>2, <2>3 DEF Letters
      <4> QED
        BY <4>2, <4>3, <4>4 DEF m
    <3> HIDE DEF buffer
    <3>3. /\ b \in LoopState /\ b.rest = <<>> /\ b.buffer = buffer /\ b.inside = a.inside
          /\ b.text = past.text /\ b.thought = past.thought
      <4>1. <<>> \in Letters
        BY DEF Letters
      <4> QED
        BY <2>1, <2>10, <3>2, <4>1 DEF LoopState
    <3> HIDE DEF b
    <3>4. LoopInv(b)
      BY <2>3, <3>2, <3>3 DEF LoopInv, Awaits
    <3>5. Splits!Fold(z, r) = [Put(z, piece) EXCEPT !.matched = k]
      <4>1. Splits!Fold(z, r) = Passed(z, r, tag)
        BY <2>1, <2>4, <2>7, <2>12, NoTagSplits
      <4>2. end = Len(r) - k
        BY <2>12
      <4> QED
        BY <4>1, <4>2 DEF Passed, piece, k
    <3>6. Meaning(b, t, h) = Heard(a.inside, k, t \o past.text, h \o past.thought)
      BY <3>2, <3>3, Splits!FoldEmpty DEF Meaning
    <3>7. Meaning(b, t, h) = [Put(z, piece) EXCEPT !.matched = k]
      BY <2>10, <3>6, HeardMatched
    <3>8. Len(b.rest) < Len(r)
      BY <2>1, <3>3 DEF Letters
    <3> QED
      BY <1>2, <2>8, <3>1, <3>4, <3>5, <3>7, <3>8
  <2> QED
    BY <2>11, <2>12
<1> QED
  BY <1>1, <1>2

\* ThinkTagParser.feed: whatever was fed before, and in whatever portions, it gives
\* what a split letter by letter gives, but for the letters it holds back.
THEOREM FeedSplits ==
  ASSUME NEW p, p.inside \in BOOLEAN, p.buffer \in Letters, Awaits(p),
         NEW s \in Letters, NEW t \in Letters, NEW h \in Letters
  PROVE  /\ Feed(p, s) \in LoopState /\ Awaits(Feed(p, s))
         /\ Splits!Fold(Heard(p.inside, Len(p.buffer), t, h), s)
              = Heard(Feed(p, s).inside, Len(Feed(p, s).buffer), t \o Feed(p, s).text, h \o Feed(p, s).thought)
<1> DEFINE all == p.buffer \o s
<1> DEFINE a == [rest |-> all, inside |-> p.inside, buffer |-> <<>>, text |-> <<>>, thought |-> <<>>]
<1> DEFINE f == Feed(p, s)
<1> DEFINE tag == TagOf(p.inside)
<1> DEFINE z == Heard(p.inside, 0, t, h)
<1>1. /\ all \in Letters /\ Len(all) \in Nat /\ Len(p.buffer) \in Nat /\ <<>> \in Letters
      /\ IsTag(tag) /\ Len(tag) \in Nat \ {0} /\ tag \in Letters /\ t \o <<>> = t /\ h \o <<>> = h
  BY TagsAreTags DEF Letters, IsTag
<1>2. LoopInv(a) /\ a.rest = all
  <2>1. SubSeq(tag, 1, 0) = <<>>
    BY SubSeqEmpty
  <2>2. a \in LoopState /\ a.rest = all /\ a.buffer = <<>> /\ a.inside = p.inside
    BY <1>1 DEF LoopState
  <2> HIDE DEF a, tag
  <2> QED
    BY <1>1, <2>1, <2>2 DEF LoopInv, Awaits, tag
<1>3. Meaning(a, t, h) = Splits!Fold(z, all)
  BY <1>1 DEF Meaning

\* As many turns as letters leave nothing.
<1> DEFINE Turned(v) ==
      LET b == Loop!Fold(a, v)
      IN /\ LoopInv(b) /\ Meaning(b, t, h) = Meaning(a, t, h)
         /\ b.rest = <<>> \/ Len(b.rest) + Len(v) <= Len(all)
<1> DEFINE T == {v \in Letters : Turned(v)}
<1>4. all \in T
  <2> HIDE DEF a, all
  <2>1. Turned(<<>>)
    <3>1. Loop!Fold(a, <<>>) = a
      BY Loop!FoldEmpty
    <3> QED
      BY <1>1, <1>2, <3>1
  <2>2. ASSUME NEW v \in Letters, NEW x \in Letter, Turned(v) PROVE Turned(Append(v, x))
    <3> DEFINE b == Loop!Fold(a, v)
    <3>1. Loop!Fold(a, Append(v, x)) = Turn(b, x)
      BY Loop!FoldAppend DEF Letters
    <3>2. LoopInv(b) /\ Meaning(b, t, h) = Meaning(a, t, h) /\ (b.rest = <<>> \/ Len(b.rest) + Len(v) <= Len(all))
      BY <2>2
    <3> DEFINE c == Turn(b, x)
    <3> HIDE DEF b, c
    <3>3. /\ LoopInv(c) /\ Meaning(c, t, h) = Meaning(b, t, h)
          /\ b.rest = <<>> => c = b
          /\ b.rest # <<>> => Len(c.rest) < Len(b.rest)
      BY <3>2, TurnKeeps DEF c
    <3>4. Len(Append(v, x)) = Len(v) + 1 /\ Len(v) \in Nat /\ Len(b.rest) \in Nat /\ Len(c.rest) \in Nat
      BY <3>2, <3>3 DEF LoopInv, LoopState, Letters
    <3>5. c.rest = <<>> \/ Len(c.rest) + Len(Append(v, x)) <= Len(all)
      <4>1. CASE b.rest = <<>>
        BY <3>3, <4>1
      <4>2. CASE b.rest # <<>>
        <5> DEFINE m == Len(c.rest)
        <5> DEFINE l == Len(b.rest)
        <5> DEFINE j == Len(v)
        <5> DEFINE e == Len(all)
        <5>1. m < l /\ l + j <= e /\ m \in Nat /\ l \in Nat /\ j \in Nat /\ e \in Nat
          BY <1>1, <3>2, <3>3, <3>4, <4>2
        <5> HIDE DEF m, l, j, e
        <5>2. m + (j + 1) <= e
          BY <5>1
        <5> QED
          BY <3>4, <5>2 DEF m, l, j, e
      <4> QED
        BY <4>1, <4>2
    <3> QED
      BY <3>1, <3>2, <3>3, <3>5 DEF c, b
  <2> HIDE DEF Turned
  <2>3. <<>> \in T
    BY <1>1, <2>1
  <2>4. \A v \in Letters, x \in Letter : v \in T => Append(v, x) \in T
    <3>1. \A v \in Letters, x \in Letter : Append(v, x) \in Letters
      BY DEF Letters
    <3> QED
      BY <2>2, <3>1
  <2> HIDE DEF T
  <2> QED
    BY <1>1, <2>3, <2>4, Loop!SeqInduction DEF Letters
<1>5. f = Loop!Fold(a, all)
  BY DEF Feed
<1>6. LoopInv(f) /\ Meaning(f, t, h) = Splits!Fold(z, all) /\ f.rest = <<>>
  <2> HIDE DEF a, all, f, z
  <2>1. LoopInv(f) /\ Meaning(f, t, h) = Splits!Fold(z, all) /\ (f.rest = <<>> \/ Len(f.rest) + Len(all) <= Len(all))
    BY <1>3, <1>4, <1>5
  <2> QED
    BY <1>1, <2>1 DEF LoopInv, LoopState, Letters
<1>7. Meaning(f, t, h) = Heard(f.inside, Len(f.buffer), t \o f.text, h \o f.thought)
  BY <1>6, Splits!FoldEmpty DEF Meaning

\* The buffer by itself is matched.
<1>8. Splits!Fold(z, p.buffer) = Heard(p.inside, Len(p.buffer), t, h)
  <2> DEFINE b == p.buffer
  <2> DEFINE k == Len(b)
  <2>1. k \in Nat /\ k < Len(tag) /\ b = SubSeq(tag, 1, k) /\ b \in Letters
    BY <1>1 DEF Awaits
  <2>2. \A i \in 1..Len(b) : ~IsAt(b, tag, i)
    BY <1>1, <2>1 DEF IsAt
  <2>3. \A j \in 1..k : b[j] = tag[j]
    BY <1>1, <2>1 DEF Letters
  <2> HIDE DEF tag, b, z
  <2>4. Ends(b, k, tag)
    BY <1>1, <2>1, <2>3 DEF Ends
  <2>5. Held(b, tag) = k
    <3>1. CASE k = 0
      BY <1>1, <2>1, <3>1, HeldParts
    <3>2. CASE k # 0
      BY <1>1, <2>1, <2>4, <3>2, HeldIs
    <3> QED
      BY <3>1, <3>2
  <2>6. z \in TalkState /\ z.inside = p.inside /\ z.matched = 0
    <3>1. z \in TalkState
      BY HeardType DEF z
    <3>2. z.inside = p.inside /\ z.matched = 0
      BY HeardIs DEF z
    <3> QED
      BY <3>1, <3>2
  <2>7. Splits!Fold(z, b) = Passed(z, b, tag)
    BY <2>1, <2>2, <2>6, NoTagSplits DEF tag
  <2>8. SubSeq(b, 1, Len(b) - k) = <<>>
    BY <2>1, SubSeqEmpty
  <2>9. Put(z, <<>>) = z
    BY <1>1 DEF Put, z, Heard
  <2>10. Passed(z, b, tag) = [z EXCEPT !.matched = k]
    BY <2>5, <2>8, <2>9 DEF Passed
  <2>11. [z EXCEPT !.matched = k] = Heard(p.inside, k, t, h)
    BY HeardMatched DEF z
  <2> QED
    BY <2>7, <2>10, <2>11 DEF b
<1>9. Splits!Fold(z, all) = Splits!Fold(Heard(p.inside, Len(p.buffer), t, h), s)
  <2> HIDE DEF z
  <2> QED
    BY <1>8, SplitsConcat
<1> HIDE DEF f
<1> QED
  BY <1>6, <1>7, <1>9 DEF LoopInv, f
-----------------------------------------------------------------------------
(* Lines.                                                                  *)

LEMMA LineIs ==
  ASSUME NEW l \in Line
  PROVE  /\ l.text \in Letters /\ l.reports \in BOOLEAN
         /\ l.kind \in {"event", "delta", "thought", "usage", "body", "pretty", "end"}
         /\ l.kind \in {"event", "delta", "thought", "end"} => ~l.reports
         /\ l.kind = "usage" => l.reports /\ l.text = <<>> /\ l.final \in BOOLEAN
         /\ l.kind \in {"usage", "body", "pretty"} => l.p \in Nat /\ l.c \in Nat
<1>1. \A s \in Seq(STRING) : s \in Letters
  BY SeqMonotonic DEF Letters, Letter
<1>2. <<>> \in Letters
  BY DEF Letters
<1> QED
  BY <1>1, <1>2 DEF Line

LEMMA CountsAreLines ==
  ASSUME NEW p \in Nat, NEW c \in Nat
  PROVE  /\ Counts(p, c) \in Line /\ Counts(p, c).kind = "usage" /\ Counts(p, c).text = <<>>
         /\ Counts(p, c).p = p /\ Counts(p, c).c = c /\ Counts(p, c).reports = TRUE
BY DEF Counts, Line

Format == {"openai", "anthropic", "ollama", "nobody"}

\* The state of the lines as the client gets them.
GivenState ==
  [parser : [for : Format, inside : BOOLEAN, buffer : Letters], got : [text : Letters, thought : Letters]]

GivenInv(a) == a \in GivenState /\ Awaits(a.parser)

\* The client has what w says, all but the letters that may be a tag's; and the
\* thinking, if it is to have it.
Agrees(a, w, thinking) ==
  /\ w \in TalkState
  /\ a.parser.inside = w.inside /\ Len(a.parser.buffer) = w.matched
  /\ a.got.text = w.text
  /\ thinking => a.got.thought = w.thought

\* What a line makes of the parser and of what was given is well typed.
LEMMA GivenType ==
  ASSUME NEW a, GivenInv(a), NEW l \in Line
  PROVE  GivenInv(Given(a, l)) /\ Given(a, l).parser.for = a.parser.for
<1>1. l.text \in Letters /\ <<>> \in Letters
  BY LineIs DEF Letters
<1>2. /\ a.parser.inside \in BOOLEAN /\ a.parser.buffer \in Letters /\ Awaits(a.parser) /\ a.parser.for \in Format
      /\ a.got.text \in Letters /\ a.got.thought \in Letters
      /\ a = [parser |-> a.parser, got |-> a.got]
      /\ a.parser = [for |-> a.parser.for, inside |-> a.parser.inside, buffer |-> a.parser.buffer]
      /\ a.got = [text |-> a.got.text, thought |-> a.got.thought]
  BY DEF GivenInv, GivenState
<1>3. \A x, y \in Letters : x \o y \in Letters
  BY LettersConcat
<1>4. CASE l.kind = "delta" /\ a.parser.for # "nobody"
  <2> DEFINE fed == Feed(a.parser, l.text)
  <2> DEFINE thought == IF a.parser.for = "openai" THEN fed.thought ELSE <<>>
  <2>1. fed \in LoopState /\ Awaits(fed)
    BY <1>1, <1>2, FeedSplits
  <2> HIDE DEF fed
  <2>2. /\ fed.inside \in BOOLEAN /\ fed.buffer \in Letters /\ fed.text \in Letters /\ thought \in Letters
    BY <1>1, <2>1 DEF LoopState
  <2> HIDE DEF thought
  <2> DEFINE q == [for |-> a.parser.for, inside |-> fed.inside, buffer |-> fed.buffer]
  <2> DEFINE b == [parser |-> q, got |-> [text |-> a.got.text \o fed.text, thought |-> a.got.thought \o thought]]
  <2>3. Given(a, l) = b
    BY <1>2, <1>4 DEF Given, fed, thought
  <2>4. Awaits(q)
    BY <2>1 DEF Awaits
  <2>5. b \in GivenState
    BY <1>2, <1>3, <2>2 DEF GivenState
  <2> QED
    BY <2>3, <2>4, <2>5 DEF GivenInv
<1>5. CASE l.kind \in {"delta", "body", "pretty"} /\ ~(l.kind = "delta" /\ a.parser.for # "nobody")
  <2> DEFINE b == [parser |-> a.parser, got |-> [text |-> a.got.text \o l.text, thought |-> a.got.thought]]
  <2>1. Given(a, l) = b
    BY <1>2, <1>5 DEF Given
  <2>2. b \in GivenState
    BY <1>1, <1>2, <1>3 DEF GivenState, GivenInv
  <2> QED
    BY <1>2, <2>1, <2>2 DEF GivenInv
<1>6. CASE l.kind = "thought"
  <2> DEFINE b == [parser |-> a.parser, got |-> [text |-> a.got.text, thought |-> a.got.thought \o l.text]]
  <2>1. Given(a, l) = b
    BY <1>2, <1>6 DEF Given
  <2>2. b \in GivenState
    BY <1>1, <1>2, <1>3 DEF GivenState, GivenInv
  <2> QED
    BY <1>2, <2>1, <2>2 DEF GivenInv
<1>7. CASE l.kind \notin {"delta", "body", "pretty", "thought"}
  BY <1>7 DEF Given
<1> QED
  BY <1>4, <1>5, <1>6, <1>7

\* A piece of text that a translation passes on.
IsPiece(l) == l.kind = "delta" /\ l.text # <<>>

LEMMA NothingFed ==
  ASSUME NEW w \in TalkState, NEW l \in Line, l.kind # "thought", ~IsPiece(l)
  PROVE  SplitLine(w, l) = w
<1>1. l.kind # "delta" => SplitLine(w, l) = w
  BY DEF SplitLine
<1>2. l.kind = "delta" => SplitLine(w, l) = Splits!Fold(w, <<>>)
  BY DEF SplitLine, IsPiece
<1> QED
  BY <1>1, <1>2, Splits!FoldEmpty

LEMMA ThoughtKeeps ==
  ASSUME NEW w \in TalkState, NEW l \in Line, l.kind = "thought"
  PROVE  /\ SplitLine(w, l) \in TalkState
         /\ SplitLine(w, l).inside = w.inside /\ SplitLine(w, l).matched = w.matched
         /\ SplitLine(w, l).text = w.text /\ SplitLine(w, l).thought = w.thought \o l.text
<1>1. l.text \in Letters
  BY LineIs
<1>2. SplitLine(w, l) = [w EXCEPT !.thought = w.thought \o l.text]
  BY DEF SplitLine
<1>3. w.thought \in Letters
  BY DEF TalkState
<1>4. w.thought \o l.text \in Letters
  BY <1>1, <1>3, LettersConcat
<1> QED
  BY <1>2, <1>4 DEF TalkState

\* The parser and the letters agree on a line, whether the client gets it or not.
LEMMA GivenAgrees ==
  ASSUME NEW a, GivenInv(a), a.parser.for # "nobody", NEW w, NEW thinking \in BOOLEAN, Agrees(a, w, thinking),
         thinking => a.parser.for = "openai",
         NEW l \in Line, l.kind \notin {"body", "pretty"}
  PROVE  /\ Agrees(Given(a, l), SplitLine(w, l), thinking)
         /\ ~IsPiece(l) /\ (thinking => l.kind # "thought") => Agrees(a, SplitLine(w, l), thinking)
<1>1. l.text \in Letters /\ <<>> \in Letters
  BY LineIs DEF Letters
<1>2. /\ a.parser.inside \in BOOLEAN /\ a.parser.buffer \in Letters /\ Awaits(a.parser)
      /\ a.got.text \in Letters /\ a.got.thought \in Letters
      /\ a = [parser |-> a.parser, got |-> a.got]
      /\ a.parser = [for |-> a.parser.for, inside |-> a.parser.inside, buffer |-> a.parser.buffer]
      /\ a.got = [text |-> a.got.text, thought |-> a.got.thought]
  BY DEF GivenInv, GivenState
<1>3. /\ w \in TalkState /\ a.parser.inside = w.inside /\ Len(a.parser.buffer) = w.matched /\ a.got.text = w.text
      /\ thinking => a.got.thought = w.thought
      /\ w.thought \in Letters /\ w = Heard(w.inside, w.matched, w.text, w.thought)
  BY DEF Agrees, TalkState, Heard
<1>4. CASE l.kind = "delta"
  <2> DEFINE fed == Feed(a.parser, l.text)
  <2> DEFINE thought == IF a.parser.for = "openai" THEN fed.thought ELSE <<>>
  <2> DEFINE q == [for |-> a.parser.for, inside |-> fed.inside, buffer |-> fed.buffer]
  <2> DEFINE b == [parser |-> q, got |-> [text |-> a.got.text \o fed.text, thought |-> a.got.thought \o thought]]
  <2> DEFINE v == Heard(fed.inside, Len(fed.buffer), w.text \o fed.text, w.thought \o fed.thought)
  <2>1. Given(a, l) = b
    BY <1>2, <1>4 DEF Given
  <2>2. fed \in LoopState
    BY <1>1, <1>2, FeedSplits
  <2>3. Splits!Fold(w, l.text) = v
    <3>1. Splits!Fold(Heard(a.parser.inside, Len(a.parser.buffer), a.got.text, w.thought), l.text)
            = Heard(fed.inside, Len(fed.buffer), a.got.text \o fed.text, w.thought \o fed.thought)
      BY <1>1, <1>2, <1>3, FeedSplits
    <3> HIDE DEF fed
    <3> QED
      BY <1>3, <3>1
  <2>4. SplitLine(w, l) = v
    BY <1>4, <2>3 DEF SplitLine
  <2> HIDE DEF fed
  <2>5. /\ fed.inside \in BOOLEAN /\ fed.buffer \in Letters /\ fed.text \in Letters /\ fed.thought \in Letters
        /\ Len(fed.buffer) \in Nat
    BY <2>2 DEF LoopState, Letters
  <2>6. w.text \o fed.text \in Letters /\ w.thought \o fed.thought \in Letters
    BY <1>2, <1>3, <2>5, LettersConcat
  <2>7. /\ v \in TalkState /\ v.inside = fed.inside /\ v.matched = Len(fed.buffer)
        /\ v.text = w.text \o fed.text /\ v.thought = w.thought \o fed.thought
    <3>1. v \in TalkState
      BY <2>5, <2>6, HeardType
    <3> QED
      BY <3>1 DEF Heard
  <2>8. Agrees(b, v, thinking)
    <3> HIDE DEF v
    <3> QED
      BY <1>3, <2>7 DEF Agrees
  <2>9. ~IsPiece(l) => SplitLine(w, l) = w
    BY <1>3, <1>4, NothingFed
  <2> QED
    BY <2>1, <2>4, <2>8, <2>9
<1>5. CASE l.kind = "thought"
  <2> DEFINE b == [parser |-> a.parser, got |-> [text |-> a.got.text, thought |-> a.got.thought \o l.text]]
  <2>1. Given(a, l) = b
    BY <1>2, <1>5 DEF Given
  <2>2. /\ SplitLine(w, l) \in TalkState
        /\ SplitLine(w, l).inside = w.inside /\ SplitLine(w, l).matched = w.matched
        /\ SplitLine(w, l).text = w.text /\ SplitLine(w, l).thought = w.thought \o l.text
    BY <1>3, <1>5, ThoughtKeeps
  <2>3. b.parser = a.parser /\ b.got.text = a.got.text /\ b.got.thought = a.got.thought \o l.text
    OBVIOUS
  <2> HIDE DEF b
  <2>4. Agrees(b, SplitLine(w, l), thinking)
    BY <1>3, <2>2, <2>3 DEF Agrees
  <2>5. Agrees(a, SplitLine(w, l), FALSE)
    BY <1>3, <2>2 DEF Agrees
  <2>6. thinking = FALSE \/ thinking = TRUE
    OBVIOUS
  <2> QED
    BY <1>5, <2>1, <2>4, <2>5, <2>6
<1>6. CASE l.kind \notin {"delta", "thought"}
  <2>1. Given(a, l) = a
    BY <1>6 DEF Given
  <2>2. SplitLine(w, l) = w
    BY <1>6 DEF SplitLine
  <2> QED
    BY <2>1, <2>2
<1> QED
  BY <1>4, <1>5, <1>6

\* outs[n] is what is passed on of the first n lines: each line, or all but some
\* that bring no text.
Selects(L, outs) ==
  \A n \in 0..Len(L) :
    /\ outs[n] \in Seq(Line)
    /\ n < Len(L) => \/ outs[n + 1] = Append(outs[n], L[n + 1])
                     \/ outs[n + 1] = outs[n] /\ ~IsPiece(L[n + 1])

Whole(L, outs) == \A n \in 0..Len(L) : n < Len(L) => outs[n + 1] = Append(outs[n], L[n + 1])

\* Of lines of which some are dropped that say nothing, the client gets the same.
LEMMA SelectedAgrees ==
  ASSUME NEW a, GivenInv(a), a.parser.for # "nobody", NEW thinking \in BOOLEAN,
         thinking => a.parser.for = "openai",
         NEW L \in Seq(Line), \A i \in 1..Len(L) : L[i].kind \notin {"body", "pretty"},
         NEW outs, Selects(L, outs), thinking => Whole(L, outs),
         Agrees(Gives!Fold(a, outs[0]), NothingSaid, thinking)
  PROVE  Agrees(Gives!Fold(a, outs[Len(L)]), Talk!Fold(NothingSaid, L), thinking)
<1> DEFINE g(n) == Gives!Fold(a, outs[n])
<1> DEFINE w(n) == Talk!Fold(NothingSaid, SubSeq(L, 1, n))
<1> DEFINE Good(n) == GivenInv(g(n)) /\ g(n).parser.for = a.parser.for /\ Agrees(g(n), w(n), thinking)
<1> DEFINE T == {n \in Nat : n <= Len(L) => Good(n)}
<1>1. Len(L) \in Nat /\ SubSeq(L, 1, 0) = <<>> /\ SubSeq(L, 1, Len(L)) = L
  BY Talk!PrefixNone
<1>2. \A n \in 0..Len(L) : GivenInv(g(n)) /\ g(n).parser.for = a.parser.for
  <2> TAKE n \in 0..Len(L)
  <2> DEFINE S == {b \in GivenState : GivenInv(b) /\ b.parser.for = a.parser.for}
  <2>1. a \in S
    BY DEF GivenInv
  <2>2. \A b \in S, l \in Line : Given(b, l) \in S
    BY GivenType DEF GivenInv
  <2>3. outs[n] \in Seq(Line)
    BY DEF Selects
  <2> HIDE DEF S
  <2>4. g(n) \in S
    BY <2>1, <2>2, <2>3, Gives!FoldType
  <2> QED
    BY <2>4 DEF S
<1>3. 0 \in T
  <2>1. w(0) = NothingSaid
    BY <1>1, Talk!FoldEmpty
  <2>2. 0 \in 0..Len(L)
    BY <1>1
  <2> QED
    BY <1>2, <2>1, <2>2
<1>4. ASSUME NEW n \in Nat, n \in T, n + 1 <= Len(L) PROVE Good(n + 1)
  <2>1. n < Len(L) /\ n <= Len(L) /\ n \in 0..Len(L) /\ n + 1 \in 0..Len(L) /\ n + 1 \in 1..Len(L)
    BY <1>1, <1>4
  <2> DEFINE l == L[n + 1]
  <2>2. l \in Line /\ l.kind \notin {"body", "pretty"}
    BY <2>1, ElementOfSeq
  <2>3. w(n + 1) = SplitLine(w(n), l)
    BY <2>1, Talk!FoldPrefix
  <2>4. GivenInv(g(n)) /\ g(n).parser.for = a.parser.for /\ Agrees(g(n), w(n), thinking)
    BY <1>4, <2>1
  <2>5. \/ outs[n + 1] = Append(outs[n], l)
        \/ outs[n + 1] = outs[n] /\ ~IsPiece(l) /\ ~thinking
    BY <2>1 DEF Selects, Whole
  <2> HIDE DEF w
  <2>6. CASE outs[n + 1] = Append(outs[n], l)
    <3>1. g(n + 1) = Given(g(n), l)
      <4>1. outs[n] \in Seq(Line)
        BY <2>1 DEF Selects
      <4>2. Gives!Fold(a, Append(outs[n], l)) = Given(Gives!Fold(a, outs[n]), l)
        BY <2>2, <4>1, Gives!FoldAppend
      <4> QED
        BY <2>6, <4>2
    <3> HIDE DEF g, l
    <3>2. Agrees(Given(g(n), l), SplitLine(w(n), l), thinking)
      BY <2>2, <2>4, GivenAgrees
    <3> QED
      BY <1>2, <2>1, <2>3, <3>1, <3>2
  <2>7. CASE outs[n + 1] = outs[n] /\ ~IsPiece(l) /\ ~thinking
    <3>1. g(n + 1) = g(n)
      BY <2>7
    <3> HIDE DEF g, l
    <3>2. Agrees(g(n), SplitLine(w(n), l), thinking)
      BY <2>2, <2>4, <2>7, GivenAgrees
    <3> QED
      BY <1>2, <2>1, <2>3, <3>1, <3>2
  <2> QED
    BY <2>5, <2>6, <2>7
<1>5. Len(L) \in T
  <2> HIDE DEF Good
  <2>1. \A n \in Nat : n \in T => n + 1 \in T
    BY <1>4
  <2> HIDE DEF T
  <2> QED
    BY <1>1, <1>3, <2>1, Talk!Induction
<1>6. Good(Len(L))
  BY <1>1, <1>5
<1> QED
  BY <1>1, <1>6

\* Without a parser the client gets all of the text.
LEMMA SelectedText ==
  ASSUME NEW a, GivenInv(a), a.parser.for = "nobody",
         NEW L \in Seq(Line), NEW outs, Selects(L, outs),
         (\A i \in 1..Len(L) : L[i].kind \notin {"body", "pretty"}) \/ Whole(L, outs),
         Gives!Fold(a, outs[0]).got.text = <<>>
  PROVE  Gives!Fold(a, outs[Len(L)]).got.text = AllText!Fold(<<>>, L)
<1> DEFINE g(n) == Gives!Fold(a, outs[n])
<1> DEFINE w(n) == AllText!Fold(<<>>, SubSeq(L, 1, n))
<1> DEFINE Good(n) == g(n).got.text = w(n)
<1> DEFINE T == {n \in Nat : n <= Len(L) => Good(n)}
<1>1. Len(L) \in Nat /\ SubSeq(L, 1, 0) = <<>> /\ SubSeq(L, 1, Len(L)) = L
  BY AllText!PrefixNone
<1>2. \A n \in 0..Len(L) : GivenInv(g(n)) /\ g(n).parser.for = "nobody"
  <2> TAKE n \in 0..Len(L)
  <2> DEFINE S == {b \in GivenState : GivenInv(b) /\ b.parser.for = "nobody"}
  <2>1. a \in S
    BY DEF GivenInv
  <2>2. \A b \in S, l \in Line : Given(b, l) \in S
    BY GivenType DEF GivenInv
  <2>3. outs[n] \in Seq(Line)
    BY DEF Selects
  <2> HIDE DEF S
  <2>4. g(n) \in S
    BY <2>1, <2>2, <2>3, Gives!FoldType
  <2> QED
    BY <2>4 DEF S
<1>3. 0 \in T
  BY <1>1, AllText!FoldEmpty
<1>4. ASSUME NEW n \in Nat, n \in T, n + 1 <= Len(L) PROVE Good(n + 1)
  <2>1. n < Len(L) /\ n <= Len(L) /\ n \in 0..Len(L) /\ n + 1 \in 1..Len(L)
    BY <1>1, <1>4
  <2> DEFINE l == L[n + 1]
  <2>2. l \in Line /\ l.text \in Letters
    BY <2>1, ElementOfSeq, LineIs
  <2>3. w(n + 1) = Joined(w(n), l)
    BY <2>1, AllText!FoldPrefix
  <2>4. GivenInv(g(n)) /\ g(n).parser.for = "nobody" /\ g(n).got.text = w(n)
    BY <1>2, <1>4, <2>1
  <2>5. \/ outs[n + 1] = Append(outs[n], l)
        \/ outs[n + 1] = outs[n] /\ ~IsPiece(l) /\ l.kind \notin {"body", "pretty"}
    BY <2>1 DEF Selects, Whole
  <2> HIDE DEF w
  <2>6. CASE outs[n + 1] = Append(outs[n], l)
    <3>1. g(n + 1) = Given(g(n), l)
      <4>1. outs[n] \in Seq(Line)
        BY <2>1 DEF Selects
      <4>2. Gives!Fold(a, Append(outs[n], l)) = Given(Gives!Fold(a, outs[n]), l)
        BY <2>2, <4>1, Gives!FoldAppend
      <4> QED
        BY <2>6, <4>2
    <3> DEFINE b == g(n)
    <3>2. b \in GivenState /\ b.parser.for = "nobody" /\ b.got.text = w(n)
      BY <2>4 DEF GivenInv
    <3> HIDE DEF g, b, l
    <3>3. Given(b, l).got.text = Joined(b.got.text, l)
      BY <3>2 DEF Given, Joined, GivenState
    <3> QED
      BY <2>3, <3>1, <3>2, <3>3 DEF b
  <2>7. CASE outs[n + 1] = outs[n] /\ ~IsPiece(l) /\ l.kind \notin {"body", "pretty"}
    <3>1. g(n + 1) = g(n)
      BY <2>7
    <3>2. w(n) \in Letters
      BY <2>4 DEF GivenInv, GivenState
    <3>3. w(n) \o <<>> = w(n)
      BY <3>2 DEF Letters
    <3>4. Joined(w(n), l) = w(n)
      BY <2>7, <3>3 DEF Joined, IsPiece
    <3> QED
      BY <2>3, <2>4, <3>1, <3>4
  <2> QED
    BY <2>5, <2>6, <2>7
<1>5. Len(L) \in T
  <2> HIDE DEF Good
  <2>1. \A n \in Nat : n \in T => n + 1 \in T
    BY <1>4
  <2> HIDE DEF T
  <2> QED
    BY <1>1, <1>3, <2>1, AllText!Induction
<1>6. Good(Len(L))
  BY <1>1, <1>5
<1> QED
  BY <1>1, <1>6

-----------------------------------------------------------------------------
(* Counts.                                                                 *)

ScanState == [p : Nat, c : Nat, seen : BOOLEAN, deltas : Nat]

\* A line that counts as a piece of the answer.
IsDelta(l) == l.kind \in {"delta", "thought"} /\ l.text # <<>>

LEMMA ScannedIs ==
  ASSUME NEW u \in ScanState, NEW l \in Line
  PROVE  /\ Scanned(u, l) \in ScanState
         /\ Scanned(u, l).deltas = (IF IsDelta(l) THEN u.deltas + 1 ELSE u.deltas)
         /\ IF HasUsage(l) /\ l.reports
              THEN /\ Scanned(u, l).seen
                   /\ Scanned(u, l).p = IF l.p # 0 THEN l.p ELSE u.p
                   /\ Scanned(u, l).c = IF l.c # 0 THEN l.c ELSE u.c
              ELSE Scanned(u, l).seen = u.seen /\ Scanned(u, l).p = u.p /\ Scanned(u, l).c = u.c
<1>1. l.kind \in {"usage", "body"} => l.p \in Nat /\ l.c \in Nat
  BY LineIs
<1> DEFINE m == IF HasUsage(l) /\ l.reports THEN Merge(u, l) ELSE u
<1>2. /\ m \in ScanState /\ m.deltas = u.deltas
      /\ IF HasUsage(l) /\ l.reports
           THEN m.seen /\ m.p = (IF l.p # 0 THEN l.p ELSE u.p) /\ m.c = (IF l.c # 0 THEN l.c ELSE u.c)
           ELSE m.seen = u.seen /\ m.p = u.p /\ m.c = u.c
  BY <1>1 DEF ScanState, Merge, HasUsage
<1> HIDE DEF m
<1>3. Scanned(u, l) = IF IsDelta(l) THEN [m EXCEPT !.deltas = @ + 1] ELSE m
  BY DEF Scanned, IsDelta, m
<1> QED
  BY <1>2, <1>3 DEF ScanState

\* Of the lines that are passed on, those of D count.
SelectsOf(L, outs, D) ==
  \A n \in 0..Len(L) :
    /\ outs[n] \in Seq(Line)
    /\ n < Len(L) => \/ outs[n + 1] = Append(outs[n], L[n + 1]) /\ (n + 1 \in D <=> IsDelta(L[n + 1]))
                     \/ outs[n + 1] = outs[n] /\ n + 1 \notin D

\* The pieces that are passed on are counted, each once.
LEMMA SelectedCount ==
  ASSUME NEW L \in Seq(Line), NEW outs, NEW D, \A i \in D : i \in Nat /\ 1 <= i /\ i <= Len(L),
         NEW u, Scans!Fold(u, outs[0]) \in ScanState,
         SelectsOf(L, outs, D)
  PROVE  /\ Scans!Fold(u, outs[Len(L)]) \in ScanState
         /\ Scans!Fold(u, outs[Len(L)]).deltas = Scans!Fold(u, outs[0]).deltas + Cardinality(D)
<1> DEFINE s(n) == Scans!Fold(u, outs[n])
<1> DEFINE E(n) == {i \in D : i <= n}
<1> DEFINE Good(n) == /\ s(n) \in ScanState /\ IsFiniteSet(E(n))
                      /\ s(n).deltas = s(0).deltas + Cardinality(E(n))
<1> DEFINE T == {n \in Nat : n <= Len(L) => Good(n)}
<1>1. Len(L) \in Nat /\ \A i \in D : i \in Nat /\ 1 <= i /\ i <= Len(L)
  BY LenProperties
<1>2. 0 \in T
  <2>1. E(0) = {}
    BY <1>1
  <2>2. IsFiniteSet({}) /\ Cardinality({}) = 0
    BY FS_EmptySet
  <2>3. s(0).deltas \in Nat
    BY DEF ScanState
  <2>4. Good(0)
    <3>1. s(0) \in ScanState
      OBVIOUS
    <3> HIDE DEF E, s
    <3>2. IsFiniteSet(E(0)) /\ Cardinality(E(0)) = 0
      BY <2>1, <2>2, Zenon
    <3>3. s(0).deltas = s(0).deltas + Cardinality(E(0))
      BY <2>3, <3>2
    <3> QED
      BY <3>1, <3>2, <3>3 DEF Good
  <2> HIDE DEF Good
  <2> QED
    BY <2>4
<1>3. ASSUME NEW n \in Nat, n \in T, n + 1 <= Len(L) PROVE Good(n + 1)
  <2>1. n < Len(L) /\ n <= Len(L) /\ n \in 0..Len(L) /\ n + 1 \in 1..Len(L)
    BY <1>1, <1>3
  <2>2. L[n + 1] \in Line
    BY <2>1, ElementOfSeq
  <2>3. Good(n)
    BY <1>3, <2>1
  <2>4. s(0) \in ScanState /\ s(0).deltas \in Nat
    BY DEF ScanState
  <2>5. CASE outs[n + 1] = Append(outs[n], L[n + 1]) /\ (n + 1 \in D <=> IsDelta(L[n + 1]))
    <3>1. s(n + 1) = Scanned(s(n), L[n + 1])
      <4>1. outs[n] \in Seq(Line)
        BY <2>1 DEF SelectsOf
      <4>2. Scans!Fold(u, Append(outs[n], L[n + 1])) = Scanned(Scans!Fold(u, outs[n]), L[n + 1])
        BY <2>2, <4>1, Scans!FoldAppend
      <4> QED
        BY <2>5, <4>2
    <3>2. /\ s(n + 1) \in ScanState
          /\ s(n + 1).deltas = (IF IsDelta(L[n + 1]) THEN s(n).deltas + 1 ELSE s(n).deltas)
      <4>1. s(n) \in ScanState
        BY <2>3
      <4>2. \A v \in ScanState : /\ Scanned(v, L[n + 1]) \in ScanState
                                /\ Scanned(v, L[n + 1]).deltas = (IF IsDelta(L[n + 1]) THEN v.deltas + 1 ELSE v.deltas)
        BY <2>2, ScannedIs
      <4> HIDE DEF s
      <4> QED
        BY <3>1, <4>1, <4>2
    <3>3. CASE n + 1 \in D
      <4>1. E(n + 1) = E(n) \cup {n + 1} /\ n + 1 \notin E(n)
        BY <1>1, <3>3
      <4>2. IsFiniteSet(E(n + 1)) /\ Cardinality(E(n + 1)) = Cardinality(E(n)) + 1
        <5> HIDE DEF E
        <5> QED
          BY <2>3, <4>1, FS_AddElement
      <4>3. Cardinality(E(n)) \in Nat
        BY <2>3, FS_CardinalityType
      <4>4. s(n + 1).deltas = s(n).deltas + 1
        BY <2>5, <3>2, <3>3
      <4>5. s(n).deltas = s(0).deltas + Cardinality(E(n))
        BY <2>3
      <4> HIDE DEF E, s
      <4>6. s(n + 1).deltas = s(0).deltas + Cardinality(E(n + 1))
        BY <2>4, <4>2, <4>3, <4>4, <4>5
      <4> QED
        BY <3>2, <4>2, <4>6 DEF Good
    <3>4. CASE n + 1 \notin D
      <4>1. E(n + 1) = E(n)
        BY <1>1, <3>4
      <4> HIDE DEF E, s
      <4> QED
        BY <2>3, <2>5, <3>2, <3>4, <4>1
    <3> QED
      BY <3>3, <3>4
  <2>6. CASE outs[n + 1] = outs[n] /\ n + 1 \notin D
    <3>1. E(n + 1) = E(n)
      BY <1>1, <2>6
    <3>2. s(n + 1) = s(n)
      BY <2>6
    <3> HIDE DEF E, s
    <3> QED
      BY <2>3, <3>1, <3>2
  <2> QED
    BY <2>1, <2>5, <2>6 DEF SelectsOf
<1>4. Len(L) \in T
  <2> HIDE DEF Good
  <2>1. \A n \in Nat : n \in T => n + 1 \in T
    BY <1>3
  <2> HIDE DEF T
  <2> QED
    BY <1>1, <1>2, <2>1, Scans!Induction
<1>5. Good(Len(L))
  BY <1>1, <1>4
<1>6. E(Len(L)) = D
  BY <1>1
<1> HIDE DEF E
<1> QED
  BY <1>5, <1>6
LEMMA ReportedIs ==
  ASSUME NEW u \in ScanState, NEW l \in Line
  PROVE  /\ Reported(u, l) \in ScanState
         /\ IF l.reports
              THEN /\ Reported(u, l).seen
                   /\ Reported(u, l).p = IF l.p # 0 THEN l.p ELSE u.p
                   /\ Reported(u, l).c = IF l.c # 0 THEN l.c ELSE u.c
              ELSE Reported(u, l) = u
<1>1. l.reports => l.p \in Nat /\ l.c \in Nat
  BY LineIs
<1> QED
  BY <1>1 DEF ScanState, Merge, Reported

NothingYet == NoFigures \in ScanState /\ NoFigures.p = 0 /\ NoFigures.c = 0 /\ NoFigures.deltas = 0 /\ ~NoFigures.seen

LEMMA NoFiguresIs == NothingYet
BY DEF NothingYet, NoFigures, ScanState

\* Until a count is seen there is none.
LEMMA ScansType ==
  ASSUME NEW ls \in Seq(Line)
  PROVE  /\ Scans!Fold(NoFigures, ls) \in ScanState
         /\ ~Scans!Fold(NoFigures, ls).seen => Scans!Fold(NoFigures, ls).p = 0 /\ Scans!Fold(NoFigures, ls).c = 0
<1> DEFINE S == {u \in ScanState : ~u.seen => u.p = 0 /\ u.c = 0}
<1>1. NoFigures \in S
  BY NoFiguresIs DEF NothingYet
<1>2. \A u \in S, l \in Line : Scanned(u, l) \in S
  BY ScannedIs
<1> HIDE DEF S
<1>3. Scans!Fold(NoFigures, ls) \in S
  BY <1>1, <1>2, Scans!FoldType
<1> QED
  BY <1>3 DEF S

LEMMA ReportsType ==
  ASSUME NEW u \in ScanState, NEW ls \in Seq(Line)
  PROVE  Reports!Fold(u, ls) \in ScanState
BY ReportedIs, Reports!FoldType

\* The two ways to read counts agree on lines that both read.
LEMMA ScansReport ==
  ASSUME NEW ls \in Seq({l \in Line : l.kind # "pretty"})
  PROVE  /\ Scans!Fold(NoFigures, ls).p = Reports!Fold(NoFigures, ls).p
         /\ Scans!Fold(NoFigures, ls).c = Reports!Fold(NoFigures, ls).c
<1> DEFINE A == {l \in Line : l.kind # "pretty"}
<1> DEFINE s(v) == Scans!Fold(NoFigures, v)
<1> DEFINE r(v) == Reports!Fold(NoFigures, v)
<1> DEFINE Good(v) == s(v) \in ScanState /\ r(v) \in ScanState /\ s(v).p = r(v).p /\ s(v).c = r(v).c
<1> DEFINE T == {v \in Seq(A) : Good(v)}
<1>1. <<>> \in T
  <2>1. s(<<>>) = NoFigures /\ r(<<>>) = NoFigures
    BY Scans!FoldEmpty, Reports!FoldEmpty
  <2>2. Good(<<>>)
    BY <2>1, NoFiguresIs DEF NothingYet
  <2> HIDE DEF Good
  <2> QED
    BY <2>2
<1>2. ASSUME NEW v \in Seq(A), NEW l \in A, Good(v) PROVE Good(Append(v, l))
  <2>1. s(Append(v, l)) = Scanned(s(v), l) /\ r(Append(v, l)) = Reported(r(v), l)
    <3> HIDE DEF A
    <3> QED
      BY Scans!FoldAppend, Reports!FoldAppend
  <2>2. l \in Line /\ l.kind # "pretty"
    OBVIOUS
  <2>3. l.reports => HasUsage(l)
    BY <2>2, LineIs DEF HasUsage
  <2>4. s(v) \in ScanState /\ r(v) \in ScanState /\ s(v).p = r(v).p /\ s(v).c = r(v).c
    BY <1>2
  <2> HIDE DEF s, r
  <2>5. Scanned(s(v), l) \in ScanState /\ Reported(r(v), l) \in ScanState
    BY <2>2, <2>4, ScannedIs, ReportedIs
  <2>6. CASE l.reports
    <3>1. /\ Scanned(s(v), l).p = (IF l.p # 0 THEN l.p ELSE s(v).p)
          /\ Scanned(s(v), l).c = (IF l.c # 0 THEN l.c ELSE s(v).c)
      BY <2>2, <2>3, <2>4, <2>6, ScannedIs
    <3>2. /\ Reported(r(v), l).p = (IF l.p # 0 THEN l.p ELSE r(v).p)
          /\ Reported(r(v), l).c = (IF l.c # 0 THEN l.c ELSE r(v).c)
      BY <2>2, <2>4, <2>6, ReportedIs
    <3> QED
      BY <2>1, <2>4, <2>5, <3>1, <3>2
  <2>7. CASE ~l.reports
    <3>1. Scanned(s(v), l).p = s(v).p /\ Scanned(s(v), l).c = s(v).c
      BY <2>2, <2>4, <2>7, ScannedIs
    <3>2. Reported(r(v), l) = r(v)
      BY <2>7 DEF Reported
    <3> QED
      BY <2>1, <2>4, <2>5, <3>1, <3>2
  <2> QED
    BY <2>6, <2>7
<1>3. ls \in T
  <2> HIDE DEF Good
  <2>1. \A v \in Seq(A), l \in A : v \in T => Append(v, l) \in T
    BY <1>2
  <2>2. ls \in Seq(A)
    OBVIOUS
  <2> HIDE DEF T, A
  <2> QED
    BY <1>1, <2>1, <2>2, Scans!SeqInduction
<1> QED
  BY <1>3

\* The counts of a body do not depend on what is else known of it.
LEMMA ReportsAlike ==
  ASSUME NEW u \in ScanState, u.p = 0, u.c = 0, NEW ls \in Seq(Line)
  PROVE  /\ Reports!Fold(u, ls).p = Reports!Fold(NoFigures, ls).p
         /\ Reports!Fold(u, ls).c = Reports!Fold(NoFigures, ls).c
<1> DEFINE s(v) == Reports!Fold(u, v)
<1> DEFINE r(v) == Reports!Fold(NoFigures, v)
<1> DEFINE Good(v) == s(v) \in ScanState /\ r(v) \in ScanState /\ s(v).p = r(v).p /\ s(v).c = r(v).c
<1> DEFINE T == {v \in Seq(Line) : Good(v)}
<1>1. <<>> \in T
  <2>1. s(<<>>) = u /\ r(<<>>) = NoFigures
    BY Reports!FoldEmpty
  <2>2. Good(<<>>)
    BY <2>1, NoFiguresIs DEF NothingYet
  <2> HIDE DEF Good
  <2> QED
    BY <2>2
<1>2. ASSUME NEW v \in Seq(Line), NEW l \in Line, Good(v) PROVE Good(Append(v, l))
  <2>1. s(Append(v, l)) = Reported(s(v), l) /\ r(Append(v, l)) = Reported(r(v), l)
    BY Reports!FoldAppend
  <2>2. s(v) \in ScanState /\ r(v) \in ScanState /\ s(v).p = r(v).p /\ s(v).c = r(v).c
    BY <1>2
  <2> HIDE DEF s, r
  <2>3. Reported(s(v), l) \in ScanState /\ Reported(r(v), l) \in ScanState
    BY <2>2, ReportedIs
  <2>4. Reported(s(v), l).p = Reported(r(v), l).p /\ Reported(s(v), l).c = Reported(r(v), l).c
    <3>1. CASE l.reports
      <4>1. /\ Reported(s(v), l).p = (IF l.p # 0 THEN l.p ELSE s(v).p)
            /\ Reported(s(v), l).c = (IF l.c # 0 THEN l.c ELSE s(v).c)
        BY <2>2, <3>1, ReportedIs
      <4>2. /\ Reported(r(v), l).p = (IF l.p # 0 THEN l.p ELSE r(v).p)
            /\ Reported(r(v), l).c = (IF l.c # 0 THEN l.c ELSE r(v).c)
        BY <2>2, <3>1, ReportedIs
      <4> QED
        BY <2>2, <4>1, <4>2
    <3>2. CASE ~l.reports
      BY <2>2, <3>2 DEF Reported
    <3> QED
      BY <3>1, <3>2
  <2> QED
    BY <2>1, <2>3, <2>4
<1>3. ls \in T
  <2> HIDE DEF Good
  <2>1. \A v \in Seq(Line), l \in Line : v \in T => Append(v, l) \in T
    BY <1>2
  <2> HIDE DEF T
  <2> QED
    BY <1>1, <2>1, Reports!SeqInduction
<1> QED
  BY <1>3

\* v[n] is the last count of the first n lines that are of F, or the last that is not 0.
Tracks(L, F, v) ==
  /\ v[0] = 0
  /\ \A n \in 0..Len(L) : n < Len(L) =>
       IF n + 1 \in F THEN v[n + 1] = L[n + 1].c \/ (L[n + 1].c = 0 /\ v[n + 1] = v[n])
       ELSE v[n + 1] = v[n]

\* Of counts that do not fall it is the greatest.
LEMMA TracksGreatest ==
  ASSUME NEW L \in Seq(Line), NEW F, \A i \in F : i \in 1..Len(L) /\ L[i].c \in Nat,
         \A i, j \in F : i < j => L[i].c <= L[j].c, NEW v, Tracks(L, F, v)
  PROVE  /\ v[Len(L)] \in Nat
         /\ \A i \in F : L[i].c <= v[Len(L)]
         /\ v[Len(L)] = 0 \/ \E i \in F : v[Len(L)] = L[i].c
<1> DEFINE Good(n) == /\ v[n] \in Nat
                      /\ \A i \in F : i <= n => L[i].c <= v[n]
                      /\ v[n] = 0 \/ \E i \in F : i <= n /\ v[n] = L[i].c
<1> DEFINE T == {n \in Nat : n <= Len(L) => Good(n)}
<1>1. Len(L) \in Nat /\ \A i \in F : i \in Nat /\ 1 <= i /\ i <= Len(L) /\ L[i].c \in Nat
  BY LenProperties
<1>2. 0 \in T
  <2>1. Good(0)
    BY <1>1 DEF Tracks
  <2> HIDE DEF Good
  <2> QED
    BY <2>1
<1>3. ASSUME NEW n \in Nat, n \in T, n + 1 <= Len(L) PROVE Good(n + 1)
  <2>1. n < Len(L) /\ n <= Len(L) /\ n \in 0..Len(L)
    BY <1>1, <1>3
  <2>2. Good(n)
    BY <1>3, <2>1
  <2>3. IF n + 1 \in F THEN v[n + 1] = L[n + 1].c \/ (L[n + 1].c = 0 /\ v[n + 1] = v[n])
        ELSE v[n + 1] = v[n]
    BY <2>1 DEF Tracks
  <2>4. CASE n + 1 \notin F
    <3>1. v[n + 1] = v[n] /\ \A i \in F : i <= n + 1 <=> i <= n
      BY <1>1, <2>3, <2>4
    <3> QED
      BY <2>2, <3>1
  <2>5. CASE n + 1 \in F /\ v[n + 1] = L[n + 1].c
    <3>1. \A i \in F : i <= n + 1 => i < n + 1 \/ i = n + 1
      BY <1>1
    <3>2. \A i \in F : i <= n + 1 => L[i].c <= L[n + 1].c
      BY <1>1, <2>5, <3>1
    <3> QED
      BY <1>1, <2>5, <3>2
  <2>6. CASE n + 1 \in F /\ L[n + 1].c = 0 /\ v[n + 1] = v[n]
    <3>1. \A i \in F : i <= n + 1 => i <= n \/ i = n + 1
      BY <1>1
    <3>2. \A i \in F : i <= n + 1 => L[i].c <= v[n]
      BY <1>1, <2>2, <2>6, <3>1
    <3>3. v[n] = 0 \/ \E i \in F : i <= n + 1 /\ v[n] = L[i].c
      BY <1>1, <2>2
    <3> QED
      BY <2>2, <2>6, <3>2, <3>3
  <2> QED
    BY <2>3, <2>4, <2>5, <2>6
<1>4. Len(L) \in T
  <2> HIDE DEF Good
  <2>1. \A n \in Nat : n \in T => n + 1 \in T
    BY <1>3
  <2> HIDE DEF T
  <2> QED
    BY <1>1, <1>2, <2>1, Scans!Induction
<1>5. Good(Len(L))
  BY <1>1, <1>4
<1> QED
  BY <1>1, <1>5
-----------------------------------------------------------------------------
(* What is passed on of the first n lines.                                 *)

Plain(L) == \A i \in 1..Len(L) : L[i].kind \notin {"body", "pretty"}
Usages(L) == {i \in 1..Len(L) : L[i].kind = "usage"}
Rising(L) == \A i, j \in Usages(L) : i < j => L[i].c <= L[j].c
PiecesAt(L) == {i \in 1..Len(L) : IsPiece(L[i])}
DeltasAt(L) == {i \in 1..Len(L) : IsDelta(L[i])}

OutAll(L) == [n \in 0..Len(L) |-> SubSeq(L, 1, n)]
OutPieces(L) == [n \in 0..Len(L) |-> <<Counts(0, 0)>> \o Pieces!Fold(<<>>, SubSeq(L, 1, n))]
Announced(L, n) == Events!Fold([announced |-> FALSE, out |-> <<>>], SubSeq(L, 1, n))
OutEvents(L) == [n \in 0..Len(L) |-> FromAnthropic(SubSeq(L, 1, n))]

LEMMA PrefixIs ==
  ASSUME NEW L \in Seq(Line), NEW n \in 0..Len(L)
  PROVE  /\ SubSeq(L, 1, n) \in Seq(Line) /\ Len(L) \in Nat
         /\ n < Len(L) => /\ n \in Nat /\ n + 1 \in 0..Len(L) /\ n + 1 \in 1..Len(L) /\ L[n + 1] \in Line
                          /\ SubSeq(L, 1, n + 1) = Append(SubSeq(L, 1, n), L[n + 1])
<1>1. Len(L) \in Nat /\ n \in Nat
  BY LenProperties
<1>2. SubSeq(L, 1, n) \in Seq(Line)
  <2>1. \A i \in 1..n : L[i] \in Line
    BY <1>1, ElementOfSeq
  <2> QED
    BY <1>1, <2>1, SubSeqProperties
<1>3. CASE n < Len(L)
  <2>1. /\ L[n + 1] \in Line /\ SubSeq(L, 1, n + 1) = Append(SubSeq(L, 1, n), L[n + 1])
    BY <1>1, <1>3, Splits!PrefixAppend
  <2> QED
    BY <1>1, <1>2, <1>3, <2>1
<1> QED
  BY <1>1, <1>2, <1>3

LEMMA AllSelects ==
  ASSUME NEW L \in Seq(Line)
  PROVE  /\ Selects(L, OutAll(L)) /\ Whole(L, OutAll(L)) /\ SelectsOf(L, OutAll(L), DeltasAt(L))
         /\ OutAll(L)[0] = <<>> /\ OutAll(L)[Len(L)] = L
<1>1. ASSUME NEW n \in 0..Len(L)
      PROVE  /\ OutAll(L)[n] \in Seq(Line)
             /\ n < Len(L) => /\ OutAll(L)[n + 1] = Append(OutAll(L)[n], L[n + 1])
                              /\ n + 1 \in DeltasAt(L) <=> IsDelta(L[n + 1])
  BY PrefixIs DEF OutAll, DeltasAt
<1>2. OutAll(L)[0] = <<>> /\ OutAll(L)[Len(L)] = L
  <2>1. 0 \in 0..Len(L) /\ Len(L) \in 0..Len(L)
    BY LenProperties
  <2> QED
    BY <2>1, Splits!PrefixNone DEF OutAll
<1> QED
  BY <1>1, <1>2 DEF Selects, Whole, SelectsOf

LEMMA PiecesType ==
  ASSUME NEW ls \in Seq(Line)
  PROVE  Pieces!Fold(<<>>, ls) \in Seq(Line)
<1>1. <<>> \in Seq(Line) /\ \A s \in Seq(Line), l \in Line : KeepPiece(s, l) \in Seq(Line)
  BY DEF KeepPiece
<1> QED
  BY <1>1, Pieces!FoldType

\* anthropic_to_openai passes on every piece, and what it drops says nothing.
LEMMA PiecesSelect ==
  ASSUME NEW L \in Seq(Line)
  PROVE  /\ Selects(L, OutPieces(L)) /\ SelectsOf(L, OutPieces(L), PiecesAt(L))
         /\ \A n \in 0..Len(L) : n < Len(L) =>
              \/ OutPieces(L)[n + 1] = Append(OutPieces(L)[n], L[n + 1]) /\ IsPiece(L[n + 1])
              \/ OutPieces(L)[n + 1] = OutPieces(L)[n]
         /\ OutPieces(L)[0] = <<Counts(0, 0)>> \o <<>>
         /\ OutPieces(L)[Len(L)] = <<Counts(0, 0)>> \o Pieces!Fold(<<>>, L)
<1> DEFINE p(n) == Pieces!Fold(<<>>, SubSeq(L, 1, n))
<1> DEFINE first == <<Counts(0, 0)>>
<1>1. first \in Seq(Line)
  <2> DEFINE c == Counts(0, 0)
  <2>1. c \in Line
    BY CountsAreLines
  <2> HIDE DEF c
  <2>2. <<c>> \in Seq(Line)
    BY <2>1
  <2> QED
    BY <2>2 DEF c
<1>2. \A n \in 0..Len(L) : p(n) \in Seq(Line) /\ OutPieces(L)[n] = first \o p(n)
  BY PrefixIs, PiecesType DEF OutPieces
<1> HIDE DEF first
<1>3. ASSUME NEW n \in 0..Len(L)
      PROVE  /\ OutPieces(L)[n] \in Seq(Line)
             /\ n < Len(L) =>
                  \/ /\ OutPieces(L)[n + 1] = Append(OutPieces(L)[n], L[n + 1]) /\ IsPiece(L[n + 1])
                     /\ n + 1 \in PiecesAt(L) /\ IsDelta(L[n + 1])
                  \/ OutPieces(L)[n + 1] = OutPieces(L)[n] /\ ~IsPiece(L[n + 1]) /\ n + 1 \notin PiecesAt(L)
  <2>1. OutPieces(L)[n] \in Seq(Line)
    BY <1>1, <1>2, ConcatProperties
  <2>2. CASE n < Len(L)
    <3>1. /\ n + 1 \in 0..Len(L) /\ n + 1 \in 1..Len(L) /\ L[n + 1] \in Line /\ SubSeq(L, 1, n) \in Seq(Line)
          /\ SubSeq(L, 1, n + 1) = Append(SubSeq(L, 1, n), L[n + 1])
      BY <2>2, PrefixIs
    <3>2. p(n + 1) = KeepPiece(p(n), L[n + 1])
      <4>1. \A b, s \in Seq(Line), l \in Line : Pieces!Fold(b, Append(s, l)) = KeepPiece(Pieces!Fold(b, s), l)
        BY Pieces!FoldAppend
      <4>2. <<>> \in Seq(Line)
        OBVIOUS
      <4> QED
        BY <3>1, <4>1, <4>2, Zenon
    <3>3. p(n) \in Seq(Line) /\ OutPieces(L)[n] = first \o p(n) /\ OutPieces(L)[n + 1] = first \o p(n + 1)
      BY <1>2, <3>1
    <3>4. n + 1 \in PiecesAt(L) <=> IsPiece(L[n + 1])
      BY <3>1 DEF PiecesAt
    <3> HIDE DEF p
    <3>5. CASE IsPiece(L[n + 1])
      <4>1. p(n + 1) = Append(p(n), L[n + 1])
        BY <3>2, <3>5 DEF KeepPiece, IsPiece
      <4>2. first \o Append(p(n), L[n + 1]) = Append(first \o p(n), L[n + 1])
        <5> DEFINE q == p(n)
        <5> DEFINE l == L[n + 1]
        <5>1. q \in Seq(Line) /\ l \in Line
          BY <3>1, <3>3
        <5> HIDE DEF q, l
        <5>2. first \o Append(q, l) = Append(first \o q, l)
          BY <1>1, <5>1
        <5> QED
          BY <5>2 DEF q, l
      <4>3. IsDelta(L[n + 1])
        BY <3>5 DEF IsPiece, IsDelta
      <4> QED
        BY <2>1, <3>3, <3>4, <3>5, <4>1, <4>2, <4>3
    <3>6. CASE ~IsPiece(L[n + 1])
      <4>1. p(n + 1) = p(n)
        BY <3>2, <3>6 DEF KeepPiece, IsPiece
      <4> QED
        BY <2>1, <3>3, <3>4, <3>6, <4>1
    <3> QED
      BY <3>5, <3>6
  <2> QED
    BY <2>1, <2>2
<1>4. OutPieces(L)[0] = first \o <<>> /\ OutPieces(L)[Len(L)] = first \o Pieces!Fold(<<>>, L)
  <2>1. 0 \in 0..Len(L) /\ Len(L) \in 0..Len(L)
    BY LenProperties
  <2>2. p(0) = <<>> /\ p(Len(L)) = Pieces!Fold(<<>>, L)
    BY Splits!PrefixNone, Pieces!FoldEmpty
  <2> HIDE DEF p
  <2> QED
    BY <1>2, <2>1, <2>2
<1> QED
  BY <1>3, <1>4 DEF Selects, SelectsOf, first

\* An upstream of Anthropic's says of each event what it is.
Announces(L) ==
  \A i \in 1..Len(L) : L[i].kind = "delta" \/ (L[i].kind = "usage" /\ L[i].final) => i > 1 /\ L[i - 1].kind = "event"

EventState == [announced : BOOLEAN, out : Seq(Line)]

LEMMA EventsType ==
  ASSUME NEW a \in EventState, NEW ls \in Seq(Line)
  PROVE  Events!Fold(a, ls) \in EventState
<1>1. \A b \in EventState, l \in Line : OnEvent(b, l) \in EventState
  BY DEF OnEvent, EventState
<1> QED
  BY <1>1, Events!FoldType

LEMMA OnEventIs ==
  ASSUME NEW a, NEW l
  PROVE  /\ OnEvent(a, l).announced = (l.kind = "event")
         /\ OnEvent(a, l).out = (IF a.announced /\ (l.kind = "delta" \/ (l.kind = "usage" /\ l.final))
                                  THEN Append(a.out, l) ELSE a.out)
BY Zenon DEF OnEvent

LEMMA AnnouncedIs ==
  ASSUME NEW L \in Seq(Line), NEW n \in 0..Len(L)
  PROVE  /\ Announced(L, n) \in EventState /\ OutEvents(L)[n] = Announced(L, n).out
         /\ n < Len(L) => Announced(L, n + 1) = OnEvent(Announced(L, n), L[n + 1])
         /\ Announced(L, n).announced <=> n > 0 /\ L[n].kind = "event"
<1> DEFINE none == [announced |-> FALSE, out |-> <<>>]
<1>1. none \in EventState
  BY DEF EventState
<1>2. \A m \in 0..Len(L) : Announced(L, m) \in EventState
  BY <1>1, PrefixIs, EventsType DEF Announced
<1>3. OutEvents(L)[n] = Announced(L, n).out
  BY DEF OutEvents, FromAnthropic, Announced
<1>4. \A m \in 0..Len(L) : m < Len(L) => Announced(L, m + 1) = OnEvent(Announced(L, m), L[m + 1])
  <2> TAKE m \in 0..Len(L)
  <2> SUFFICES ASSUME m < Len(L) PROVE Announced(L, m + 1) = OnEvent(Announced(L, m), L[m + 1])
    OBVIOUS
  <2>1. /\ L[m + 1] \in Line /\ SubSeq(L, 1, m) \in Seq(Line)
        /\ SubSeq(L, 1, m + 1) = Append(SubSeq(L, 1, m), L[m + 1])
    BY PrefixIs
  <2>2. \A b \in EventState, s \in Seq(Line), l \in Line : Events!Fold(b, Append(s, l)) = OnEvent(Events!Fold(b, s), l)
    BY Events!FoldAppend
  <2>3. Events!Fold(none, SubSeq(L, 1, m + 1)) = OnEvent(Events!Fold(none, SubSeq(L, 1, m)), L[m + 1])
    BY <1>1, <2>1, <2>2, Zenon
  <2> QED
    BY <2>3 DEF Announced
<1>5. Announced(L, n).announced <=> n > 0 /\ L[n].kind = "event"
  <2>1. CASE n = 0
    <3>1. SubSeq(L, 1, 0) = <<>>
      BY SubSeqEmpty
    <3>2. Announced(L, 0) = none
      BY <3>1, Events!FoldEmpty DEF Announced
    <3> QED
      BY <2>1, <3>2
  <2>2. CASE n # 0
    <3>1. n - 1 \in 0..Len(L) /\ n - 1 < Len(L) /\ n - 1 + 1 = n /\ n > 0
      BY <2>2, LenProperties
    <3>2. Announced(L, n) = OnEvent(Announced(L, n - 1), L[n])
      BY <1>4, <3>1
    <3>3. OnEvent(Announced(L, n - 1), L[n]).announced = (L[n].kind = "event")
      BY OnEventIs
    <3> QED
      BY <3>1, <3>2, <3>3
  <2> QED
    BY <2>1, <2>2
<1> QED
  BY <1>2, <1>3, <1>4, <1>5

\* So does openai_to_anthropic.
LEMMA EventsSelect ==
  ASSUME NEW L \in Seq(Line), Announces(L)
  PROVE  /\ Selects(L, OutEvents(L)) /\ SelectsOf(L, OutEvents(L), PiecesAt(L))
         /\ \A n \in 0..Len(L) : n < Len(L) =>
              IF L[n + 1].kind = "delta" \/ (L[n + 1].kind = "usage" /\ L[n + 1].final)
                THEN OutEvents(L)[n + 1] = Append(OutEvents(L)[n], L[n + 1])
                ELSE OutEvents(L)[n + 1] = OutEvents(L)[n]
         /\ OutEvents(L)[0] = <<>> /\ OutEvents(L)[Len(L)] = FromAnthropic(L)
<1> DEFINE passed(l) == l.kind = "delta" \/ (l.kind = "usage" /\ l.final)
<1>1. ASSUME NEW n \in 0..Len(L)
      PROVE  /\ OutEvents(L)[n] \in Seq(Line)
             /\ n < Len(L) => /\ n + 1 \in 1..Len(L) /\ L[n + 1] \in Line
                              /\ IF passed(L[n + 1])
                                   THEN OutEvents(L)[n + 1] = Append(OutEvents(L)[n], L[n + 1])
                                   ELSE OutEvents(L)[n + 1] = OutEvents(L)[n]
  <2>1. Announced(L, n) \in EventState /\ OutEvents(L)[n] = Announced(L, n).out
    BY AnnouncedIs
  <2>2. CASE n < Len(L)
    <3>1. n + 1 \in 0..Len(L) /\ n + 1 \in 1..Len(L) /\ L[n + 1] \in Line /\ n \in Nat
      BY <2>2, PrefixIs
    <3>2. /\ OutEvents(L)[n + 1] = Announced(L, n + 1).out
          /\ Announced(L, n + 1) = OnEvent(Announced(L, n), L[n + 1])
          /\ Announced(L, n).announced <=> n > 0 /\ L[n].kind = "event"
      BY <2>2, <3>1, AnnouncedIs
    <3>3. passed(L[n + 1]) => Announced(L, n).announced
      <4>1. passed(L[n + 1]) => n + 1 > 1 /\ L[n + 1 - 1].kind = "event"
        BY <3>1 DEF Announces
      <4>2. n + 1 - 1 = n /\ (n + 1 > 1 => n > 0)
        BY <3>1
      <4> QED
        BY <3>2, <4>1, <4>2
    <3>4. Announced(L, n + 1).out = IF Announced(L, n).announced /\ passed(L[n + 1])
                                     THEN Append(Announced(L, n).out, L[n + 1]) ELSE Announced(L, n).out
      <4>1. OnEvent(Announced(L, n), L[n + 1]).out = IF Announced(L, n).announced /\ passed(L[n + 1])
                                     THEN Append(Announced(L, n).out, L[n + 1]) ELSE Announced(L, n).out
        BY OnEventIs
      <4> HIDE DEF passed
      <4> QED
        BY <3>2, <4>1
    <3> HIDE DEF passed
    <3> QED
      BY <2>1, <3>1, <3>2, <3>3, <3>4 DEF EventState
  <2> QED
    BY <2>1, <2>2 DEF EventState
<1>2. \A l \in Line : (IsPiece(l) => passed(l)) /\ (passed(l) => (IsPiece(l) <=> IsDelta(l)))
  BY DEF IsPiece, IsDelta
<1>3. \A n \in 0..Len(L) : n + 1 \in 1..Len(L) => (n + 1 \in PiecesAt(L) <=> IsPiece(L[n + 1]))
  BY DEF PiecesAt
<1>4. OutEvents(L)[0] = <<>> /\ OutEvents(L)[Len(L)] = FromAnthropic(L)
  <2>1. 0 \in 0..Len(L) /\ Len(L) \in 0..Len(L) /\ SubSeq(L, 1, 0) = <<>> /\ SubSeq(L, 1, Len(L)) = L
    BY Splits!PrefixNone, LenProperties
  <2>2. FromAnthropic(<<>>) = <<>>
    BY Events!FoldEmpty DEF FromAnthropic
  <2> QED
    BY <2>1, <2>2 DEF OutEvents
<1>5. \A n \in 0..Len(L) : n < Len(L) =>
        IF passed(L[n + 1]) THEN OutEvents(L)[n + 1] = Append(OutEvents(L)[n], L[n + 1])
        ELSE OutEvents(L)[n + 1] = OutEvents(L)[n]
  BY <1>1
<1> HIDE DEF passed
<1>6. Selects(L, OutEvents(L)) /\ SelectsOf(L, OutEvents(L), PiecesAt(L))
  BY <1>1, <1>2, <1>3 DEF Selects, SelectsOf
<1> QED
  BY <1>4, <1>5, <1>6 DEF passed

-----------------------------------------------------------------------------
(* What is passed on, in parts.                                            *)

LEMMA GivesType ==
  ASSUME NEW a, GivenInv(a), NEW ls \in Seq(Line)
  PROVE  GivenInv(Gives!Fold(a, ls)) /\ Gives!Fold(a, ls).parser.for = a.parser.for
<1> DEFINE S == {b \in GivenState : GivenInv(b) /\ b.parser.for = a.parser.for}
<1>1. a \in S
  BY DEF GivenInv
<1>2. \A b \in S, l \in Line : Given(b, l) \in S
  <2> TAKE b \in S, l \in Line
  <2>1. GivenInv(Given(b, l)) /\ Given(b, l).parser.for = b.parser.for
    BY GivenType
  <2>2. Given(b, l) \in GivenState
    BY <2>1 DEF GivenInv
  <2> QED
    BY <2>1, <2>2
<1> HIDE DEF S
<1>3. Gives!Fold(a, ls) \in S
  BY <1>1, <1>2, Gives!FoldType
<1> QED
  BY <1>3 DEF S

LEMMA GivenParts ==
  ASSUME NEW a, GivenInv(a)
  PROVE  a = [parser |-> a.parser, got |-> a.got]
BY DEF GivenInv, GivenState

PlainLine == {l \in Line : l.kind \notin {"body", "pretty"}}

LEMMA AppendOf ==
  ASSUME NEW A, NEW q \in Seq(A), NEW o \in Seq(A), NEW l \in A
  PROVE  q \o Append(o, l) = Append(q \o o, l) /\ Append(o, l) \in Seq(A)
OBVIOUS

LEMMA PlainLines ==
  ASSUME NEW ls \in Seq(PlainLine)
  PROVE  ls \in Seq(Line)
<1>1. PlainLine \subseteq Line
  BY DEF PlainLine
<1> QED
  BY <1>1, SeqMonotonic

\* Who was given text is charged for pieces.
Charged(a, u) == a.got.text # <<>> => u.deltas > 0

LEMMA GivenCharges ==
  ASSUME NEW a, GivenInv(a), NEW u \in ScanState, Charged(a, u), NEW l \in PlainLine
  PROVE  Charged(Given(a, l), Scanned(u, l))
<1>1. l \in Line /\ l.kind \notin {"body", "pretty"}
  BY DEF PlainLine
<1>2. /\ Scanned(u, l).deltas = (IF IsDelta(l) THEN u.deltas + 1 ELSE u.deltas)
      /\ u.deltas \in Nat
  BY <1>1, ScannedIs DEF ScanState
<1>3. CASE IsDelta(l)
  <2>1. Scanned(u, l).deltas > 0
    BY <1>2, <1>3
  <2> QED
    BY <2>1 DEF Charged
<1>4. CASE ~IsDelta(l)
  <2>1. Given(a, l).got.text = a.got.text
    <3>1. CASE l.kind = "delta"
      <4>1. l.text = <<>>
        BY <1>4, <3>1 DEF IsDelta
      <4>2. a.got.text \in Letters
        BY DEF GivenInv, GivenState
      <4>3. a.got.text \o <<>> = a.got.text
        BY <4>2, ConcatEmptySeq DEF Letters
      <4>4. CASE a.parser.for = "nobody"
        <5>1. Given(a, l) = [a EXCEPT !.got.text = @ \o l.text]
          BY <3>1, <4>4 DEF Given
        <5>2. Given(a, l).got.text = a.got.text \o l.text
          BY <5>1 DEF GivenInv, GivenState
        <5> QED
          BY <4>1, <4>3, <5>2
      <4>5. CASE a.parser.for # "nobody"
        <5> DEFINE p == a.parser
        <5> DEFINE fed == Feed(p, <<>>)
        <5>1. p.inside \in BOOLEAN /\ p.buffer \in Letters /\ Awaits(p)
          BY DEF GivenInv, GivenState
        <5>2. <<>> \in Letters
          BY DEF Letters
        <5>3. /\ fed \in LoopState
              /\ Splits!Fold(Heard(p.inside, Len(p.buffer), <<>>, <<>>), <<>>)
                   = Heard(fed.inside, Len(fed.buffer), <<>> \o fed.text, <<>> \o fed.thought)
          <6> HIDE DEF p
          <6>1. \A s, t, h \in Letters :
                  /\ Feed(p, s) \in LoopState
                  /\ Splits!Fold(Heard(p.inside, Len(p.buffer), t, h), s)
                       = Heard(Feed(p, s).inside, Len(Feed(p, s).buffer), t \o Feed(p, s).text, h \o Feed(p, s).thought)
            BY <5>1, FeedSplits
          <6> QED
            BY <5>2, <6>1, Zenon
        <5>4. fed.text \in Letters
          BY <5>3 DEF LoopState
        <5> HIDE DEF fed
        <5>5. Heard(p.inside, Len(p.buffer), <<>>, <<>>)
                = Heard(fed.inside, Len(fed.buffer), <<>> \o fed.text, <<>> \o fed.thought)
          BY <5>3, Splits!FoldEmpty, Zenon
        <5>6. <<>> = <<>> \o fed.text
          <6>1. Heard(p.inside, Len(p.buffer), <<>>, <<>>).text = <<>>
            BY HeardIs
          <6>2. Heard(fed.inside, Len(fed.buffer), <<>> \o fed.text, <<>> \o fed.thought).text = <<>> \o fed.text
            BY HeardIs
          <6> QED
            BY <5>5, <6>1, <6>2
        <5>7. fed.text = <<>>
          BY <5>4, <5>6, ConcatEmptySeq DEF Letters
        <5>8. Given(a, l).got.text = a.got.text \o Feed(a.parser, l.text).text
          BY <3>1, <4>5 DEF Given
        <5> QED
          BY <4>1, <4>3, <5>7, <5>8 DEF fed
      <4> QED
        BY <4>4, <4>5
    <3>2. CASE l.kind = "thought"
      BY <3>2 DEF Given, GivenInv, GivenState
    <3>3. CASE l.kind \notin {"delta", "thought"}
      BY <1>1, <3>3 DEF Given
    <3> QED
      BY <3>1, <3>2, <3>3
  <2> QED
    BY <1>2, <1>4, <2>1 DEF Charged
<1> QED
  BY <1>3, <1>4

LEMMA PassCharges ==
  ASSUME NEW a, GivenInv(a), NEW u \in ScanState, Charged(a, u), NEW ls \in Seq(PlainLine)
  PROVE  Charged(Gives!Fold(a, ls), Scans!Fold(u, ls))
<1> DEFINE Good(s) == Charged(Gives!Fold(a, s), Scans!Fold(u, s))
<1> DEFINE T == {s \in Seq(PlainLine) : Good(s)}
<1>1. <<>> \in T
  <2>1. Gives!Fold(a, <<>>) = a /\ Scans!Fold(u, <<>>) = u
    BY Gives!FoldEmpty, Scans!FoldEmpty
  <2>2. Good(<<>>)
    BY <2>1
  <2> HIDE DEF Good
  <2> QED
    BY <2>2
<1>2. ASSUME NEW s \in Seq(PlainLine), NEW l \in PlainLine, s \in T PROVE Good(Append(s, l))
  <2>1. s \in Seq(Line) /\ l \in Line
    BY PlainLines DEF PlainLine
  <2>2. GivenInv(Gives!Fold(a, s)) /\ Scans!Fold(u, s) \in ScanState
    BY <2>1, GivesType, ScannedIs, Scans!FoldType
  <2>3. Charged(Given(Gives!Fold(a, s), l), Scanned(Scans!Fold(u, s), l))
    BY <1>2, <2>2, GivenCharges
  <2>4. Gives!Fold(a, Append(s, l)) = Given(Gives!Fold(a, s), l)
    BY <2>1, Gives!FoldAppend
  <2>5. Scans!Fold(u, Append(s, l)) = Scanned(Scans!Fold(u, s), l)
    BY <2>1, Scans!FoldAppend
  <2> QED
    BY <2>3, <2>4, <2>5
<1>3. ls \in T
  <2> HIDE DEF Good
  <2>1. \A s \in Seq(PlainLine), l \in PlainLine : s \in T => Append(s, l) \in T
    BY <1>2
  <2> HIDE DEF T
  <2> QED
    BY <1>1, <2>1, Scans!SeqInduction
<1> QED
  BY <1>3

LEMMA PiecesPush ==
  ASSUME NEW p \in Seq(Line), Pieces!Pushes(Line, Line, p), NEW c \in Seq(Line), NEW t \in Seq(Line)
  PROVE  Pieces!Fold(p \o c, t) = p \o Pieces!Fold(c, t)
BY Pieces!FoldPushes, SMTT(20)

\* Lines translated in two chunks are those translated in one.
LEMMA PiecesConcat ==
  ASSUME NEW s \in Seq(Line), NEW t \in Seq(Line)
  PROVE  Pieces!Fold(<<>>, s \o t) = Pieces!Fold(<<>>, s) \o Pieces!Fold(<<>>, t)
<1> DEFINE p == Pieces!Fold(<<>>, s)
<1>1. p \in Seq(Line) /\ <<>> \in Seq(Line)
  BY PiecesType
<1>2. Pieces!Fold(<<>>, s \o t) = Pieces!Fold(p, t)
  BY Pieces!FoldConcat
<1> HIDE DEF p
<1>3. Pieces!Pushes(Line, Line, p)
  <2>1. ASSUME NEW b \in Seq(Line), NEW l \in Line
        PROVE  KeepPiece(b, l) \in Seq(Line) /\ KeepPiece(p \o b, l) = p \o KeepPiece(b, l)
    <3>1. p \o Append(b, l) = Append(p \o b, l) /\ Append(b, l) \in Seq(Line)
      BY <1>1, AppendOf
    <3> QED
      BY <2>1, <3>1, Zenon DEF KeepPiece
  <2> QED
    BY <2>1 DEF Pieces!Pushes
<1>4. Pieces!Fold(p \o <<>>, t) = p \o Pieces!Fold(<<>>, t)
  BY <1>1, <1>3, PiecesPush
<1>5. p \o <<>> = p
  BY <1>1, ConcatEmptySeq
<1> QED
  BY <1>2, <1>4, <1>5 DEF p

\* Events are translated chunk by chunk as all at once, if no chunk ends in one.
LEMMA EventsConcat ==
  ASSUME NEW q \in Seq(Line), NEW t \in Seq(Line)
  PROVE  Events!Fold([announced |-> FALSE, out |-> q], t).out = q \o FromAnthropic(t)
<1> DEFINE a == [announced |-> FALSE, out |-> q]
<1> DEFINE b == [announced |-> FALSE, out |-> <<>>]
<1> DEFINE x(s) == Events!Fold(a, s)
<1> DEFINE y(s) == Events!Fold(b, s)
<1> DEFINE Good(s) == x(s).announced = y(s).announced /\ x(s).out = q \o y(s).out
<1> DEFINE T == {s \in Seq(Line) : Good(s)}
<1>0. a \in EventState /\ b \in EventState
  BY DEF EventState
<1>1. <<>> \in T
  <2>1. x(<<>>) = a /\ y(<<>>) = b
    BY Events!FoldEmpty
  <2>2. a.announced = b.announced /\ a.out = q /\ b.out = <<>> /\ q \o <<>> = q
    BY ConcatEmptySeq
  <2>3. Good(<<>>)
    <3> HIDE DEF a, b
    <3> QED
      BY <2>1, <2>2
  <2> HIDE DEF Good
  <2> QED
    BY <2>3
<1>2. ASSUME NEW s \in Seq(Line), NEW l \in Line, s \in T PROVE Good(Append(s, l))
  <2>0. \A c \in EventState : Events!Fold(c, Append(s, l)) = OnEvent(Events!Fold(c, s), l)
    BY Events!FoldAppend
  <2>1. x(Append(s, l)) = OnEvent(x(s), l) /\ y(Append(s, l)) = OnEvent(y(s), l)
    BY <1>0, <2>0, Zenon
  <2>2. y(s) \in EventState
    BY <1>0, EventsType
  <2>3. x(s).announced = y(s).announced /\ x(s).out = q \o y(s).out
    BY <1>2
  <2> DEFINE v == x(s)
  <2> DEFINE w == y(s)
  <2>4. /\ OnEvent(v, l).announced = (l.kind = "event")
        /\ OnEvent(v, l).out = (IF v.announced /\ (l.kind = "delta" \/ (l.kind = "usage" /\ l.final))
                                  THEN Append(v.out, l) ELSE v.out)
    BY OnEventIs
  <2>5. /\ OnEvent(w, l).announced = (l.kind = "event")
        /\ OnEvent(w, l).out = (IF w.announced /\ (l.kind = "delta" \/ (l.kind = "usage" /\ l.final))
                                  THEN Append(w.out, l) ELSE w.out)
    BY OnEventIs
  <2>6. w.out \in Seq(Line)
    BY <2>2 DEF EventState
  <2>7. v.announced = w.announced /\ v.out = q \o w.out
    BY <2>3
  <2> HIDE DEF v, w
  <2>8. Append(q \o w.out, l) = q \o Append(w.out, l)
    <3> DEFINE o == w.out
    <3>1. o \in Seq(Line)
      BY <2>6
    <3> HIDE DEF o
    <3>2. q \in Seq(Line) /\ l \in Line
      OBVIOUS
    <3>3. \A c, d \in Seq(Line), k \in Line : c \o Append(d, k) = Append(c \o d, k)
      BY AppendOf
    <3>4. q \o Append(o, l) = Append(q \o o, l)
      BY <3>1, <3>2, <3>3, Zenon
    <3> QED
      BY <3>4 DEF o
  <2>9. OnEvent(v, l).announced = OnEvent(w, l).announced /\ OnEvent(v, l).out = q \o OnEvent(w, l).out
    BY <2>4, <2>5, <2>7, <2>8
  <2> QED
    BY <2>1, <2>9 DEF v, w
<1>3. t \in T
  <2> HIDE DEF Good
  <2>1. \A s \in Seq(Line), l \in Line : s \in T => Append(s, l) \in T
    BY <1>2
  <2> HIDE DEF T
  <2> QED
    BY <1>1, <2>1, Events!SeqInduction
<1> QED
  BY <1>3 DEF FromAnthropic

LEMMA EventsJoin ==
  ASSUME NEW L \in Seq(Line), NEW n \in 0..Len(L), n > 0 => L[n].kind # "event", NEW t \in Seq(Line)
  PROVE  FromAnthropic(SubSeq(L, 1, n) \o t) = FromAnthropic(SubSeq(L, 1, n)) \o FromAnthropic(t)
<1> DEFINE s == SubSeq(L, 1, n)
<1> DEFINE b == [announced |-> FALSE, out |-> <<>>]
<1> DEFINE e == Events!Fold(b, s)
<1>1. s \in Seq(Line)
  BY PrefixIs
<1>2. e = Announced(L, n)
  BY DEF Announced
<1>3. e \in EventState /\ ~e.announced
  BY <1>2, AnnouncedIs
<1>4. Events!Fold(b, s \o t) = Events!Fold(e, t)
  <2> HIDE DEF b, s
  <2> QED
    BY <1>1, Events!FoldConcat DEF e
<1>5. FromAnthropic(s \o t) = Events!Fold(e, t).out /\ FromAnthropic(s) = e.out
  BY <1>4 DEF FromAnthropic
<1> HIDE DEF e, s
<1>6. e = [announced |-> FALSE, out |-> e.out] /\ e.out \in Seq(Line)
  BY <1>3 DEF EventState
<1>7. Events!Fold([announced |-> FALSE, out |-> e.out], t).out = e.out \o FromAnthropic(t)
  BY <1>6, EventsConcat
<1> QED
  BY <1>5, <1>6, <1>7 DEF s

-----------------------------------------------------------------------------
(* The counts of an answer.                                                *)

Finals(L) == {i \in Usages(L) : L[i].final}

\* The greatest count of the lines of F, or 0.
Greatest(L, F, x) ==
  /\ x \in Nat
  /\ \A i \in F : L[i].c <= x
  /\ x = 0 \/ \E i \in F : x = L[i].c

LEMMA UsagesCount ==
  ASSUME NEW L \in Seq(Line)
  PROVE  /\ \A i \in Usages(L) : i \in 1..Len(L) /\ L[i].c \in Nat /\ L[i].kind = "usage"
         /\ \A i \in Finals(L) : i \in Usages(L)
         /\ Len(L) \in Nat
<1>1. \A i \in 1..Len(L) : L[i] \in Line
  BY ElementOfSeq
<1>2. \A i \in 1..Len(L) : L[i].kind = "usage" => L[i].c \in Nat
  BY <1>1, LineIs
<1> QED
  BY <1>2, LenProperties DEF Usages, Finals

LEMMA GreatestOf ==
  ASSUME NEW L \in Seq(Line), Rising(L), NEW F, F \subseteq Usages(L), NEW v, Tracks(L, F, v)
  PROVE  Greatest(L, F, v[Len(L)])
<1>1. /\ \A i \in F : i \in 1..Len(L) /\ L[i].c \in Nat
      /\ \A i, j \in F : i < j => L[i].c <= L[j].c
  BY UsagesCount DEF Rising
<1> QED
  BY <1>1, TracksGreatest DEF Greatest

LEMMA GreatestSame ==
  ASSUME NEW L \in Seq(Line), NEW F, NEW G, F \subseteq G, G \subseteq Usages(L),
         \A i \in G : L[i].c > 0 => \E j \in F : L[i].c <= L[j].c,
         NEW x, NEW y, Greatest(L, F, x), Greatest(L, G, y)
  PROVE  x = y
<1>1. x \in Nat /\ y \in Nat /\ \A i \in G : L[i].c \in Nat
  BY UsagesCount DEF Greatest
<1>2. x <= y
  BY <1>1 DEF Greatest
<1>3. y <= x
  <2>1. CASE y = 0
    BY <1>1, <2>1
  <2>2. CASE y # 0
    <3>1. PICK i \in G : y = L[i].c
      BY <2>2 DEF Greatest
    <3>2. PICK j \in F : L[i].c <= L[j].c
      BY <1>1, <2>2, <3>1
    <3>3. L[j].c <= x /\ L[j].c \in Nat
      BY <1>1 DEF Greatest
    <3> QED
      BY <1>1, <3>1, <3>2, <3>3
  <2> QED
    BY <2>1, <2>2
<1> QED
  BY <1>1, <1>2, <1>3

\* What the last counts of all lines say.
LEMMA SaidGreatest ==
  ASSUME NEW L \in Seq(Line), Plain(L), Rising(L)
  PROVE  Greatest(L, Usages(L), Reports!Fold(NoFigures, L).c)
<1> DEFINE r(n) == Reports!Fold(NoFigures, SubSeq(L, 1, n))
<1> DEFINE v == [n \in 0..Len(L) |-> r(n).c]
<1>1. Tracks(L, Usages(L), v)
  <2>1. v[0] = 0
    <3>1. 0 \in 0..Len(L)
      BY UsagesCount
    <3>2. r(0) = NoFigures
      BY Reports!PrefixNone, Reports!FoldEmpty
    <3> QED
      BY <3>1, <3>2 DEF NoFigures
  <2>2. ASSUME NEW n \in 0..Len(L), n < Len(L)
        PROVE  IF n + 1 \in Usages(L) THEN v[n + 1] = L[n + 1].c \/ (L[n + 1].c = 0 /\ v[n + 1] = v[n])
               ELSE v[n + 1] = v[n]
    <3>1. /\ n + 1 \in 0..Len(L) /\ n + 1 \in 1..Len(L) /\ L[n + 1] \in Line /\ SubSeq(L, 1, n) \in Seq(Line)
          /\ SubSeq(L, 1, n + 1) = Append(SubSeq(L, 1, n), L[n + 1])
      BY <2>2, PrefixIs
    <3>2. r(n + 1) = Reported(r(n), L[n + 1])
      <4>1. \A s \in Seq(Line), l \in Line : Reports!Fold(NoFigures, Append(s, l)) = Reported(Reports!Fold(NoFigures, s), l)
        BY Reports!FoldAppend
      <4> QED
        BY <3>1, <4>1, Zenon
    <3>3. r(n) \in ScanState
      BY <3>1, ReportsType, NoFiguresIs DEF NothingYet
    <3>4. L[n + 1].reports <=> n + 1 \in Usages(L)
      BY <3>1, LineIs DEF Plain, Usages
    <3>5. v[n + 1] = r(n + 1).c /\ v[n] = r(n).c
      BY <3>1
    <3> DEFINE l == L[n + 1]
    <3> DEFINE w == r(n)
    <3>6. /\ Reported(w, l) \in ScanState
          /\ IF l.reports
               THEN Reported(w, l).c = IF l.c # 0 THEN l.c ELSE w.c
               ELSE Reported(w, l) = w
      <4>1. w \in ScanState /\ l \in Line
        BY <3>1, <3>3
      <4> HIDE DEF w, l
      <4> QED
        BY <4>1, ReportedIs
    <3>7. v[n + 1] = Reported(w, l).c /\ v[n] = w.c
      BY <3>2, <3>5
    <3> HIDE DEF r, v
    <3> QED
      BY <3>4, <3>6, <3>7
  <2> HIDE DEF v
  <2> QED
    BY <2>1, <2>2 DEF Tracks
<1>2. v[Len(L)] = Reports!Fold(NoFigures, L).c
  BY UsagesCount, Reports!PrefixNone
<1> HIDE DEF v
<1>3. Greatest(L, Usages(L), v[Len(L)])
  BY <1>1, GreatestOf
<1> QED
  BY <1>2, <1>3

\* What anthropic_to_openai keeps of them.
LEMMA CountGreatest ==
  ASSUME NEW L \in Seq(Line), Rising(L)
  PROVE  Greatest(L, Usages(L), LastCount!Fold(0, L))
<1> DEFINE v == [n \in 0..Len(L) |-> LastCount!Fold(0, SubSeq(L, 1, n))]
<1>1. Tracks(L, Usages(L), v)
  <2>1. v[0] = 0
    <3>1. 0 \in 0..Len(L)
      BY UsagesCount
    <3>2. LastCount!Fold(0, SubSeq(L, 1, 0)) = 0
      BY LastCount!PrefixNone, LastCount!FoldEmpty
    <3> QED
      BY <3>1, <3>2
  <2>2. ASSUME NEW n \in 0..Len(L), n < Len(L)
        PROVE  IF n + 1 \in Usages(L) THEN v[n + 1] = L[n + 1].c \/ (L[n + 1].c = 0 /\ v[n + 1] = v[n])
               ELSE v[n + 1] = v[n]
    <3>1. /\ n + 1 \in 0..Len(L) /\ n + 1 \in 1..Len(L) /\ L[n + 1] \in Line /\ SubSeq(L, 1, n) \in Seq(Line)
          /\ SubSeq(L, 1, n + 1) = Append(SubSeq(L, 1, n), L[n + 1])
      BY <2>2, PrefixIs
    <3>2. v[n + 1] = Counted(v[n], L[n + 1])
      <4>1. \A s \in Seq(Line), l \in Line : LastCount!Fold(0, Append(s, l)) = Counted(LastCount!Fold(0, s), l)
        BY LastCount!FoldAppend
      <4>2. LastCount!Fold(0, SubSeq(L, 1, n + 1)) = Counted(LastCount!Fold(0, SubSeq(L, 1, n)), L[n + 1])
        BY <3>1, <4>1, Zenon
      <4> QED
        BY <3>1, <4>2
    <3>3. L[n + 1].kind = "usage" <=> n + 1 \in Usages(L)
      BY <3>1 DEF Usages
    <3> HIDE DEF v
    <3> QED
      BY <3>2, <3>3 DEF Counted
  <2> HIDE DEF v
  <2> QED
    BY <2>1, <2>2 DEF Tracks
<1>2. v[Len(L)] = LastCount!Fold(0, L)
  BY UsagesCount, LastCount!PrefixNone
<1> HIDE DEF v
<1>3. Greatest(L, Usages(L), v[Len(L)])
  BY <1>1, GreatestOf
<1> QED
  BY <1>2, <1>3

LEMMA CountType ==
  ASSUME NEW c \in Nat, NEW ls \in Seq(Line)
  PROVE  LastCount!Fold(c, ls) \in Nat
<1>1. \A k \in Nat, l \in Line : Counted(k, l) \in Nat
  BY LineIs DEF Counted
<1> QED
  BY <1>1, LastCount!FoldType

\* What a scan of the lines that are passed on says, those of F among them.
ScanTracks(L, outs, F) ==
  \A n \in 0..Len(L) : n < Len(L) =>
    \/ outs[n + 1] = outs[n] /\ n + 1 \notin F
    \/ outs[n + 1] = Append(outs[n], L[n + 1]) /\ (n + 1 \in F <=> HasUsage(L[n + 1]) /\ L[n + 1].reports)

LEMMA ScanGreatest ==
  ASSUME NEW L \in Seq(Line), Rising(L), NEW F, F \subseteq Usages(L), NEW outs,
         \A n \in 0..Len(L) : outs[n] \in Seq(Line),
         Scans!Fold(NoFigures, outs[0]).c = 0, ScanTracks(L, outs, F)
  PROVE  Greatest(L, F, Scans!Fold(NoFigures, outs[Len(L)]).c)
<1> DEFINE r(n) == Scans!Fold(NoFigures, outs[n])
<1> DEFINE v == [n \in 0..Len(L) |-> r(n).c]
<1>1. Tracks(L, F, v)
  <2>1. v[0] = 0
    BY UsagesCount
  <2>2. ASSUME NEW n \in 0..Len(L), n < Len(L)
        PROVE  IF n + 1 \in F THEN v[n + 1] = L[n + 1].c \/ (L[n + 1].c = 0 /\ v[n + 1] = v[n])
               ELSE v[n + 1] = v[n]
    <3>1. n + 1 \in 0..Len(L) /\ n + 1 \in 1..Len(L) /\ L[n + 1] \in Line
      BY <2>2, PrefixIs
    <3>2. r(n) \in ScanState
      BY ScansType
    <3>3. v[n + 1] = r(n + 1).c /\ v[n] = r(n).c
      BY <3>1
    <3>4. CASE outs[n + 1] = outs[n] /\ n + 1 \notin F
      <4>1. v[n + 1] = v[n]
        BY <3>3, <3>4
      <4> QED
        BY <3>4, <4>1
    <3>5. CASE outs[n + 1] = Append(outs[n], L[n + 1]) /\ (n + 1 \in F <=> HasUsage(L[n + 1]) /\ L[n + 1].reports)
      <4>1. r(n + 1) = Scanned(r(n), L[n + 1])
        <5>1. \A s \in Seq(Line), l \in Line : Scans!Fold(NoFigures, Append(s, l)) = Scanned(Scans!Fold(NoFigures, s), l)
          BY Scans!FoldAppend
        <5> QED
          BY <3>1, <3>5, <5>1, Zenon
      <4> DEFINE l == L[n + 1]
      <4> DEFINE w == r(n)
      <4>2. IF HasUsage(l) /\ l.reports
              THEN Scanned(w, l).c = IF l.c # 0 THEN l.c ELSE w.c
              ELSE Scanned(w, l).c = w.c
        <5>1. w \in ScanState /\ l \in Line
          BY <3>1, <3>2
        <5> HIDE DEF w, l
        <5> QED
          BY <5>1, ScannedIs
      <4>3. v[n + 1] = Scanned(w, l).c /\ v[n] = w.c
        BY <3>3, <4>1
      <4> HIDE DEF r, v
      <4> QED
        BY <3>5, <4>2, <4>3
    <3> QED
      BY <2>2, <3>4, <3>5 DEF ScanTracks
  <2> HIDE DEF v
  <2> QED
    BY <2>1, <2>2 DEF Tracks
<1>2. v[Len(L)] = Scans!Fold(NoFigures, outs[Len(L)]).c
  BY UsagesCount
<1> HIDE DEF v
<1>3. Greatest(L, F, v[Len(L)])
  BY <1>1, GreatestOf
<1> QED
  BY <1>2, <1>3

-----------------------------------------------------------------------------
(* The figures of a whole answer.                                          *)

LEMMA DeltasAre ==
  ASSUME NEW L \in Seq(Line)
  PROVE  \A D \in {DeltasAt(L), PiecesAt(L)} : \A i \in D : i \in Nat /\ 1 <= i /\ i <= Len(L)
BY LenProperties DEF DeltasAt, PiecesAt

\* A stream that is passed on as it came has its pieces counted.
LEMMA WholeFigures ==
  ASSUME NEW L \in Seq(Line)
  PROVE  Scans!Fold(NoFigures, L).deltas = Cardinality(DeltasAt(L))
<1> DEFINE outs == OutAll(L)
<1> DEFINE D == DeltasAt(L)
<1>1. SelectsOf(L, outs, D) /\ outs[0] = <<>> /\ outs[Len(L)] = L
  BY AllSelects
<1>2. Scans!Fold(NoFigures, outs[0]) = NoFigures
  BY <1>1, Scans!FoldEmpty
<1>3. NoFigures \in ScanState /\ NoFigures.deltas = 0
  BY NoFiguresIs DEF NothingYet, NoFigures
<1>4. \A i \in D : i \in Nat /\ 1 <= i /\ i <= Len(L)
  BY DeltasAre
<1>5. Cardinality(D) \in Nat
  <2>1. IsFiniteSet(1..Len(L)) /\ D \subseteq 1..Len(L)
    BY LenProperties, FS_Interval DEF DeltasAt
  <2> HIDE DEF D
  <2> QED
    BY <2>1, FS_Subset, FS_CardinalityType
<1> HIDE DEF outs, D
<1>6. Scans!Fold(NoFigures, outs[Len(L)]).deltas = Scans!Fold(NoFigures, outs[0]).deltas + Cardinality(D)
  BY <1>1, <1>2, <1>3, <1>4, SelectedCount
<1>7. Scans!Fold(NoFigures, L).deltas = 0 + Cardinality(D)
  BY <1>1, <1>2, <1>3, <1>6
<1> QED
  BY <1>5, <1>7 DEF D

\* A line that reports counts gives the client nothing.
LEMMA CountsGiven ==
  ASSUME NEW a, NEW c \in Nat
  PROVE  Given(a, Counts(0, c)) = a
BY CountsAreLines DEF Given

LEMMA CountsScanned ==
  ASSUME NEW u \in ScanState, NEW c \in Nat
  PROVE  /\ Scanned(u, Counts(0, c)) \in ScanState
         /\ Scanned(u, Counts(0, c)).seen /\ Scanned(u, Counts(0, c)).deltas = u.deltas
         /\ Scanned(u, Counts(0, c)).c = IF c # 0 THEN c ELSE u.c
<1> DEFINE l == Counts(0, c)
<1>1. l \in Line /\ l.kind = "usage" /\ l.reports = TRUE /\ l.c = c
  BY CountsAreLines
<1>2. HasUsage(l) /\ ~IsDelta(l)
  BY <1>1 DEF HasUsage, IsDelta
<1> HIDE DEF l
<1>3. /\ Scanned(u, l) \in ScanState /\ Scanned(u, l).seen /\ Scanned(u, l).deltas = u.deltas
      /\ Scanned(u, l).c = IF l.c # 0 THEN l.c ELSE u.c
  BY <1>1, <1>2, ScannedIs
<1> QED
  BY <1>1, <1>3 DEF l

LEMMA CountsAlone ==
  /\ <<Counts(0, 0)>> \in Seq(Line) /\ <<Counts(0, 0)>> \o <<>> = <<Counts(0, 0)>>
  /\ Scans!Fold(NoFigures, <<Counts(0, 0)>>) \in ScanState
  /\ Scans!Fold(NoFigures, <<Counts(0, 0)>>).c = 0
  /\ Scans!Fold(NoFigures, <<Counts(0, 0)>>).deltas = 0
  /\ \A a : Gives!Fold(a, <<Counts(0, 0)>>) = a
<1>1. NoFigures \in ScanState /\ NoFigures.deltas = 0 /\ NoFigures.c = 0
  BY NoFiguresIs DEF NothingYet, NoFigures
<1>2. Scans!Fold(NoFigures, <<Counts(0, 0)>>) = Scanned(NoFigures, Counts(0, 0))
  BY Scans!FoldOne
<1>3. /\ Scanned(NoFigures, Counts(0, 0)) \in ScanState /\ Scanned(NoFigures, Counts(0, 0)).c = 0
      /\ Scanned(NoFigures, Counts(0, 0)).deltas = 0
  BY <1>1, CountsScanned
<1>4. \A a : Gives!Fold(a, <<Counts(0, 0)>>) = Given(a, Counts(0, 0))
  BY Gives!FoldOne
<1>5. Counts(0, 0) \in Line
  BY CountsAreLines
<1> DEFINE k == Counts(0, 0)
<1>6. <<k>> \in Seq(Line) /\ <<k>> \o <<>> = <<k>>
  <2>1. k \in Line
    BY <1>5
  <2> HIDE DEF k
  <2> QED
    BY <2>1
<1> QED
  BY <1>2, <1>3, <1>4, <1>6, CountsGiven

\* Of anthropic_to_openai: what was kept is the count.
LEMMA PiecesFigures ==
  ASSUME NEW L \in Seq(Line), Rising(L), NEW c \in Nat, NEW u,
         u = Scans!Fold(NoFigures, OutPieces(L)[Len(L)] \o <<Counts(0, c)>>)
  PROVE  u \in ScanState /\ u.seen /\ u.c = c /\ u.deltas = Cardinality(PiecesAt(L))
<1> DEFINE outs == OutPieces(L)
<1> DEFINE D == PiecesAt(L)
<1> DEFINE w == Scans!Fold(NoFigures, outs[Len(L)])
<1>1. /\ SelectsOf(L, outs, D) /\ outs[0] = <<Counts(0, 0)>> /\ \A n \in 0..Len(L) : outs[n] \in Seq(Line)
      /\ \A n \in 0..Len(L) : n < Len(L) =>
              \/ outs[n + 1] = Append(outs[n], L[n + 1]) /\ IsPiece(L[n + 1])
              \/ outs[n + 1] = outs[n]
  BY PiecesSelect, CountsAlone DEF SelectsOf
<1>2. Scans!Fold(NoFigures, outs[0]) \in ScanState /\ Scans!Fold(NoFigures, outs[0]).c = 0
      /\ Scans!Fold(NoFigures, outs[0]).deltas = 0
  BY <1>1, CountsAlone
<1>3. \A i \in D : i \in Nat /\ 1 <= i /\ i <= Len(L)
  BY DeltasAre
<1>4. Cardinality(D) \in Nat
  <2>1. IsFiniteSet(1..Len(L)) /\ D \subseteq 1..Len(L)
    BY LenProperties, FS_Interval DEF PiecesAt
  <2> HIDE DEF D
  <2> QED
    BY <2>1, FS_Subset, FS_CardinalityType
<1>5. w.deltas = Cardinality(D)
  <2>1. SelectsOf(L, outs, D) /\ Scans!Fold(NoFigures, outs[0]) \in ScanState
    BY <1>1, <1>2
  <2> HIDE DEF outs, D
  <2>2. Scans!Fold(NoFigures, outs[Len(L)]).deltas = Scans!Fold(NoFigures, outs[0]).deltas + Cardinality(D)
    BY <1>3, <2>1, SelectedCount
  <2>3. Scans!Fold(NoFigures, outs[0]).deltas = 0
    BY <1>2
  <2> QED
    BY <1>4, <2>2, <2>3 DEF outs
<1>6. w.c = 0
  <2>1. ScanTracks(L, outs, {})
    <3>1. \A l : IsPiece(l) => ~HasUsage(l)
      BY DEF IsPiece, HasUsage
    <3> HIDE DEF outs
    <3> QED
      BY <1>1, <3>1 DEF ScanTracks
  <2>2. Greatest(L, {}, w.c)
    <3> HIDE DEF outs
    <3>1. {} \subseteq Usages(L)
      OBVIOUS
    <3> QED
      BY <1>1, <1>2, <2>1, <3>1, ScanGreatest
  <2> QED
    BY <2>2 DEF Greatest
<1>7. outs[Len(L)] \in Seq(Line) /\ Counts(0, c) \in Line
  <2>1. Len(L) \in 0..Len(L)
    BY LenProperties
  <2> QED
    BY <1>1, <2>1, CountsAreLines
<1>8. u = Scanned(w, Counts(0, c)) /\ w \in ScanState
  <2> DEFINE o == outs[Len(L)]
  <2> DEFINE k == Counts(0, c)
  <2>1. u = Scans!Fold(NoFigures, o \o <<k>>) /\ o \in Seq(Line) /\ k \in Line /\ w = Scans!Fold(NoFigures, o)
    BY <1>7
  <2> HIDE DEF o, k, w
  <2>2. o \o <<k>> = Append(o, k)
    BY <2>1
  <2>3. Scans!Fold(NoFigures, Append(o, k)) = Scanned(Scans!Fold(NoFigures, o), k)
    BY <2>1, Scans!FoldAppend
  <2>4. u = Scanned(w, k) /\ w \in ScanState
    BY <2>1, <2>2, <2>3, ScansType
  <2> QED
    BY <2>4 DEF k
<1> HIDE DEF w
<1>9. /\ Scanned(w, Counts(0, c)) \in ScanState
      /\ Scanned(w, Counts(0, c)).seen /\ Scanned(w, Counts(0, c)).deltas = w.deltas
      /\ Scanned(w, Counts(0, c)).c = IF c # 0 THEN c ELSE w.c
  BY <1>8, CountsScanned
<1>10. u.c = c
  BY <1>6, <1>8, <1>9
<1> QED
  BY <1>5, <1>8, <1>9, <1>10 DEF D

\* Of openai_to_anthropic: the counts are those of the last events.
LEMMA EventsFigures ==
  ASSUME NEW L \in Seq(Line), Rising(L), Announces(L), NEW u,
         u = Scans!Fold(NoFigures, OutEvents(L)[Len(L)])
  PROVE  u \in ScanState /\ Greatest(L, Finals(L), u.c) /\ u.deltas = Cardinality(PiecesAt(L))
<1> DEFINE outs == OutEvents(L)
<1> DEFINE D == PiecesAt(L)
<1>1. /\ SelectsOf(L, outs, D) /\ outs[0] = <<>> /\ \A n \in 0..Len(L) : outs[n] \in Seq(Line)
      /\ \A n \in 0..Len(L) : n < Len(L) =>
              IF L[n + 1].kind = "delta" \/ (L[n + 1].kind = "usage" /\ L[n + 1].final)
                THEN outs[n + 1] = Append(outs[n], L[n + 1])
                ELSE outs[n + 1] = outs[n]
  BY EventsSelect DEF SelectsOf
<1>2. /\ Scans!Fold(NoFigures, outs[0]) = NoFigures
      /\ NoFigures \in ScanState /\ NoFigures.c = 0 /\ NoFigures.deltas = 0
  BY <1>1, Scans!FoldEmpty, NoFiguresIs DEF NothingYet, NoFigures
<1>3. \A i \in D : i \in Nat /\ 1 <= i /\ i <= Len(L)
  BY DeltasAre
<1>4. Cardinality(D) \in Nat
  <2>1. IsFiniteSet(1..Len(L)) /\ D \subseteq 1..Len(L)
    BY LenProperties, FS_Interval DEF PiecesAt
  <2> HIDE DEF D
  <2> QED
    BY <2>1, FS_Subset, FS_CardinalityType
<1>5. u.deltas = Cardinality(D) /\ u \in ScanState
  <2>1. u = Scans!Fold(NoFigures, outs[Len(L)])
    OBVIOUS
  <2> HIDE DEF outs, D
  <2>2. /\ Scans!Fold(NoFigures, outs[Len(L)]).deltas = Scans!Fold(NoFigures, outs[0]).deltas + Cardinality(D)
        /\ Scans!Fold(NoFigures, outs[Len(L)]) \in ScanState
    BY <1>1, <1>2, <1>3, SelectedCount
  <2> QED
    BY <1>2, <1>4, <2>1, <2>2
<1>6. ScanTracks(L, outs, Finals(L))
  <2> SUFFICES ASSUME NEW n \in 0..Len(L), n < Len(L)
               PROVE  \/ outs[n + 1] = outs[n] /\ n + 1 \notin Finals(L)
                      \/ /\ outs[n + 1] = Append(outs[n], L[n + 1])
                         /\ n + 1 \in Finals(L) <=> HasUsage(L[n + 1]) /\ L[n + 1].reports
    BY DEF ScanTracks
  <2>1. n + 1 \in 1..Len(L) /\ L[n + 1] \in Line
    BY PrefixIs
  <2>2. n + 1 \in Finals(L) <=> L[n + 1].kind = "usage" /\ L[n + 1].final
    BY <2>1 DEF Finals, Usages
  <2>3. L[n + 1].kind = "usage" => L[n + 1].reports
    BY <2>1, LineIs
  <2> DEFINE l == L[n + 1]
  <2>4. IF l.kind = "delta" \/ (l.kind = "usage" /\ l.final)
          THEN outs[n + 1] = Append(outs[n], l) ELSE outs[n + 1] = outs[n]
    BY <1>1
  <2> HIDE DEF outs
  <2> QED
    BY <2>2, <2>3, <2>4 DEF HasUsage
<1>7. Greatest(L, Finals(L), u.c)
  <2>1. u = Scans!Fold(NoFigures, outs[Len(L)]) /\ Finals(L) \subseteq Usages(L)
    BY DEF Finals
  <2>2. Scans!Fold(NoFigures, outs[0]).c = 0
    BY <1>2
  <2> HIDE DEF outs
  <2>3. Greatest(L, Finals(L), Scans!Fold(NoFigures, outs[Len(L)]).c)
    BY <1>1, <1>6, <2>1, <2>2, ScanGreatest
  <2> QED
    BY <2>1, <2>3
<1> QED
  BY <1>5, <1>7 DEF D

-----------------------------------------------------------------------------
(* The stages of an answer.                                                *)

\* Passing[n] is what the client is to get of the first n lines.
Passing ==
  IF mode = "none" THEN OutAll(Lines)
  ELSE IF mode = "anthropic_to_openai" THEN OutPieces(Lines)
  ELSE OutEvents(Lines)
Taken == IF mode = "none" THEN came ELSE Arrived
Finish == IF mode = "anthropic_to_openai" /\ closed THEN <<Counts(0, count)>> ELSE <<>>
Stage == Passing[Taken] \o Finish

Current == [parser |-> parser, got |-> got]
Purpose == IF Parsing THEN ClientFormat ELSE "nobody"
Begin ==
  [parser |-> [for |-> Purpose, inside |-> FALSE, buffer |-> <<>>], got |-> [text |-> <<>>, thought |-> <<>>]]

StreamTyped ==
  /\ stream \in Upstreams /\ norm \in BOOLEAN
  /\ mode \in {"none"} \cup IF stream.sse THEN {ModeOf(stream.format)} ELSE {}
  /\ came \in 0..Size /\ half \in Sizes /\ (half # "none" => came < Size)
  /\ due \in Seq(Line) /\ (stream.sse => due \in Seq(PlainLine))
  /\ count \in Nat /\ closed \in BOOLEAN /\ cut \in BOOLEAN
  /\ GivenInv(Current) /\ parser.for = Purpose
  /\ scan \in ScanState
  /\ mode = "none" => due = <<>> /\ closed
  /\ state \in {"open", "ended", "left"}

\* Nothing comes after a translation's last lines.
ClosedOver == mode # "none" /\ closed => Over

\* A translation that found every event whole is not within one.
NotWithin == mode # "none" /\ ~cut => half # "mid" /\ (Arrived > 0 => Lines[Arrived].kind # "event")

ChargedNow == stream.sse => Charged(Current, scan)

\* When what is due is given, the client has what the stage says.
Reached ==
  Uncut =>
    /\ Gives!Fold(Current, due) = Gives!Fold(Begin, Stage)
    /\ Scans!Fold(scan, due) = Scans!Fold(NoFigures, Stage)
    /\ mode = "anthropic_to_openai" => count = LastCount!Fold(0, SubSeq(Lines, 1, Arrived))

OpenInv == state = "open" => ClosedOver /\ NotWithin /\ ChargedNow /\ Reached

StreamInv == StreamTyped /\ OpenInv /\ Delivered /\ WorkRecorded

LEMMA ProtocolIs ==
  ASSUME NEW u \in Upstreams
  PROVE  /\ u.lines \in Seq(Line) /\ u.sse \in BOOLEAN /\ u.feed \in BOOLEAN
         /\ u.format \in {"openai", "anthropic", "ollama"} /\ Len(u.lines) \in Nat
         /\ u.sse => Plain(u.lines) /\ Rising(u.lines)
         /\ u.sse /\ u.format = "anthropic" =>
              /\ Announces(u.lines)
              /\ \A i \in Usages(u.lines) : u.lines[i].c > 0 => \E j \in Finals(u.lines) : u.lines[i].c <= u.lines[j].c
         /\ \A i \in 1..Len(u.lines) : u.lines[i].kind = "pretty" => Len(u.lines) = 1
<1> DEFINE K == u.lines
<1>1. u \in Upstream /\ KeepsProtocol(u)
  BY StreamAssumption
<1>2. /\ K \in Seq(Line) /\ u.sse \in BOOLEAN /\ u.feed \in BOOLEAN
      /\ u.format \in {"openai", "anthropic", "ollama"}
  BY <1>1 DEF Upstream
<1>3. Len(K) \in Nat /\ DOMAIN K = 1..Len(K)
  BY <1>2, LenProperties
<1> DEFINE Use == {i \in DOMAIN K : K[i].kind = "usage"}
<1>4. Use = Usages(K)
  BY <1>3 DEF Usages
<1>5. /\ \A i \in DOMAIN K : K[i].kind = "pretty" => Len(K) = 1
      /\ u.sse => \A i \in DOMAIN K : K[i].kind \notin {"body", "pretty"}
      /\ u.sse => \A i, j \in Use : i < j => K[i].c <= K[j].c
      /\ u.sse /\ u.format = "anthropic" =>
           \A i \in DOMAIN K : K[i].kind = "delta" \/ (i \in Use /\ K[i].final) => i > 1 /\ K[i - 1].kind = "event"
      /\ u.sse /\ u.format = "anthropic" =>
           \A i \in Use : K[i].c > 0 => \E j \in Use : i <= j /\ K[j].final
  <2>0. KeepsProtocol(u)
    BY <1>1
  <2>1. \A i \in DOMAIN K : K[i].kind = "pretty" => Len(K) = 1
    BY <2>0, Zenon DEF KeepsProtocol
  <2>2. u.sse => \A i \in DOMAIN K : K[i].kind \notin {"body", "pretty"}
    BY <2>0, Zenon DEF KeepsProtocol
  <2>3. u.sse => \A i, j \in Use : i < j => K[i].c <= K[j].c
    BY <2>0, Zenon DEF KeepsProtocol
  <2>4. u.sse /\ u.format = "anthropic" =>
           \A i \in DOMAIN K : K[i].kind = "delta" \/ (i \in Use /\ K[i].final) => i > 1 /\ K[i - 1].kind = "event"
    BY <2>0, Zenon DEF KeepsProtocol
  <2>5. u.sse /\ u.format = "anthropic" =>
           \A i \in Use : K[i].c > 0 => \E j \in Use : i <= j /\ K[j].final
    BY <2>0, Zenon DEF KeepsProtocol
  <2> QED
    BY <2>1, <2>2, <2>3, <2>4, <2>5
<1>6. u.sse => Plain(K) /\ Rising(K)
  <2> HIDE DEF Use
  <2> QED
    BY <1>3, <1>4, <1>5 DEF Plain, Rising
<1>7. ASSUME u.sse, u.format = "anthropic"
      PROVE  Announces(K) /\ \A i \in Usages(K) : K[i].c > 0 => \E j \in Finals(K) : K[i].c <= K[j].c
  <2>1. Announces(K)
    BY <1>3, <1>5, <1>7 DEF Announces
  <2>2. ASSUME NEW i \in Usages(K), K[i].c > 0 PROVE \E j \in Finals(K) : K[i].c <= K[j].c
    <3>1. PICK j \in Usages(K) : i <= j /\ K[j].final
      BY <1>4, <1>5, <1>7, <2>2
    <3>2. j \in Finals(K)
      BY <3>1 DEF Finals
    <3>3. i \in Nat /\ j \in Nat /\ K[i].c \in Nat
      BY <1>2, <3>1, UsagesCount
    <3>4. K[i].c <= K[j].c
      BY <1>6, <1>7, <3>1, <3>3 DEF Rising
    <3> QED
      BY <3>2, <3>4
  <2> QED
    BY <2>1, <2>2
<1> QED
  BY <1>2, <1>3, <1>5, <1>6, <1>7

LEMMA SliceIs ==
  ASSUME NEW A, NEW L \in Seq(A), NEW m \in Nat \ {0}, NEW n \in Nat, n <= Len(L)
  PROVE  SubSeq(L, m, n) \in Seq(A)
<1>1. \A i \in m..n : L[i] \in A
  BY LenProperties, ElementOfSeq
<1> QED
  BY <1>1, SubSeqProperties

LEMMA PlainIs ==
  ASSUME NEW L \in Seq(Line), Plain(L)
  PROVE  L \in Seq(PlainLine)
<1>1. Len(L) \in Nat /\ L = SubSeq(L, 1, Len(L)) /\ \A i \in 1..Len(L) : L[i] \in Line
  BY LenProperties, SubSeqFull, ElementOfSeq
<1>2. \A i \in 1..Len(L) : L[i] \in PlainLine
  BY <1>1 DEF Plain, PlainLine
<1>3. SubSeq(L, 1, Len(L)) \in Seq(PlainLine)
  BY <1>1, <1>2, SubSeqProperties
<1> QED
  BY <1>1, <1>3

LEMMA ModeIs ==
  ASSUME stream \in Upstreams, mode \in {"none"} \cup IF stream.sse THEN {ModeOf(stream.format)} ELSE {}
  PROVE  /\ mode # "none" => stream.sse
         /\ mode = "openai_to_anthropic" => stream.format = "anthropic"
         /\ mode \in {"none", "anthropic_to_openai", "openai_to_anthropic"}
         /\ Purpose \in Format /\ (Purpose = "nobody" <=> ~Parsing) /\ (Parsing => stream.sse)
         /\ Parsing => Purpose = ClientFormat
<1>1. stream.sse \in BOOLEAN /\ stream.format \in {"openai", "anthropic", "ollama"}
  BY ProtocolIs
<1>2. /\ mode # "none" => stream.sse
      /\ mode = "openai_to_anthropic" => stream.format = "anthropic"
      /\ mode \in {"none", "anthropic_to_openai", "openai_to_anthropic"}
  BY <1>1 DEF ModeOf
<1>3. ClientFormat \in Format \ {"nobody"}
  BY <1>1, <1>2 DEF ClientFormat, Format
<1>4. Purpose \in Format /\ (Purpose = "nobody" <=> ~Parsing) /\ (Parsing => stream.sse)
  BY <1>3 DEF Purpose, Parsing, Format
<1> QED
  BY <1>2, <1>4 DEF Purpose

LEMMA StreamIs ==
  ASSUME StreamTyped
  PROVE  /\ Lines \in Seq(Line) /\ Size \in Nat /\ came \in Nat /\ came <= Size
         /\ Taken \in 0..Size /\ Arrived \in 0..Size /\ Finish \in Seq(Line)
         /\ stream.sse => Lines \in Seq(PlainLine) /\ Plain(Lines) /\ Rising(Lines)
         /\ mode # "none" => stream.sse
         /\ mode = "openai_to_anthropic" => stream.format = "anthropic"
         /\ mode \in {"none", "anthropic_to_openai", "openai_to_anthropic"}
         /\ Purpose \in Format /\ (Purpose = "nobody" <=> ~Parsing) /\ (Parsing => stream.sse)
         /\ Parsing => Purpose = ClientFormat
<1>1. stream \in Upstreams
  BY DEF StreamTyped
<1>2. /\ Lines \in Seq(Line) /\ Size \in Nat /\ stream.sse \in BOOLEAN
      /\ stream.format \in {"openai", "anthropic", "ollama"}
      /\ stream.sse => Plain(Lines) /\ Rising(Lines)
  BY <1>1, ProtocolIs DEF Lines, Size
<1>3. came \in 0..Size /\ half \in Sizes /\ (half # "none" => came < Size)
  BY DEF StreamTyped
<1>4. Taken \in 0..Size /\ Arrived \in 0..Size
  BY <1>2, <1>3 DEF Taken, Arrived, Sizes
<1>5. Finish \in Seq(Line)
  <2>1. Counts(0, count) \in Line
    BY CountsAreLines DEF StreamTyped
  <2> DEFINE k == Counts(0, count)
  <2>2. <<k>> \in Seq(Line) /\ <<>> \in Seq(Line)
    <3> HIDE DEF k
    <3> QED
      BY <2>1 DEF k
  <2> QED
    BY <2>2, Zenon DEF Finish
<1>6. mode \in {"none"} \cup IF stream.sse THEN {ModeOf(stream.format)} ELSE {}
  BY DEF StreamTyped
<1>7. stream.sse => Lines \in Seq(PlainLine)
  BY <1>2, PlainIs
<1> QED
  BY <1>1, <1>2, <1>3, <1>4, <1>5, <1>6, <1>7, ModeIs

LEMMA PassingIs ==
  ASSUME StreamTyped
  PROVE  /\ Selects(Lines, Passing) /\ \A n \in 0..Size : Passing[n] \in Seq(Line)
         /\ Passing[0] = (IF mode = "anthropic_to_openai" THEN <<Counts(0, 0)>> ELSE <<>>)
         /\ mode = "none" => Whole(Lines, Passing) /\ Passing[Size] = Lines
<1>1. Lines \in Seq(Line) /\ mode \in {"none", "anthropic_to_openai", "openai_to_anthropic"}
  BY StreamIs
<1>2. CASE mode = "none"
  <2>1. Passing = OutAll(Lines)
    BY <1>2 DEF Passing
  <2> QED
    BY <1>1, <1>2, <2>1, AllSelects DEF Selects, Size
<1>3. CASE mode = "anthropic_to_openai"
  <2>1. Passing = OutPieces(Lines)
    BY <1>3 DEF Passing
  <2>2. Selects(Lines, OutPieces(Lines)) /\ OutPieces(Lines)[0] = <<Counts(0, 0)>>
    BY <1>1, PiecesSelect, CountsAlone
  <2> QED
    BY <1>3, <2>1, <2>2 DEF Selects, Size
<1>4. CASE mode = "openai_to_anthropic"
  <2>1. Passing = OutEvents(Lines)
    BY <1>4 DEF Passing
  <2>2. Announces(Lines)
    BY <1>4, StreamIs, ProtocolIs DEF StreamTyped, Lines
  <2>3. Selects(Lines, OutEvents(Lines)) /\ OutEvents(Lines)[0] = <<>>
    BY <1>1, <2>2, EventsSelect
  <2> QED
    BY <1>4, <2>1, <2>3 DEF Selects, Size
<1> QED
  BY <1>1, <1>2, <1>3, <1>4

\* The parser, what was given and what was counted after some lines.
LEMMA PassIs ==
  ASSUME StreamTyped, NEW ls \in Seq(Line), Pass(ls)
  PROVE  /\ Current' = Gives!Fold(Current, ls) /\ scan' = Scans!Fold(scan, ls)
         /\ GivenInv(Current') /\ parser'.for = parser.for /\ scan' \in ScanState
         /\ stream.sse /\ ls \in Seq(PlainLine) /\ Charged(Current, scan) => Charged(Current', scan')
<1> DEFINE g == Gives!Fold(Current, ls)
<1>1. GivenInv(Current) /\ scan \in ScanState /\ Current.parser = parser
  BY DEF StreamTyped, Current
<1>2. GivenInv(g) /\ g.parser.for = Current.parser.for
  BY <1>1, GivesType
<1>3. parser' = g.parser /\ got' = g.got /\ scan' = Scans!Fold(scan, ls)
  BY DEF Pass, Current
<1>4. g = [parser |-> g.parser, got |-> g.got]
  <2> HIDE DEF g
  <2> QED
    BY <1>2, GivenParts
<1>5. Current' = g
  BY <1>3, <1>4 DEF Current
<1>6. scan' \in ScanState
  BY <1>1, <1>3, ScannedIs, Scans!FoldType
<1>7. ls \in Seq(PlainLine) /\ Charged(Current, scan) => Charged(Current', scan')
  BY <1>1, <1>3, <1>5, PassCharges
<1> QED
  BY <1>1, <1>2, <1>3, <1>5, <1>6, <1>7

-----------------------------------------------------------------------------
(* Every step keeps the invariant.                                         *)

LEMMA BeginIs ==
  ASSUME Purpose \in Format
  PROVE  /\ GivenInv(Begin) /\ Begin.parser.for = Purpose
         /\ Begin.got.text = <<>> /\ Agrees(Begin, NothingSaid, TRUE)
<1>1. <<>> \in Letters /\ Len(<<>>) = 0
  BY DEF Letters
<1>2. Begin \in GivenState
  BY <1>1 DEF Begin, GivenState
<1>3. Awaits(Begin.parser)
  <2>1. Begin.parser.buffer = <<>> /\ Begin.parser.inside = FALSE
    BY DEF Begin
  <2>2. Len(Opening) = 3 /\ SubSeq(Opening, 1, 0) = <<>>
    BY TagsAreTags, SubSeqEmpty
  <2>3. TagOf(Begin.parser.inside) = Opening
    BY <2>1 DEF TagOf
  <2>4. <<>> = SubSeq(Opening, 1, Len(<<>>)) /\ Len(<<>>) < Len(Opening)
    BY <1>1, <2>2
  <2> QED
    BY <2>1, <2>3, <2>4, Zenon DEF Awaits
<1>4. NothingSaid \in TalkState
  BY <1>1 DEF NothingSaid, TalkState
<1>5. GivenInv(Begin)
  BY <1>2, <1>3 DEF GivenInv
<1>6. /\ Begin.parser.for = Purpose /\ Begin.parser.inside = FALSE /\ Begin.parser.buffer = <<>>
      /\ Begin.got.text = <<>> /\ Begin.got.thought = <<>>
  BY DEF Begin
<1>7. /\ NothingSaid.inside = FALSE /\ NothingSaid.matched = 0
      /\ NothingSaid.text = <<>> /\ NothingSaid.thought = <<>>
  BY DEF NothingSaid
<1>8. Agrees(Begin, NothingSaid, TRUE)
  BY <1>1, <1>4, <1>6, <1>7 DEF Agrees
<1> QED
  BY <1>5, <1>6, <1>8

LEMMA StreamStarts == StreamInit => StreamInv
<1> SUFFICES ASSUME StreamInit PROVE StreamInv
  OBVIOUS
<1>1. /\ stream \in Upstreams /\ norm \in BOOLEAN
      /\ mode \in {"none"} \cup IF stream.sse THEN {ModeOf(stream.format)} ELSE {}
      /\ StreamBegins
  BY DEF StreamInit
<1>2. /\ came = 0 /\ half = "none" /\ count = 0 /\ closed \in BOOLEAN /\ (closed <=> mode = "none") /\ cut = FALSE
      /\ due = (IF mode = "anthropic_to_openai" THEN <<Counts(0, 0)>> ELSE <<>>)
      /\ Current = Begin /\ scan = NoFigures /\ state = "open" /\ parser.for = Purpose
  <2>1. closed = (mode = "none")
    BY <1>1 DEF StreamBegins
  <2>2. closed \in BOOLEAN /\ (closed <=> mode = "none")
    BY <2>1
  <2>3. /\ came = 0 /\ half = "none" /\ count = 0 /\ cut = FALSE
        /\ due = (IF mode = "anthropic_to_openai" THEN <<Counts(0, 0)>> ELSE <<>>)
        /\ Current = Begin /\ scan = NoFigures /\ state = "open" /\ parser.for = Purpose
    BY <1>1 DEF StreamBegins, Current, Begin, Purpose
  <2> QED
    BY <2>2, <2>3
<1>3. Lines \in Seq(Line) /\ Size \in Nat
  BY <1>1, ProtocolIs DEF Lines, Size
<1>4. Purpose \in Format /\ mode \in {"none", "anthropic_to_openai", "openai_to_anthropic"}
  BY <1>1, ModeIs
<1>5. GivenInv(Begin) /\ Begin.got.text = <<>>
  BY <1>4, BeginIs
<1>6. NoFigures \in ScanState
  BY NoFiguresIs DEF NothingYet
<1>7. due \in Seq(Line) /\ due \in Seq(PlainLine)
  <2>1. Plain(<<Counts(0, 0)>>) /\ Plain(<<>>)
    <3> DEFINE k == Counts(0, 0)
    <3>1. k.kind = "usage"
      BY DEF Counts
    <3> HIDE DEF k
    <3>2. Plain(<<k>>) /\ Plain(<<>>)
      BY <3>1 DEF Plain
    <3> QED
      BY <3>2 DEF k
  <2>2. <<Counts(0, 0)>> \in Seq(Line) /\ <<>> \in Seq(Line)
    BY CountsAlone
  <2>3. <<Counts(0, 0)>> \in Seq(PlainLine) /\ <<>> \in Seq(PlainLine)
    BY <2>1, <2>2, PlainIs
  <2> QED
    BY <1>2, <2>2, <2>3, Zenon
<1>8. StreamTyped
  <2>1. came \in 0..Size /\ half \in Sizes /\ (half # "none" => came < Size)
    BY <1>2, <1>3 DEF Sizes
  <2>2. mode = "none" => due = <<>> /\ closed
    BY <1>2
  <2>3. GivenInv(Current) /\ scan \in ScanState /\ count \in Nat /\ cut \in BOOLEAN
    BY <1>2, <1>5, <1>6
  <2> QED
    BY <1>1, <1>2, <1>7, <2>1, <2>2, <2>3 DEF StreamTyped
<1>9. ClosedOver /\ NotWithin
  BY <1>2 DEF ClosedOver, NotWithin, Arrived
<1>10. ChargedNow
  BY <1>2, <1>5 DEF ChargedNow, Charged
<1>11. Reached
  <2>1. Passing[0] = due /\ Taken = 0 /\ Arrived = 0 /\ Finish = <<>>
    BY <1>2, <1>8, PassingIs DEF Taken, Arrived, Finish
  <2>2. due \o <<>> = due
    BY <1>7, ConcatEmptySeq
  <2>3. Stage = due
    BY <2>1, <2>2 DEF Stage
  <2>4. LastCount!Fold(0, SubSeq(Lines, 1, 0)) = 0
    BY <1>3, LastCount!PrefixNone, LastCount!FoldEmpty
  <2> QED
    BY <1>2, <2>1, <2>3, <2>4 DEF Reached
<1>12. Delivered /\ WorkRecorded
  BY <1>2 DEF Delivered, WorkRecorded, UsageRecorded, WorkCharged
<1> QED
  BY <1>8, <1>9, <1>10, <1>11, <1>12 DEF StreamInv, OpenInv

LEMMA SameStream ==
  ASSUME stream' = stream, mode' = mode, norm' = norm
  PROVE  /\ Lines' = Lines /\ Size' = Size /\ Passing' = Passing /\ Begin' = Begin /\ Purpose' = Purpose
         /\ Parsing' = Parsing /\ ClientFormat' = ClientFormat
<1>1. Lines' = Lines /\ Parsing' = Parsing /\ ClientFormat' = ClientFormat
  BY DEF Lines, Parsing, ClientFormat
<1>2. Size' = Size /\ Passing' = Passing /\ Purpose' = Purpose
  BY <1>1 DEF Size, Passing, Purpose
<1> QED
  BY <1>1, <1>2 DEF Begin

\* A stage more.
LEMMA GivesNext ==
  ASSUME NEW a, NEW b, NEW s \in Seq(Line), NEW d \in Seq(Line), Gives!Fold(a, <<>>) = Gives!Fold(b, s)
  PROVE  Gives!Fold(a, d) = Gives!Fold(b, s \o d)
BY Gives!FoldConcat, Gives!FoldEmpty

LEMMA ScansNext ==
  ASSUME NEW a, NEW b, NEW s \in Seq(Line), NEW d \in Seq(Line), Scans!Fold(a, <<>>) = Scans!Fold(b, s)
  PROVE  Scans!Fold(a, d) = Scans!Fold(b, s \o d)
BY Scans!FoldConcat, Scans!FoldEmpty

\* What is due is handed on line by line.
LEMMA HandOnKeeps ==
  ASSUME StreamInv, HandOn
  PROVE  StreamInv'
<1>1. StreamTyped /\ ClosedOver /\ NotWithin /\ ChargedNow /\ Reached /\ state = "open" /\ due # <<>>
  BY DEF StreamInv, OpenInv, HandOn
<1>2. /\ Pass(<<Head(due)>>) /\ due' = Tail(due)
      /\ stream' = stream /\ mode' = mode /\ norm' = norm /\ came' = came /\ half' = half
      /\ count' = count /\ closed' = closed /\ cut' = cut /\ state' = state /\ recorded' = recorded
  BY DEF HandOn, upstreamVars, endVars
<1>3. /\ Lines' = Lines /\ Size' = Size /\ Passing' = Passing /\ Begin' = Begin /\ Purpose' = Purpose
      /\ Parsing' = Parsing /\ ClientFormat' = ClientFormat
  BY <1>2, SameStream
<1>4. Arrived' = Arrived /\ Taken' = Taken /\ Finish' = Finish /\ Over' = Over /\ Uncut' = Uncut
  BY <1>2, <1>3 DEF Arrived, Taken, Finish, Over, Uncut
<1>5. Stage' = Stage
  BY <1>3, <1>4 DEF Stage
<1>6. /\ due \in Seq(Line) /\ Tail(due) \in Seq(Line) /\ <<Head(due)>> \in Seq(Line)
      /\ stream.sse => Tail(due) \in Seq(PlainLine) /\ <<Head(due)>> \in Seq(PlainLine)
  <2>1. due \in Seq(Line) /\ (stream.sse => due \in Seq(PlainLine))
    BY <1>1 DEF StreamTyped
  <2>2. ASSUME NEW A, due \in Seq(A) PROVE Tail(due) \in Seq(A) /\ <<Head(due)>> \in Seq(A)
    <3>1. Head(due) \in A /\ Tail(due) \in Seq(A)
      BY <1>1, <2>2, HeadTailProperties
    <3> QED
      BY <3>1
  <2> QED
    BY <2>1, <2>2
<1> DEFINE one == <<Head(due)>>
<1>7. /\ Current' = Gives!Fold(Current, one) /\ scan' = Scans!Fold(scan, one)
      /\ GivenInv(Current') /\ parser'.for = parser.for /\ scan' \in ScanState
      /\ stream.sse /\ Charged(Current, scan) => Charged(Current', scan')
  BY <1>1, <1>2, <1>6, PassIs
<1>8. StreamTyped'
  <2>1. mode = "none" => due = <<>>
    BY <1>1 DEF StreamTyped
  <2> QED
    BY <1>1, <1>2, <1>3, <1>6, <1>7, <2>1 DEF StreamTyped
<1>9. (ClosedOver /\ NotWithin)'
  BY <1>1, <1>2, <1>3, <1>4 DEF ClosedOver, NotWithin
<1>10. ChargedNow'
  BY <1>1, <1>2, <1>7 DEF ChargedNow
<1>11. Reached'
  <2> SUFFICES ASSUME Uncut
               PROVE  /\ Gives!Fold(Current', due') = Gives!Fold(Begin, Stage)
                      /\ Scans!Fold(scan', due') = Scans!Fold(NoFigures, Stage)
                      /\ mode = "anthropic_to_openai" => count = LastCount!Fold(0, SubSeq(Lines, 1, Arrived))
    BY <1>2, <1>3, <1>4, <1>5 DEF Reached
  <2>1. /\ Gives!Fold(Current, due) = Gives!Fold(Begin, Stage)
        /\ Scans!Fold(scan, due) = Scans!Fold(NoFigures, Stage)
        /\ mode = "anthropic_to_openai" => count = LastCount!Fold(0, SubSeq(Lines, 1, Arrived))
    BY <1>1 DEF Reached
  <2>2. Gives!Fold(Current, due) = Gives!Fold(Given(Current, Head(due)), Tail(due))
    BY <1>1, <1>6, Gives!FoldHead
  <2>3. Scans!Fold(scan, due) = Scans!Fold(Scanned(scan, Head(due)), Tail(due))
    BY <1>1, <1>6, Scans!FoldHead
  <2>4. Current' = Given(Current, Head(due)) /\ scan' = Scanned(scan, Head(due))
    BY <1>7, Gives!FoldOne, Scans!FoldOne
  <2> QED
    BY <1>2, <2>1, <2>2, <2>3, <2>4
<1>12. (Delivered /\ WorkRecorded)'
  BY <1>1, <1>2 DEF Delivered, WorkRecorded, UsageRecorded, WorkCharged
<1> QED
  BY <1>8, <1>9, <1>10, <1>11, <1>12 DEF StreamInv, OpenInv

\* A chunk that brings anything: there was something to bring.
LEMMA ReadBrings ==
  ASSUME StreamTyped, NEW n \in 0..(Size - came), NEW h \in Sizes, Read(n, h)
  PROVE  /\ came' = came + n /\ half' = h /\ came' \in 0..Size /\ n \in Nat
         /\ h # "none" => came' < Size
         /\ ~Over
         /\ n = 0 => half # "eol"
<1>1. Size \in Nat /\ came \in Nat /\ came <= Size
  BY StreamIs
<1>2. Possible(n, h) /\ came' = came + n /\ half' = h
  BY DEF Read
<1>3. /\ Size - came - n >= IF h = "none" THEN 0 ELSE 1
      /\ n = 0 => <<half, h>> \in {<<"none", "mid">>, <<"none", "eol">>, <<"mid", "eol">>}
      /\ ~stream.feed => Size - came - n >= 1
  BY <1>2 DEF Possible
<1>4. n = 0 => half # "eol" /\ h # "none"
  BY <1>3
<1>5. n \in Nat /\ n <= Size - came
  BY <1>1
<1>6. came' \in 0..Size /\ (h # "none" => came' < Size)
  BY <1>1, <1>2, <1>3, <1>5
<1>7. ~Over
  BY <1>1, <1>3, <1>4, <1>5 DEF Over
<1> QED
  BY <1>2, <1>4, <1>5, <1>6, <1>7

LEMMA SliceJoin ==
  ASSUME NEW A, NEW L \in Seq(A), NEW k \in Nat, NEW n \in Nat, k <= n, n <= Len(L)
  PROVE  SubSeq(L, 1, n) = SubSeq(L, 1, k) \o SubSeq(L, k + 1, n)
<1>1. 1 \in 1..(Len(L) + 1) /\ k \in (1 - 1)..Len(L) /\ n \in k..Len(L)
  BY LenProperties
<1> QED
  BY <1>1, ConcatAdjacentSubSeq

\* A chunk that is passed on as it came.
LEMMA ReadUntranslated ==
  ASSUME StreamInv, state = "open", mode = "none",
         NEW n \in 0..(Size - came), NEW h \in Sizes, Read(n, h)
  PROVE  StreamInv'
<1>1. StreamTyped /\ ClosedOver /\ NotWithin /\ ChargedNow /\ Reached /\ due = <<>>
  BY DEF StreamInv, OpenInv, Read
<1> DEFINE ls == SubSeq(Lines, came + 1, came + n)
<1>2. /\ Pass(ls) /\ due' = due
      /\ stream' = stream /\ mode' = mode /\ norm' = norm
      /\ count' = count /\ closed' = closed /\ cut' = cut /\ state' = state /\ recorded' = recorded
  BY DEF Read, readVars, endVars
<1>3. /\ Lines' = Lines /\ Size' = Size /\ Passing' = Passing /\ Begin' = Begin /\ Purpose' = Purpose
      /\ Parsing' = Parsing /\ ClientFormat' = ClientFormat
  BY <1>2, SameStream
<1>4. /\ came' = came + n /\ half' = h /\ came' \in 0..Size /\ n \in Nat
      /\ h # "none" => came' < Size
  BY <1>1, ReadBrings
<1>5. /\ Lines \in Seq(Line) /\ Size \in Nat /\ came \in Nat /\ came <= Size /\ Len(Lines) = Size
      /\ stream.sse => Lines \in Seq(PlainLine)
  BY <1>1, StreamIs DEF Size
<1>6. ls \in Seq(Line) /\ (stream.sse => ls \in Seq(PlainLine))
  <2>1. came + 1 \in Nat \ {0} /\ came + n \in Nat /\ came + n <= Len(Lines)
    BY <1>4, <1>5
  <2> QED
    BY <1>5, <2>1, SliceIs
<1>7. /\ Current' = Gives!Fold(Current, ls) /\ scan' = Scans!Fold(scan, ls)
      /\ GivenInv(Current') /\ parser'.for = parser.for /\ scan' \in ScanState
      /\ stream.sse /\ Charged(Current, scan) => Charged(Current', scan')
  BY <1>1, <1>2, <1>6, PassIs
<1>8. StreamTyped'
  BY <1>1, <1>2, <1>3, <1>4, <1>7 DEF StreamTyped
<1>9. (ClosedOver /\ NotWithin)'
  BY <1>2 DEF ClosedOver, NotWithin
<1>10. ChargedNow'
  BY <1>1, <1>2, <1>6, <1>7 DEF ChargedNow
<1>11. Reached'
  <2>1. Finish = <<>> /\ Finish' = <<>> /\ Taken = came /\ Taken' = came + n
    BY <1>2, <1>4 DEF Finish, Taken
  <2>2. Passing[came] = SubSeq(Lines, 1, came) /\ Passing[came + n] = SubSeq(Lines, 1, came + n)
    <3>1. Passing = OutAll(Lines) /\ came \in 0..Len(Lines) /\ came + n \in 0..Len(Lines)
      BY <1>4, <1>5 DEF Passing
    <3> QED
      BY <3>1 DEF OutAll
  <2>3. SubSeq(Lines, 1, came + n) = SubSeq(Lines, 1, came) \o ls
    <3>1. came + n \in Nat /\ came <= came + n /\ came + n <= Len(Lines)
      BY <1>4, <1>5
    <3> QED
      BY <1>5, <3>1, SliceJoin
  <2>4. SubSeq(Lines, 1, came) \in Seq(Line) /\ SubSeq(Lines, 1, came + n) \in Seq(Line)
    BY <1>4, <1>5, PrefixIs
  <2>5. Stage = SubSeq(Lines, 1, came) /\ Stage' = SubSeq(Lines, 1, came + n)
    <3>1. /\ SubSeq(Lines, 1, came) \o <<>> = SubSeq(Lines, 1, came)
          /\ SubSeq(Lines, 1, came + n) \o <<>> = SubSeq(Lines, 1, came + n)
      BY <2>4, ConcatEmptySeq
    <3> QED
      BY <1>3, <2>1, <2>2, <3>1 DEF Stage
  <2> HIDE DEF ls
  <2>6. Stage' = Stage \o ls /\ Stage \in Seq(Line)
    BY <2>3, <2>4, <2>5
  <2>7. Gives!Fold(Current, <<>>) = Gives!Fold(Begin, Stage) /\ Scans!Fold(scan, <<>>) = Scans!Fold(NoFigures, Stage)
    BY <1>1 DEF Reached, Uncut
  <2>8. Gives!Fold(Current, ls) = Gives!Fold(Begin, Stage \o ls) /\ Scans!Fold(scan, ls) = Scans!Fold(NoFigures, Stage \o ls)
    BY <1>6, <2>6, <2>7, GivesNext, ScansNext
  <2>9. Gives!Fold(Current', <<>>) = Current' /\ Scans!Fold(scan', <<>>) = scan'
    BY Gives!FoldEmpty, Scans!FoldEmpty
  <2>10. Gives!Fold(Current', due') = Gives!Fold(Begin', Stage') /\ Scans!Fold(scan', due') = Scans!Fold(NoFigures, Stage')
    BY <1>1, <1>2, <1>3, <1>7, <2>6, <2>8, <2>9
  <2> QED
    BY <1>2, <2>10 DEF Reached
<1>12. (Delivered /\ WorkRecorded)'
  BY <1>2 DEF Delivered, WorkRecorded, UsageRecorded, WorkCharged
<1> QED
  BY <1>8, <1>9, <1>10, <1>11, <1>12 DEF StreamInv, OpenInv

\* What a translation understands of a chunk, if chunks do not end within events.
LEMMA UnderstoodIs ==
  ASSUME StreamTyped, NotWithin, mode # "none",
         NEW n \in 0..(Size - came), NEW h \in Sizes, Read(n, h)
  PROVE  /\ Understood(n, h) \in Seq(Line) /\ (stream.sse => Understood(n, h) \in Seq(PlainLine))
         /\ Arrived' \in 0..Size /\ (h = "mid" \/ Arrived' = came + n + IF h = "eol" THEN 1 ELSE 0)
         /\ ~cut /\ ~CutsEvent(n, h) =>
              /\ Arrived <= Arrived' /\ Understood(n, h) = SubSeq(Lines, Arrived + 1, Arrived')
              /\ h # "mid" /\ (Arrived' > 0 => Lines[Arrived'].kind # "event")
<1>1. /\ came' = came + n /\ half' = h /\ came' \in 0..Size /\ n \in Nat
      /\ h # "none" => came' < Size
      /\ n = 0 => half # "eol"
  BY ReadBrings
<1>2. /\ Lines \in Seq(Line) /\ Size \in Nat /\ came \in Nat /\ Len(Lines) = Size /\ Size' = Size
      /\ stream.sse => Lines \in Seq(PlainLine)
  BY StreamIs, SameStream DEF Size, Read
<1> DEFINE first == came + IF half = "none" THEN 1 ELSE 2
<1> DEFINE end == came + n + IF h = "eol" /\ (n > 0 \/ half = "none") THEN 1 ELSE 0
<1>3. Understood(n, h) = SubSeq(Lines, first, end)
  BY DEF Understood
<1>4. first \in Nat \ {0} /\ end \in Nat /\ end <= Size
  BY <1>1, <1>2
<1>5. Understood(n, h) \in Seq(Line) /\ (stream.sse => Understood(n, h) \in Seq(PlainLine))
  <2> HIDE DEF first, end
  <2> QED
    BY <1>2, <1>3, <1>4, SliceIs
<1>6. Arrived' = came + n + (IF h = "eol" THEN 1 ELSE 0) /\ Arrived' \in 0..Size
  BY <1>1, <1>2 DEF Arrived
<1>7. ASSUME ~cut, ~CutsEvent(n, h)
      PROVE  /\ Arrived <= Arrived' /\ first = Arrived + 1 /\ end = Arrived'
             /\ h # "mid" /\ (Arrived' > 0 => Lines[Arrived'].kind # "event")
  <2>1. half # "mid" /\ half \in Sizes /\ h # "mid"
    BY <1>7 DEF NotWithin, CutsEvent, StreamTyped
  <2>2. half \in {"none", "eol"} /\ h \in {"none", "eol"}
    BY <2>1 DEF Sizes
  <2>3. Arrived = came + IF half = "eol" THEN 1 ELSE 0
    BY DEF Arrived
  <2>4. first = Arrived + 1
    BY <1>2, <2>2, <2>3
  <2>5. end = Arrived' /\ Arrived <= Arrived'
    BY <1>1, <1>2, <1>6, <2>2, <2>3
  <2>6. Arrived' > 0 => Lines[Arrived'].kind # "event"
    BY <1>6, <1>7 DEF CutsEvent
  <2> QED
    BY <2>1, <2>4, <2>5, <2>6
<1> QED
  BY <1>3, <1>5, <1>6, <1>7

\* Before its end, a translation's stage is what it has passed on.
LEMMA StageOpen ==
  ASSUME StreamTyped, mode # "none", ~closed
  PROVE  Stage = Passing[Arrived] /\ Stage \in Seq(Line)
<1>1. Arrived \in 0..Size /\ \A n \in 0..Size : Passing[n] \in Seq(Line)
  BY StreamIs, PassingIs
<1>2. Passing[Arrived] \o <<>> = Passing[Arrived]
  BY <1>1, ConcatEmptySeq
<1> QED
  BY <1>1, <1>2 DEF Stage, Taken, Finish

\* What is passed on of a chunk goes on where that of the last one ended.
LEMMA PassedOn ==
  ASSUME StreamTyped, mode # "none", NEW k \in 0..Size, NEW n \in 0..Size, k <= n,
         k > 0 => Lines[k].kind # "event"
  PROVE  LET ls == SubSeq(Lines, k + 1, n)
         IN Passing[n] = Passing[k] \o IF mode = "anthropic_to_openai" THEN Pieces!Fold(<<>>, ls) ELSE FromAnthropic(ls)
<1> DEFINE ls == SubSeq(Lines, k + 1, n)
<1> DEFINE s == SubSeq(Lines, 1, k)
<1> DEFINE t == SubSeq(Lines, 1, n)
<1>1. Lines \in Seq(Line) /\ Size \in Nat /\ Len(Lines) = Size
  BY StreamIs DEF Size
<1>2. t = s \o ls /\ s \in Seq(Line) /\ ls \in Seq(Line)
  <2>1. k \in Nat /\ n \in Nat /\ n <= Len(Lines) /\ k + 1 \in Nat \ {0} /\ k \in 0..Len(Lines)
    BY <1>1
  <2> QED
    BY <1>1, <2>1, SliceJoin, SliceIs, PrefixIs
<1>3. CASE mode = "anthropic_to_openai"
  <2> DEFINE one == <<Counts(0, 0)>>
  <2>1. Passing[n] = one \o Pieces!Fold(<<>>, t) /\ Passing[k] = one \o Pieces!Fold(<<>>, s)
    BY <1>1, <1>3 DEF Passing, OutPieces
  <2>2. /\ one \in Seq(Line) /\ Pieces!Fold(<<>>, s) \in Seq(Line) /\ Pieces!Fold(<<>>, ls) \in Seq(Line)
        /\ Pieces!Fold(<<>>, s \o ls) = Pieces!Fold(<<>>, s) \o Pieces!Fold(<<>>, ls)
    <3> HIDE DEF s, ls
    <3> QED
      BY <1>2, CountsAlone, PiecesType, PiecesConcat
  <2> DEFINE x == Pieces!Fold(<<>>, s)
  <2> DEFINE y == Pieces!Fold(<<>>, ls)
  <2>3. one \o (x \o y) = (one \o x) \o y
    <3>1. one \in Seq(Line) /\ x \in Seq(Line) /\ y \in Seq(Line)
      BY <2>2
    <3> HIDE DEF one, x, y
    <3> QED
      BY <3>1, ConcatAssociative
  <2>4. Pieces!Fold(<<>>, t) = x \o y
    BY <1>2, <2>2
  <2> HIDE DEF one, x, y, t, s, ls
  <2>5. Passing[n] = Passing[k] \o y
    BY <2>1, <2>3, <2>4 DEF x
  <2> QED
    BY <1>3, <2>5 DEF y, ls
<1>4. CASE mode # "anthropic_to_openai"
  <2>1. Passing[n] = FromAnthropic(t) /\ Passing[k] = FromAnthropic(s)
    BY <1>1, <1>4 DEF Passing, OutEvents
  <2>2. FromAnthropic(s \o ls) = FromAnthropic(s) \o FromAnthropic(ls)
    <3>1. k \in 0..Len(Lines)
      BY <1>1
    <3> HIDE DEF ls
    <3> QED
      BY <1>1, <1>2, <3>1, EventsJoin
  <2>3. Passing[n] = Passing[k] \o FromAnthropic(ls)
    <3> HIDE DEF s, t, ls
    <3> QED
      BY <1>2, <2>1, <2>2
  <2> QED
    BY <1>4, <2>3
<1> QED
  BY <1>3, <1>4

LEMMA EventsPlain ==
  ASSUME NEW A, A \subseteq Line, NEW ls \in Seq(A)
  PROVE  Pieces!Fold(<<>>, ls) \in Seq(A) /\ FromAnthropic(ls) \in Seq(A)
<1>1. <<>> \in Seq(A) /\ \A s \in Seq(A), l \in A : KeepPiece(s, l) \in Seq(A)
  <2>1. \A s \in Seq(A), l \in A : Append(s, l) \in Seq(A)
    OBVIOUS
  <2> QED
    BY <2>1 DEF KeepPiece
<1>2. Pieces!Fold(<<>>, ls) \in Seq(A)
  BY <1>1, Pieces!FoldType
<1> DEFINE none == [announced |-> FALSE, out |-> <<>>]
<1> DEFINE S == [announced : BOOLEAN, out : Seq(A)]
<1>3. none \in S /\ \A b \in S, l \in A : OnEvent(b, l) \in S
  <2>1. none \in S
    OBVIOUS
  <2>2. ASSUME NEW b \in S, NEW l \in A PROVE OnEvent(b, l) \in S
    <3>1. b.out \in Seq(A) /\ Append(b.out, l) \in Seq(A)
      <4> DEFINE o == b.out
      <4>1. o \in Seq(A)
        OBVIOUS
      <4> HIDE DEF o
      <4>2. Append(o, l) \in Seq(A)
        BY <4>1
      <4> QED
        BY <4>1, <4>2 DEF o
    <3> QED
      BY <3>1 DEF OnEvent
  <2> QED
    BY <2>1, <2>2
<1>4. Events!Fold(none, ls) \in S
  <2> HIDE DEF none, S
  <2> QED
    BY <1>3, Events!FoldType
<1>5. FromAnthropic(ls) \in Seq(A)
  BY <1>4 DEF FromAnthropic
<1> QED
  BY <1>2, <1>5

\* A chunk of a translated answer: what it yields goes behind what is due.
LEMMA ReadTranslated ==
  ASSUME StreamInv, state = "open", mode # "none",
         NEW n \in 0..(Size - came), NEW h \in Sizes, Read(n, h)
  PROVE  StreamInv'
<1>1. StreamTyped /\ ClosedOver /\ NotWithin /\ ChargedNow /\ Reached /\ due = <<>>
  BY DEF StreamInv, OpenInv, Read
<1> DEFINE ls == Understood(n, h)
<1>2. /\ due' = IF mode = "anthropic_to_openai" THEN Pieces!Fold(<<>>, ls) ELSE FromAnthropic(ls)
      /\ count' = IF mode = "anthropic_to_openai" THEN LastCount!Fold(count, ls) ELSE count
      /\ cut' = (cut \/ CutsEvent(n, h))
      /\ stream' = stream /\ mode' = mode /\ norm' = norm /\ closed' = closed
      /\ parser' = parser /\ got' = got /\ scan' = scan /\ state' = state /\ recorded' = recorded
  BY DEF Read, textVars, endVars
<1>3. /\ Lines' = Lines /\ Size' = Size /\ Passing' = Passing /\ Begin' = Begin /\ Purpose' = Purpose
      /\ Parsing' = Parsing /\ ClientFormat' = ClientFormat /\ Current' = Current
  BY <1>2, SameStream DEF Current
<1>4. /\ came' = came + n /\ half' = h /\ came' \in 0..Size
      /\ h # "none" => came' < Size
      /\ ~closed /\ ~closed'
  BY <1>1, <1>2, ReadBrings DEF ClosedOver
<1>5. /\ ls \in Seq(Line) /\ (stream.sse => ls \in Seq(PlainLine))
      /\ Arrived' \in 0..Size
      /\ ~cut /\ ~CutsEvent(n, h) =>
              /\ Arrived <= Arrived' /\ ls = SubSeq(Lines, Arrived + 1, Arrived')
              /\ h # "mid" /\ (Arrived' > 0 => Lines[Arrived'].kind # "event")
  BY <1>1, UnderstoodIs
<1>6. cut' \in BOOLEAN /\ (~cut' => ~cut /\ ~CutsEvent(n, h))
  <2>1. cut \in BOOLEAN /\ CutsEvent(n, h) \in BOOLEAN
    BY <1>1 DEF StreamTyped, CutsEvent
  <2> QED
    BY <1>2, <2>1
<1> HIDE DEF ls
<1>7. due' \in Seq(Line) /\ (stream.sse => due' \in Seq(PlainLine)) /\ count' \in Nat
  <2>1. /\ Pieces!Fold(<<>>, ls) \in Seq(Line) /\ FromAnthropic(ls) \in Seq(Line)
        /\ stream.sse => Pieces!Fold(<<>>, ls) \in Seq(PlainLine) /\ FromAnthropic(ls) \in Seq(PlainLine)
    <3>1. Line \subseteq Line /\ PlainLine \subseteq Line
      BY DEF PlainLine
    <3> QED
      BY <1>5, <3>1, EventsPlain
  <2>2. count \in Nat /\ LastCount!Fold(count, ls) \in Nat
    BY <1>1, <1>5, CountType DEF StreamTyped
  <2> QED
    BY <1>2, <2>1, <2>2
<1>8. StreamTyped'
  BY <1>1, <1>2, <1>3, <1>4, <1>6, <1>7 DEF StreamTyped
<1>9. ClosedOver' /\ NotWithin'
  BY <1>3, <1>4, <1>5, <1>6 DEF ClosedOver, NotWithin
<1>10. ChargedNow'
  BY <1>1, <1>2, <1>3 DEF ChargedNow
<1>11. Reached'
  <2> SUFFICES ASSUME ~cut'
               PROVE  /\ Gives!Fold(Current, due') = Gives!Fold(Begin, Stage')
                      /\ Scans!Fold(scan, due') = Scans!Fold(NoFigures, Stage')
                      /\ mode = "anthropic_to_openai" => count' = LastCount!Fold(0, SubSeq(Lines, 1, Arrived'))
    BY <1>2, <1>3 DEF Reached, Uncut
  <2>1. /\ Arrived <= Arrived' /\ ls = SubSeq(Lines, Arrived + 1, Arrived')
        /\ Arrived \in 0..Size /\ Arrived' \in 0..Size /\ (Arrived > 0 => Lines[Arrived].kind # "event")
    BY <1>1, <1>5, <1>6, StreamIs DEF NotWithin
  <2>2. Uncut /\ /\ Gives!Fold(Current, <<>>) = Gives!Fold(Begin, Stage)
                 /\ Scans!Fold(scan, <<>>) = Scans!Fold(NoFigures, Stage)
                 /\ mode = "anthropic_to_openai" => count = LastCount!Fold(0, SubSeq(Lines, 1, Arrived))
    BY <1>1, <1>6 DEF Reached, Uncut
  <2>3. Stage = Passing[Arrived] /\ Stage \in Seq(Line)
    BY <1>1, <1>4, StageOpen
  <2>4. Stage' = Passing[Arrived'] \o <<>> /\ Passing[Arrived'] \in Seq(Line)
    BY <1>1, <1>2, <1>3, <1>4, <2>1, PassingIs DEF Stage, Taken, Finish
  <2>5. Passing[Arrived'] = Passing[Arrived] \o due'
    BY <1>1, <1>2, <2>1, PassedOn
  <2>6. Stage' = Stage \o due'
    <3>1. Passing[Arrived'] \o <<>> = Passing[Arrived']
      BY <2>4, ConcatEmptySeq
    <3> QED
      BY <2>3, <2>4, <2>5, <3>1
  <2>7. /\ Gives!Fold(Current, due') = Gives!Fold(Begin, Stage \o due')
        /\ Scans!Fold(scan, due') = Scans!Fold(NoFigures, Stage \o due')
    BY <1>7, <2>2, <2>3, GivesNext, ScansNext
  <2>8. ASSUME mode = "anthropic_to_openai"
        PROVE  count' = LastCount!Fold(0, SubSeq(Lines, 1, Arrived'))
    <3>1. /\ Lines \in Seq(Line) /\ Arrived \in Nat /\ Arrived' \in Nat /\ Arrived' <= Len(Lines)
          /\ Arrived \in 0..Len(Lines)
      BY <1>1, <2>1, StreamIs DEF Size
    <3>2. SubSeq(Lines, 1, Arrived') = SubSeq(Lines, 1, Arrived) \o ls /\ SubSeq(Lines, 1, Arrived) \in Seq(Line)
      BY <2>1, <3>1, SliceJoin, PrefixIs
    <3>3. LastCount!Fold(0, SubSeq(Lines, 1, Arrived) \o ls) = LastCount!Fold(LastCount!Fold(0, SubSeq(Lines, 1, Arrived)), ls)
      <4>1. \A c : \A s, t \in Seq(Line) : LastCount!Fold(c, s \o t) = LastCount!Fold(LastCount!Fold(c, s), t)
        BY LastCount!FoldConcat
      <4> QED
        BY <1>5, <3>2, <4>1, Zenon
    <3> QED
      BY <1>2, <2>2, <2>8, <3>2, <3>3
  <2> QED
    BY <2>6, <2>7, <2>8
<1>12. (Delivered /\ WorkRecorded)'
  BY <1>2 DEF Delivered, WorkRecorded, UsageRecorded, WorkCharged
<1> QED
  BY <1>8, <1>9, <1>10, <1>11, <1>12 DEF StreamInv, OpenInv

\* The last lines of a translation.
LEMMA CloseKeeps ==
  ASSUME StreamInv, CloseTranslation
  PROVE  StreamInv'
<1>1. StreamTyped /\ ClosedOver /\ NotWithin /\ ChargedNow /\ Reached /\ due = <<>> /\ state = "open" /\ ~closed /\ Over
  BY DEF StreamInv, OpenInv, CloseTranslation
<1>2. /\ due' = (IF mode = "anthropic_to_openai" THEN <<Counts(0, count)>> ELSE <<>>) /\ closed' = TRUE
      /\ stream' = stream /\ mode' = mode /\ norm' = norm /\ came' = came /\ half' = half
      /\ count' = count /\ cut' = cut /\ state' = state /\ recorded' = recorded
      /\ parser' = parser /\ got' = got /\ scan' = scan
  BY DEF CloseTranslation, upstreamVars, textVars, endVars
<1>3. /\ Lines' = Lines /\ Size' = Size /\ Passing' = Passing /\ Begin' = Begin /\ Purpose' = Purpose
      /\ Parsing' = Parsing /\ ClientFormat' = ClientFormat /\ Current' = Current
  BY <1>2, SameStream DEF Current
<1>4. Arrived' = Arrived /\ Over' = Over /\ Uncut' = Uncut /\ mode # "none" /\ Taken' = Taken /\ Taken = Arrived
  BY <1>1, <1>2, <1>3 DEF Arrived, Over, Uncut, StreamTyped, Taken
<1>5. due' \in Seq(Line) /\ (stream.sse => due' \in Seq(PlainLine))
  <2> DEFINE k == Counts(0, count)
  <2>1. k \in Line /\ k \in PlainLine
    BY <1>1, CountsAreLines DEF StreamTyped, PlainLine
  <2>2. <<k>> \in Seq(Line) /\ <<k>> \in Seq(PlainLine) /\ <<>> \in Seq(Line) /\ <<>> \in Seq(PlainLine)
    <3> HIDE DEF k
    <3> QED
      BY <2>1
  <2> QED
    BY <1>2, <2>2, Zenon
<1>6. StreamTyped'
  BY <1>1, <1>2, <1>3, <1>4, <1>5 DEF StreamTyped
<1>7. (ClosedOver /\ NotWithin /\ ChargedNow)'
  BY <1>1, <1>2, <1>3, <1>4 DEF ClosedOver, NotWithin, ChargedNow
<1>8. Reached'
  <2>1. Stage = Passing[Arrived] /\ Stage \in Seq(Line)
    BY <1>1, <1>4, StageOpen
  <2>2. Finish' = due'
    BY <1>2 DEF Finish
  <2>3. Stage' = Stage \o due'
    BY <1>3, <1>4, <2>1, <2>2 DEF Stage
  <2> SUFFICES ASSUME Uncut
               PROVE  /\ Gives!Fold(Current, due') = Gives!Fold(Begin, Stage')
                      /\ Scans!Fold(scan, due') = Scans!Fold(NoFigures, Stage')
                      /\ mode = "anthropic_to_openai" => count = LastCount!Fold(0, SubSeq(Lines, 1, Arrived))
    BY <1>2, <1>3, <1>4 DEF Reached
  <2>4. /\ Gives!Fold(Current, <<>>) = Gives!Fold(Begin, Stage)
        /\ Scans!Fold(scan, <<>>) = Scans!Fold(NoFigures, Stage)
        /\ mode = "anthropic_to_openai" => count = LastCount!Fold(0, SubSeq(Lines, 1, Arrived))
    BY <1>1 DEF Reached
  <2>5. /\ Gives!Fold(Current, due') = Gives!Fold(Begin, Stage \o due')
        /\ Scans!Fold(scan, due') = Scans!Fold(NoFigures, Stage \o due')
    BY <1>5, <2>1, <2>4, GivesNext, ScansNext
  <2> QED
    BY <2>3, <2>4, <2>5
<1>9. (Delivered /\ WorkRecorded)'
  BY <1>1, <1>2 DEF Delivered, WorkRecorded, UsageRecorded, WorkCharged
<1> QED
  BY <1>6, <1>7, <1>8, <1>9 DEF StreamInv, OpenInv

\* What is recorded of an event stream.
LEMMA FiguresIs ==
  ASSUME NEW u \in ScanState, u.seen \/ stream.sse
  PROVE  /\ Figures(u).p = u.p
         /\ Figures(u).c = IF ~u.seen \/ (u.c = 0 /\ u.deltas > 0) THEN u.deltas ELSE u.c
<1>1. Figures(u) = [p |-> u.p, c |-> IF ~u.seen \/ (u.c = 0 /\ u.deltas > 0) THEN u.deltas ELSE u.c]
  BY Zenon DEF Figures
<1> QED
  BY <1>1

\* A client that leaves is charged what it was given.
LEMMA LeaveKeeps ==
  ASSUME StreamInv, Leave
  PROVE  StreamInv'
<1>1. StreamTyped /\ ChargedNow /\ state = "open"
  BY DEF StreamInv, OpenInv, Leave
<1>2. /\ recorded' = Figures(scan) /\ state' = "left"
      /\ stream' = stream /\ mode' = mode /\ norm' = norm /\ came' = came /\ half' = half
      /\ due' = due /\ count' = count /\ closed' = closed /\ cut' = cut
      /\ parser' = parser /\ got' = got /\ scan' = scan
  BY DEF Leave, upstreamVars, readVars, textVars
<1>3. /\ Lines' = Lines /\ Size' = Size /\ Passing' = Passing /\ Begin' = Begin /\ Purpose' = Purpose
      /\ Parsing' = Parsing /\ ClientFormat' = ClientFormat /\ Current' = Current
  BY <1>2, SameStream DEF Current
<1>4. StreamTyped'
  BY <1>1, <1>2, <1>3 DEF StreamTyped
<1>5. WorkCharged'
  <2> SUFFICES ASSUME stream.sse, got.text # <<>> PROVE Figures(scan).c > 0
    BY <1>2 DEF WorkCharged
  <2>1. scan \in ScanState /\ scan.deltas > 0
    BY <1>1 DEF StreamTyped, ChargedNow, Charged, Current
  <2>2. scan.c \in Nat /\ scan.deltas \in Nat
    BY <2>1 DEF ScanState
  <2>3. Figures(scan).c = IF ~scan.seen \/ (scan.c = 0 /\ scan.deltas > 0) THEN scan.deltas ELSE scan.c
    BY <2>1, FiguresIs
  <2> QED
    BY <2>1, <2>2, <2>3
<1>6. (Delivered /\ UsageRecorded /\ OpenInv)'
  BY <1>2 DEF Delivered, UsageRecorded, OpenInv
<1> QED
  BY <1>4, <1>5, <1>6 DEF StreamInv, WorkRecorded

\* At the end every line has come, and but for a last one in the buffer it has
\* been passed on.
LEMMA OverIs ==
  ASSUME StreamTyped, Over
  PROVE  /\ Arrived = Size
         /\ mode # "none" \/ half = "none" => Taken = Size /\ LastLine = <<>>
         /\ mode = "none" /\ half # "none" =>
              Size > 0 /\ Taken = Size - 1 /\ LastLine = <<Lines[Size]>> /\ half = "eol"
<1>1. Size \in Nat /\ came \in Nat /\ half \in Sizes /\ (half # "none" => came < Size)
  BY StreamIs DEF StreamTyped
<1>2. (came = Size /\ half = "none") \/ (came = Size - 1 /\ half = "eol")
  BY <1>1 DEF Over
<1>3. Arrived = Size
  BY <1>1, <1>2 DEF Arrived
<1>4. CASE mode # "none" \/ half = "none"
  BY <1>2, <1>3, <1>4 DEF Taken, LastLine
<1>5. CASE mode = "none" /\ half # "none"
  BY <1>1, <1>2, <1>3, <1>5 DEF Taken, LastLine
<1> QED
  BY <1>3, <1>4, <1>5

LEMMA NobodyIs ==
  ASSUME StreamTyped
  PROVE  LET nob == [parser |-> [parser EXCEPT !.for = "nobody"], got |-> got]
         IN /\ GivenInv(nob) /\ nob.got = got
            /\ ~Parsing => nob = Current
<1> DEFINE nob == [parser |-> [parser EXCEPT !.for = "nobody"], got |-> got]
<1>1. GivenInv(Current) /\ Current.parser = parser /\ Current.got = got /\ parser.for = Purpose
  BY DEF StreamTyped, Current
<1>2. /\ parser = [for |-> parser.for, inside |-> parser.inside, buffer |-> parser.buffer]
      /\ parser.inside \in BOOLEAN /\ parser.buffer \in Letters
      /\ got \in [text : Letters, thought : Letters]
  BY <1>1 DEF GivenInv, GivenState
<1>3. [parser EXCEPT !.for = "nobody"] = [for |-> "nobody", inside |-> parser.inside, buffer |-> parser.buffer]
  BY <1>2
<1>4. nob \in GivenState
  BY <1>2, <1>3 DEF GivenState, Format
<1>5. Awaits(nob.parser)
  <2>1. Awaits(parser)
    BY <1>1 DEF GivenInv
  <2>2. nob.parser.inside = parser.inside /\ nob.parser.buffer = parser.buffer
    BY <1>3
  <2> QED
    BY <2>1, <2>2, Zenon DEF Awaits
<1>6. ~Parsing => nob = Current
  <2> SUFFICES ASSUME ~Parsing PROVE nob = Current
    OBVIOUS
  <2>1. parser.for = "nobody"
    BY <1>1 DEF Purpose
  <2> QED
    BY <1>2, <1>3, <2>1 DEF Current
<1> QED
  BY <1>4, <1>5, <1>6 DEF GivenInv

\* Of a last line that is still in the buffer, the client's letters and the
\* counts are those of the lines passed on one by one.
LEMMA EndPassed ==
  ASSUME StreamTyped, Reached, Uncut, due = <<>>, Over,
         NEW g, g = Gives!Fold([parser |-> [parser EXCEPT !.for = "nobody"], got |-> got], LastLine),
         NEW u, u = Scans!Fold(scan, LastLine)
  PROVE  /\ Parsing => (mode = "none" /\ half # "none") \/ g.got = Gives!Fold(Begin, Passing[Size]).got
         /\ ~Parsing => g.got = Gives!Fold(Begin, Passing[Size]).got
         /\ u = Scans!Fold(NoFigures, Passing[Size] \o Finish)
<1> DEFINE nob == [parser |-> [parser EXCEPT !.for = "nobody"], got |-> got]
<1>1. /\ nob.got = got /\ (~Parsing => nob = Current) /\ Current.got = got
  BY NobodyIs DEF Current
<1>2. /\ Gives!Fold(Current, <<>>) = Current /\ Gives!Fold(nob, <<>>) = nob /\ Scans!Fold(scan, <<>>) = scan
  BY Gives!FoldEmpty, Scans!FoldEmpty
<1>3. Current = Gives!Fold(Begin, Stage) /\ scan = Scans!Fold(NoFigures, Stage)
  BY <1>2 DEF Reached
<1>4. /\ Size \in Nat /\ Lines \in Seq(Line) /\ Finish \in Seq(Line) /\ Taken \in 0..Size
      /\ \A n \in 0..Size : Passing[n] \in Seq(Line)
  BY StreamIs, PassingIs
<1>5. /\ mode # "none" \/ half = "none" => Taken = Size /\ LastLine = <<>>
      /\ mode = "none" /\ half # "none" => Size > 0 /\ Taken = Size - 1 /\ LastLine = <<Lines[Size]>>
  BY OverIs
<1> HIDE DEF nob
<1>6. g = Gives!Fold(nob, LastLine)
  BY DEF nob
<1>7. CASE mode # "none" \/ half = "none"
  <2>1. Taken = Size /\ LastLine = <<>>
    BY <1>5, <1>7
  <2>2. Stage = Passing[Size] \o Finish
    BY <2>1 DEF Stage
  <2>3. u = Scans!Fold(NoFigures, Passing[Size] \o Finish)
    BY <1>2, <1>3, <2>1, <2>2
  <2>4. g.got = got
    BY <1>1, <1>2, <1>6, <2>1
  <2>5. Gives!Fold(Begin, Passing[Size] \o Finish) = Gives!Fold(Begin, Passing[Size])
    <3>1. Passing[Size] \in Seq(Line)
      BY <1>4
    <3>2. Gives!Fold(Begin, Passing[Size] \o Finish) = Gives!Fold(Gives!Fold(Begin, Passing[Size]), Finish)
      <4>1. \A s, t \in Seq(Line) : Gives!Fold(Begin, s \o t) = Gives!Fold(Gives!Fold(Begin, s), t)
        BY Gives!FoldConcat
      <4> QED
        BY <1>4, <3>1, <4>1
    <3>3. \A a : Gives!Fold(a, Finish) = a
      <4>1. \A a : Gives!Fold(a, <<>>) = a
        BY Gives!FoldEmpty
      <4>2. \A a : Gives!Fold(a, <<Counts(0, count)>>) = Given(a, Counts(0, count))
        BY Gives!FoldOne
      <4>3. count \in Nat
        BY DEF StreamTyped
      <4>4. \A a : Given(a, Counts(0, count)) = a
        BY <4>3, CountsGiven
      <4>5. Finish = <<Counts(0, count)>> \/ Finish = <<>>
        BY Zenon DEF Finish
      <4> QED
        BY <4>1, <4>2, <4>4, <4>5, Zenon
    <3> QED
      BY <3>2, <3>3
  <2> QED
    BY <1>1, <1>3, <2>2, <2>3, <2>4, <2>5
<1>8. CASE mode = "none" /\ half # "none"
  <2>1. Size > 0 /\ Taken = Size - 1 /\ LastLine = <<Lines[Size]>> /\ Finish = <<>>
    BY <1>5, <1>8 DEF Finish
  <2>2. /\ Size - 1 \in 0..Size /\ Size - 1 < Size /\ Size - 1 + 1 = Size /\ Len(Lines) = Size
        /\ Size \in 0..Size /\ Size \in 1..Size
    BY <1>4, <2>1 DEF Size
  <2>3. Passing[Size] = Append(Passing[Size - 1], Lines[Size])
    BY <1>8, <2>2, PassingIs DEF Whole
  <2> DEFINE s == Passing[Size - 1]
  <2> DEFINE l == Lines[Size]
  <2>4. s \in Seq(Line) /\ l \in Line /\ Append(s, l) \in Seq(Line)
    BY <1>4, <2>2, <2>3, ElementOfSeq
  <2>5. Stage = s
    BY <2>1, <2>4, ConcatEmptySeq DEF Stage
  <2>6. Passing[Size] \o Finish = Append(s, l)
    BY <2>1, <2>3, <2>4, ConcatEmptySeq
  <2>7. LastLine = <<l>> /\ Passing[Size] = Append(s, l)
    BY <2>1, <2>3
  <2> HIDE DEF s, l
  <2>8. Gives!Fold(Begin, Append(s, l)) = Given(Current, l) /\ Scans!Fold(NoFigures, Append(s, l)) = Scanned(scan, l)
    BY <1>3, <2>4, <2>5, Gives!FoldAppend, Scans!FoldAppend
  <2>9. Scans!Fold(scan, <<l>>) = Scanned(scan, l) /\ Gives!Fold(Current, <<l>>) = Given(Current, l)
    BY Scans!FoldOne, Gives!FoldOne
  <2>10. u = Scans!Fold(NoFigures, Passing[Size] \o Finish)
    BY <2>6, <2>7, <2>8, <2>9
  <2>11. ~Parsing => g = Gives!Fold(Begin, Passing[Size])
    BY <1>1, <1>6, <2>7, <2>8, <2>9
  <2> QED
    BY <1>8, <2>10, <2>11
<1> QED
  BY <1>7, <1>8

\* What the client then has.
LEMMA WholeDelivered ==
  ASSUME StreamTyped, NEW text, NEW thought,
         [text |-> text, thought |-> thought] = Gives!Fold(Begin, Passing[Size]).got
  PROVE  IF Parsing
           THEN /\ text = Talk!Fold(NothingSaid, Lines).text
                /\ ClientFormat = "openai" /\ mode = "none" => thought = Talk!Fold(NothingSaid, Lines).thought
           ELSE text = AllText!Fold(<<>>, Lines)
<1> DEFINE a == Gives!Fold(Begin, Passing[Size])
<1>1. text = a.got.text /\ thought = a.got.thought
  <2>1. [text |-> text, thought |-> thought].text = text /\ [text |-> text, thought |-> thought].thought = thought
    OBVIOUS
  <2> QED
    BY <2>1, Zenon
<1>2. /\ Lines \in Seq(Line) /\ Size \in Nat /\ Len(Lines) = Size
      /\ stream.sse => Plain(Lines)
      /\ mode # "none" => stream.sse
      /\ Purpose \in Format /\ (Purpose = "nobody" <=> ~Parsing) /\ (Parsing => stream.sse)
      /\ Parsing => Purpose = ClientFormat
  BY StreamIs DEF Size
<1>3. GivenInv(Begin) /\ Begin.parser.for = Purpose /\ Begin.got.text = <<>> /\ Agrees(Begin, NothingSaid, TRUE)
  BY <1>2, BeginIs
<1>4. Selects(Lines, Passing) /\ (mode = "none" => Whole(Lines, Passing))
  BY PassingIs
<1>5. Gives!Fold(Begin, Passing[0]) = Begin
  <2>1. Passing[0] = <<Counts(0, 0)>> \/ Passing[0] = <<>>
    BY PassingIs, Zenon
  <2>2. \A b : Gives!Fold(b, <<>>) = b /\ Gives!Fold(b, <<Counts(0, 0)>>) = b
    BY CountsAlone, Gives!FoldEmpty
  <2> QED
    BY <2>1, <2>2
<1>6. CASE Parsing
  <2> DEFINE thinking == ClientFormat = "openai" /\ mode = "none"
  <2>1. thinking \in BOOLEAN /\ Agrees(Begin, NothingSaid, thinking)
    BY <1>3 DEF Agrees
  <2>2. /\ Begin.parser.for # "nobody" /\ (thinking => Begin.parser.for = "openai" /\ Whole(Lines, Passing))
        /\ \A i \in 1..Len(Lines) : Lines[i].kind \notin {"body", "pretty"}
    BY <1>2, <1>3, <1>4, <1>6 DEF Plain
  <2> HIDE DEF thinking
  <2>3. Agrees(Gives!Fold(Begin, Passing[Len(Lines)]), Talk!Fold(NothingSaid, Lines), thinking)
    BY <1>2, <1>3, <1>4, <1>5, <2>1, <2>2, SelectedAgrees
  <2>4. /\ a.got.text = Talk!Fold(NothingSaid, Lines).text
        /\ thinking => a.got.thought = Talk!Fold(NothingSaid, Lines).thought
    BY <1>2, <2>3 DEF Agrees
  <2> QED
    BY <1>1, <1>6, <2>4 DEF thinking
<1>7. CASE ~Parsing
  <2>1. (\A i \in 1..Len(Lines) : Lines[i].kind \notin {"body", "pretty"}) \/ Whole(Lines, Passing)
    BY <1>2, <1>4 DEF Plain
  <2>2. Begin.parser.for = "nobody" /\ Gives!Fold(Begin, Passing[0]).got.text = <<>>
    BY <1>2, <1>3, <1>5, <1>7
  <2>3. Gives!Fold(Begin, Passing[Len(Lines)]).got.text = AllText!Fold(<<>>, Lines)
    BY <1>2, <1>3, <1>4, <2>1, <2>2, SelectedText
  <2> QED
    BY <1>1, <1>2, <1>7, <2>3
<1> QED
  BY <1>6, <1>7

\* The three things UsageRecorded says, of counts p and c.
IsCost(p, c) ==
  LET said == Reports!Fold(NoFigures, Lines)
      pieces == {i \in DOMAIN Lines : Lines[i].text # <<>> /\
                   (Lines[i].kind = "delta" \/ (Lines[i].kind = "thought" /\ mode = "none"))}
  IN /\ said.c > 0 => c = said.c
     /\ said.c = 0 /\ stream.sse => c = Cardinality(pieces)
     /\ mode = "none" => p = said.p

LEMMA CostOf ==
  ASSUME StreamTyped, NEW p, NEW c, NEW D, D = IF mode = "none" THEN DeltasAt(Lines) ELSE PiecesAt(Lines),
         NEW s, s = Reports!Fold(NoFigures, Lines),
         s.c > 0 => c = s.c, s.c = 0 /\ stream.sse => c = Cardinality(D), mode = "none" => p = s.p
  PROVE  IsCost(p, c)
<1>1. DOMAIN Lines = 1..Len(Lines)
  BY StreamIs, LenProperties
<1>2. D = {i \in DOMAIN Lines : Lines[i].text # <<>> /\
             (Lines[i].kind = "delta" \/ (Lines[i].kind = "thought" /\ mode = "none"))}
  BY <1>1 DEF DeltasAt, PiecesAt, IsDelta, IsPiece
<1> QED
  BY <1>2, Zenon DEF IsCost

\* A scan's figures, when its counts are those that were said.
LEMMA FiguresCost ==
  ASSUME StreamTyped, NEW u \in ScanState, u.seen \/ stream.sse, ~u.seen => u.c = 0,
         NEW s, s = Reports!Fold(NoFigures, Lines), u.c = s.c, mode = "none" => u.p = s.p,
         stream.sse => u.deltas = Cardinality(IF mode = "none" THEN DeltasAt(Lines) ELSE PiecesAt(Lines))
  PROVE  IsCost(Figures(u).p, Figures(u).c)
<1> DEFINE D == IF mode = "none" THEN DeltasAt(Lines) ELSE PiecesAt(Lines)
<1>1. u.c \in Nat /\ u.deltas \in Nat
  BY DEF ScanState
<1>2. /\ Figures(u).p = u.p
      /\ Figures(u).c = IF ~u.seen \/ (u.c = 0 /\ u.deltas > 0) THEN u.deltas ELSE u.c
  BY FiguresIs
<1>3. s.c > 0 => Figures(u).c = s.c
  BY <1>1, <1>2
<1>4. s.c = 0 => Figures(u).c = u.deltas
  BY <1>1, <1>2
<1> HIDE DEF D
<1>5. s.c = 0 /\ stream.sse => Figures(u).c = Cardinality(D)
  BY <1>4 DEF D
<1> QED
  BY <1>2, <1>3, <1>5, CostOf DEF D

LEMMA PrettyUnseen ==
  ASSUME NEW K \in Seq(Line), Len(K) = 1, K[1].kind = "pretty"
  PROVE  ~Scans!Fold(NoFigures, K).seen
<1> DEFINE l == K[1]
<1>1. l \in Line /\ ~HasUsage(l)
  BY ElementOfSeq DEF HasUsage
<1>2. K = <<l>>
  OBVIOUS
<1>3. NoFigures \in ScanState /\ NoFigures.seen = FALSE
  BY NoFiguresIs DEF NothingYet, NoFigures
<1> HIDE DEF l
<1>4. Scans!Fold(NoFigures, K) = Scanned(NoFigures, l)
  BY <1>2, Scans!FoldOne
<1>5. Scanned(NoFigures, l).seen = NoFigures.seen
  BY <1>1, <1>3, ScannedIs
<1> QED
  BY <1>3, <1>4, <1>5

\* Of a stream that was passed on as it came.
LEMMA UntranslatedCost ==
  ASSUME StreamTyped, Over, mode = "none", NEW u, u = Scans!Fold(NoFigures, Lines)
  PROVE  IsCost(Figures(u).p, Figures(u).c)
<1> DEFINE s == Reports!Fold(NoFigures, Lines)
<1> DEFINE D == DeltasAt(Lines)
<1>1. Lines \in Seq(Line) /\ Size \in Nat /\ Len(Lines) = Size /\ (stream.sse => Plain(Lines))
  BY StreamIs DEF Size
<1>2. u \in ScanState /\ (~u.seen => u.p = 0 /\ u.c = 0) /\ u.deltas = Cardinality(D)
  BY <1>1, ScansType, WholeFigures
<1>3. s \in ScanState
  BY <1>1, ReportsType, NoFiguresIs DEF NothingYet
<1>4. CASE u.seen \/ stream.sse
  <2>1. \A i \in 1..Len(Lines) : Lines[i] \in Line /\ Lines[i].kind # "pretty"
    <3> SUFFICES ASSUME NEW i \in 1..Len(Lines), Lines[i].kind = "pretty" PROVE FALSE
      BY <1>1, ElementOfSeq
    <3>1. Len(Lines) = 1
      BY ProtocolIs DEF StreamTyped, Lines
    <3>2. i = 1
      BY <3>1
    <3>3. ~u.seen
      BY <1>1, <3>1, <3>2, PrettyUnseen
    <3>4. ~stream.sse
      BY <1>1 DEF Plain
    <3> QED
      BY <1>4, <3>3, <3>4
  <2>2. Lines \in Seq({l \in Line : l.kind # "pretty"})
    <3>1. Lines = SubSeq(Lines, 1, Len(Lines)) /\ Len(Lines) \in Nat
      BY <1>1, SubSeqFull
    <3>2. \A i \in 1..Len(Lines) : Lines[i] \in {l \in Line : l.kind # "pretty"}
      BY <2>1
    <3>3. SubSeq(Lines, 1, Len(Lines)) \in Seq({l \in Line : l.kind # "pretty"})
      BY <3>1, <3>2, SubSeqProperties
    <3> QED
      BY <3>1, <3>3
  <2>3. u.p = s.p /\ u.c = s.c
    BY <2>2, ScansReport
  <2>4. u.deltas = Cardinality(IF mode = "none" THEN DeltasAt(Lines) ELSE PiecesAt(Lines))
    BY <1>2
  <2> HIDE DEF s, D
  <2>5. s = Reports!Fold(NoFigures, Lines)
    BY DEF s
  <2> QED
    BY <1>2, <1>4, <2>3, <2>4, <2>5, FiguresCost
<1>5. CASE ~u.seen /\ ~stream.sse
  <2>1. Arrived = Size /\ half \in Sizes
    BY OverIs DEF StreamTyped
  <2>2. CASE Arrived > 0 \/ half # "none"
    <3> DEFINE t == Reports!Fold(u, SubSeq(Lines, 1, Arrived))
    <3>1. SubSeq(Lines, 1, Arrived) = Lines
      BY <1>1, <2>1, SubSeqFull
    <3>2. t.p = s.p /\ t.c = s.c
      BY <1>1, <1>2, <1>5, <3>1, ReportsAlike
    <3>3. Figures(u) = Body(u)
      BY <1>5, <2>2 DEF Figures
    <3>4. /\ t.p # 0 \/ t.c # 0 => Body(u) = [p |-> t.p, c |-> t.c]
          /\ ~(t.p # 0 \/ t.c # 0) => Body(u).p = 0
      BY DEF Body
    <3> HIDE DEF t
    <3>5. Figures(u).p = s.p /\ (s.c > 0 => Figures(u).c = s.c)
      BY <1>3, <3>2, <3>3, <3>4 DEF ScanState
    <3> HIDE DEF s, D
    <3>6. s = Reports!Fold(NoFigures, Lines)
      BY DEF s
    <3> QED
      BY <1>5, <3>5, <3>6, CostOf
  <2>3. CASE ~(Arrived > 0 \/ half # "none")
    <3>1. Size = 0 /\ Lines = <<>>
      BY <1>1, <2>1, <2>3
    <3>2. s = NoFigures
      BY <3>1, Reports!FoldEmpty
    <3>3. s.p = 0 /\ s.c = 0
      BY <3>2 DEF NoFigures
    <3>4. Figures(u).p = u.p
      BY <2>3 DEF Figures
    <3> HIDE DEF s, D
    <3>5. s = Reports!Fold(NoFigures, Lines)
      BY DEF s
    <3> QED
      BY <1>2, <1>5, <3>3, <3>4, <3>5, CostOf
  <2> QED
    BY <2>2, <2>3
<1> QED
  BY <1>4, <1>5

\* Of a translated one.
LEMMA TranslatedCost ==
  ASSUME StreamTyped, Over, closed, Reached, Uncut, mode # "none",
         NEW u, u = Scans!Fold(NoFigures, Passing[Size] \o Finish)
  PROVE  IsCost(Figures(u).p, Figures(u).c)
<1> DEFINE s == Reports!Fold(NoFigures, Lines)
<1> DEFINE D == PiecesAt(Lines)
<1>1. /\ Lines \in Seq(Line) /\ Size \in Nat /\ Len(Lines) = Size /\ stream.sse
      /\ Plain(Lines) /\ Rising(Lines)
      /\ mode \in {"none", "anthropic_to_openai", "openai_to_anthropic"}
      /\ mode = "openai_to_anthropic" => stream.format = "anthropic"
  BY StreamIs DEF Size
<1>2. Greatest(Lines, Usages(Lines), s.c)
  BY <1>1, SaidGreatest
<1>3. u \in ScanState /\ u.c = s.c /\ u.deltas = Cardinality(D)
  <2>1. CASE mode = "anthropic_to_openai"
    <3>1. Passing[Size] = OutPieces(Lines)[Len(Lines)] /\ Finish = <<Counts(0, count)>>
      BY <1>1, <2>1 DEF Passing, Finish
    <3>2. count \in Nat
      BY DEF StreamTyped
    <3>3. u \in ScanState /\ u.c = count /\ u.deltas = Cardinality(D)
      BY <1>1, <3>1, <3>2, PiecesFigures
    <3>4. SubSeq(Lines, 1, Arrived) = Lines
      BY <1>1, OverIs, SubSeqFull
    <3>5. count = LastCount!Fold(0, Lines)
      BY <2>1, <3>4 DEF Reached
    <3>6. Greatest(Lines, Usages(Lines), count)
      BY <1>1, <3>5, CountGreatest
    <3>7. \A i \in Usages(Lines) : Lines[i].c > 0 => \E j \in Usages(Lines) : Lines[i].c <= Lines[j].c
      <4>1. \A i \in Usages(Lines) : Lines[i].c \in Nat
        BY <1>1, UsagesCount
      <4>2. \A i \in Usages(Lines) : Lines[i].c <= Lines[i].c
        BY <4>1
      <4> QED
        BY <4>2
    <3> HIDE DEF s
    <3>8. count = s.c
      BY <1>1, <1>2, <3>6, <3>7, GreatestSame
    <3> QED
      BY <3>3, <3>8
  <2>2. CASE mode = "openai_to_anthropic"
    <3>1. Passing[Size] = OutEvents(Lines)[Len(Lines)] /\ Finish = <<>>
      BY <1>1, <2>2 DEF Passing, Finish
    <3>2. /\ Announces(Lines)
          /\ \A i \in Usages(Lines) : Lines[i].c > 0 => \E j \in Finals(Lines) : Lines[i].c <= Lines[j].c
      BY <1>1, <2>2, ProtocolIs DEF StreamTyped, Lines
    <3>3. Passing[Size] \o Finish = OutEvents(Lines)[Len(Lines)]
      <4>1. Passing[Size] \in Seq(Line)
        BY <1>1, PassingIs
      <4> QED
        BY <3>1, <4>1, ConcatEmptySeq
    <3>4. u \in ScanState /\ Greatest(Lines, Finals(Lines), u.c) /\ u.deltas = Cardinality(D)
      BY <1>1, <3>2, <3>3, EventsFigures
    <3>5. Finals(Lines) \subseteq Usages(Lines)
      BY DEF Finals
    <3> HIDE DEF s
    <3>6. u.c = s.c
      BY <1>1, <1>2, <3>2, <3>4, <3>5, GreatestSame
    <3> QED
      BY <3>4, <3>6
  <2> QED
    BY <1>1, <2>1, <2>2
<1>4. ~u.seen => u.c = 0
  <2>1. Passing[Size] \in Seq(Line) /\ Finish \in Seq(Line)
    BY <1>1, PassingIs, StreamIs
  <2>2. Passing[Size] \o Finish \in Seq(Line)
    BY <2>1, ConcatProperties
  <2> QED
    BY <2>2, ScansType
<1>5. u.deltas = Cardinality(IF mode = "none" THEN DeltasAt(Lines) ELSE PiecesAt(Lines))
  BY <1>3
<1> HIDE DEF s, D
<1>6. s = Reports!Fold(NoFigures, Lines)
  BY DEF s
<1> QED
  BY <1>1, <1>3, <1>4, <1>5, <1>6, FiguresCost

\* The end: the last line in the buffer is given, and the figures recorded.
LEMMA EndKeeps ==
  ASSUME StreamInv, End
  PROVE  StreamInv'
<1>1. StreamTyped /\ Reached /\ state = "open" /\ Over /\ due = <<>> /\ closed
  BY DEF StreamInv, OpenInv, End
<1> DEFINE nob == [parser |-> [parser EXCEPT !.for = "nobody"], got |-> got]
<1> DEFINE g == Gives!Fold(nob, LastLine)
<1> DEFINE u == Scans!Fold(scan, LastLine)
<1>2. /\ scan' = u /\ got' = g.got /\ recorded' = Figures(u) /\ state' = "ended"
      /\ stream' = stream /\ mode' = mode /\ norm' = norm /\ came' = came /\ half' = half
      /\ due' = due /\ count' = count /\ closed' = closed /\ cut' = cut /\ parser' = parser
  BY DEF End, upstreamVars, readVars
<1>3. /\ Lines' = Lines /\ Size' = Size /\ Purpose' = Purpose
      /\ Parsing' = Parsing /\ ClientFormat' = ClientFormat /\ Uncut' = Uncut
  BY <1>2, SameStream DEF Uncut
<1>4. LastLine \in Seq(Line)
  <2>1. LastLine = <<>> \/ (Size > 0 /\ LastLine = <<Lines[Size]>>)
    BY <1>1, OverIs
  <2>2. /\ Size \in Nat /\ Lines \in Seq(Line) /\ Len(Lines) = Size
    BY <1>1, StreamIs DEF Size
  <2>3. Size > 0 => <<Lines[Size]>> \in Seq(Line)
    <3> DEFINE l == Lines[Size]
    <3>1. Size > 0 => l \in Line
      BY <2>2, ElementOfSeq
    <3> HIDE DEF l
    <3>2. Size > 0 => <<l>> \in Seq(Line)
      BY <3>1
    <3> QED
      BY <3>2 DEF l
  <2>4. <<>> \in Seq(Line)
    OBVIOUS
  <2> QED
    BY <2>1, <2>3, <2>4, Zenon
<1>5. GivenInv(Current') /\ parser.for = Purpose
  <2>1. GivenInv(nob) /\ GivenInv(Current) /\ Current.parser = parser
    BY <1>1, NobodyIs DEF StreamTyped, Current
  <2>2. GivenInv(g)
    <3> HIDE DEF nob
    <3> QED
      BY <1>4, <2>1, GivesType
  <2> HIDE DEF g
  <2>3. Current' = [parser |-> parser, got |-> g.got]
    BY <1>2 DEF Current
  <2>4. [parser |-> parser, got |-> g.got] \in GivenState /\ Awaits(parser)
    BY <2>1, <2>2 DEF GivenInv, GivenState
  <2>5. [parser |-> parser, got |-> g.got].parser = parser
    OBVIOUS
  <2> QED
    BY <1>1, <2>3, <2>4, <2>5, Zenon DEF GivenInv, StreamTyped
<1>6. u \in ScanState
  BY <1>1, <1>4, ScannedIs, Scans!FoldType DEF StreamTyped
<1>7. StreamTyped'
  <2> HIDE DEF g, u
  <2> QED
    BY <1>1, <1>2, <1>3, <1>5, <1>6 DEF StreamTyped
<1>8. (OpenInv /\ WorkCharged)'
  BY <1>2 DEF OpenInv, WorkCharged
<1>9. ASSUME Uncut
      PROVE  /\ Parsing => (mode = "none" /\ half # "none") \/ g.got = Gives!Fold(Begin, Passing[Size]).got
             /\ ~Parsing => g.got = Gives!Fold(Begin, Passing[Size]).got
             /\ u = Scans!Fold(NoFigures, Passing[Size] \o Finish)
  <2>1. g = Gives!Fold([parser |-> [parser EXCEPT !.for = "nobody"], got |-> got], LastLine)
    OBVIOUS
  <2>2. u = Scans!Fold(scan, LastLine)
    OBVIOUS
  <2> HIDE DEF g, u
  <2> QED
    BY <1>1, <1>9, <2>1, <2>2, EndPassed
<1>10. Delivered'
  <2> DEFINE whole == Talk!Fold(NothingSaid, Lines)
  <2> HIDE DEF g, u
  <2> SUFFICES ASSUME Uncut
               PROVE  IF Parsing /\ (mode # "none" \/ half = "none")
                        THEN /\ got'.text = whole.text
                             /\ ClientFormat = "openai" /\ mode = "none" => got'.thought = whole.thought
                        ELSE Parsing \/ got'.text = AllText!Fold(<<>>, Lines)
    BY <1>2, <1>3, Zenon DEF Delivered
  <2>1. got' = [text |-> got'.text, thought |-> got'.thought]
    BY <1>5 DEF GivenInv, GivenState, Current
  <2>2. ASSUME got' = Gives!Fold(Begin, Passing[Size]).got
        PROVE  IF Parsing
                 THEN /\ got'.text = whole.text
                      /\ ClientFormat = "openai" /\ mode = "none" => got'.thought = whole.thought
                 ELSE got'.text = AllText!Fold(<<>>, Lines)
    <3>1. [text |-> got'.text, thought |-> got'.thought] = Gives!Fold(Begin, Passing[Size]).got
      BY <2>1, <2>2
    <3> QED
      BY <1>1, <3>1, WholeDelivered
  <2> HIDE DEF whole
  <2> QED
    BY <1>2, <1>9, <2>2
<1>11. UsageRecorded'
  <2> HIDE DEF g, u
  <2> SUFFICES ASSUME Uncut PROVE IsCost(recorded'.p, recorded'.c)
    BY <1>2, <1>3, Zenon DEF UsageRecorded, IsCost
  <2>1. CASE mode = "none"
    <3>1. Passing[Size] = Lines /\ Finish = <<>> /\ Lines \in Seq(Line)
      BY <1>1, <2>1, PassingIs, StreamIs DEF Finish
    <3>2. u = Scans!Fold(NoFigures, Lines)
      BY <1>9, <3>1, ConcatEmptySeq
    <3> QED
      BY <1>1, <1>2, <2>1, <3>2, UntranslatedCost
  <2>2. CASE mode # "none"
    BY <1>1, <1>2, <1>9, <2>2, TranslatedCost
  <2> QED
    BY <2>1, <2>2
<1> QED
  BY <1>7, <1>8, <1>10, <1>11 DEF StreamInv, WorkRecorded

LEMMA StreamStep == StreamInv /\ [StreamNext]_streamVars => StreamInv'
<1> SUFFICES ASSUME StreamInv, [StreamNext]_streamVars PROVE StreamInv'
  OBVIOUS
<1>1. ASSUME NEW n \in 0..(Size - came), NEW h \in Sizes, Read(n, h) PROVE StreamInv'
  <2>1. state = "open"
    BY <1>1 DEF Read
  <2> QED
    BY <1>1, <2>1, ReadUntranslated, ReadTranslated
<1>2. ASSUME UNCHANGED streamVars PROVE StreamInv'
  <2>1. /\ stream' = stream /\ mode' = mode /\ norm' = norm /\ came' = came /\ half' = half
        /\ due' = due /\ count' = count /\ closed' = closed /\ cut' = cut
        /\ parser' = parser /\ got' = got /\ scan' = scan /\ state' = state /\ recorded' = recorded
    BY <1>2 DEF streamVars, upstreamVars, readVars, textVars, endVars
  <2>2. /\ Lines' = Lines /\ Size' = Size /\ Passing' = Passing /\ Begin' = Begin /\ Purpose' = Purpose
        /\ Parsing' = Parsing /\ ClientFormat' = ClientFormat /\ Current' = Current
    BY <2>1, SameStream DEF Current
  <2>3. Arrived' = Arrived /\ Taken' = Taken /\ Finish' = Finish /\ Over' = Over /\ Uncut' = Uncut
    BY <2>1, <2>2 DEF Arrived, Taken, Finish, Over, Uncut
  <2>4. Stage' = Stage
    BY <2>2, <2>3 DEF Stage
  <2>5. StreamTyped' = StreamTyped
    BY <2>1, <2>2, Zenon DEF StreamTyped
  <2>6. OpenInv' = OpenInv
    BY <2>1, <2>2, <2>3, <2>4, Zenon DEF OpenInv, ClosedOver, NotWithin, ChargedNow, Reached
  <2>7. Delivered' = Delivered /\ WorkRecorded' = WorkRecorded
    BY <2>1, <2>2, <2>3, Zenon DEF Delivered, WorkRecorded, UsageRecorded, WorkCharged
  <2> QED
    BY <2>5, <2>6, <2>7 DEF StreamInv
<1> QED
  BY <1>1, <1>2, HandOnKeeps, CloseKeeps, EndKeeps, LeaveKeeps DEF StreamNext

\* stream_with_telemetry: what the client has of a stream that ended, and what is
\* recorded of it, follow from one invariant: what was given and what is due are
\* together what the lines that came are to give.
LEMMA StreamHolds == StreamSpec => []StreamInv
<1> QED
  BY StreamStarts, StreamStep, PTL DEF StreamSpec

\* ThinkTagParser.feed, the translations and the loop of stream_with_telemetry:
\* the client of a stream that ended has all of its text, in order and once, and
\* the thinking in its own place, wherever chunks and pieces cut lines and tags.
THEOREM StreamDelivers == StreamSpec => []Delivered
<1>1. StreamInv => Delivered
  BY DEF StreamInv
<1> QED
  BY <1>1, StreamHolds, PTL

\* usage.py and _figures: a stream that ended is recorded with the tokens its
\* server reported last, or its number of pieces; one that the client left after
\* text of it was given is recorded with some.
THEOREM StreamRecorded == StreamSpec => []WorkRecorded
<1>1. StreamInv => WorkRecorded
  BY DEF StreamInv
<1> QED
  BY <1>1, StreamHolds, PTL

=============================================================================
