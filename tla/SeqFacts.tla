-------------------------------- MODULE SeqFacts --------------------------------
(***************************************************************************)
(* Facts about sequences, whatever they hold: the minimum of a set of      *)
(* positions, what an insertion or a removal gives, repetitions, and how   *)
(* many entries are of a kind.                                             *)
(***************************************************************************)
EXTENDS Integers, SequencesExt, SequenceTheorems, FiniteSetTheorems, WellFoundedInduction, TLAPS

\* A nonempty set of naturals has a minimum.
LEMMA MinExists ==
  ASSUME NEW D, D \subseteq Nat, D # {}
  PROVE  Min(D) \in D /\ \A x \in D : Min(D) <= x
<1> DEFINE R == OpToRel(<, Nat)
<1>1. R = {ss \in Nat \X Nat : ss[1] < ss[2]}
  BY DEF OpToRel
<1>2. IsWellFoundedOn(R, Nat)
  BY NatLessThanWellFounded
<1> HIDE DEF R
<1>3. PICK m \in D : \A y \in D : <<y, m>> \notin R
  BY <1>2, WFMin
<1>4. \A y \in D : m <= y
  <2> SUFFICES ASSUME NEW y \in D, y < m
               PROVE  FALSE
    BY <1>3
  <2>1. <<y, m>> \in Nat \X Nat /\ <<y, m>>[1] < <<y, m>>[2]
    OBVIOUS
  <2> QED
    BY <1>1, <1>3, <2>1
<1> QED
  BY <1>4 DEF Min

\* sys_dlist_insert() before position p.
LEMMA InsertAtProperties ==
  ASSUME NEW S, NEW s \in Seq(S), NEW p \in 1 .. Len(s) + 1, NEW e \in S
  PROVE  /\ InsertAt(s, p, e) \in Seq(S)
         /\ Len(InsertAt(s, p, e)) = Len(s) + 1
         /\ \A i \in 1 .. Len(s) + 1 :
              InsertAt(s, p, e)[i] = IF i < p THEN s[i]
                                     ELSE IF i = p THEN e ELSE s[i - 1]
<1> DEFINE l == SubSeq(s, 1, p - 1)
           r == SubSeq(s, p, Len(s))
<1>1. /\ l \in Seq(S) /\ Len(l) = p - 1
      /\ \A i \in 1 .. p - 1 : l[i] = s[i]
  <2>1. \A i \in 1 .. p - 1 : s[i] \in S
    BY ElementOfSeq
  <2> QED
    BY <2>1, SubSeqProperties
<1>2. /\ r \in Seq(S) /\ Len(r) = Len(s) - p + 1
      /\ \A i \in 1 .. Len(s) - p + 1 : r[i] = s[p + i - 1]
  <2>1. \A i \in p .. Len(s) : s[i] \in S
    BY ElementOfSeq
  <2> QED
    BY <2>1, SubSeqProperties
<1>3. <<e>> \in Seq(S) /\ Len(<<e>>) = 1 /\ <<e>>[1] = e
  OBVIOUS
<1> HIDE DEF l, r
<1> DEFINE m == l \o <<e>>
<1>4. /\ m \in Seq(S) /\ Len(m) = p
      /\ \A i \in 1 .. p : m[i] = IF i < p THEN s[i] ELSE e
  BY <1>1, <1>3, ConcatProperties
<1>6. InsertAt(s, p, e) = m \o r
  BY DEF InsertAt, l, r
<1> HIDE DEF m
<1>5. /\ m \o r \in Seq(S)
      /\ Len(m \o r) = Len(s) + 1
      /\ \A i \in 1 .. Len(s) + 1 :
           (m \o r)[i] = IF i <= p THEN m[i] ELSE r[i - p]
  <2>1. Len(m) + Len(r) = Len(s) + 1
    BY <1>2, <1>4
  <2>2. /\ m \o r \in Seq(S)
        /\ Len(m \o r) = Len(m) + Len(r)
        /\ \A i \in 1 .. Len(m) + Len(r) :
             (m \o r)[i] = IF i <= Len(m) THEN m[i] ELSE r[i - Len(m)]
    <3>1. m \in Seq(S) /\ r \in Seq(S)
      BY <1>2, <1>4
    <3> QED
      BY <3>1, ConcatProperties
  <2> QED
    BY <1>4, <2>1, <2>2
<1> QED
  BY <1>2, <1>4, <1>5, <1>6

\* sys_dlist_remove() of the node at position p.
LEMMA RemoveAtProperties ==
  ASSUME NEW S, NEW s \in Seq(S), NEW p \in 1 .. Len(s)
  PROVE  /\ RemoveAt(s, p) \in Seq(S)
         /\ Len(RemoveAt(s, p)) = Len(s) - 1
         /\ \A i \in 1 .. Len(s) - 1 :
              RemoveAt(s, p)[i] = IF i < p THEN s[i] ELSE s[i + 1]
<1> DEFINE l == SubSeq(s, 1, p - 1)
           r == SubSeq(s, p + 1, Len(s))
<1>1. /\ l \in Seq(S) /\ Len(l) = p - 1
      /\ \A i \in 1 .. p - 1 : l[i] = s[i]
  <2>1. \A i \in 1 .. p - 1 : s[i] \in S
    BY ElementOfSeq
  <2> QED
    BY <2>1, SubSeqProperties
<1>2. /\ r \in Seq(S) /\ Len(r) = Len(s) - p
      /\ \A i \in 1 .. Len(s) - p : r[i] = s[p + i]
  <2>1. \A i \in p + 1 .. Len(s) : s[i] \in S
    BY ElementOfSeq
  <2> QED
    BY <2>1, SubSeqProperties
<1>3. RemoveAt(s, p) = l \o r
  BY DEF RemoveAt, l, r
<1> HIDE DEF l, r
<1>4. /\ l \o r \in Seq(S) /\ Len(l \o r) = Len(l) + Len(r)
      /\ \A i \in 1 .. Len(l) + Len(r) :
           (l \o r)[i] = IF i <= Len(l) THEN l[i] ELSE r[i - Len(l)]
  BY <1>1, <1>2, ConcatProperties
<1>5. Len(s) \in Nat /\ Len(l) + Len(r) = Len(s) - 1
  BY <1>1, <1>2, LenProperties
<1>6. ASSUME NEW i \in 1 .. Len(s) - 1
      PROVE  RemoveAt(s, p)[i] = IF i < p THEN s[i] ELSE s[i + 1]
  <2>1. CASE i < p
    <3>1. i \in 1 .. p - 1 /\ i <= Len(l) /\ i \in 1 .. Len(l) + Len(r)
      BY <1>1, <1>5, <2>1
    <3> QED
      BY <1>1, <1>3, <1>4, <2>1, <3>1
  <2>2. CASE ~(i < p)
    <3>1. /\ ~(i <= Len(l)) /\ i \in 1 .. Len(l) + Len(r)
          /\ i - Len(l) \in 1 .. Len(s) - p /\ p + (i - Len(l)) = i + 1
      BY <1>1, <1>5, <2>2
    <3> QED
      BY <1>2, <1>3, <1>4, <2>2, <3>1
  <2> QED
    BY <2>1, <2>2
<1> QED
  BY <1>3, <1>4, <1>5, <1>6

--------------------------------------------------------------------------------
(* Sequences without repetition.                                           *)

Distinct(s) == \A i, j \in 1 .. Len(s) : s[i] = s[j] => i = j

\* Inserting a node that is not in the list keeps it free of repetitions.
LEMMA InsertAtDistinct ==
  ASSUME NEW S, NEW s \in Seq(S), NEW p \in 1 .. Len(s) + 1, NEW e \in S,
         Distinct(s), \A i \in 1 .. Len(s) : s[i] # e
  PROVE  /\ Distinct(InsertAt(s, p, e))
         /\ \A i \in 1 .. Len(s) + 1 :
              InsertAt(s, p, e)[i] = e \/ \E j \in 1 .. Len(s) : InsertAt(s, p, e)[i] = s[j]
<1>1. PICK t \in Seq(S) :
         /\ t = InsertAt(s, p, e)
         /\ Len(t) = Len(s) + 1
         /\ \A i \in 1 .. Len(s) + 1 :
              t[i] = IF i < p THEN s[i] ELSE IF i = p THEN e ELSE s[i - 1]
  <2>1. /\ InsertAt(s, p, e) \in Seq(S)
        /\ Len(InsertAt(s, p, e)) = Len(s) + 1
        /\ \A i \in 1 .. Len(s) + 1 :
             InsertAt(s, p, e)[i] = IF i < p THEN s[i]
                                    ELSE IF i = p THEN e ELSE s[i - 1]
    BY InsertAtProperties
  <2> QED
    BY <2>1
<1>2. ASSUME NEW i \in 1 .. Len(t), NEW j \in 1 .. Len(t), t[i] = t[j]
      PROVE  i = j
  <2> DEFINE f(k) == IF k < p THEN k ELSE k - 1
  <2>1. (i # p => t[i] = s[f(i)]) /\ (j # p => t[j] = s[f(j)])
    BY <1>1
  <2>2. /\ i # p => f(i) \in 1 .. Len(s)
        /\ j # p => f(j) \in 1 .. Len(s)
    BY <1>1
  <2>3. t[p] = e
    BY <1>1
  <2>4. CASE i = p \/ j = p
    BY <1>2, <2>1, <2>2, <2>3, <2>4
  <2>5. CASE i # p /\ j # p
    <3>1. f(i) = f(j)
      BY <1>2, <2>1, <2>2, <2>5 DEF Distinct
    <3> QED
      BY <1>1, <2>5, <3>1
  <2> QED
    BY <2>4, <2>5
<1>3. \A i \in 1 .. Len(s) + 1 : t[i] = e \/ \E j \in 1 .. Len(s) : t[i] = s[j]
  BY <1>1
<1> QED
  BY <1>1, <1>2, <1>3 DEF Distinct

--------------------------------------------------------------------------------
(* How many entries of a sequence are of a set.                            *)

PlacesOf(s, S) == {i \in DOMAIN s : s[i] \in S}
Number(s, S) == Cardinality(PlacesOf(s, S))

LEMMA NumberType ==
  ASSUME NEW T, NEW s \in Seq(T), NEW S
  PROVE  /\ IsFiniteSet(PlacesOf(s, S)) /\ Number(s, S) \in Nat
         /\ Number(s, S) = 0 <=> \A i \in DOMAIN s : s[i] \notin S
<1>1. DOMAIN s = 1 .. Len(s) /\ Len(s) \in Nat
  BY LenProperties
<1>2. IsFiniteSet(1 .. Len(s))
  BY <1>1, FS_Interval
<1>3. IsFiniteSet(PlacesOf(s, S))
  BY <1>1, <1>2, FS_Subset DEF PlacesOf
<1>4. Number(s, S) \in Nat /\ (Number(s, S) = 0 <=> PlacesOf(s, S) = {})
  BY <1>3, FS_CardinalityType, FS_EmptySet DEF Number
<1>5. PlacesOf(s, S) = {} <=> \A i \in DOMAIN s : s[i] \notin S
  BY DEF PlacesOf
<1> QED
  BY <1>3, <1>4, <1>5

LEMMA NumberEmpty == \A S : Number(<<>>, S) = 0
<1>1. \A S : PlacesOf(<<>>, S) = {}
  BY DEF PlacesOf
<1> QED
  BY <1>1, FS_EmptySet DEF Number

LEMMA NumberSingle == ASSUME NEW e, NEW S PROVE Number(<<e>>, S) = IF e \in S THEN 1 ELSE 0
<1>1. DOMAIN <<e>> = {1} /\ <<e>>[1] = e
  OBVIOUS
<1>2. PlacesOf(<<e>>, S) = IF e \in S THEN {1} ELSE {}
  BY <1>1 DEF PlacesOf
<1> QED
  BY <1>2, FS_EmptySet, FS_Singleton DEF Number

\* An entry taken out anywhere.
LEMMA NumberRemoveAt ==
  ASSUME NEW T, NEW s \in Seq(T), NEW p \in 1 .. Len(s), NEW S
  PROVE  Number(RemoveAt(s, p), S) = Number(s, S) - IF s[p] \in S THEN 1 ELSE 0
<1> DEFINE w == RemoveAt(s, p)
           f == [i \in PlacesOf(w, S) |-> IF i < p THEN i ELSE i + 1]
<1>1. /\ w \in Seq(T) /\ Len(w) = Len(s) - 1
      /\ \A i \in 1 .. Len(s) - 1 : w[i] = IF i < p THEN s[i] ELSE s[i + 1]
  BY RemoveAtProperties
<1>2. Len(s) \in Nat /\ DOMAIN s = 1 .. Len(s)
  BY LenProperties
<1> HIDE DEF w
<1>3. DOMAIN w = 1 .. Len(s) - 1
  BY <1>1
<1>4. ASSUME NEW i \in PlacesOf(w, S)
      PROVE  f[i] \in PlacesOf(s, S) \ {p}
  <2>1. i \in 1 .. Len(s) - 1 /\ w[i] \in S
    BY <1>3 DEF PlacesOf
  <2>2. CASE i < p
    <3>1. f[i] = i /\ i \in DOMAIN s /\ s[i] \in S
      BY <1>1, <1>2, <2>1, <2>2
    <3> QED
      BY <2>2, <3>1 DEF PlacesOf
  <2>3. CASE ~(i < p)
    <3>1. f[i] = i + 1 /\ i + 1 \in DOMAIN s /\ s[i + 1] \in S /\ i + 1 # p
      BY <1>1, <1>2, <2>1, <2>3
    <3> QED
      BY <3>1 DEF PlacesOf
  <2> QED
    BY <2>2, <2>3
<1>5. ASSUME NEW i \in PlacesOf(w, S), NEW j \in PlacesOf(w, S), f[i] = f[j]
      PROVE  i = j
  <2>1. i \in Nat /\ j \in Nat
    BY <1>2, <1>3 DEF PlacesOf
  <2>2. (IF i < p THEN i ELSE i + 1) = (IF j < p THEN j ELSE j + 1)
    BY <1>5
  <2> QED
    BY <2>1, <2>2
<1>6. ASSUME NEW k \in PlacesOf(s, S) \ {p}
      PROVE  \E i \in PlacesOf(w, S) : f[i] = k
  <2>1. k \in 1 .. Len(s) /\ s[k] \in S /\ k # p
    BY <1>2 DEF PlacesOf
  <2>2. CASE k < p
    <3>1. k \in DOMAIN w /\ w[k] \in S
      BY <1>1, <1>2, <1>3, <2>1, <2>2
    <3> QED
      BY <2>2, <3>1 DEF PlacesOf
  <2>3. CASE k > p
    <3> DEFINE i == k - 1
    <3>1. i \in 1 .. Len(s) - 1 /\ ~(i < p) /\ i + 1 = k
      BY <1>2, <2>1, <2>3
    <3> HIDE DEF i
    <3>2. w[i] = s[k]
      BY <1>1, <3>1
    <3>3. i \in PlacesOf(w, S)
      BY <1>3, <2>1, <3>1, <3>2 DEF PlacesOf
    <3>4. f[i] = k
      BY <3>1, <3>3
    <3> QED
      BY <3>3, <3>4
  <2> QED
    BY <1>2, <2>1, <2>2, <2>3
<1>7. f \in Bijection(PlacesOf(w, S), PlacesOf(s, S) \ {p})
  <2>1. f \in [PlacesOf(w, S) -> PlacesOf(s, S) \ {p}]
    BY <1>4
  <2> HIDE DEF f
  <2> QED
    BY <1>5, <1>6, <2>1 DEF Bijection, Injection, Surjection, IsInjective
<1> HIDE DEF f
<1>8. IsFiniteSet(PlacesOf(s, S)) /\ IsFiniteSet(PlacesOf(w, S))
  BY <1>1, NumberType
<1>9. Cardinality(PlacesOf(s, S) \ {p}) = Cardinality(PlacesOf(w, S))
  BY <1>7, <1>8, FS_Bijection DEF ExistsBijection
<1>10. Cardinality(PlacesOf(s, S) \ {p}) =
         IF p \in PlacesOf(s, S) THEN Cardinality(PlacesOf(s, S)) - 1
         ELSE Cardinality(PlacesOf(s, S))
  BY <1>8, FS_RemoveElement
<1>11. p \in PlacesOf(s, S) <=> s[p] \in S
  BY <1>2 DEF PlacesOf
<1>12. Number(s, S) \in Nat
  BY NumberType
<1> QED
  BY <1>9, <1>10, <1>11, <1>12 DEF Number, w

\* The front of a sequence, and how it differs from all of it.
LEMMA NumberFront ==
  ASSUME NEW T, NEW s \in Seq(T), NEW n \in 0 .. Len(s), NEW S
  PROVE  /\ SubSeq(s, 1, n) \in Seq(T)
         /\ Number(SubSeq(s, 1, n), S) <= Number(s, S)
         /\ (\A i \in n + 1 .. Len(s) : s[i] \notin S) =>
              Number(SubSeq(s, 1, n), S) = Number(s, S)
<1> DEFINE w == SubSeq(s, 1, n)
<1>1. Len(s) \in Nat /\ DOMAIN s = 1 .. Len(s)
  BY LenProperties
<1>2. w \in Seq(T) /\ Len(w) = n /\ \A i \in 1 .. n : w[i] = s[i]
  <2>1. \A i \in 1 .. n : s[i] \in T
    BY <1>1, ElementOfSeq
  <2> QED
    BY <1>1, <2>1, SubSeqProperties
<1> HIDE DEF w
<1>3. DOMAIN w = 1 .. n
  BY <1>2
<1>4. PlacesOf(w, S) \subseteq PlacesOf(s, S)
  BY <1>1, <1>2, <1>3 DEF PlacesOf
<1>5. (\A i \in n + 1 .. Len(s) : s[i] \notin S) => PlacesOf(w, S) = PlacesOf(s, S)
  BY <1>1, <1>2, <1>3 DEF PlacesOf
<1>6. IsFiniteSet(PlacesOf(s, S))
  BY NumberType
<1>7. Number(w, S) <= Number(s, S)
  BY <1>4, <1>6, FS_Subset DEF Number
<1>8. (\A i \in n + 1 .. Len(s) : s[i] \notin S) => Number(w, S) = Number(s, S)
  BY <1>5 DEF Number
<1> QED
  BY <1>2, <1>7, <1>8 DEF w

LEMMA NumberConcat ==
  ASSUME NEW T, NEW a \in Seq(T), NEW b \in Seq(T), NEW S
  PROVE  Number(a \o b, S) = Number(a, S) + Number(b, S)
<1> DEFINE w == a \o b
           f == [i \in PlacesOf(b, S) |-> i + Len(a)]
           B == {k \in DOMAIN w : k > Len(a) /\ w[k] \in S}
<1>1. /\ Len(a) \in Nat /\ Len(b) \in Nat
      /\ DOMAIN a = 1 .. Len(a) /\ DOMAIN b = 1 .. Len(b)
  BY LenProperties
<1>2. /\ w \in Seq(T) /\ Len(w) = Len(a) + Len(b)
      /\ \A i \in 1 .. Len(a) + Len(b) : w[i] = IF i <= Len(a) THEN a[i] ELSE b[i - Len(a)]
  BY ConcatProperties
<1> HIDE DEF w
<1>3. DOMAIN w = 1 .. Len(a) + Len(b)
  BY <1>2
<1>4. PlacesOf(w, S) = PlacesOf(a, S) \cup B
  BY <1>1, <1>2, <1>3 DEF PlacesOf
<1>5. PlacesOf(a, S) \cap B = {}
  BY <1>1 DEF PlacesOf
<1>6. ASSUME NEW i \in PlacesOf(b, S) PROVE f[i] \in B
  <2> DEFINE k == i + Len(a)
  <2>1. i \in 1 .. Len(b) /\ b[i] \in S /\ f[i] = k
    BY <1>1 DEF PlacesOf
  <2>2. k \in 1 .. Len(a) + Len(b) /\ ~(k <= Len(a)) /\ k - Len(a) = i
    BY <1>1, <2>1
  <2> HIDE DEF k, f
  <2>3. w[k] = b[i]
    BY <1>2, <2>2
  <2> QED
    BY <1>1, <1>3, <2>1, <2>2, <2>3
<1>7. ASSUME NEW k \in B PROVE \E i \in PlacesOf(b, S) : f[i] = k
  <2> DEFINE i == k - Len(a)
  <2>1. k \in 1 .. Len(a) + Len(b) /\ k > Len(a) /\ w[k] \in S
    BY <1>3
  <2>2. i \in 1 .. Len(b) /\ i + Len(a) = k /\ b[i] = w[k]
    BY <1>1, <1>2, <2>1
  <2> HIDE DEF i
  <2>3. i \in PlacesOf(b, S)
    BY <1>1, <2>1, <2>2 DEF PlacesOf
  <2> QED
    BY <2>2, <2>3
<1>8. \A i, j \in PlacesOf(b, S) : f[i] = f[j] => i = j
  BY <1>1 DEF PlacesOf
<1>9. f \in Bijection(PlacesOf(b, S), B)
  <2>1. f \in [PlacesOf(b, S) -> B]
    BY <1>6
  <2> HIDE DEF f, B
  <2> QED
    BY <1>7, <1>8, <2>1 DEF Bijection, Injection, Surjection, IsInjective
<1>10. IsFiniteSet(PlacesOf(a, S)) /\ IsFiniteSet(PlacesOf(b, S))
  BY NumberType
<1> HIDE DEF f, B
<1>11. IsFiniteSet(B) /\ Cardinality(B) = Cardinality(PlacesOf(b, S))
  BY <1>9, <1>10, FS_Bijection DEF ExistsBijection
<1>12. Cardinality(PlacesOf(a, S) \cup B) =
         Cardinality(PlacesOf(a, S)) + Cardinality(B) - Cardinality({})
  BY <1>5, <1>10, <1>11, FS_Union
<1>13. Cardinality(B) = Number(b, S) /\ Cardinality(PlacesOf(a, S)) = Number(a, S)
  BY <1>11 DEF Number
<1>14. Number(a, S) \in Nat /\ Number(b, S) \in Nat
  BY NumberType
<1>15. Cardinality(PlacesOf(w, S)) = Number(a, S) + Number(b, S)
  BY <1>4, <1>12, <1>13, <1>14, FS_EmptySet
<1> QED
  BY <1>15 DEF Number, w

LEMMA NumberAppend ==
  ASSUME NEW T, NEW s \in Seq(T), NEW e \in T, NEW S
  PROVE  Number(Append(s, e), S) = Number(s, S) + IF e \in S THEN 1 ELSE 0
<1>1. <<e>> \in Seq(T) /\ Append(s, e) = s \o <<e>>
  BY AppendIsConcat
<1>2. Number(s \o <<e>>, S) = Number(s, S) + Number(<<e>>, S)
  BY <1>1, NumberConcat
<1> QED
  BY <1>1, <1>2, NumberSingle

LEMMA NumberTail ==
  ASSUME NEW T, NEW s \in Seq(T), s # <<>>, NEW S
  PROVE  Number(s, S) = Number(Tail(s), S) + IF Head(s) \in S THEN 1 ELSE 0
<1>1. Len(s) \in Nat \ {0} /\ Head(s) = s[1] /\ Head(s) \in T
  BY EmptySeq, LenProperties, HeadTailProperties
<1>2. /\ RemoveAt(s, 1) \in Seq(T) /\ Len(RemoveAt(s, 1)) = Len(s) - 1
      /\ \A i \in 1 .. Len(s) - 1 : RemoveAt(s, 1)[i] = s[i + 1]
  BY <1>1, RemoveAtProperties
<1>3. /\ Tail(s) \in Seq(T) /\ Len(Tail(s)) = Len(s) - 1
      /\ \A i \in 1 .. Len(s) - 1 : Tail(s)[i] = s[i + 1]
  BY HeadTailProperties
<1>4. RemoveAt(s, 1) = Tail(s)
  BY <1>2, <1>3, SeqEqual
<1>5. Number(RemoveAt(s, 1), S) = Number(s, S) - IF s[1] \in S THEN 1 ELSE 0
  BY <1>1, NumberRemoveAt
<1>6. Number(s, S) \in Nat
  BY NumberType
<1>7. Number(Tail(s), S) = Number(s, S) - IF Head(s) \in S THEN 1 ELSE 0
  BY <1>1, <1>4, <1>5
<1> QED
  BY <1>6, <1>7


--------------------------------------------------------------------------------
(* The entries of a sequence as a set.                                     *)

LEMMA HoldsEmpty == ToSet(<<>>) = {}
BY DEF ToSet

LEMMA HoldsSingle == ASSUME NEW e PROVE ToSet(<<e>>) = {e}
BY DEF ToSet

LEMMA HoldsType == ASSUME NEW T, NEW s \in Seq(T) PROVE ToSet(s) \subseteq T
<1>1. DOMAIN s = 1 .. Len(s) /\ \A i \in 1 .. Len(s) : s[i] \in T
  BY LenProperties, ElementOfSeq
<1> QED
  BY <1>1 DEF ToSet

LEMMA HoldsTail ==
  ASSUME NEW T, NEW s \in Seq(T), s # <<>>
  PROVE  /\ Head(s) \in T /\ Tail(s) \in Seq(T)
         /\ ToSet(s) = {Head(s)} \cup ToSet(Tail(s))
<1>1. /\ Len(s) \in Nat \ {0} /\ Head(s) = s[1] /\ Head(s) \in T
      /\ DOMAIN s = 1 .. Len(s)
  BY EmptySeq, LenProperties, HeadTailProperties
<1>2. /\ Tail(s) \in Seq(T) /\ Len(Tail(s)) = Len(s) - 1
      /\ \A i \in 1 .. Len(s) - 1 : Tail(s)[i] = s[i + 1]
  BY HeadTailProperties
<1>3. DOMAIN Tail(s) = 1 .. Len(s) - 1
  BY <1>2, LenProperties
<1>4. ASSUME NEW i \in DOMAIN s PROVE s[i] \in {Head(s)} \cup ToSet(Tail(s))
  <2>1. CASE i = 1
    BY <1>1, <2>1
  <2>2. CASE i # 1
    <3>1. i - 1 \in DOMAIN Tail(s) /\ Tail(s)[i - 1] = s[i]
      BY <1>1, <1>2, <1>3, <2>2
    <3> QED
      BY <3>1 DEF ToSet
  <2> QED
    BY <2>1, <2>2
<1>5. ASSUME NEW i \in DOMAIN Tail(s) PROVE Tail(s)[i] \in ToSet(s)
  <2>1. i + 1 \in DOMAIN s /\ Tail(s)[i] = s[i + 1]
    BY <1>1, <1>2, <1>3
  <2> QED
    BY <2>1 DEF ToSet
<1>6. Head(s) \in ToSet(s)
  BY <1>1 DEF ToSet
<1> QED
  BY <1>1, <1>2, <1>4, <1>5, <1>6 DEF ToSet

LEMMA HoldsConcat ==
  ASSUME NEW T, NEW a \in Seq(T), NEW b \in Seq(T)
  PROVE  a \o b \in Seq(T) /\ ToSet(a \o b) = ToSet(a) \cup ToSet(b)
<1> DEFINE w == a \o b
<1>1. /\ Len(a) \in Nat /\ Len(b) \in Nat
      /\ DOMAIN a = 1 .. Len(a) /\ DOMAIN b = 1 .. Len(b)
  BY LenProperties
<1>2. /\ w \in Seq(T) /\ Len(w) = Len(a) + Len(b)
      /\ \A i \in 1 .. Len(a) + Len(b) : w[i] = IF i <= Len(a) THEN a[i] ELSE b[i - Len(a)]
  BY ConcatProperties
<1> HIDE DEF w
<1>3. DOMAIN w = 1 .. Len(a) + Len(b)
  BY <1>2
<1>4. ASSUME NEW i \in DOMAIN w PROVE w[i] \in ToSet(a) \cup ToSet(b)
  <2>1. CASE i <= Len(a)
    BY <1>1, <1>2, <1>3, <2>1 DEF ToSet
  <2>2. CASE i > Len(a)
    <3>1. i - Len(a) \in DOMAIN b /\ w[i] = b[i - Len(a)]
      BY <1>1, <1>2, <1>3, <2>2
    <3> QED
      BY <3>1 DEF ToSet
  <2> QED
    BY <1>1, <1>3, <2>1, <2>2
<1>5. ASSUME NEW i \in DOMAIN a PROVE a[i] \in ToSet(w)
  <2>1. i \in DOMAIN w /\ w[i] = a[i]
    BY <1>1, <1>2, <1>3
  <2> QED
    BY <2>1 DEF ToSet
<1>6. ASSUME NEW i \in DOMAIN b PROVE b[i] \in ToSet(w)
  <2>1. i + Len(a) \in 1 .. Len(a) + Len(b) /\ ~(i + Len(a) <= Len(a)) /\ i + Len(a) - Len(a) = i
    BY <1>1
  <2>2. w[i + Len(a)] = b[i]
    BY <1>2, <2>1
  <2> QED
    BY <1>3, <2>1, <2>2 DEF ToSet
<1>7. ToSet(w) \subseteq ToSet(a) \cup ToSet(b)
  <2> SUFFICES ASSUME NEW e \in ToSet(w) PROVE e \in ToSet(a) \cup ToSet(b)
    OBVIOUS
  <2>1. PICK i \in DOMAIN w : e = w[i]
    BY DEF ToSet
  <2> QED
    BY <1>4, <2>1
<1>8. ToSet(a) \subseteq ToSet(w) /\ ToSet(b) \subseteq ToSet(w)
  BY <1>5, <1>6 DEF ToSet
<1> QED
  BY <1>2, <1>7, <1>8 DEF w

LEMMA HoldsAppend ==
  ASSUME NEW T, NEW s \in Seq(T), NEW e \in T
  PROVE  Append(s, e) \in Seq(T) /\ ToSet(Append(s, e)) = ToSet(s) \cup {e}
<1>1. <<e>> \in Seq(T) /\ Append(s, e) = s \o <<e>>
  BY AppendIsConcat
<1>2. s \o <<e>> \in Seq(T) /\ ToSet(s \o <<e>>) = ToSet(s) \cup ToSet(<<e>>)
  BY <1>1, HoldsConcat
<1>3. ToSet(<<e>>) = {e}
  BY HoldsSingle
<1> QED
  BY <1>1, <1>2, <1>3, Zenon

\* Two entries, one after the other.
LEMMA AppendPair == ASSUME NEW a, NEW b PROVE Append(<<a>>, b) = <<a, b>>
<1>1. PICK T : T = {a, b}
  OBVIOUS
<1>2. PICK s : s = <<a>>
  OBVIOUS
<1>3. PICK both : both = <<a, b>>
  OBVIOUS
<1>4. s \in Seq(T) /\ Len(s) = 1 /\ s[1] = a /\ b \in T
  BY <1>1, <1>2
<1>5. both \in Seq(T) /\ Len(both) = 2 /\ both[1] = a /\ both[2] = b
  BY <1>1, <1>3
<1>6. Append(s, b) \in Seq(T) /\ Len(Append(s, b)) = Len(s) + 1
      /\ (\A i \in 1 .. Len(s) : Append(s, b)[i] = s[i])
      /\ Append(s, b)[Len(s) + 1] = b
  <2>1. b \in T /\ s \in Seq(T)
    BY <1>4
  <2>2. Append(s, b) \in Seq(T)
    BY <2>1
  <2>3. Len(Append(s, b)) = Len(s) + 1
    BY <2>1
  <2>4. Append(s, b)[Len(s) + 1] = b
    BY <2>1
  <2>5. \A i \in 1 .. Len(s) : Append(s, b)[i] = s[i]
    BY <2>1
  <2> QED
    BY <2>2, <2>3, <2>4, <2>5
<1>7. \A i \in 1 .. Len(both) : Append(s, b)[i] = both[i]
  BY <1>4, <1>5, <1>6
<1>8. Append(s, b) = both
  BY <1>4, <1>5, <1>6, <1>7, SeqEqual
<1> QED
  BY <1>8, <1>2, <1>3

LEMMA NothingHeld ==
  ASSUME NEW T, NEW s \in Seq(T), ToSet(s) = {}
  PROVE  s = <<>>
<1>1. DOMAIN s = 1 .. Len(s) /\ Len(s) \in Nat
  BY LenProperties
<1>2. DOMAIN s = {}
  BY DEF ToSet
<1>3. Len(s) = 0
  BY <1>1, <1>2
<1> QED
  BY <1>3, EmptySeq

LEMMA NumberNone ==
  ASSUME NEW T, NEW s \in Seq(T), NEW S
  PROVE  /\ Number(s, S) \in Nat
         /\ Number(s, S) = 0 <=> ToSet(s) \cap S = {}
<1>1. ToSet(s) \cap S = {} <=> \A i \in DOMAIN s : s[i] \notin S
  BY DEF ToSet
<1> QED
  BY <1>1, NumberType

\* Where an element is replaced or taken out, the others stay.
LEMMA OthersHold ==
  ASSUME NEW T, NEW s \in Seq(T), NEW i \in 1 .. Len(s)
  PROVE  /\ ToSet(s) \subseteq {s[i]} \cup ToSet(RemoveAt(s, i))
         /\ \A e \in T : /\ ToSet(s) \subseteq {s[i]} \cup ToSet([s EXCEPT ![i] = e])
                         /\ e \in ToSet([s EXCEPT ![i] = e])
<1>1. DOMAIN s = 1 .. Len(s) /\ Len(s) \in Nat
  BY LenProperties
<1>2. /\ RemoveAt(s, i) \in Seq(T) /\ Len(RemoveAt(s, i)) = Len(s) - 1
      /\ \A j \in 1 .. Len(s) - 1 : RemoveAt(s, i)[j] = IF j < i THEN s[j] ELSE s[j + 1]
  BY RemoveAtProperties
<1>3. DOMAIN RemoveAt(s, i) = 1 .. Len(s) - 1
  BY <1>2, LenProperties
<1>4. ASSUME NEW j \in 1 .. Len(s), j # i
      PROVE  s[j] \in ToSet(RemoveAt(s, i))
  <2>1. CASE j < i
    <3>1. j \in 1 .. Len(s) - 1 /\ RemoveAt(s, i)[j] = s[j]
      BY <1>1, <1>2, <2>1
    <3> QED
      BY <1>3, <3>1 DEF ToSet
  <2>2. CASE j > i
    <3>1. j - 1 \in 1 .. Len(s) - 1 /\ ~(j - 1 < i) /\ (j - 1) + 1 = j
      BY <1>1, <2>2
    <3>2. RemoveAt(s, i)[j - 1] = s[j]
      BY <1>2, <3>1
    <3> QED
      BY <1>3, <3>1, <3>2 DEF ToSet
  <2> QED
    BY <1>1, <1>4, <2>1, <2>2
<1>5. ASSUME NEW e \in T
      PROVE  /\ ToSet(s) \subseteq {s[i]} \cup ToSet([s EXCEPT ![i] = e])
             /\ e \in ToSet([s EXCEPT ![i] = e])
  BY <1>1 DEF ToSet
<1> QED
  BY <1>1, <1>4, <1>5 DEF ToSet

\* Nothing comes in where something is taken out.
LEMMA RemoveAtHolds ==
  ASSUME NEW T, NEW s \in Seq(T), NEW i \in 1 .. Len(s)
  PROVE  ToSet(RemoveAt(s, i)) \subseteq ToSet(s)
<1>1. DOMAIN s = 1 .. Len(s) /\ Len(s) \in Nat
  BY LenProperties
<1>2. /\ RemoveAt(s, i) \in Seq(T) /\ Len(RemoveAt(s, i)) = Len(s) - 1
      /\ \A j \in 1 .. Len(s) - 1 : RemoveAt(s, i)[j] = IF j < i THEN s[j] ELSE s[j + 1]
  BY RemoveAtProperties
<1>3. DOMAIN RemoveAt(s, i) = 1 .. Len(s) - 1
  BY <1>2, LenProperties
<1>4. \A j \in 1 .. Len(s) - 1 : j \in 1 .. Len(s) /\ j + 1 \in 1 .. Len(s)
  BY <1>1
<1>5. ASSUME NEW j \in 1 .. Len(s) - 1
      PROVE  RemoveAt(s, i)[j] \in ToSet(s)
  <2>1. CASE j < i
    BY <1>1, <1>2, <1>4, <2>1 DEF ToSet
  <2>2. CASE ~(j < i)
    BY <1>1, <1>2, <1>4, <2>2 DEF ToSet
  <2> QED
    BY <2>1, <2>2
<1> QED
  BY <1>3, <1>5 DEF ToSet

--------------------------------------------------------------------------------
(* Sequences of whatever they hold.                                        *)

IsList(s) == s \in Seq(ToSet(s))

\* A sequence over any set is a list of what it holds.
LEMMA ListOf == ASSUME NEW T, NEW s \in Seq(T) PROVE IsList(s)
<1>1. Len(s) \in Nat /\ DOMAIN s = 1 .. Len(s)
  BY LenProperties
<1>2. \A i \in 1 .. Len(s) : s[i] \in ToSet(s)
  BY <1>1 DEF ToSet
<1>3. s = [i \in 1 .. Len(s) |-> s[i]]
  BY <1>1
<1>4. s \in [1 .. Len(s) -> ToSet(s)]
  BY <1>2, <1>3
<1> QED
  BY <1>1, <1>4, SeqDef DEF IsList

\* The empty list.
LEMMA ListEmpty == IsList(<<>>) /\ ToSet(<<>>) = {} /\ \A S : Number(<<>>, S) = 0
BY NumberEmpty, HoldsEmpty DEF IsList

\* A list of one entry.
LEMMA ListSingle ==
  ASSUME NEW e
  PROVE  IsList(<<e>>) /\ ToSet(<<e>>) = {e} /\ \A S : Number(<<e>>, S) = IF e \in S THEN 1 ELSE 0
<1>1. <<e>> \in Seq({e})
  OBVIOUS
<1> QED
  BY <1>1, HoldsSingle, NumberSingle DEF IsList

\* A list has no entry of a kind exactly when none it holds is of it.
LEMMA ListNumber ==
  ASSUME NEW s, IsList(s), NEW S
  PROVE  Number(s, S) \in Nat /\ (Number(s, S) = 0 <=> ToSet(s) \cap S = {})
BY NumberNone DEF IsList

\* A sequence over a set is one over every larger set.
LEMMA SeqWider == ASSUME NEW A, NEW B, A \subseteq B, NEW s \in Seq(A) PROVE s \in Seq(B)
<1>1. Len(s) \in Nat /\ DOMAIN s = 1 .. Len(s) /\ \A i \in 1 .. Len(s) : s[i] \in A
  BY LenProperties, ElementOfSeq
<1>2. s = [i \in 1 .. Len(s) |-> s[i]]
  BY <1>1
<1>3. s \in [1 .. Len(s) -> B]
  BY <1>1, <1>2
<1> QED
  BY <1>1, <1>3, SeqDef

\* A list behind another.
LEMMA ListConcat ==
  ASSUME NEW s, IsList(s), NEW t, IsList(t)
  PROVE  /\ IsList(s \o t) /\ ToSet(s \o t) = ToSet(s) \cup ToSet(t)
         /\ \A S : Number(s \o t, S) = Number(s, S) + Number(t, S)
<1> DEFINE T == ToSet(s) \cup ToSet(t)
<1>1. s \in Seq(T) /\ t \in Seq(T)
  <2>1. ToSet(s) \subseteq T /\ ToSet(t) \subseteq T
    OBVIOUS
  <2>2. s \in Seq(ToSet(s)) /\ t \in Seq(ToSet(t))
    BY DEF IsList
  <2> HIDE DEF T
  <2> QED
    BY <2>1, <2>2, SeqWider
<1>2. s \o t \in Seq(T) /\ ToSet(s \o t) = T
  BY <1>1, HoldsConcat
<1>3. \A S : Number(s \o t, S) = Number(s, S) + Number(t, S)
  BY <1>1, NumberConcat
<1> QED
  BY <1>2, <1>3 DEF IsList

\* An entry behind the others.
LEMMA ListAppend ==
  ASSUME NEW s, IsList(s), NEW e
  PROVE  /\ IsList(Append(s, e)) /\ ToSet(Append(s, e)) = ToSet(s) \cup {e}
         /\ \A S : Number(Append(s, e), S) = Number(s, S) + IF e \in S THEN 1 ELSE 0
<1> DEFINE T == ToSet(s) \cup {e}
<1>1. s \in Seq(T) /\ e \in T
  <2>1. ToSet(s) \subseteq T /\ s \in Seq(ToSet(s)) /\ e \in T
    BY DEF IsList
  <2> HIDE DEF T
  <2> QED
    BY <2>1, SeqWider
<1>2. Append(s, e) \in Seq(T) /\ ToSet(Append(s, e)) = T
  BY <1>1, HoldsAppend
<1>3. \A S : Number(Append(s, e), S) = Number(s, S) + IF e \in S THEN 1 ELSE 0
  BY <1>1, NumberAppend
<1> QED
  BY <1>2, <1>3 DEF IsList

\* The first entry taken off.
LEMMA ListTail ==
  ASSUME NEW s, IsList(s), s # <<>>
  PROVE  /\ IsList(Tail(s)) /\ ToSet(s) = {Head(s)} \cup ToSet(Tail(s))
         /\ \A S : Number(s, S) = Number(Tail(s), S) + IF Head(s) \in S THEN 1 ELSE 0
<1>1. s \in Seq(ToSet(s))
  BY DEF IsList
<1>2. Tail(s) \in Seq(ToSet(s)) /\ ToSet(s) = {Head(s)} \cup ToSet(Tail(s))
  BY <1>1, HoldsTail
<1>3. \A S : Number(s, S) = Number(Tail(s), S) + IF Head(s) \in S THEN 1 ELSE 0
  BY <1>1, NumberTail
<1> QED
  BY <1>2, <1>3, ListOf

\* An entry taken out anywhere.
LEMMA ListRemove ==
  ASSUME NEW s, IsList(s), NEW i \in DOMAIN s
  PROVE  /\ IsList(RemoveAt(s, i)) /\ s[i] \in ToSet(s)
         /\ ToSet(s) = {s[i]} \cup ToSet(RemoveAt(s, i))
         /\ \A S : Number(s, S) = Number(RemoveAt(s, i), S) + IF s[i] \in S THEN 1 ELSE 0
<1>1. s \in Seq(ToSet(s)) /\ i \in 1 .. Len(s) /\ s[i] \in ToSet(s)
  BY LenProperties DEF IsList, ToSet
<1>2. IsList(RemoveAt(s, i))
  BY <1>1, RemoveAtProperties, ListOf
<1>3. ToSet(s) = {s[i]} \cup ToSet(RemoveAt(s, i))
  BY <1>1, OthersHold, RemoveAtHolds
<1>4. ASSUME NEW S
      PROVE  Number(s, S) = Number(RemoveAt(s, i), S) + IF s[i] \in S THEN 1 ELSE 0
  BY <1>1, <1>2, NumberRemoveAt, ListNumber, NumberNone
<1> QED
  BY <1>1, <1>2, <1>3, <1>4

\* Each entry is replaced by what an operator f, given as a function, makes of it.
LEMMA ListEach ==
  ASSUME NEW s, IsList(s), NEW t, DOMAIN t = DOMAIN s, t = [i \in DOMAIN s |-> t[i]], NEW S,
         \A i \in DOMAIN s : s[i] \in S <=> t[i] \in S
  PROVE  IsList(t) /\ Number(t, S) = Number(s, S)
<1>1. Len(s) \in Nat /\ DOMAIN s = 1 .. Len(s)
  BY LenProperties DEF IsList
<1>2. t \in [1 .. Len(s) -> ToSet(t)]
  BY <1>1 DEF ToSet
<1>3. IsList(t)
  BY <1>1, <1>2, SeqDef DEF IsList
<1>4. PlacesOf(t, S) = PlacesOf(s, S)
  BY DEF PlacesOf
<1> QED
  BY <1>3, <1>4 DEF Number

\* One entry is replaced.
LEMMA ListReplaced ==
  ASSUME NEW s, IsList(s), NEW i \in DOMAIN s, NEW e, NEW S, s[i] \in S <=> e \in S,
         NEW t, DOMAIN t = DOMAIN s, t = [j \in DOMAIN s |-> t[j]], t[i] = e,
         \A j \in DOMAIN s : j # i => t[j] = s[j]
  PROVE  /\ IsList(t) /\ ToSet(t) \subseteq ToSet(s) \cup {e}
         /\ ToSet(s) \subseteq {s[i]} \cup ToSet(t)
         /\ Number(t, S) = Number(s, S)
<1>1. \A j \in DOMAIN s : s[j] \in S <=> t[j] \in S
  OBVIOUS
<1>2. IsList(t) /\ Number(t, S) = Number(s, S)
  BY <1>1, ListEach
<1>3. ToSet(t) \subseteq ToSet(s) \cup {e} /\ ToSet(s) \subseteq {s[i]} \cup ToSet(t)
  BY DEF ToSet
<1> QED
  BY <1>2, <1>3
================================================================================
