---------------------------- MODULE SchedulerProofs ----------------------------
(***************************************************************************)
(* The scheduler for any set of operations, queue capacity, frame times    *)
(* and bounds, in four layers, each an inductive invariant over the one    *)
(* before:                                                                 *)
(*   SchedInv   types, and that the thread never sleeps with work to do;   *)
(*   PathInv    where the walk stands in the list, and what an item keeps; *)
(*   OrderInv   who owns an item and how many turns it had, when no        *)
(*              interval operation is late (Orderly);                      *)
(*   LedgerInv  that turns, modem, event queue and done list agree.        *)
(* The last section maps every step to a step of OpLife.                   *)
(***************************************************************************)
EXTENDS Scheduler, SeqFacts

--------------------------------------------------------------------------------
(* The list operators of SchedList, for every list length and every set of *)
(* operations.                                                             *)

\* list_item_remove_by_item() takes the node out where it finds it, or leaves
\* the list alone.
LEMMA WithoutProperties ==
  ASSUME NEW S, NEW s \in Seq(S), NEW op
  PROVE  \/ /\ \A i \in DOMAIN s : s[i] # op
            /\ Without(s, op) = s
         \/ \E p \in 1 .. Len(s) :
              /\ s[p] = op
              /\ \A i \in 1 .. p - 1 : s[i] # op
              /\ Without(s, op) = RemoveAt(s, p)
<1>1. CASE ~\E i \in 1 .. Len(s) : s[i] = op
  BY <1>1 DEF Without, RemoveFirst
<1>2. CASE \E i \in 1 .. Len(s) : s[i] = op
  <2> DEFINE I == {i \in 1 .. Len(s) : s[i] = op}
  <2>1. I # {} /\ I \subseteq Nat
    BY <1>2
  <2>2. Min(I) \in I /\ \A x \in I : Min(I) <= x
    BY <2>1, MinExists
  <2>3. Without(s, op) = RemoveAt(s, Min(I))
    BY <1>2, <2>1 DEF Without, RemoveFirst, SelectInSeq
  <2> HIDE DEF I
  <2>4. Min(I) \in 1 .. Len(s) /\ s[Min(I)] = op
    BY <2>2 DEF I
  <2>5. \A i \in 1 .. Min(I) - 1 : s[i] # op
    BY <2>2, <2>4 DEF I
  <2> QED
    BY <2>3, <2>4, <2>5
<1> QED
  BY <1>1, <1>2

\* list_item_add() either refuses or names a position of the longer list.
LEMMA PlaceRange ==
  ASSUME NEW S, NEW s \in Seq(S), NEW items, NEW new
  PROVE  Place(new, s, items) \in 0 .. Len(s) + 1
<1>1. CASE StopsAt(new, s, items) = {}
  BY <1>1 DEF Place
<1>2. CASE StopsAt(new, s, items) # {}
  <2>1. StopsAt(new, s, items) \subseteq 1 .. Len(s)
    BY DEF StopsAt
  <2>2. Min(StopsAt(new, s, items)) \in 1 .. Len(s)
    BY <1>2, <2>1, MinExists
  <2> QED
    BY <1>2, <2>2 DEF Place
<1> QED
  BY <1>1, <1>2

\* What list_item_add() returns, in terms of InsertAt.
LEMMA AddToProperties ==
  ASSUME NEW S, NEW s \in Seq(S), NEW items, NEW op \in S, NEW c
  PROVE  LET r == AddTo(s, items, op, c) IN
         /\ r.ok \in BOOLEAN
         /\ r.list \in Seq(S)
         /\ r.wake \in {"none", "event", "timer"}
         /\ ~r.ok => r.list = s
         /\ r.ok => /\ Place(c, s, items) \in 1 .. Len(s) + 1
                    /\ r.list = InsertAt(s, Place(c, s, items), op)
                    /\ r.wake # "none"
         /\ r.wake = "event" => s = <<>>
<1> DEFINE p == Place(c, s, items)
<1>1. p \in 0 .. Len(s) + 1
  BY PlaceRange
<1>2. p # 0 => InsertAt(s, p, op) \in Seq(S)
  BY <1>1, InsertAtProperties
<1> HIDE DEF p
<1>3. CASE ~FitsInFrame(c)
  BY <1>3 DEF AddTo
<1>4. CASE FitsInFrame(c)
  <2>1. AddTo(s, items, op, c) =
          [ok   |-> p # 0,
           list |-> IF p = 0 THEN s ELSE InsertAt(s, p, op),
           wake |-> IF s = <<>> THEN "event" ELSE "timer"]
    BY <1>4 DEF AddTo, p
  <2>2. p # 0 => p \in 1 .. Len(s) + 1
    BY <1>1
  <2>3. /\ AddTo(s, items, op, c).ok = (p # 0)
        /\ AddTo(s, items, op, c).list = IF p = 0 THEN s ELSE InsertAt(s, p, op)
        /\ AddTo(s, items, op, c).wake = IF s = <<>> THEN "event" ELSE "timer"
    BY <2>1
  <2> HIDE DEF p
  <2> DEFINE ins == InsertAt(s, p, op)
             add == AddTo(s, items, op, c)
  <2>4. p # 0 => ins \in Seq(S)
    BY <1>2
  <2>5. /\ add.ok = (p # 0)
        /\ add.list = IF p = 0 THEN s ELSE ins
        /\ add.wake = IF s = <<>> THEN "event" ELSE "timer"
    BY <2>3
  <2> HIDE DEF ins, add
  <2>6. /\ add.ok \in BOOLEAN
        /\ add.list \in Seq(S)
        /\ add.wake \in {"none", "event", "timer"}
        /\ ~add.ok => add.list = s
        /\ add.ok => p \in 1 .. Len(s) + 1 /\ add.list = ins /\ add.wake # "none"
        /\ add.wake = "event" => s = <<>>
    BY <2>2, <2>4, <2>5
  <2> QED
    BY <2>6 DEF add, ins, p
<1> QED
  BY <1>3, <1>4

--------------------------------------------------------------------------------
(* Lists without repetition: a node is linked at most once.                *)

\* Removing a node keeps the list free of repetitions, takes the node out and
\* nothing else.
LEMMA WithoutDistinct ==
  ASSUME NEW S, NEW s \in Seq(S), NEW op, Distinct(s)
  PROVE  /\ Without(s, op) \in Seq(S)
         /\ Distinct(Without(s, op))
         /\ \A i \in 1 .. Len(Without(s, op)) :
              /\ Without(s, op)[i] # op
              /\ \E j \in 1 .. Len(s) : Without(s, op)[i] = s[j]
<1> DEFINE w == Without(s, op)
<1>1. CASE /\ \A i \in DOMAIN s : s[i] # op
           /\ w = s
  BY <1>1
<1>2. ASSUME NEW p \in 1 .. Len(s), s[p] = op, w = RemoveAt(s, p)
      PROVE  /\ w \in Seq(S) /\ Distinct(w)
             /\ \A i \in 1 .. Len(w) : w[i] # op /\ \E j \in 1 .. Len(s) : w[i] = s[j]
  <2> HIDE DEF w
  <2>1. /\ w \in Seq(S) /\ Len(w) = Len(s) - 1
        /\ \A i \in 1 .. Len(s) - 1 : w[i] = IF i < p THEN s[i] ELSE s[i + 1]
    BY <1>2, RemoveAtProperties
  <2>2. ASSUME NEW i \in 1 .. Len(w), NEW j \in 1 .. Len(w), w[i] = w[j]
        PROVE  i = j
    <3> DEFINE f(k) == IF k < p THEN k ELSE k + 1
    <3>1. w[i] = s[f(i)] /\ w[j] = s[f(j)]
      BY <2>1
    <3>2. f(i) \in 1 .. Len(s) /\ f(j) \in 1 .. Len(s)
      BY <2>1
    <3>3. f(i) = f(j)
      BY <2>2, <3>1, <3>2 DEF Distinct
    <3> QED
      BY <2>1, <3>3
  <2>3. ASSUME NEW i \in 1 .. Len(w)
        PROVE  w[i] # op /\ \E j \in 1 .. Len(s) : w[i] = s[j]
    <3> DEFINE k == IF i < p THEN i ELSE i + 1
    <3>1. k \in 1 .. Len(s) /\ k # p /\ w[i] = s[k]
      BY <2>1
    <3> HIDE DEF k
    <3>2. w[i] # op
      BY <1>2, <3>1 DEF Distinct
    <3> QED
      BY <3>1, <3>2
  <2> QED
    BY <2>1, <2>2, <2>3 DEF Distinct
<1> HIDE DEF w
<1>3. \/ (\A i \in DOMAIN s : s[i] # op) /\ w = s
      \/ \E p \in 1 .. Len(s) : s[p] = op /\ w = RemoveAt(s, p)
  BY WithoutProperties DEF w
<1> QED
  BY <1>1, <1>2, <1>3 DEF w

\* Removing what is not there changes nothing.
LEMMA WithoutAbsent ==
  ASSUME NEW S, NEW s \in Seq(S), NEW op, \A i \in 1 .. Len(s) : s[i] # op
  PROVE  Without(s, op) = s
BY WithoutProperties

\* Removing the first node leaves the tail.
LEMMA WithoutHead ==
  ASSUME NEW S, NEW s \in Seq(S), s # <<>>
  PROVE  Without(s, s[1]) = Tail(s)
<1>1. PICK p \in 1 .. Len(s) : /\ \A i \in 1 .. p - 1 : s[i] # s[1]
                               /\ Without(s, s[1]) = RemoveAt(s, p)
  BY WithoutProperties, EmptySeq
<1>2. p = 1
  BY <1>1
<1>3. /\ RemoveAt(s, 1) \in Seq(S) /\ Len(RemoveAt(s, 1)) = Len(s) - 1
      /\ \A i \in 1 .. Len(s) - 1 : RemoveAt(s, 1)[i] = s[i + 1]
  BY <1>2, RemoveAtProperties
<1>4. /\ Tail(s) \in Seq(S) /\ Len(Tail(s)) = Len(s) - 1
      /\ \A i \in 1 .. Len(s) - 1 : Tail(s)[i] = s[i + 1]
  BY HeadTailProperties
<1>5. RemoveAt(s, 1) = Tail(s)
  BY <1>3, <1>4, SeqEqual
<1> QED
  BY <1>1, <1>2, <1>5

\* The successor the walk remembers is in the list, or there is none.
LEMMA AfterRange ==
  ASSUME NEW S, NEW s \in Seq(S), NEW op, NEW none
  PROVE  After(s, op, none) = none \/ \E i \in 1 .. Len(s) : After(s, op, none) = s[i]
<1>1. CASE \E i \in DOMAIN s : s[i] = op /\ i < Len(s)
  <2> DEFINE k == CHOOSE i \in DOMAIN s : s[i] = op /\ i < Len(s)
  <2>1. k \in 1 .. Len(s) /\ k < Len(s)
    BY <1>1
  <2>2. After(s, op, none) = s[k + 1]
    BY <1>1 DEF After
  <2> HIDE DEF k
  <2> QED
    BY <2>1, <2>2
<1>2. CASE ~\E i \in DOMAIN s : s[i] = op /\ i < Len(s)
  BY <1>2 DEF After
<1> QED
  BY <1>1, <1>2

\* The successor of the first node is the first node of the tail.
LEMMA AfterHead ==
  ASSUME NEW S, NEW s \in Seq(S), NEW none, s # <<>>, Distinct(s)
  PROVE  After(s, s[1], none) = HeadOr(Tail(s), none)
<1>1. /\ Tail(s) \in Seq(S) /\ Len(Tail(s)) = Len(s) - 1
      /\ \A i \in 1 .. Len(s) - 1 : Tail(s)[i] = s[i + 1]
  BY HeadTailProperties
<1>2. Len(s) \in Nat \ {0} /\ (Tail(s) = <<>> <=> Len(s) = 1)
  <2>1. Len(s) \in Nat \ {0}
    BY EmptySeq, LenProperties
  <2>2. Tail(s) = <<>> <=> Len(Tail(s)) = 0
    BY <1>1, EmptySeq
  <2> QED
    BY <1>1, <2>1, <2>2
<1>3. CASE Len(s) = 1
  BY <1>2, <1>3 DEF After, HeadOr
<1>4. CASE Len(s) # 1
  <2> DEFINE k == CHOOSE i \in DOMAIN s : s[i] = s[1] /\ i < Len(s)
  <2>1. 1 \in DOMAIN s /\ 1 < Len(s)
    BY <1>2, <1>4
  <2>2. k \in DOMAIN s /\ s[k] = s[1]
    BY <2>1
  <2>3. After(s, s[1], none) = s[k + 1]
    BY <2>1 DEF After
  <2> HIDE DEF k
  <2>4. k = 1
    BY <2>1, <2>2 DEF Distinct
  <2> QED
    BY <1>1, <1>2, <2>1, <2>3, <2>4 DEF HeadOr
<1> QED
  BY <1>3, <1>4

--------------------------------------------------------------------------------
(* What a list holds.                                                      *)

LEMMA HoldsWithout ==
  ASSUME NEW S, NEW s \in Seq(S), NEW op, Distinct(s)
  PROVE  ToSet(Without(s, op)) = ToSet(s) \ {op}
<1> DEFINE w == Without(s, op)
<1>1. CASE \A i \in DOMAIN s : s[i] # op
  <2>1. w = s
    BY <1>1, WithoutProperties
  <2> HIDE DEF w
  <2>2. ToSet(s) \ {op} = ToSet(s)
    BY <1>1 DEF ToSet
  <2> QED
    BY <2>1, <2>2 DEF w
<1>2. CASE \E i \in DOMAIN s : s[i] = op
  <2>1. PICK p \in 1 .. Len(s) : s[p] = op /\ w = RemoveAt(s, p)
    BY <1>2, WithoutProperties
  <2> HIDE DEF w
  <2>2. /\ w \in Seq(S) /\ Len(w) = Len(s) - 1 /\ Len(s) \in Nat
        /\ \A i \in 1 .. Len(s) - 1 : w[i] = IF i < p THEN s[i] ELSE s[i + 1]
    <3>1. /\ w \in Seq(S) /\ Len(w) = Len(s) - 1
          /\ \A i \in 1 .. Len(s) - 1 : w[i] = IF i < p THEN s[i] ELSE s[i + 1]
      BY <2>1, RemoveAtProperties
    <3> QED
      BY <3>1, LenProperties
  <2>3. DOMAIN w = 1 .. Len(s) - 1 /\ DOMAIN s = 1 .. Len(s)
    BY <2>2
  <2>4. ASSUME NEW i \in DOMAIN w PROVE w[i] \in ToSet(s) \ {op}
    <3>1. CASE i < p
      BY <2>1, <2>2, <2>3, <3>1 DEF ToSet, Distinct
    <3>2. CASE i >= p
      <4>1. i + 1 \in DOMAIN s /\ w[i] = s[i + 1] /\ i + 1 # p
        BY <2>1, <2>2, <2>3, <3>2
      <4> QED
        BY <2>1, <2>3, <4>1 DEF ToSet, Distinct
    <3> QED
      BY <2>1, <2>3, <3>1, <3>2
  <2>5. ASSUME NEW j \in DOMAIN s, s[j] # op PROVE \E i \in DOMAIN w : w[i] = s[j]
    <3>1. CASE j < p
      <4>1. j \in DOMAIN w /\ w[j] = s[j]
        BY <2>1, <2>2, <2>3, <3>1
      <4> QED
        BY <4>1
    <3>2. CASE j > p
      <4> DEFINE k == j - 1
      <4>1. k \in DOMAIN w /\ k >= p /\ k + 1 = j
        BY <2>1, <2>2, <2>3, <3>2
      <4> HIDE DEF k
      <4>2. w[k] = s[j]
        BY <2>1, <2>2, <2>3, <4>1
      <4> QED
        BY <4>1, <4>2
    <3> QED
      BY <2>1, <2>3, <2>5, <3>1, <3>2
  <2>6. ToSet(w) \subseteq ToSet(s) \ {op}
    BY <2>4 DEF ToSet
  <2>7. ToSet(s) \ {op} \subseteq ToSet(w)
    BY <2>5 DEF ToSet
  <2> QED
    BY <2>6, <2>7 DEF w
<1> QED
  BY <1>1, <1>2

LEMMA HoldsInsertAt ==
  ASSUME NEW S, NEW s \in Seq(S), NEW p \in 1 .. Len(s) + 1, NEW e \in S
  PROVE  ToSet(InsertAt(s, p, e)) = ToSet(s) \cup {e}
<1> DEFINE t == InsertAt(s, p, e)
<1>1. /\ t \in Seq(S) /\ Len(t) = Len(s) + 1 /\ Len(s) \in Nat
      /\ \A i \in 1 .. Len(s) + 1 :
           t[i] = IF i < p THEN s[i] ELSE IF i = p THEN e ELSE s[i - 1]
  BY InsertAtProperties, LenProperties
<1> HIDE DEF t
<1>2. DOMAIN t = 1 .. Len(s) + 1 /\ DOMAIN s = 1 .. Len(s)
  BY <1>1
<1>3. ASSUME NEW i \in DOMAIN t PROVE t[i] \in ToSet(s) \cup {e}
  <2>1. CASE i < p
    <3>1. i \in DOMAIN s /\ t[i] = s[i]
      BY <1>1, <1>2, <2>1
    <3> QED
      BY <3>1 DEF ToSet
  <2>2. CASE i = p
    BY <1>1, <1>2, <2>2
  <2>3. CASE i > p
    <3>1. i - 1 \in DOMAIN s /\ t[i] = s[i - 1]
      BY <1>1, <1>2, <2>3
    <3> QED
      BY <3>1 DEF ToSet
  <2> QED
    BY <1>1, <1>2, <2>1, <2>2, <2>3
<1>4. ASSUME NEW j \in DOMAIN s PROVE \E i \in DOMAIN t : t[i] = s[j]
  <2>1. CASE j < p
    <3>1. j \in DOMAIN t /\ t[j] = s[j]
      BY <1>1, <1>2, <2>1
    <3> QED
      BY <3>1
  <2>2. CASE j >= p
    <3> DEFINE k == j + 1
    <3>1. k \in DOMAIN t /\ k > p /\ k - 1 = j
      BY <1>1, <1>2, <2>2
    <3> HIDE DEF k
    <3>2. t[k] = s[j]
      BY <1>1, <1>2, <3>1
    <3> QED
      BY <3>1, <3>2
  <2> QED
    BY <1>1, <1>2, <2>1, <2>2
<1>5. p \in DOMAIN t /\ t[p] = e
  BY <1>1, <1>2
<1>6. ToSet(t) \subseteq ToSet(s) \cup {e}
  BY <1>3 DEF ToSet
<1>7. ToSet(s) \cup {e} \subseteq ToSet(t)
  BY <1>4, <1>5 DEF ToSet
<1> QED
  BY <1>6, <1>7 DEF t

\* list_item_add() takes the operation in or leaves the list alone.
LEMMA HoldsAddTo ==
  ASSUME NEW S, NEW s \in Seq(S), NEW items, NEW op \in S, NEW c
  PROVE  LET r == AddTo(s, items, op, c) IN
         /\ r.ok => ToSet(r.list) = ToSet(s) \cup {op}
         /\ ~r.ok => ToSet(r.list) = ToSet(s)
<1> DEFINE r == AddTo(s, items, op, c)
           p == Place(c, s, items)
<1>1. /\ ~r.ok => r.list = s
      /\ r.ok => p \in 1 .. Len(s) + 1 /\ r.list = InsertAt(s, p, op)
      /\ r.ok \in BOOLEAN
  BY AddToProperties
<1> HIDE DEF r, p
<1>2. CASE r.ok
  <2>1. ToSet(InsertAt(s, p, op)) = ToSet(s) \cup {op}
    BY <1>1, <1>2, HoldsInsertAt
  <2> QED
    BY <1>1, <1>2, <2>1 DEF r
<1>3. CASE ~r.ok
  BY <1>1, <1>3 DEF r
<1> QED
  BY <1>1, <1>2, <1>3

\* The successor of a node is another node of the list.
LEMMA AfterHeld ==
  ASSUME NEW S, NEW s \in Seq(S), Distinct(s), NEW op, NEW none
  PROVE  After(s, op, none) = none \/ After(s, op, none) \in ToSet(s) \ {op}
<1>1. CASE \E i \in DOMAIN s : s[i] = op /\ i < Len(s)
  <2>1. PICK i \in DOMAIN s : s[i] = op /\ i < Len(s) /\ After(s, op, none) = s[i + 1]
    <3> DEFINE k == CHOOSE i \in DOMAIN s : s[i] = op /\ i < Len(s)
    <3>1. k \in DOMAIN s /\ s[k] = op /\ k < Len(s)
      BY <1>1
    <3>2. After(s, op, none) = s[k + 1]
      BY <1>1 DEF After
    <3> HIDE DEF k
    <3> QED
      BY <3>1, <3>2
  <2>2. DOMAIN s = 1 .. Len(s) /\ Len(s) \in Nat
    BY LenProperties
  <2>3. i + 1 \in DOMAIN s /\ i + 1 # i
    BY <2>1, <2>2
  <2> QED
    BY <2>1, <2>2, <2>3 DEF ToSet, Distinct
<1>2. CASE ~\E i \in DOMAIN s : s[i] = op /\ i < Len(s)
  BY <1>2 DEF After
<1> QED
  BY <1>1, <1>2

--------------------------------------------------------------------------------
(* The order of the list.                                                  *)

InOrder(s, items) ==
  \A i, j \in DOMAIN s : i < j => items[s[i]].frame <= items[s[j]].frame

\* A removal keeps the order, whatever happens to the memory of the item.
LEMMA OrderWithout ==
  ASSUME NEW S, NEW s \in Seq(S), NEW op, Distinct(s), NEW items, NEW others,
         InOrder(s, items), \A e \in ToSet(s) \ {op} : others[e] = items[e]
  PROVE  InOrder(Without(s, op), others)
<1> DEFINE w == Without(s, op)
<1>1. CASE \A i \in DOMAIN s : s[i] # op
  <2>1. w = s
    BY <1>1, WithoutProperties
  <2> HIDE DEF w
  <2>2. \A i \in DOMAIN s : others[s[i]] = items[s[i]]
    BY <1>1 DEF ToSet
  <2>3. InOrder(s, others)
    BY <2>2 DEF InOrder
  <2> QED
    BY <2>1, <2>3 DEF w
<1>2. CASE \E i \in DOMAIN s : s[i] = op
  <2>1. PICK p \in 1 .. Len(s) : s[p] = op /\ w = RemoveAt(s, p)
    BY <1>2, WithoutProperties
  <2>2. ToSet(w) = ToSet(s) \ {op}
    BY HoldsWithout
  <2> HIDE DEF w
  <2>3. /\ w \in Seq(S) /\ Len(w) = Len(s) - 1
        /\ \A i \in 1 .. Len(s) - 1 : w[i] = IF i < p THEN s[i] ELSE s[i + 1]
    BY <2>1, RemoveAtProperties
  <2>4. DOMAIN w = 1 .. Len(s) - 1 /\ DOMAIN s = 1 .. Len(s) /\ Len(s) \in Nat
    BY <2>3, LenProperties
  <2>5. ASSUME NEW i \in DOMAIN w, NEW j \in DOMAIN w, i < j
        PROVE  items[w[i]].frame <= items[w[j]].frame
    <3> DEFINE a == IF i < p THEN i ELSE i + 1
               b == IF j < p THEN j ELSE j + 1
    <3>1. a \in DOMAIN s /\ b \in DOMAIN s /\ a < b
      BY <2>4, <2>5
    <3>2. w[i] = s[a] /\ w[j] = s[b]
      BY <2>3, <2>4
    <3> HIDE DEF a, b
    <3> QED
      BY <3>1, <3>2 DEF InOrder
  <2>6. \A i \in DOMAIN w : others[w[i]] = items[w[i]]
    BY <2>2 DEF ToSet
  <2>7. InOrder(w, others)
    BY <2>5, <2>6 DEF InOrder
  <2> QED
    BY <2>7 DEF w
<1> QED
  BY <1>1, <1>2

\* list_item_add() keeps a list of one priority in the order of its frames.
LEMMA OrderAddTo ==
  ASSUME NEW S, NEW s \in Seq(S), NEW op \in S, NEW c, NEW items, NEW others,
         InOrder(s, items), op \notin ToSet(s),
         \A e \in ToSet(s) : /\ items[e].frame \in Int /\ others[e] = items[e]
                             /\ items[e].prio = c.prio,
         c.frame \in Int, c.prio \in Nat, others[op] = c
  PROVE  InOrder(AddTo(s, items, op, c).list, others)
<1> DEFINE r == AddTo(s, items, op, c)
           p == Place(c, s, items)
           F == [i \in DOMAIN s |-> items[s[i]].frame]
<1>1. DOMAIN s = 1 .. Len(s) /\ Len(s) \in Nat
  BY LenProperties
<1>2. \A i \in DOMAIN s : /\ F[i] \in Int /\ others[s[i]].frame = F[i]
                          /\ items[s[i]].frame = F[i] /\ items[s[i]].prio = c.prio
  BY DEF ToSet
<1> HIDE DEF F
<1>3. \A i, j \in DOMAIN s : i < j => F[i] <= F[j]
  BY <1>2 DEF InOrder
<1>4. /\ ~r.ok => r.list = s
      /\ r.ok => p \in 1 .. Len(s) + 1 /\ r.list = InsertAt(s, p, op)
      /\ r.ok \in BOOLEAN
  BY AddToProperties
<1>5. p # 0 => /\ \A i \in DOMAIN s : i < p => F[i] <= c.frame
               /\ \A i \in DOMAIN s : i >= p => c.frame <= F[i]
  <2> DEFINE stops == StopsAt(c, s, items)
             k == Min(stops)
  <2>1. CASE stops = {}
    <3>1. p = Len(s) + 1
      BY <2>1 DEF Place
    <3>2. \A i \in DOMAIN s : ~(c.frame <= items[s[i]].frame)
      BY <2>1 DEF StopsAt
    <3> HIDE DEF p
    <3> QED
      BY <1>1, <1>2, <3>1, <3>2
  <2>2. CASE stops # {}
    <3>1. stops \subseteq DOMAIN s /\ stops \subseteq Nat
      BY <1>1 DEF StopsAt
    <3>2. k \in stops /\ \A i \in stops : k <= i
      <4> HIDE DEF stops
      <4> QED
        BY <2>2, <3>1, MinExists
    <3> DEFINE old == items[s[k]]
    <3>3. p = IF SeenOverlapping(c, old)
              THEN IF c.prio >= old.prio THEN 0 ELSE k
              ELSE IF c.frame = old.frame /\ StartTime(c) >= StartTime(old)
                   THEN k + 1
                   ELSE k
      BY <2>2 DEF Place
    <3>4. c.frame <= items[s[k]].frame \/ SeenOverlapping(c, items[s[k]])
      BY <3>2 DEF StopsAt
    <3>5. \A i \in DOMAIN s : i < k => ~(c.frame <= items[s[i]].frame)
      <4> SUFFICES ASSUME NEW i \in DOMAIN s, i < k, c.frame <= items[s[i]].frame
                   PROVE  FALSE
        OBVIOUS
      <4>1. i \in stops
        BY DEF StopsAt
      <4> HIDE DEF stops, k
      <4> QED
        BY <1>1, <3>1, <3>2, <4>1
    <3> HIDE DEF stops, k, p
    <3>6. k \in DOMAIN s
      BY <3>1, <3>2
    <3>7. items[s[k]].prio = c.prio /\ items[s[k]].frame = F[k]
      BY <1>2, <3>6
    <3>8. CASE SeenOverlapping(c, old)
      <4>1. p = 0
        BY <3>3, <3>7, <3>8
      <4> QED
        BY <4>1
    <3>9. CASE ~SeenOverlapping(c, old)
      <4>1. c.frame <= F[k] /\ (p = k \/ (p = k + 1 /\ c.frame = F[k]))
        BY <3>3, <3>4, <3>7, <3>9
      <4>2. \A i \in DOMAIN s : i < k => F[i] < c.frame
        BY <1>2, <3>5
      <4> QED
        BY <1>1, <1>2, <1>3, <3>6, <4>1, <4>2
    <3> QED
      BY <3>8, <3>9
  <2> QED
    BY <2>1, <2>2
<1> HIDE DEF p, r
<1>6. CASE ~r.ok
  <2>1. InOrder(s, others)
    BY <1>2, <1>3 DEF InOrder
  <2> QED
    BY <1>4, <1>6, <2>1 DEF r
<1>7. CASE r.ok
  <2> DEFINE t == InsertAt(s, p, op)
             G == [i \in DOMAIN t |-> others[t[i]].frame]
  <2>1. p \in 1 .. Len(s) + 1 /\ r.list = t
    BY <1>4, <1>7
  <2>2. /\ t \in Seq(S) /\ Len(t) = Len(s) + 1
        /\ \A i \in 1 .. Len(s) + 1 :
             t[i] = IF i < p THEN s[i] ELSE IF i = p THEN op ELSE s[i - 1]
    BY <2>1, InsertAtProperties
  <2> HIDE DEF t
  <2>3. DOMAIN t = 1 .. Len(s) + 1
    BY <2>2
  <2>4. \A i \in DOMAIN t : i < p => i \in DOMAIN s /\ G[i] = F[i]
    BY <1>1, <1>2, <2>1, <2>2, <2>3
  <2>5. \A i \in DOMAIN t : i = p => G[i] = c.frame
    BY <2>1, <2>2, <2>3
  <2>6. \A i \in DOMAIN t : i > p => i - 1 \in DOMAIN s /\ G[i] = F[i - 1]
    <3> SUFFICES ASSUME NEW i \in DOMAIN t, i > p
                 PROVE  i - 1 \in DOMAIN s /\ G[i] = F[i - 1]
      OBVIOUS
    <3>1. i - 1 \in DOMAIN s /\ t[i] = s[i - 1]
      BY <1>1, <2>1, <2>2, <2>3
    <3> QED
      BY <1>2, <3>1
  <2>7. ASSUME NEW i \in DOMAIN t, NEW j \in DOMAIN t, i < j
        PROVE  G[i] <= G[j]
    <3> HIDE DEF G
    <3>0. p \in Nat /\ p # 0 /\ i \in Nat /\ j \in Nat
      BY <2>1, <2>3, <1>1
    <3>1. CASE j < p
      BY <1>3, <2>4, <2>7, <3>0, <3>1
    <3>2. CASE j = p
      BY <1>5, <2>4, <2>5, <2>7, <3>0, <3>2
    <3>3. CASE j > p /\ i < p
      <4>1. G[i] <= c.frame /\ c.frame <= G[j] /\ G[i] = F[i] /\ G[j] = F[j - 1]
            /\ i \in DOMAIN s /\ j - 1 \in DOMAIN s
        BY <1>5, <2>4, <2>6, <3>0, <3>3
      <4> QED
        BY <1>2, <4>1
    <3>4. CASE j > p /\ i = p
      BY <1>5, <2>5, <2>6, <3>0, <3>4
    <3>5. CASE j > p /\ i > p
      <4>1. i - 1 < j - 1
        BY <2>7, <3>0
      <4> QED
        BY <1>3, <2>6, <3>5, <4>1
    <3> QED
      BY <3>0, <3>1, <3>2, <3>3, <3>4, <3>5
  <2>8. InOrder(t, others)
    BY <2>7 DEF InOrder
  <2> QED
    BY <2>1, <2>8 DEF r
<1> QED
  BY <1>4, <1>6, <1>7

--------------------------------------------------------------------------------
(* The event queue.                                                        *)

\* What k_msgq_put() calls keep: the queue stays well formed and bounded,
\* what was queued stays queued, and what is put is queued or lost.
LEMMA PutProperties ==
  ASSUME queue \in Seq(Events), Len(queue) <= QCap, dropped \subseteq EventIds,
         NEW evs \in Seq(Events), Put(queue, evs)
  PROVE  /\ queue' \in Seq(Events) /\ Len(queue') <= QCap
         /\ dropped \subseteq dropped' /\ dropped' \subseteq EventIds
         /\ Len(queue) <= Len(queue')
         /\ \A i \in 1 .. Len(queue) : queue'[i] = queue[i]
         /\ \A k \in 1 .. Len(evs) :
              \/ evs[k].id \in dropped'
              \/ \E i \in 1 .. Len(queue') : queue'[i] = evs[k]
<1> DEFINE n == IF Len(queue) + Len(evs) <= QCap THEN Len(evs) ELSE QCap - Len(queue)
           front == SubSeq(evs, 1, n)
<1>1. /\ Len(queue) \in Nat /\ Len(evs) \in Nat /\ n \in 0 .. Len(evs)
      /\ Len(queue) + n <= QCap
  BY SchedulerAssumption, LenProperties
<1>2. /\ front \in Seq(Events) /\ Len(front) = n
      /\ \A i \in 1 .. n : front[i] = evs[i]
  <2>1. \A i \in 1 .. n : evs[i] \in Events
    BY <1>1, ElementOfSeq
  <2> HIDE DEF n
  <2> QED
    BY <1>1, <2>1, SubSeqProperties
<1>3. /\ queue' = queue \o front
      /\ dropped' = dropped \cup {evs[i].id : i \in n + 1 .. Len(evs)}
  BY DEF Put
<1> HIDE DEF n, front
<1>4. /\ queue' \in Seq(Events) /\ Len(queue') = Len(queue) + n
      /\ \A i \in 1 .. Len(queue) + n :
           queue'[i] = IF i <= Len(queue) THEN queue[i] ELSE front[i - Len(queue)]
  BY <1>2, <1>3, ConcatProperties
<1>5. \A i \in n + 1 .. Len(evs) : evs[i].id \in EventIds
  <2> SUFFICES ASSUME NEW i \in n + 1 .. Len(evs)
               PROVE  evs[i].id \in EventIds
    OBVIOUS
  <2>1. evs[i] \in Events
    BY <1>1, ElementOfSeq
  <2> QED
    BY <2>1 DEF Events
<1>6. ASSUME NEW k \in 1 .. Len(evs)
      PROVE  \/ evs[k].id \in dropped'
             \/ \E i \in 1 .. Len(queue') : queue'[i] = evs[k]
  <2>1. CASE k <= n
    <3> DEFINE j == Len(queue) + k
    <3>1. k \in 1 .. n /\ j \in 1 .. Len(queue) + n /\ ~(j <= Len(queue))
          /\ j - Len(queue) = k
      BY <1>1, <2>1
    <3> HIDE DEF j
    <3>2. queue'[j] = evs[k]
      BY <1>2, <1>4, <3>1
    <3> QED
      BY <1>4, <3>1, <3>2
  <2>2. CASE k > n
    BY <1>1, <1>3, <2>2
  <2> QED
    BY <1>1, <2>1, <2>2
<1>7. Len(queue') <= QCap /\ Len(queue) <= Len(queue')
  BY <1>1, <1>4
<1>8. \A i \in 1 .. Len(queue) : queue'[i] = queue[i]
  BY <1>1, <1>4
<1>9. dropped \subseteq dropped' /\ dropped' \subseteq EventIds
  BY <1>3, <1>5
<1> QED
  BY <1>4, <1>6, <1>7, <1>8, <1>9

\* A pending wake-up survives a put.
LEMMA PutKeepsWake ==
  ASSUME queue \in Seq(Events), Len(queue) <= QCap, dropped \subseteq EventIds,
         NEW evs \in Seq(Events), Put(queue, evs), timer => timer', WakePending
  PROVE  WakePending'
<1>1. /\ queue' \in Seq(Events) /\ dropped \subseteq dropped'
      /\ Len(queue) <= Len(queue')
      /\ \A i \in 1 .. Len(queue) : queue'[i] = queue[i]
  BY PutProperties
<1>2. ASSUME Pending("NEXT_FRAME") # {}
      PROVE  Pending("NEXT_FRAME")' # {}
  <2>1. PICK i \in 1 .. Len(queue) : queue[i].id = "NEXT_FRAME"
    BY <1>2 DEF Pending
  <2>2. i \in 1 .. Len(queue') /\ queue'[i].id = "NEXT_FRAME"
    BY <1>1, <2>1, LenProperties
  <2> QED
    BY <1>1, <2>2 DEF Pending
<1> QED
  BY <1>1, <1>2 DEF WakePending

\* A put of NEXT_FRAME is a wake-up.
LEMMA PutWakes ==
  ASSUME queue \in Seq(Events), Len(queue) <= QCap, dropped \subseteq EventIds,
         NEW evs \in Seq(Events), Put(queue, evs),
         NEW k \in 1 .. Len(evs), evs[k] = NextFrame
  PROVE  WakePending'
<1>1. /\ queue' \in Seq(Events)
      /\ \/ evs[k].id \in dropped'
         \/ \E i \in 1 .. Len(queue') : queue'[i] = evs[k]
  BY PutProperties
<1>2. NextFrame.id = "NEXT_FRAME"
  BY DEF NextFrame, Event
<1> QED
  BY <1>1, <1>2 DEF WakePending, Pending

\* Taking an event other than NEXT_FRAME loses no wake-up.
LEMMA TakeKeepsWake ==
  ASSUME queue \in Seq(Events), queue # <<>>, Head(queue).id # "NEXT_FRAME",
         queue' = Tail(queue), timer => timer', dropped' = dropped, WakePending
  PROVE  WakePending'
<1>1. /\ Tail(queue) \in Seq(Events) /\ Len(Tail(queue)) = Len(queue) - 1
      /\ \A i \in 1 .. Len(queue) - 1 : Tail(queue)[i] = queue[i + 1]
  BY HeadTailProperties
<1>2. ASSUME Pending("NEXT_FRAME") # {}
      PROVE  Pending("NEXT_FRAME")' # {}
  <2>1. PICK i \in 1 .. Len(queue) : queue[i].id = "NEXT_FRAME"
    BY <1>2 DEF Pending
  <2>2. i # 1
    BY <2>1
  <2>3. i - 1 \in 1 .. Len(queue') /\ queue'[i - 1].id = "NEXT_FRAME"
    BY <1>1, <2>1, <2>2, LenProperties
  <2>4. DOMAIN queue' = 1 .. Len(queue')
    BY <1>1
  <2>5. \E j \in DOMAIN queue' : queue'[j].id = "NEXT_FRAME"
    BY <2>3, <2>4
  <2> QED
    BY <2>5 DEF Pending
<1> QED
  BY <1>2 DEF WakePending

--------------------------------------------------------------------------------
(* The list.                                                               *)

\* Removing an operation, listed or not, from a list without repetitions.
LEMMA WithoutAll ==
  ASSUME NEW l \in Seq(Ops), Distinct(l), NEW op
  PROVE  /\ Without(l, op) \in Seq(Ops) /\ Distinct(Without(l, op))
         /\ \A i \in 1 .. Len(Without(l, op)) :
              /\ Without(l, op)[i] # op
              /\ \E j \in 1 .. Len(l) : Without(l, op)[i] = l[j]
         /\ Without(Without(l, op), op) = Without(l, op)
         /\ l = <<>> => Without(l, op) = <<>>
<1>1. /\ Without(l, op) \in Seq(Ops) /\ Distinct(Without(l, op))
      /\ \A i \in 1 .. Len(Without(l, op)) :
           /\ Without(l, op)[i] # op
           /\ \E j \in 1 .. Len(l) : Without(l, op)[i] = l[j]
  BY WithoutDistinct
<1>2. \A i \in 1 .. Len(Without(l, op)) : Without(l, op)[i] # op
  BY <1>1
<1>3. Without(Without(l, op), op) = Without(l, op)
  <2> DEFINE w == Without(l, op)
  <2>1. w \in Seq(Ops) /\ \A i \in 1 .. Len(w) : w[i] # op
    BY <1>1
  <2> HIDE DEF w
  <2>2. Without(w, op) = w
    BY <2>1, WithoutAbsent
  <2> QED
    BY <2>2 DEF w
<1>4. l = <<>> => Without(l, op) = <<>>
  <2>1. ASSUME l = <<>> PROVE \A i \in 1 .. Len(l) : l[i] # op
    BY <2>1
  <2> QED
    BY <2>1, WithoutAbsent
<1> QED
  BY <1>1, <1>3, <1>4

\* list_item_add() of an operation that is not listed.
LEMMA AddToDistinct ==
  ASSUME NEW l \in Seq(Ops), Distinct(l), NEW items, NEW op \in Ops, NEW c,
         \A i \in 1 .. Len(l) : l[i] # op
  PROVE  LET r == AddTo(l, items, op, c) IN
         /\ r.list \in Seq(Ops) /\ Distinct(r.list)
         /\ \A i \in 1 .. Len(r.list) :
              r.list[i] = op \/ \E j \in 1 .. Len(l) : r.list[i] = l[j]
<1> DEFINE p == Place(c, l, items)
           r == AddTo(l, items, op, c)
<1>1. /\ ~r.ok => r.list = l
      /\ r.ok => p \in 1 .. Len(l) + 1 /\ r.list = InsertAt(l, p, op)
      /\ r.ok \in BOOLEAN
  BY AddToProperties
<1> HIDE DEF p, r
<1>2. CASE ~r.ok
  BY <1>1, <1>2 DEF r
<1>3. CASE r.ok
  <2>1. p \in 1 .. Len(l) + 1 /\ r.list = InsertAt(l, p, op)
    BY <1>1, <1>3
  <2>2. InsertAt(l, p, op) \in Seq(Ops) /\ Len(InsertAt(l, p, op)) = Len(l) + 1
    BY <2>1, InsertAtProperties
  <2>3. /\ Distinct(InsertAt(l, p, op))
        /\ \A i \in 1 .. Len(l) + 1 :
             \/ InsertAt(l, p, op)[i] = op
             \/ \E j \in 1 .. Len(l) : InsertAt(l, p, op)[i] = l[j]
    BY <2>1, InsertAtDistinct
  <2>4. /\ r.list \in Seq(Ops) /\ Distinct(r.list)
        /\ \A i \in 1 .. Len(r.list) :
             r.list[i] = op \/ \E j \in 1 .. Len(l) : r.list[i] = l[j]
    BY <2>1, <2>2, <2>3
  <2> QED
    BY <2>4 DEF r
<1> QED
  BY <1>1, <1>2, <1>3

\* The item after a turn: counted down and moved to its next interval.
LEMMA TurnItem ==
  ASSUME NEW c \in Item
  PROVE  CountedDown(c) \in Item /\ NextTurn(c) \in Item
<1>1. CountedDown(c) \in Item
  <2>1. c.left \in Nat \cup {-1} /\ c.ival \in Nat
    BY DEF Item
  <2>2. /\ (IF c.left > 0 THEN c.left - 1 ELSE c.left) \in Nat \cup {-1}
        /\ (IF c.left = 1 THEN 0 ELSE c.ival) \in Nat
    BY <2>1
  <2> QED
    BY <2>2 DEF CountedDown, Item
<1>2. NextTurn(c) \in Item
  <2>1. c.frame \in Int /\ c.ival \in Nat /\ c.handle \in Nat /\ c.lo \in Nat /\ c.hi \in Nat
    BY DEF Item
  <2>2. /\ c.frame + c.ival \in Int
        /\ (IF ~c.range THEN c.handle
            ELSE IF c.handle + 1 > c.hi THEN c.lo ELSE c.handle + 1) \in Nat
    BY <2>1
  <2> QED
    BY <2>2 DEF NextTurn, Item
<1> QED
  BY <1>1, <1>2

\* What the end of a turn returns. Without a wake-up and with the locals at
\* their initial values the operation leaves the list.
LEMMA TurnOverProperties ==
  ASSUME NEW l \in Seq(Ops), Distinct(l), cur \in Ops, NEW c \in Item,
         NEW kept \in BOOLEAN
  PROVE  LET t == TurnOver(l, c, kept) IN
         /\ t.item \in Item /\ t.late \in BOOLEAN /\ t.taken \in BOOLEAN
         /\ t.freed \in BOOLEAN /\ t.timer \in BOOLEAN
         /\ t.wake = <<>> \/ t.wake = <<NextFrame>>
         /\ t.list \in Seq(Ops) /\ Distinct(t.list)
         /\ \A i \in 1 .. Len(t.list) :
              t.list[i] = cur \/ \E j \in 1 .. Len(l) : t.list[i] = l[j]
         /\ t.wake = <<>> /\ ~t.timer => ~t.taken
         /\ t.wake = <<>> /\ ~t.timer /\ ~kept => t.list = Without(l, cur)
<1> DEFINE again == c.ival # 0
           w == Without(l, cur)
           r == AddTo(w, item, cur, NextTurn(c))
           taken == again /\ r.ok
           stays == kept \/ taken
           base == IF again THEN r.list ELSE l
           t == TurnOver(l, c, kept)
<1>1. /\ w \in Seq(Ops) /\ Distinct(w) /\ Without(w, cur) = w
      /\ \A i \in 1 .. Len(w) : w[i] # cur
      /\ \A i \in 1 .. Len(w) : \E j \in 1 .. Len(l) : w[i] = l[j]
  BY WithoutAll
<1>2. /\ t.item = IF again THEN NextTurn(c) ELSE c
      /\ t.late = (again /\ ~r.ok) /\ t.taken = taken /\ t.freed = ~stays
      /\ t.list = IF stays THEN base ELSE Without(base, cur)
      /\ t.timer = (again /\ r.wake = "timer")
      /\ t.wake = IF again THEN WakeEvents(r) ELSE <<>>
  BY DEF TurnOver, LeftOver
<1> HIDE DEF w
<1>3. /\ r.ok \in BOOLEAN /\ r.list \in Seq(Ops)
      /\ r.wake \in {"none", "event", "timer"}
      /\ ~r.ok => r.list = w
      /\ r.ok => r.wake # "none"
  BY <1>1, AddToProperties
<1>4. /\ Distinct(r.list)
      /\ \A i \in 1 .. Len(r.list) :
           r.list[i] = cur \/ \E j \in 1 .. Len(w) : r.list[i] = w[j]
  BY <1>1, AddToDistinct
<1> HIDE DEF r, t
<1>5. t.item \in Item
  BY <1>2, TurnItem
<1>6. t.late \in BOOLEAN /\ t.taken \in BOOLEAN /\ t.freed \in BOOLEAN /\ t.timer \in BOOLEAN
  BY <1>2
<1>7. t.wake = IF again /\ r.wake = "event" THEN <<NextFrame>> ELSE <<>>
  BY <1>2 DEF WakeEvents
<1>8. /\ base \in Seq(Ops) /\ Distinct(base)
      /\ \A i \in 1 .. Len(base) :
           base[i] = cur \/ \E j \in 1 .. Len(l) : base[i] = l[j]
  <2>1. CASE again
    BY <1>1, <1>3, <1>4, <2>1
  <2>2. CASE ~again
    BY <2>2
  <2> QED
    BY <2>1, <2>2
<1>9. t.wake = <<>> => ~(again /\ r.wake = "event")
  <2>1. <<NextFrame>> # <<>>
    OBVIOUS
  <2> QED
    BY <1>7, <2>1
<1>10. t.wake = <<>> /\ ~t.timer => ~taken
  BY <1>2, <1>3, <1>9
<1>11. t.wake = <<>> /\ ~t.timer /\ ~kept => t.list = w
  <2> SUFFICES ASSUME t.wake = <<>>, ~t.timer, ~kept
               PROVE  t.list = w
    OBVIOUS
  <2>1. ~stays /\ t.list = Without(base, cur)
    BY <1>2, <1>10
  <2>2. CASE again
    <3>1. base = w
      BY <1>3, <1>10, <2>2
    <3> QED
      BY <1>1, <2>1, <3>1
  <2>3. CASE ~again
    BY <2>1, <2>3 DEF w
  <2> QED
    BY <2>2, <2>3
<1>12. /\ t.list \in Seq(Ops) /\ Distinct(t.list)
       /\ \A i \in 1 .. Len(t.list) :
            t.list[i] = cur \/ \E j \in 1 .. Len(l) : t.list[i] = l[j]
  <2>1. CASE stays
    <3>1. t.list = base
      BY <1>2, <2>1
    <3> QED
      BY <1>8, <3>1
  <2>2. CASE ~stays
    <3>1. t.list = Without(base, cur)
      BY <1>2, <2>2
    <3> HIDE DEF base
    <3>2. /\ Without(base, cur) \in Seq(Ops) /\ Distinct(Without(base, cur))
          /\ \A i \in 1 .. Len(Without(base, cur)) :
               \E j \in 1 .. Len(base) : Without(base, cur)[i] = base[j]
      BY <1>8, WithoutAll
    <3>3. /\ t.list \in Seq(Ops) /\ Distinct(t.list)
          /\ \A i \in 1 .. Len(t.list) : \E j \in 1 .. Len(base) : t.list[i] = base[j]
      BY <3>1, <3>2
    <3> QED
      BY <1>8, <3>3
  <2> QED
    BY <2>1, <2>2
<1>13. t.wake = <<>> \/ t.wake = <<NextFrame>>
  BY <1>7
<1> QED
  BY <1>2, <1>5, <1>6, <1>10, <1>11, <1>12, <1>13 DEF t, w

--------------------------------------------------------------------------------
(* What the removals do.                                                   *)

LEMMA FirstWithHandle ==
  ASSUME TypeOK, NEW h, WithHandle(h) # {}
  PROVE  Min(WithHandle(h)) \in 1 .. Len(list) /\ list[Min(WithHandle(h))] \in Ops
<1>1. list \in Seq(Ops)
  BY DEF TypeOK
<1>2. WithHandle(h) \subseteq 1 .. Len(list)
  BY <1>1 DEF WithHandle
<1>3. Min(WithHandle(h)) \in 1 .. Len(list)
  BY <1>2, MinExists
<1> QED
  BY <1>1, <1>3, ElementOfSeq

\* list_item_remove_by_phy_op_handle() takes at most one item out.
LEMMA UnlinkProperties ==
  ASSUME TypeOK, Distinct(list), NEW h, Unlink(h)
  PROVE  /\ list' \in Seq(Ops) /\ Distinct(list') /\ cancelled' \subseteq Ops
         /\ \A i \in 1 .. Len(list') : \E j \in 1 .. Len(list) : list'[i] = list[j]
         /\ list = <<>> => list' = <<>>
<1>1. list \in Seq(Ops) /\ cancelled \subseteq Ops
  BY DEF TypeOK
<1>2. CASE WithHandle(h) = {}
  <2>1. list' = list /\ cancelled' = cancelled
    BY <1>2 DEF Unlink
  <2> QED
    BY <1>1, <2>1
<1>3. CASE WithHandle(h) # {}
  <2> DEFINE op == list[Min(WithHandle(h))]
  <2>1. op \in Ops
    BY <1>3, FirstWithHandle
  <2>2. list' = Without(list, op) /\ cancelled' = cancelled \cup {op}
    BY <1>3 DEF Unlink
  <2> HIDE DEF op
  <2>3. /\ Without(list, op) \in Seq(Ops) /\ Distinct(Without(list, op))
        /\ \A i \in 1 .. Len(Without(list, op)) :
             \E j \in 1 .. Len(list) : Without(list, op)[i] = list[j]
        /\ list = <<>> => Without(list, op) = <<>>
    BY <1>1, WithoutAll
  <2>4. /\ list' \in Seq(Ops) /\ Distinct(list')
        /\ \A i \in 1 .. Len(list') : \E j \in 1 .. Len(list) : list'[i] = list[j]
        /\ list = <<>> => list' = <<>>
    BY <2>2, <2>3
  <2> QED
    BY <1>1, <2>1, <2>2, <2>4
<1> QED
  BY <1>2, <1>3

LEMMA FreeUnlinkedType ==
  ASSUME TypeOK, NEW h, FreeUnlinked(h)
  PROVE  alloc' \subseteq Ops
<1>1. alloc \subseteq Ops
  BY DEF TypeOK
<1> QED
  BY <1>1 DEF FreeUnlinked

LEMMA CompletionsType ==
  ASSUME NEW op, NEW twice
  PROVE  Completions(op, twice) \in Nat
BY DEF Completions

--------------------------------------------------------------------------------
(* Steps that leave the walk alone.                                        *)

\* An event, the timer or the modem: neither the list nor the walk changes.
LEMMA QuietStep ==
  ASSUME SchedInv, TypeOK', QueueBounded', UNCHANGED <<list, pc, cur, nxt, keep, fresh>>,
         WakePending => WakePending'
  PROVE  SchedInv'
<1>1. ListedOnce'
  BY DEF SchedInv, ListedOnce
<1>2. WalkCovers'
  BY DEF SchedInv, WalkCovers
<1>3. NoStall'
  BY DEF SchedInv, NoStall
<1> QED
  BY <1>1, <1>2, <1>3 DEF SchedInv

\* Outside the walk items may leave the list.
LEMMA ShrinkStep ==
  ASSUME SchedInv, TypeOK', QueueBounded', pc = "wait",
         UNCHANGED <<pc, cur, nxt, fresh>>, Distinct(list'),
         \A i \in 1 .. Len(list') : \E j \in 1 .. Len(list) : list'[i] = list[j],
         list = <<>> => list' = <<>>,
         WakePending => WakePending'
  PROVE  SchedInv'
<1>1. list' \in Seq(Ops) /\ list \in Seq(Ops)
  BY DEF SchedInv, TypeOK
<1>2. DOMAIN list' = 1 .. Len(list') /\ DOMAIN list = 1 .. Len(list)
  BY <1>1
<1>3. ListedOnce'
  BY <1>2 DEF SchedInv, ListedOnce, Distinct
<1>4. WalkCovers'
  BY DEF WalkCovers
<1>5. NoStall'
  BY DEF SchedInv, NoStall
<1> QED
  BY <1>3, <1>4, <1>5 DEF SchedInv

LEMMA DistinctList ==
  ASSUME SchedInv
  PROVE  /\ list \in Seq(Ops) /\ Distinct(list)
         /\ \A i \in 1 .. Len(list) : list[i] \notin fresh
<1>1. list \in Seq(Ops)
  BY DEF SchedInv, TypeOK
<1>2. DOMAIN list = 1 .. Len(list)
  BY <1>1
<1> QED
  BY <1>1, <1>2 DEF SchedInv, ListedOnce, Distinct

LEMMA EventTypes ==
  /\ NextFrame \in Events /\ NextFrame.id = "NEXT_FRAME"
  /\ \A id \in EventIds, h \in Nat : Event(id, h) \in Events
  /\ \A id, h : Event(id, h).id = id
BY DEF NextFrame, Event, Events, EventIds

LEMMA HandleType == Handles \subseteq Nat
<1>1. \A op \in Ops : /\ Conf[op].handle \in Nat /\ Conf[op].lo \in Nat /\ Conf[op].hi \in Nat
  BY SchedulerAssumption DEF Item
<1>2. \A op \in Ops : HandlesOf(op) \subseteq Nat
  BY <1>1 DEF HandlesOf
<1> QED
  BY <1>2 DEF Handles

--------------------------------------------------------------------------------
(* One lemma per action: it keeps the invariant.                           *)

LEMMA InitInv == Init => SchedInv
<1> SUFFICES ASSUME Init PROVE SchedInv
  OBVIOUS
<1> USE SchedulerAssumption
<1>1. <<>> \in Seq(Ops) /\ <<>> \in Seq([op : Ops, handle : Nat]) /\ <<>> \in Seq(Events)
      /\ Len(<<>>) = 0 /\ DOMAIN <<>> = {}
  OBVIOUS
<1>2. TypeOK
  <2>1. /\ turns \in [Ops -> Nat] /\ ended \in [Ops -> Nat]
        /\ asked \in [Ops -> Int]
    BY DEF Init
  <2> QED
    BY <1>1, <2>1 DEF Init, TypeOK
<1>3. QueueBounded
  BY <1>1 DEF Init, QueueBounded
<1>4. ListedOnce
  BY <1>1 DEF Init, ListedOnce
<1>5. WalkCovers /\ NoStall
  BY DEF Init, WalkCovers, NoStall
<1> QED
  BY <1>2, <1>3, <1>4, <1>5 DEF SchedInv

LEMMA AdvanceInv == SchedInv /\ Advance => SchedInv'
<1> SUFFICES ASSUME SchedInv, Advance PROVE SchedInv'
  OBVIOUS
<1> USE DEF Advance, listVars, walkVars, histVars
<1>1. TypeOK'
  BY DEF SchedInv, TypeOK
<1>2. QueueBounded'
  BY DEF SchedInv, QueueBounded
<1>3. WakePending => WakePending'
  BY DEF WakePending, Pending
<1> QED
  BY <1>1, <1>2, <1>3, QuietStep

LEMMA PutAssumptions ==
  ASSUME SchedInv
  PROVE  queue \in Seq(Events) /\ Len(queue) <= QCap /\ dropped \subseteq EventIds
BY DEF SchedInv, TypeOK, QueueBounded

LEMMA TimerFiresInv == SchedInv /\ TimerFires => SchedInv'
<1> SUFFICES ASSUME SchedInv, TimerFires PROVE SchedInv'
  OBVIOUS
<1> USE DEF listVars, walkVars, histVars
<1>1. <<NextFrame>> \in Seq(Events) /\ Put(queue, <<NextFrame>>)
      /\ 1 \in 1 .. Len(<<NextFrame>>) /\ <<NextFrame>>[1] = NextFrame
  BY EventTypes DEF TimerFires
<1>2. queue' \in Seq(Events) /\ Len(queue') <= QCap /\ dropped' \subseteq EventIds
  BY <1>1, PutAssumptions, PutProperties
<1>3. TypeOK'
  BY <1>2 DEF SchedInv, TypeOK, TimerFires
<1>4. QueueBounded'
  BY <1>2 DEF QueueBounded
<1>5. WakePending'
  BY <1>1, PutAssumptions, PutWakes
<1> QED
  BY <1>3, <1>4, <1>5, QuietStep DEF TimerFires

LEMMA UserCallType ==
  ASSUME SchedInv, UserCall
  PROVE  calls' \in Nat
<1>1. calls \in Nat
  BY DEF SchedInv, TypeOK
<1> QED
  BY <1>1 DEF UserCall

LEMMA RequestInv == ASSUME NEW e \in Requests PROVE SchedInv /\ Request(e) => SchedInv'
<1> SUFFICES ASSUME SchedInv, Request(e) PROVE SchedInv'
  OBVIOUS
<1> USE DEF listVars, walkVars
<1>1. e \in Events
  BY EventTypes, HandleType DEF Requests, EventIds
<1>2. <<e>> \in Seq(Events) /\ Put(queue, <<e>>)
  BY <1>1 DEF Request
<1>3. queue' \in Seq(Events) /\ Len(queue') <= QCap /\ dropped' \subseteq EventIds
  BY <1>2, PutAssumptions, PutProperties
<1>4. TypeOK'
  BY <1>3, UserCallType DEF SchedInv, TypeOK, Request
<1>5. QueueBounded'
  BY <1>3 DEF QueueBounded
<1>6. WakePending => WakePending'
  BY <1>2, PutAssumptions, PutKeepsWake DEF Request
<1> QED
  BY <1>4, <1>5, <1>6, QuietStep DEF Request

LEMMA ModemCompletesInv ==
  ASSUME NEW i \in DOMAIN modem PROVE SchedInv /\ ModemCompletes(i) => SchedInv'
<1> SUFFICES ASSUME SchedInv, ModemCompletes(i) PROVE SchedInv'
  OBVIOUS
<1> USE DEF listVars, walkVars, histVars
<1> DEFINE Taken == [op : Ops, handle : Nat]
<1>1. modem \in Seq(Taken)
  BY DEF SchedInv, TypeOK
<1> HIDE DEF Taken
<1>2. i \in 1 .. Len(modem) /\ modem[i] \in Taken
  <2>1. i \in 1 .. Len(modem)
    BY <1>1
  <2> QED
    BY <1>1, <2>1, ElementOfSeq
<1>3. modem' \in Seq(Taken)
  BY <1>1, <1>2, RemoveAtProperties DEF ModemCompletes
<1> DEFINE e == Event("OP_COMPLETED", modem[i].handle)
<1>4. e \in Events
  BY <1>2, EventTypes DEF EventIds, Taken
<1> HIDE DEF e
<1>5. <<e>> \in Seq(Events) /\ Put(queue, <<e>>)
  BY <1>4 DEF ModemCompletes, e
<1>6. queue' \in Seq(Events) /\ Len(queue') <= QCap /\ dropped' \subseteq EventIds
  BY <1>5, PutAssumptions, PutProperties
<1>7. TypeOK'
  BY <1>3, <1>6 DEF SchedInv, TypeOK, ModemCompletes, Taken
<1>8. QueueBounded'
  BY <1>6 DEF QueueBounded
<1>9. WakePending => WakePending'
  BY <1>5, PutAssumptions, PutKeepsWake DEF ModemCompletes
<1> QED
  BY <1>7, <1>8, <1>9, QuietStep DEF ModemCompletes

LEMMA RemoveByHandleInv ==
  ASSUME NEW h PROVE SchedInv /\ RemoveByHandle(h) => SchedInv'
<1> SUFFICES ASSUME SchedInv, RemoveByHandle(h) PROVE SchedInv'
  OBVIOUS
<1> USE DEF walkVars
<1>1. /\ list' \in Seq(Ops) /\ Distinct(list') /\ cancelled' \subseteq Ops
      /\ \A i \in 1 .. Len(list') : \E j \in 1 .. Len(list) : list'[i] = list[j]
      /\ list = <<>> => list' = <<>>
  BY DistinctList, UnlinkProperties DEF SchedInv, RemoveByHandle
<1>2. alloc' \subseteq Ops
  BY FreeUnlinkedType DEF SchedInv, RemoveByHandle
<1>3. TypeOK'
  BY <1>1, <1>2, UserCallType DEF SchedInv, TypeOK, RemoveByHandle
<1>4. QueueBounded'
  BY DEF SchedInv, QueueBounded, RemoveByHandle
<1>5. WakePending => WakePending'
  BY DEF WakePending, Pending, RemoveByHandle
<1> QED
  BY <1>1, <1>3, <1>4, <1>5, ShrinkStep DEF RemoveByHandle

LEMMA ShiftFrameInv ==
  ASSUME NEW h, NEW d \in Shifts PROVE SchedInv /\ ShiftFrame(h, d) => SchedInv'
<1> SUFFICES ASSUME SchedInv, ShiftFrame(h, d) PROVE SchedInv'
  OBVIOUS
<1> USE DEF walkVars
<1>1. item' \in [Ops -> Item] /\ asked' \in [Ops -> Int]
  <2>1. item \in [Ops -> Item] /\ asked \in [Ops -> Int]
    BY DEF SchedInv, TypeOK
  <2>2. CASE WithHandle(h) = {}
    BY <2>1, <2>2 DEF ShiftFrame
  <2>3. CASE WithHandle(h) # {}
    <3> DEFINE op == list[Min(WithHandle(h))]
    <3>1. op \in Ops
      BY <2>3, FirstWithHandle DEF SchedInv
    <3>2. /\ item' = [item EXCEPT ![op].frame = @ + d]
          /\ asked' = [asked EXCEPT ![op] = @ + d]
      BY <2>3 DEF ShiftFrame
    <3> HIDE DEF op
    <3>3. item[op] \in Item /\ d \in Int
      BY <2>1, <3>1, SchedulerAssumption
    <3>4. [item[op] EXCEPT !.frame = @ + d] \in Item
      BY <3>3 DEF Item
    <3>5. item' \in [Ops -> Item]
      BY <2>1, <3>1, <3>2, <3>4
    <3>6. asked' \in [Ops -> Int]
      BY <2>1, <3>1, <3>2, <3>3
    <3> QED
      BY <3>5, <3>6
  <2> QED
    BY <2>2, <2>3
<1>2. TypeOK'
  BY <1>1, UserCallType DEF SchedInv, TypeOK, ShiftFrame
<1>3. QueueBounded'
  BY DEF SchedInv, QueueBounded, ShiftFrame
<1>4. WakePending => WakePending'
  BY DEF WakePending, Pending, ShiftFrame
<1> QED
  BY <1>2, <1>3, <1>4, QuietStep DEF ShiftFrame

LEMMA TakesProperties ==
  ASSUME SchedInv, NEW id, Takes(id), queue' = Tail(queue)
  PROVE  /\ queue' \in Seq(Events) /\ Len(queue') <= QCap
         /\ Head(queue) \in Events /\ Head(queue).handle \in Nat
         /\ id # "NEXT_FRAME" /\ (timer => timer') /\ dropped' = dropped =>
              (WakePending => WakePending')
<1>1. queue \in Seq(Events) /\ queue # <<>> /\ Head(queue).id = id /\ Len(queue) <= QCap
  BY PutAssumptions DEF Takes
<1>2. Tail(queue) \in Seq(Events) /\ Len(Tail(queue)) = Len(queue) - 1
      /\ Head(queue) \in Events
  BY <1>1, HeadTailProperties
<1>3. Len(Tail(queue)) <= QCap
  BY <1>1, <1>2, SchedulerAssumption, LenProperties
<1>4. Head(queue).handle \in Nat
  BY <1>2 DEF Events
<1> QED
  BY <1>1, <1>2, <1>3, <1>4, TakeKeepsWake

LEMMA TakeSuspendOrResumeInv == SchedInv /\ TakeSuspendOrResume => SchedInv'
<1> SUFFICES ASSUME SchedInv, TakeSuspendOrResume PROVE SchedInv'
  OBVIOUS
<1> USE DEF listVars, walkVars, histVars
<1>1. PICK id \in {"OP_SUSPEND", "OP_RESUME"} : Takes(id)
  BY DEF TakeSuspendOrResume
<1>2. queue' = Tail(queue) /\ (timer => timer') /\ dropped' = dropped
  BY DEF TakeSuspendOrResume
<1>3. queue' \in Seq(Events) /\ Len(queue') <= QCap /\ (WakePending => WakePending')
  BY <1>1, <1>2, TakesProperties
<1>4. TypeOK'
  BY <1>3 DEF SchedInv, TypeOK, TakeSuspendOrResume
<1>5. QueueBounded'
  BY <1>3 DEF QueueBounded
<1> QED
  BY <1>3, <1>4, <1>5, QuietStep DEF TakeSuspendOrResume

LEMMA TakeRemoveInv == SchedInv /\ TakeRemove => SchedInv'
<1> SUFFICES ASSUME SchedInv, TakeRemove PROVE SchedInv'
  OBVIOUS
<1> USE DEF walkVars
<1>1. /\ Takes("OP_LIST_ITEM_RM_DEALLOC") /\ queue' = Tail(queue)
      /\ (timer => timer') /\ dropped' = dropped
  BY DEF TakeRemove
<1>2. queue' \in Seq(Events) /\ Len(queue') <= QCap /\ (WakePending => WakePending')
  BY <1>1, TakesProperties
<1>3. /\ list' \in Seq(Ops) /\ Distinct(list') /\ cancelled' \subseteq Ops
      /\ \A i \in 1 .. Len(list') : \E j \in 1 .. Len(list) : list'[i] = list[j]
      /\ list = <<>> => list' = <<>>
  BY DistinctList, UnlinkProperties DEF SchedInv, TakeRemove
<1>4. alloc' \subseteq Ops
  BY FreeUnlinkedType DEF SchedInv, TakeRemove
<1>5. TypeOK'
  BY <1>2, <1>3, <1>4 DEF SchedInv, TypeOK, TakeRemove
<1>6. QueueBounded'
  BY <1>2 DEF QueueBounded
<1> QED
  BY <1>2, <1>3, <1>5, <1>6, ShrinkStep DEF TakeRemove, Takes

LEMMA TakePurgeInv == SchedInv /\ TakePurge => SchedInv'
<1> SUFFICES ASSUME SchedInv, TakePurge PROVE SchedInv'
  OBVIOUS
<1> USE DEF walkVars
<1> DEFINE Taken == [op : Ops, handle : Nat]
<1>1. /\ Takes("OP_LIST_PURGE") /\ queue' = Tail(queue)
      /\ (timer => timer') /\ dropped' = dropped
  BY DEF TakePurge
<1>2. queue' \in Seq(Events) /\ Len(queue') <= QCap /\ (WakePending => WakePending')
  BY <1>1, TakesProperties
<1>3. list' = <<>> /\ list' \in Seq(Ops) /\ done' \in Seq(Taken)
  BY DEF TakePurge
<1>4. cancelled' \subseteq Ops
  <2>1. done \in Seq(Taken) /\ cancelled \subseteq Ops
    BY DEF SchedInv, TypeOK
  <2>2. \A i \in DOMAIN done : done[i].op \in Ops
    <3> SUFFICES ASSUME NEW i \in DOMAIN done PROVE done[i].op \in Ops
      OBVIOUS
    <3> HIDE DEF Taken
    <3>1. i \in 1 .. Len(done)
      BY <2>1
    <3>2. done[i] \in Taken
      BY <2>1, <3>1, ElementOfSeq
    <3> QED
      BY <3>2 DEF Taken
  <2> QED
    BY <2>1, <2>2 DEF TakePurge
<1>5. TypeOK'
  BY <1>2, <1>3, <1>4 DEF SchedInv, TypeOK, TakePurge
<1>6. QueueBounded'
  BY <1>2 DEF QueueBounded
<1>7. /\ Distinct(list')
      /\ \A i \in 1 .. Len(list') : \E j \in 1 .. Len(list) : list'[i] = list[j]
  BY <1>3 DEF Distinct
<1> QED
  BY <1>2, <1>3, <1>5, <1>6, <1>7, ShrinkStep DEF TakePurge, Takes

LEMMA TakeCompletedInv ==
  ASSUME NEW giveUp \in BOOLEAN PROVE SchedInv /\ TakeCompleted(giveUp) => SchedInv'
<1> SUFFICES ASSUME SchedInv, TakeCompleted(giveUp) PROVE SchedInv'
  OBVIOUS
<1> USE DEF walkVars
<1> DEFINE Taken == [op : Ops, handle : Nat]
           h == Head(queue).handle
           F == {i \in DOMAIN done : done[i].handle = h}
           op == done[Min(F)].op
<1>1. /\ Takes("OP_COMPLETED") /\ queue' = Tail(queue)
      /\ (timer => timer') /\ dropped' = dropped
  BY DEF TakeCompleted
<1>2. queue' \in Seq(Events) /\ Len(queue') <= QCap /\ (WakePending => WakePending')
  BY <1>1, TakesProperties
<1>3. done \in Seq(Taken) /\ ended \in [Ops -> Nat] /\ cancelled \subseteq Ops
  BY DEF SchedInv, TypeOK
<1>4. /\ done' \in Seq(Taken) /\ ended' \in [Ops -> Nat]
      /\ UNCHANGED <<list, cancelled>> \/ Unlink(h)
  <2>1. CASE F = {}
    BY <1>3, <2>1 DEF TakeCompleted
  <2>2. CASE F # {}
    <3>1. /\ done' = RemoveAt(done, Min(F))
          /\ ended' = [ended EXCEPT ![op] = @ + Completions(op, FALSE)]
          /\ IF giveUp THEN Unlink(h) ELSE UNCHANGED <<list, cancelled>>
      BY <2>2 DEF TakeCompleted
    <3> HIDE DEF Taken
    <3>2. DOMAIN done = 1 .. Len(done)
      BY <1>3
    <3>3. Min(F) \in 1 .. Len(done)
      BY <2>2, <3>2, MinExists
    <3> HIDE DEF F
    <3>4. done[Min(F)] \in Taken
      BY <1>3, <3>3, ElementOfSeq
    <3>5. op \in Ops
      BY <3>4 DEF Taken
    <3>6. done' \in Seq(Taken)
      BY <1>3, <3>1, <3>3, RemoveAtProperties
    <3>7. ended' \in [Ops -> Nat]
      <4> DEFINE k == Completions(op, FALSE)
      <4>1. k \in Nat
        BY CompletionsType
      <4>2. ended' = [ended EXCEPT ![op] = @ + k]
        BY <3>1
      <4> HIDE DEF k, op
      <4> QED
        BY <1>3, <3>5, <4>1, <4>2
    <3> QED
      BY <3>1, <3>6, <3>7
  <2> QED
    BY <2>1, <2>2
<1>5. /\ list' \in Seq(Ops) /\ Distinct(list') /\ cancelled' \subseteq Ops
      /\ \A i \in 1 .. Len(list') : \E j \in 1 .. Len(list) : list'[i] = list[j]
      /\ list = <<>> => list' = <<>>
  <2>1. CASE UNCHANGED <<list, cancelled>>
    BY <1>3, <2>1, DistinctList
  <2>2. CASE Unlink(h)
    BY <2>2, DistinctList, UnlinkProperties DEF SchedInv
  <2> QED
    BY <1>4, <2>1, <2>2
<1>6. TypeOK'
  BY <1>2, <1>4, <1>5 DEF SchedInv, TypeOK, TakeCompleted
<1>7. QueueBounded'
  BY <1>2 DEF QueueBounded
<1> QED
  BY <1>2, <1>5, <1>6, <1>7, ShrinkStep DEF TakeCompleted, Takes

LEMMA TakeNextFrameInv == SchedInv /\ TakeNextFrame => SchedInv'
<1> SUFFICES ASSUME SchedInv, TakeNextFrame PROVE SchedInv'
  OBVIOUS
<1> USE DEF listVars, histVars
<1>1. Takes("NEXT_FRAME") /\ queue' = Tail(queue)
  BY DEF TakeNextFrame
<1>2. queue' \in Seq(Events) /\ Len(queue') <= QCap
  BY <1>1, TakesProperties
<1>3. /\ list \in Seq(Ops)
      /\ \A i \in 1 .. Len(list) : list[i] \in Ops \ fresh
      /\ NoOp \notin fresh
  <2>1. list \in Seq(Ops) /\ \A i \in 1 .. Len(list) : list[i] \notin fresh
    BY DistinctList
  <2>2. \A i \in 1 .. Len(list) : list[i] \in Ops
    BY <2>1, ElementOfSeq
  <2> QED
    BY <2>1, <2>2, SchedulerAssumption DEF SchedInv, TypeOK
<1>4. cur' \in (Ops \ fresh) \cup {NoOp}
  <2>1. cur' = HeadOr(list, NoOp)
    BY DEF TakeNextFrame
  <2>2. CASE list = <<>>
    BY <2>1, <2>2 DEF HeadOr
  <2>3. CASE list # <<>>
    <3>1. 1 \in 1 .. Len(list)
      BY <1>3, <2>3, EmptySeq, LenProperties
    <3> QED
      BY <1>3, <2>1, <2>3, <3>1 DEF HeadOr
  <2> QED
    BY <2>2, <2>3
<1>5. nxt' \in (Ops \ fresh) \cup {NoOp}
  <2> DEFINE head == HeadOr(list, NoOp)
  <2>1. nxt' = After(list, head, NoOp)
    BY DEF TakeNextFrame
  <2> HIDE DEF head
  <2>2. After(list, head, NoOp) = NoOp \/ \E i \in 1 .. Len(list) : After(list, head, NoOp) = list[i]
    BY <1>3, AfterRange
  <2> QED
    BY <1>3, <2>1, <2>2
<1>6. TypeOK'
  BY <1>2, <1>4, <1>5 DEF SchedInv, TypeOK, TakeNextFrame
<1>7. QueueBounded'
  BY <1>2 DEF QueueBounded
<1>8. ListedOnce'
  BY <1>3, <1>4, <1>5 DEF SchedInv, ListedOnce, TakeNextFrame
<1>9. WalkCovers' /\ NoStall'
  BY DEF WalkCovers, NoStall, TakeNextFrame
<1> QED
  BY <1>6, <1>7, <1>8, <1>9 DEF SchedInv

\* The end of a walk: what LeaveWalk sets.
LEMMA LeaveWalkStep ==
  ASSUME SchedInv, TypeOK', QueueBounded', LeaveWalk, UNCHANGED <<list, fresh>>,
         list # <<>> => WakePending'
  PROVE  SchedInv'
<1>1. NoOp \notin fresh
  BY SchedulerAssumption DEF SchedInv, TypeOK
<1>2. ListedOnce'
  BY <1>1 DEF SchedInv, ListedOnce, LeaveWalk
<1>3. WalkCovers' /\ NoStall'
  BY DEF WalkCovers, NoStall, LeaveWalk
<1> QED
  BY <1>2, <1>3 DEF SchedInv

LEMMA TurnPostponedInv == SchedInv /\ TurnPostponed => SchedInv'
<1> SUFFICES ASSUME SchedInv, TurnPostponed PROVE SchedInv'
  OBVIOUS
<1> USE DEF listVars, histVars
<1>1. LeaveWalk /\ timer' = TRUE
  BY DEF TurnPostponed
<1>2. TypeOK'
  BY DEF SchedInv, TypeOK, TurnPostponed, LeaveWalk
<1>3. QueueBounded'
  BY DEF SchedInv, QueueBounded, TurnPostponed
<1>4. WakePending'
  BY <1>1 DEF WakePending
<1> QED
  BY <1>1, <1>2, <1>3, <1>4, LeaveWalkStep DEF TurnPostponed

LEMMA WalkEndsInv == SchedInv /\ WalkEnds => SchedInv'
<1> SUFFICES ASSUME SchedInv, WalkEnds PROVE SchedInv'
  OBVIOUS
<1> USE DEF listVars, histVars
<1>1. TypeOK'
  BY DEF SchedInv, TypeOK, WalkEnds, LeaveWalk
<1>2. QueueBounded'
  BY DEF SchedInv, QueueBounded, WalkEnds
<1>3. WakePending => WakePending'
  BY DEF WakePending, Pending, WalkEnds
<1>4. ASSUME ~WakePending PROVE list = <<>>
  <2> SUFFICES ASSUME list # <<>> PROVE FALSE
    OBVIOUS
  <2>1. cur = NoOp /\ cur = HeadOr(list, NoOp)
    BY <1>4 DEF SchedInv, WalkCovers, WalkEnds
  <2>2. list \in Seq(Ops)
    BY DistinctList
  <2>3. list[1] \in Ops
    BY <2>2, EmptySeq, ElementOfSeq, LenProperties
  <2> QED
    BY <2>1, <2>3, SchedulerAssumption DEF HeadOr
<1>5. list # <<>> => WakePending'
  BY <1>3, <1>4
<1> QED
  BY <1>1, <1>2, <1>5, LeaveWalkStep DEF WalkEnds

LEMMA AddInv ==
  ASSUME NEW op \in Ops, NEW f \in Frames PROVE SchedInv /\ Add(op, f) => SchedInv'
<1> SUFFICES ASSUME SchedInv, Add(op, f) PROVE SchedInv'
  OBVIOUS
<1> USE DEF walkVars
<1> DEFINE c == [Conf[op] EXCEPT !.frame = f]
           r == AddTo(list, item, op, c)
<1>1. c \in Item
  <2>1. Conf[op] \in Item /\ f \in Int
    BY SchedulerAssumption
  <2> QED
    BY <2>1 DEF Item
<1> HIDE DEF c
<1>2. /\ list \in Seq(Ops) /\ Distinct(list) /\ op \in fresh
      /\ \A i \in 1 .. Len(list) : list[i] \notin fresh
      /\ \A i \in 1 .. Len(list) : list[i] # op
  BY DistinctList DEF Add
<1>3. /\ r.ok \in BOOLEAN /\ r.list \in Seq(Ops)
      /\ r.wake \in {"none", "event", "timer"}
      /\ ~r.ok => r.list = list
      /\ r.ok => r.wake # "none"
  BY <1>2, AddToProperties
<1>4. /\ Distinct(r.list)
      /\ \A i \in 1 .. Len(r.list) :
           r.list[i] = op \/ \E j \in 1 .. Len(list) : r.list[i] = list[j]
  BY <1>2, AddToDistinct
<1>5. /\ item' = [item EXCEPT ![op] = c]
      /\ list' = r.list
      /\ alloc' = IF r.ok THEN alloc \cup {op} ELSE alloc
      /\ timer' = (timer \/ r.wake = "timer")
      /\ Put(queue, WakeEvents(r))
      /\ fresh' = fresh \ {op}
  BY DEF Add, c
<1> HIDE DEF r
<1>6. WakeEvents(r) \in Seq(Events)
  BY EventTypes DEF WakeEvents
<1>7. queue' \in Seq(Events) /\ Len(queue') <= QCap /\ dropped' \subseteq EventIds
  BY <1>5, <1>6, PutAssumptions, PutProperties
<1>8. /\ item' \in [Ops -> Item] /\ alloc' \subseteq Ops /\ timer' \in BOOLEAN
      /\ asked' \in [Ops -> Int]
  <2>1. item' \in [Ops -> Item] /\ alloc' \subseteq Ops /\ timer' \in BOOLEAN
    BY <1>1, <1>5 DEF SchedInv, TypeOK
  <2>2. asked' = [asked EXCEPT ![op] = f] /\ f \in Int
    BY SchedulerAssumption DEF Add
  <2>3. asked' \in [Ops -> Int]
    BY <2>2 DEF SchedInv, TypeOK
  <2> QED
    BY <2>1, <2>3
<1>9. TypeOK'
  BY <1>3, <1>5, <1>7, <1>8 DEF SchedInv, TypeOK, Add
<1>10. QueueBounded'
  BY <1>7 DEF QueueBounded
<1>11. ListedOnce'
  <2>1. DOMAIN list' = 1 .. Len(list')
    BY <1>3, <1>5
  <2>2. \A i \in 1 .. Len(list') : list'[i] \notin fresh'
    BY <1>2, <1>4, <1>5
  <2>3. \A i, j \in 1 .. Len(list') : list'[i] = list'[j] => i = j
    BY <1>4, <1>5 DEF Distinct
  <2>4. cur' \notin fresh' /\ nxt' \notin fresh'
    BY <1>5 DEF SchedInv, ListedOnce, Add
  <2> QED
    BY <2>1, <2>2, <2>3, <2>4 DEF ListedOnce
<1>12. WalkCovers'
  BY DEF WalkCovers, Add
<1>13. NoStall'
  <2> SUFFICES ASSUME list' # <<>> PROVE WakePending'
    BY DEF NoStall
  <2>1. CASE r.ok /\ r.wake = "timer"
    BY <1>5, <2>1 DEF WakePending
  <2>2. CASE r.ok /\ r.wake = "event"
    <3>1. /\ 1 \in 1 .. Len(WakeEvents(r)) /\ WakeEvents(r)[1] = NextFrame
      BY <2>2 DEF WakeEvents
    <3> QED
      BY <1>5, <1>6, <3>1, PutAssumptions, PutWakes
  <2>3. CASE ~r.ok
    <3>1. list # <<>> /\ pc = "wait"
      BY <1>3, <1>5, <2>3 DEF Add
    <3>2. WakePending
      BY <3>1 DEF SchedInv, NoStall
    <3> QED
      BY <1>5, <1>6, <3>2, PutAssumptions, PutKeepsWake
  <2> QED
    BY <1>3, <2>1, <2>2, <2>3
<1> QED
  BY <1>9, <1>10, <1>11, <1>12, <1>13 DEF SchedInv

--------------------------------------------------------------------------------
(* The turns of the walk.                                                  *)

\* The list a turn starts its end with: all of it, or without cur.
TurnList(l) == l = list \/ l = Without(list, cur)

LEMMA TurnListProperties ==
  ASSUME SchedInv, cur \in Ops, NEW l, TurnList(l)
  PROVE  /\ l \in Seq(Ops) /\ Distinct(l) /\ Without(l, cur) = Without(list, cur)
         /\ \A i \in 1 .. Len(l) : \E j \in 1 .. Len(list) : l[i] = list[j]
<1>1. list \in Seq(Ops) /\ Distinct(list)
  BY DistinctList
<1>2. CASE l = list
  BY <1>1, <1>2
<1>3. CASE l = Without(list, cur)
  <2> DEFINE w == Without(list, cur)
  <2>1. /\ w \in Seq(Ops) /\ Distinct(w) /\ Without(w, cur) = w
        /\ \A i \in 1 .. Len(w) : \E j \in 1 .. Len(list) : w[i] = list[j]
    BY <1>1, WithoutAll
  <2> HIDE DEF w
  <2> QED
    BY <1>3, <2>1 DEF w
<1> QED
  BY <1>2, <1>3 DEF TurnList

\* The types of what a turn writes.
LEMMA ApplyTypes ==
  ASSUME SchedInv, cur \in Ops, NEW l, TurnList(l), NEW t,
         t = TurnOver(l, CountedDown(item[cur]), keep), Apply(t)
  PROVE  /\ list' \in Seq(Ops) /\ item' \in [Ops -> Item] /\ alloc' \subseteq Ops
         /\ timer' \in BOOLEAN /\ turns' \in [Ops -> Nat]
         /\ cur' \in Ops \cup {NoOp} /\ nxt' \in Ops \cup {NoOp} /\ pc' = pc
         /\ t.item.handle \in Nat /\ t.late \in BOOLEAN /\ t.taken \in BOOLEAN
         /\ t.wake = <<>> \/ t.wake = <<NextFrame>>
<1>1. /\ item \in [Ops -> Item] /\ keep \in BOOLEAN /\ alloc \subseteq Ops
      /\ turns \in [Ops -> Nat] /\ timer \in BOOLEAN /\ nxt \in Ops \cup {NoOp}
  BY DEF SchedInv, TypeOK
<1>2. l \in Seq(Ops) /\ Distinct(l)
  BY TurnListProperties
<1> DEFINE c == CountedDown(item[cur])
<1>3. c \in Item
  BY <1>1, TurnItem
<1> HIDE DEF c
<1>4. /\ t.item \in Item /\ t.late \in BOOLEAN /\ t.taken \in BOOLEAN
      /\ t.freed \in BOOLEAN /\ t.timer \in BOOLEAN
      /\ t.wake = <<>> \/ t.wake = <<NextFrame>>
      /\ t.list \in Seq(Ops)
  <2>1. t = TurnOver(l, c, keep)
    BY DEF c
  <2> DEFINE x == TurnOver(l, c, keep)
  <2>2. /\ x.item \in Item /\ x.late \in BOOLEAN /\ x.taken \in BOOLEAN
        /\ x.freed \in BOOLEAN /\ x.timer \in BOOLEAN
        /\ x.wake = <<>> \/ x.wake = <<NextFrame>>
        /\ x.list \in Seq(Ops)
    BY <1>1, <1>2, <1>3, TurnOverProperties
  <2> HIDE DEF x
  <2> QED
    BY <2>1, <2>2 DEF x
<1>5. t.item.handle \in Nat
  BY <1>4 DEF Item
<1>6. list' = t.list /\ item' = [item EXCEPT ![cur] = t.item]
      /\ alloc' = (IF t.freed THEN alloc \ {cur} ELSE alloc)
      /\ timer' = (timer \/ t.timer) /\ turns' = [turns EXCEPT ![cur] = @ + 1]
      /\ cur' = nxt /\ nxt' = After(t.list, nxt, NoOp) /\ pc' = pc
  BY DEF Apply, StepTo
<1>7. nxt' \in Ops \cup {NoOp}
  <2>1. \/ After(t.list, nxt, NoOp) = NoOp
        \/ \E i \in 1 .. Len(t.list) : After(t.list, nxt, NoOp) = t.list[i]
    BY <1>4, AfterRange
  <2>2. \A i \in 1 .. Len(t.list) : t.list[i] \in Ops
    BY <1>4, ElementOfSeq
  <2> QED
    BY <1>6, <2>1, <2>2
<1>8. item' \in [Ops -> Item] /\ turns' \in [Ops -> Nat]
  BY <1>1, <1>4, <1>6
<1>9. alloc' \subseteq Ops /\ timer' \in BOOLEAN
  BY <1>1, <1>6
<1> QED
  BY <1>1, <1>4, <1>5, <1>6, <1>7, <1>8, <1>9

\* A turn keeps the list without repetitions and the walk at its head as long
\* as no wake-up is pending.
LEMMA TurnStep ==
  ASSUME SchedInv, TypeOK', QueueBounded', pc = "tick", cur \in Ops,
         NEW l, TurnList(l), NEW t, t = TurnOver(l, CountedDown(item[cur]), keep),
         Apply(t), NEW evs \in Seq(Events), Put(queue, evs),
         t.wake # <<>> => 1 \in 1 .. Len(evs) /\ evs[1] = NextFrame,
         keep' => keep \/ t.taken, fresh' = fresh
  PROVE  SchedInv'
<1>1. /\ list \in Seq(Ops) /\ Distinct(list)
      /\ \A i \in 1 .. Len(list) : list[i] \notin fresh
  BY DistinctList
<1>2. /\ l \in Seq(Ops) /\ Distinct(l) /\ Without(l, cur) = Without(list, cur)
      /\ \A i \in 1 .. Len(l) : \E j \in 1 .. Len(list) : l[i] = list[j]
  BY TurnListProperties
<1>3. /\ t.list \in Seq(Ops) /\ Distinct(t.list)
      /\ \A i \in 1 .. Len(t.list) :
           t.list[i] = cur \/ \E j \in 1 .. Len(l) : t.list[i] = l[j]
      /\ t.wake = <<>> /\ ~t.timer => ~t.taken
      /\ t.wake = <<>> /\ ~t.timer /\ ~keep => t.list = Without(l, cur)
  <2> DEFINE c == CountedDown(item[cur])
  <2>1. c \in Item /\ keep \in BOOLEAN
    BY TurnItem DEF SchedInv, TypeOK
  <2>2. t = TurnOver(l, c, keep)
    OBVIOUS
  <2> HIDE DEF c
  <2> DEFINE x == TurnOver(l, c, keep)
  <2>3. /\ x.list \in Seq(Ops) /\ Distinct(x.list)
        /\ \A i \in 1 .. Len(x.list) :
             x.list[i] = cur \/ \E j \in 1 .. Len(l) : x.list[i] = l[j]
        /\ x.wake = <<>> /\ ~x.timer => ~x.taken
        /\ x.wake = <<>> /\ ~x.timer /\ ~keep => x.list = Without(l, cur)
    <3>1. l \in Seq(Ops) /\ Distinct(l) /\ cur \in Ops
      BY <1>2
    <3> QED
      BY ONLY <2>1, <3>1, TurnOverProperties
  <2> HIDE DEF x
  <2>4. t = x
    BY <2>2 DEF x
  <2> QED
    BY <2>3, <2>4
<1>4. list' = t.list /\ timer' = (timer \/ t.timer)
      /\ cur' = nxt /\ nxt' = After(t.list, nxt, NoOp) /\ pc' = pc
  BY DEF Apply, StepTo
<1>5. ListedOnce'
  <2>1. cur \notin fresh /\ nxt \notin fresh /\ NoOp \notin fresh
    <3>1. cur \notin fresh /\ nxt \notin fresh
      BY DEF SchedInv, ListedOnce
    <3>2. fresh \subseteq Ops /\ NoOp \notin Ops
      BY SchedulerAssumption DEF SchedInv, TypeOK
    <3> QED
      BY <3>1, <3>2
  <2>2. ASSUME NEW i \in 1 .. Len(t.list) PROVE t.list[i] \notin fresh
    <3>1. CASE t.list[i] = cur
      BY <2>1, <3>1
    <3>2. CASE \E j \in 1 .. Len(l) : t.list[i] = l[j]
      <4>1. PICK j \in 1 .. Len(l) : t.list[i] = l[j]
        BY <3>2
      <4>2. PICK k \in 1 .. Len(list) : l[j] = list[k]
        BY <1>2, <4>1
      <4> QED
        BY <1>1, <4>1, <4>2
    <3> QED
      BY <1>3, <3>1, <3>2
  <2>3. \/ nxt' = NoOp
        \/ \E i \in 1 .. Len(t.list) : nxt' = t.list[i]
    BY <1>3, <1>4, AfterRange
  <2>4. DOMAIN list' = 1 .. Len(list')
    BY <1>3, <1>4
  <2>5. \A i, j \in 1 .. Len(list') : list'[i] = list'[j] => i = j
    BY <1>3, <1>4 DEF Distinct
  <2>6. \A i \in 1 .. Len(list') : list'[i] \notin fresh'
    BY <1>4, <2>2
  <2>7. cur' \notin fresh' /\ nxt' \notin fresh'
    BY <1>4, <2>1, <2>2, <2>3
  <2> QED
    BY <2>4, <2>5, <2>6, <2>7 DEF ListedOnce
<1>6. WalkCovers'
  <2> SUFFICES ASSUME ~WakePending'
               PROVE  cur' = HeadOr(list', NoOp) /\ nxt' = After(list', cur', NoOp) /\ ~keep'
    BY DEF WalkCovers
  <2>1. ~WakePending
    BY <1>4, PutAssumptions, PutKeepsWake
  <2>2. t.wake = <<>>
    BY PutAssumptions, PutWakes
  <2>3. ~t.timer
    BY <1>4 DEF WakePending
  <2>4. cur = HeadOr(list, NoOp) /\ nxt = After(list, cur, NoOp) /\ ~keep
    BY <2>1 DEF SchedInv, WalkCovers
  <2>5. ~t.taken /\ list' = Without(list, cur)
    BY <1>2, <1>3, <1>4, <2>2, <2>3, <2>4
  <2>6. list # <<>> /\ cur = list[1]
    BY <2>4, SchedulerAssumption DEF HeadOr
  <2>7. list' = Tail(list) /\ nxt = HeadOr(Tail(list), NoOp)
    BY <1>1, <2>4, <2>5, <2>6, WithoutHead, AfterHead
  <2> QED
    BY <1>4, <2>4, <2>5, <2>7
<1>7. NoStall'
  BY <1>4 DEF NoStall
<1> QED
  BY <1>5, <1>6, <1>7 DEF SchedInv

LEMMA TurnDelayedInv ==
  ASSUME NEW giveUp \in BOOLEAN PROVE SchedInv /\ TurnDelayed(giveUp) => SchedInv'
<1> SUFFICES ASSUME SchedInv, TurnDelayed(giveUp) PROVE SchedInv'
  OBVIOUS
<1> DEFINE l == IF giveUp THEN Without(list, cur) ELSE list
           t == TurnOver(l, CountedDown(item[cur]), keep)
<1>1. /\ pc = "tick" /\ cur \in Ops /\ TurnList(l)
      /\ keep \in BOOLEAN
  BY DEF TurnDelayed, SchedInv, TypeOK, TurnList
<1>2. Apply(t) /\ Put(queue, t.wake) /\ keep' = (keep \/ t.taken)
  BY DEF TurnDelayed
<1> HIDE DEF l
<1>3. /\ list' \in Seq(Ops) /\ item' \in [Ops -> Item] /\ alloc' \subseteq Ops
      /\ timer' \in BOOLEAN /\ turns' \in [Ops -> Nat]
      /\ cur' \in Ops \cup {NoOp} /\ nxt' \in Ops \cup {NoOp} /\ pc' = pc
      /\ t.taken \in BOOLEAN
      /\ t.wake = <<>> \/ t.wake = <<NextFrame>>
  BY <1>1, <1>2, ApplyTypes
<1> HIDE DEF t
<1>4. /\ t.wake \in Seq(Events)
      /\ t.wake # <<>> => 1 \in 1 .. Len(t.wake) /\ t.wake[1] = NextFrame
  <2>1. /\ <<>> \in Seq(Events) /\ <<NextFrame>> \in Seq(Events)
        /\ 1 \in 1 .. Len(<<NextFrame>>) /\ <<NextFrame>>[1] = NextFrame
    BY EventTypes
  <2> QED
    BY <1>3, <2>1
<1>5. queue' \in Seq(Events) /\ Len(queue') <= QCap /\ dropped' \subseteq EventIds
  BY <1>2, <1>4, PutAssumptions, PutProperties
<1>6. ended' \in [Ops -> Nat]
  <2> DEFINE k == Completions(cur, LastCounted(cur))
  <2>1. k \in Nat
    BY CompletionsType
  <2>2. ended' = [ended EXCEPT ![cur] = @ + k]
    BY DEF TurnDelayed
  <2> HIDE DEF k
  <2> QED
    BY <1>1, <2>1, <2>2 DEF SchedInv, TypeOK
<1>7. cancelled' \subseteq Ops
  BY <1>1 DEF TurnDelayed, SchedInv, TypeOK
<1>8. keep' \in BOOLEAN
  BY <1>2
<1>9. UNCHANGED <<done, state, now, modem, addDone, trials, fresh, asked, calls>>
  BY DEF TurnDelayed
<1>10. TypeOK'
  BY <1>1, <1>3, <1>5, <1>6, <1>7, <1>8, <1>9 DEF SchedInv, TypeOK
<1>11. QueueBounded'
  BY <1>5 DEF QueueBounded
<1>12. t = TurnOver(l, CountedDown(item[cur]), keep)
  BY DEF t
<1>13. keep' => keep \/ t.taken
  BY <1>2
<1> QED
  BY <1>1, <1>2, <1>4, <1>9, <1>10, <1>11, <1>12, <1>13, TurnStep

LEMMA TurnSentInv ==
  ASSUME NEW err \in BOOLEAN PROVE SchedInv /\ TurnSent(err) => SchedInv'
<1> SUFFICES ASSUME SchedInv, TurnSent(err) PROVE SchedInv'
  OBVIOUS
<1> DEFINE Taken == [op : Ops, handle : Nat]
           t == TurnOver(list, CountedDown(item[cur]), keep)
           failed == state = "SUSPENDED" \/ err
           entry == [op |-> cur, handle |-> item[cur].handle]
           fail == FailureEvents(failed \/ t.late, t.item.handle)
<1>1. pc = "tick" /\ cur \in Ops /\ TurnList(list)
  BY DEF TurnSent, SchedInv, TypeOK, TurnList
<1>2. /\ Apply(t) /\ keep' = FALSE
      /\ modem' = IF failed THEN modem ELSE Append(modem, entry)
      /\ addDone' = NeedsDone(cur)
      /\ done' = IF NeedsDone(cur) THEN Append(done, entry) ELSE done
      /\ Put(queue, t.wake \o fail)
      /\ trials' = IF failed \/ t.late THEN MaxTrials ELSE trials + 1
      /\ UNCHANGED <<state, now, fresh, cancelled, asked, ended, calls>>
  BY DEF TurnSent
<1>3. /\ list' \in Seq(Ops) /\ item' \in [Ops -> Item] /\ alloc' \subseteq Ops
      /\ timer' \in BOOLEAN /\ turns' \in [Ops -> Nat]
      /\ cur' \in Ops \cup {NoOp} /\ nxt' \in Ops \cup {NoOp} /\ pc' = pc
      /\ t.item.handle \in Nat
      /\ t.wake = <<>> \/ t.wake = <<NextFrame>>
  BY <1>1, <1>2, ApplyTypes
<1>4. fail = <<>> \/ \E e \in Events : fail = <<e>>
  BY <1>3, EventTypes DEF FailureEvents, EventIds
<1>5. t = TurnOver(list, CountedDown(item[cur]), keep)
  OBVIOUS
<1> HIDE DEF t, fail, failed
<1>6. /\ t.wake \o fail \in Seq(Events)
      /\ t.wake # <<>> => /\ 1 \in 1 .. Len(t.wake \o fail)
                          /\ (t.wake \o fail)[1] = NextFrame
  <2> DEFINE w == t.wake
  <2>1. fail \in Seq(Events)
    <3>1. CASE fail = <<>>
      BY <3>1, EventTypes
    <3>2. CASE \E e \in Events : fail = <<e>>
      <4>1. PICK e \in Events : fail = <<e>>
        BY <3>2
      <4>2. <<e>> \in Seq(Events)
        OBVIOUS
      <4> QED
        BY <4>1, <4>2
    <3> QED
      BY <1>4, <3>1, <3>2
  <2>2. /\ <<>> \in Seq(Events) /\ <<NextFrame>> \in Seq(Events)
        /\ Len(<<NextFrame>>) = 1 /\ <<NextFrame>>[1] = NextFrame
    BY EventTypes
  <2>3. /\ w \in Seq(Events)
        /\ w # <<>> => Len(w) = 1 /\ w[1] = NextFrame
    BY <1>3, <2>2
  <2> HIDE DEF w
  <2>4. /\ w \o fail \in Seq(Events) /\ Len(w \o fail) = Len(w) + Len(fail)
        /\ \A i \in 1 .. Len(w) + Len(fail) :
             (w \o fail)[i] = IF i <= Len(w) THEN w[i] ELSE fail[i - Len(w)]
    BY <2>1, <2>3, ConcatProperties
  <2>5. Len(w) \in Nat /\ Len(fail) \in Nat
    BY <2>1, <2>3, LenProperties
  <2>6. w # <<>> => 1 \in 1 .. Len(w \o fail) /\ (w \o fail)[1] = NextFrame
    BY <2>3, <2>4, <2>5
  <2> QED
    BY <2>4, <2>6 DEF w
<1>7. queue' \in Seq(Events) /\ Len(queue') <= QCap /\ dropped' \subseteq EventIds
  BY <1>2, <1>6, PutAssumptions, PutProperties
<1>8. modem' \in Seq(Taken) /\ done' \in Seq(Taken)
  <2>1. entry \in Taken
    BY <1>1 DEF SchedInv, TypeOK, Item
  <2>2. modem \in Seq(Taken) /\ done \in Seq(Taken)
    BY DEF SchedInv, TypeOK
  <2> HIDE DEF Taken, entry
  <2>3. Append(modem, entry) \in Seq(Taken) /\ Append(done, entry) \in Seq(Taken)
    BY <2>1, <2>2, AppendProperties
  <2> QED
    BY <1>2, <2>2, <2>3
<1>9. addDone' \in BOOLEAN
  <2>1. addDone \in BOOLEAN /\ item[cur] \in Item /\ Conf[cur] \in Item
    BY <1>1, SchedulerAssumption DEF SchedInv, TypeOK
  <2>2. Conf[cur].done \in BOOLEAN /\ Conf[cur].cnt \in BOOLEAN
    BY <2>1 DEF Item
  <2> QED
    BY <1>2, <2>1, <2>2 DEF NeedsDone, LastCounted, IsForce
<1>10. trials' \in Nat
  BY <1>2, SchedulerAssumption DEF SchedInv, TypeOK
<1>11. TypeOK'
  BY <1>1, <1>2, <1>3, <1>7, <1>8, <1>9, <1>10 DEF SchedInv, TypeOK
<1>12. QueueBounded'
  BY <1>7 DEF QueueBounded
<1> QED
  BY <1>1, <1>2, <1>5, <1>6, <1>11, <1>12, TurnStep

--------------------------------------------------------------------------------
(* The invariant.                                                          *)

LEMMA StutterInv == SchedInv /\ UNCHANGED vars => SchedInv'
<1> SUFFICES ASSUME SchedInv, UNCHANGED vars PROVE SchedInv'
  OBVIOUS
<1>1. /\ UNCHANGED <<list, item, alloc, done, queue, timer, state, now, modem>>
      /\ UNCHANGED <<pc, cur, nxt, keep, addDone, trials, fresh, cancelled>>
      /\ UNCHANGED <<asked, turns, ended, dropped, calls>>
  BY DEF vars
<1>2. TypeOK' /\ QueueBounded'
  BY <1>1 DEF SchedInv, TypeOK, QueueBounded
<1>3. ListedOnce'
  BY <1>1 DEF SchedInv, ListedOnce
<1>4. WakePending' = WakePending
  BY <1>1 DEF WakePending, Pending
<1>5. WalkCovers' /\ NoStall'
  BY <1>1, <1>4 DEF SchedInv, WalkCovers, NoStall
<1> QED
  BY <1>2, <1>3, <1>5 DEF SchedInv

\* Every step of the specification keeps the invariant.
LEMMA NextInv == SchedInv /\ [Next]_vars => SchedInv'
<1> SUFFICES ASSUME SchedInv, [Next]_vars PROVE SchedInv'
  OBVIOUS
<1>1. CASE Users
  BY <1>1, AddInv, RemoveByHandleInv, ShiftFrameInv, RequestInv DEF Users
<1>2. CASE Modem
  BY <1>2, ModemCompletesInv DEF Modem
<1>3. CASE Thread
  <2>1. CASE Walk
    BY <2>1, TurnDelayedInv, TurnSentInv, TurnPostponedInv, WalkEndsInv DEF Walk
  <2> QED
    BY <1>3, <2>1, TakeCompletedInv, TakePurgeInv, TakeRemoveInv,
       TakeSuspendOrResumeInv, TakeNextFrameInv DEF Thread
<1>4. CASE TimerFires
  BY <1>4, TimerFiresInv
<1>5. CASE Advance
  BY <1>5, AdvanceInv
<1>6. CASE UNCHANGED vars
  BY <1>6, StutterInv
<1> QED
  BY <1>1, <1>2, <1>3, <1>4, <1>5, <1>6 DEF Next

\* The inductive invariant: types, the bound of the queue, no item twice in the
\* list, and the walk at the head of the list while no wake-up is pending.
THEOREM SchedulerInv == Spec => []SchedInv
<1>1. Init => SchedInv
  BY InitInv
<1>2. SchedInv /\ [Next]_vars => SchedInv'
  BY NextInv
<1> QED
  BY <1>1, <1>2, PTL DEF Spec

\* Every variable keeps its type, in particular interval_count_left never
\* falls below -1 and nothing but listed items is walked over.
THEOREM TypeCorrect == Spec => []TypeOK
<1>1. SchedInv => TypeOK
  BY DEF SchedInv
<1> QED
  BY <1>1, SchedulerInv, PTL

\* Whenever the thread waits with operations in to_be_sheduled_list, a timer
\* or a NEXT_FRAME event will wake it, unless a full queue lost such an event.
THEOREM NeverStalls == Spec => []NoStall
<1>1. SchedInv => NoStall
  BY DEF SchedInv
<1> QED
  BY <1>1, SchedulerInv, PTL

\* The event queue never exceeds its capacity.
THEOREM QueueStaysBounded == Spec => []QueueBounded
<1>1. SchedInv => QueueBounded
  BY DEF SchedInv
<1> QED
  BY <1>1, SchedulerInv, PTL

--------------------------------------------------------------------------------
(* What the steps do to the list as a set.                                 *)

LEMMA ListedIsHeld == \A op : Listed(op) <=> op \in ToSet(list)
BY DEF Listed, ToSet

\* What a turn of cur does. It stays listed when it was added again, or when
\* keep protects an item that is not to be repeated.
LEMMA TurnGives ==
  ASSUME SchedInv, cur \in Ops, NEW l, TurnList(l), NEW t, NEW c,
         c = CountedDown(item[cur]), t = TurnOver(l, c, keep), Apply(t)
  PROVE  /\ c \in Item /\ t.item \in Item
         /\ t.item = IF c.ival # 0 THEN NextTurn(c) ELSE c
         /\ t.taken \in BOOLEAN /\ t.late \in BOOLEAN
         /\ t.taken => c.ival # 0
         /\ t.late <=> c.ival # 0 /\ ~t.taken
         /\ list' \in Seq(Ops)
         /\ ToSet(list') \ {cur} = ToSet(list) \ {cur}
         /\ t.taken => cur \in ToSet(list')
         /\ cur \in ToSet(list') => t.taken \/ (keep /\ cur \in ToSet(l))
         /\ alloc' = IF keep \/ t.taken THEN alloc ELSE alloc \ {cur}
         /\ item' = [item EXCEPT ![cur] = t.item]
         /\ turns' = [turns EXCEPT ![cur] = @ + 1]
         /\ cur' = nxt /\ nxt' = After(list', nxt, NoOp) /\ pc' = pc
<1> DEFINE again == c.ival # 0
           w == Without(l, cur)
           r == AddTo(w, item, cur, NextTurn(c))
           taken == again /\ r.ok
           stays == keep \/ taken
           base == IF again THEN r.list ELSE l
<1>1. l \in Seq(Ops) /\ Distinct(l)
  BY TurnListProperties
<1>2. w \in Seq(Ops) /\ Distinct(w) /\ ToSet(w) = ToSet(l) \ {cur}
  BY <1>1, HoldsWithout, WithoutAll
<1>3. ToSet(l) \ {cur} = ToSet(list) \ {cur}
  <2>1. list \in Seq(Ops) /\ Distinct(list)
    BY DistinctList
  <2>2. CASE l = list
    BY <2>2
  <2>3. CASE l = Without(list, cur)
    <3>1. ToSet(Without(list, cur)) = ToSet(list) \ {cur}
      BY <2>1, HoldsWithout
    <3> QED
      BY <2>3, <3>1
  <2> QED
    BY <2>2, <2>3 DEF TurnList
<1>4. c \in Item
  BY TurnItem DEF SchedInv, TypeOK
<1>5. t.item = IF again THEN NextTurn(c) ELSE c
  BY DEF TurnOver
<1>6. t.item \in Item
  BY <1>4, <1>5, TurnItem
<1>7. /\ t.taken = taken /\ t.late = (again /\ ~r.ok) /\ t.freed = ~stays
      /\ t.list = IF stays THEN base ELSE Without(base, cur)
  BY DEF TurnOver, LeftOver
<1>8. /\ list' = t.list /\ item' = [item EXCEPT ![cur] = t.item]
      /\ alloc' = (IF t.freed THEN alloc \ {cur} ELSE alloc)
      /\ turns' = [turns EXCEPT ![cur] = @ + 1]
      /\ cur' = nxt /\ nxt' = After(t.list, nxt, NoOp) /\ pc' = pc
  BY DEF Apply, StepTo
<1> HIDE DEF w
<1>9. /\ r.ok \in BOOLEAN /\ r.list \in Seq(Ops) /\ Distinct(r.list)
      /\ r.ok => ToSet(r.list) = ToSet(w) \cup {cur}
      /\ ~r.ok => ToSet(r.list) = ToSet(w)
  <2>1. \A i \in 1 .. Len(w) : w[i] # cur
    BY <1>1, WithoutAll DEF w
  <2>2. r.ok \in BOOLEAN /\ r.list \in Seq(Ops)
    BY <1>2, AddToProperties
  <2>3. Distinct(r.list)
    BY <1>2, <2>1, AddToDistinct
  <2>4. /\ r.ok => ToSet(r.list) = ToSet(w) \cup {cur}
        /\ ~r.ok => ToSet(r.list) = ToSet(w)
    BY <1>2, HoldsAddTo
  <2> QED
    BY <2>2, <2>3, <2>4
<1> HIDE DEF r
<1>10. base \in Seq(Ops) /\ Distinct(base) /\ ToSet(base) \ {cur} = ToSet(l) \ {cur}
  BY <1>1, <1>2, <1>9
<1>11. /\ t.list \in Seq(Ops) /\ ToSet(t.list) \ {cur} = ToSet(l) \ {cur}
       /\ ~stays => cur \notin ToSet(t.list)
  <2>1. CASE stays
    BY <1>7, <1>10, <2>1
  <2>2. CASE ~stays
    <3> HIDE DEF base
    <3>1. Without(base, cur) \in Seq(Ops) /\ ToSet(Without(base, cur)) = ToSet(base) \ {cur}
      BY <1>10, HoldsWithout, WithoutAll
    <3> QED
      BY <1>7, <1>10, <2>2, <3>1
  <2> QED
    BY <2>1, <2>2
<1>12. t.taken => cur \in ToSet(list')
  BY <1>7, <1>8, <1>9
<1>13. cur \in ToSet(list') => t.taken \/ (keep /\ cur \in ToSet(l))
  <2> SUFFICES ASSUME cur \in ToSet(list'), ~taken
               PROVE  keep /\ cur \in ToSet(l)
    BY <1>7
  <2>1. stays /\ keep
    BY <1>8, <1>11
  <2>2. cur \in ToSet(base)
    BY <1>7, <1>8, <2>1
  <2> QED
    BY <1>2, <1>9, <2>1, <2>2
<1>14. alloc' = IF keep \/ t.taken THEN alloc ELSE alloc \ {cur}
  BY <1>7, <1>8
<1>15. t.taken \in BOOLEAN /\ t.late \in BOOLEAN /\ (t.taken => again) /\ (t.late <=> again /\ ~t.taken)
  BY <1>7, <1>9
<1> QED
  BY <1>3, <1>4, <1>5, <1>6, <1>8, <1>11, <1>12, <1>13, <1>14, <1>15

\* list_item_remove_by_phy_op_handle(), the list taken as a set.
LEMMA UnlinkGives ==
  ASSUME SchedInv, NEW h, Unlink(h)
  PROVE  \/ WithHandle(h) = {} /\ list' = list /\ cancelled' = cancelled
         \/ /\ WithHandle(h) # {}
            /\ \E op \in ToSet(list) \cap Ops :
                 /\ op = list[Min(WithHandle(h))] /\ item[op].handle = h
                 /\ list' = Without(list, op)
                 /\ ToSet(list') = ToSet(list) \ {op}
                 /\ cancelled' = cancelled \cup {op}
<1>1. CASE WithHandle(h) = {}
  BY <1>1 DEF Unlink
<1>2. CASE WithHandle(h) # {}
  <2> DEFINE op == list[Min(WithHandle(h))]
  <2>1. Min(WithHandle(h)) \in 1 .. Len(list) /\ op \in Ops
    BY <1>2, FirstWithHandle DEF SchedInv
  <2>2. Min(WithHandle(h)) \in WithHandle(h)
    <3>1. WithHandle(h) \subseteq Nat
      BY DistinctList DEF WithHandle
    <3> QED
      BY <1>2, <3>1, MinExists
  <2>3. op \in ToSet(list) /\ item[op].handle = h
    BY <2>2 DEF WithHandle, ToSet
  <2>4. list' = Without(list, op) /\ cancelled' = cancelled \cup {op}
    BY <1>2 DEF Unlink
  <2> HIDE DEF op
  <2>5. ToSet(Without(list, op)) = ToSet(list) \ {op}
    BY DistinctList, HoldsWithout
  <2> QED
    BY <1>2, <2>1, <2>3, <2>4, <2>5 DEF op
<1> QED
  BY <1>1, <1>2

--------------------------------------------------------------------------------
(* The path of an item: what the walk and the heap rely on.                *)

\* What the walk leaves alone in an item.
KeptItem(op, c) ==
  /\ c.prio = Conf[op].prio /\ c.range = Conf[op].range
  /\ c.lo = Conf[op].lo /\ c.hi = Conf[op].hi
  /\ c.handle \in HandlesOf(op)
  /\ c.ival \in {0, Conf[op].ival}
  /\ c.left > 0 => c.ival = Conf[op].ival
  /\ c.left <= Conf[op].left

ItemsKept == \A op \in Ops : KeptItem(op, item[op])

SentKept ==
  /\ \A i \in DOMAIN done :
       done[i].op \notin fresh /\ done[i].handle \in HandlesOf(done[i].op)
  /\ \A i \in DOMAIN modem : modem[i].handle \in HandlesOf(modem[i].op)

\* The walk holds the mutex: its two pointers stay listed neighbours.
Walking ==
  pc = "tick" =>
    /\ nxt = After(list, cur, NoOp)
    /\ cur # NoOp => Listed(cur)

\* Whatever is listed is allocated: no walk, search or removal meets an item
\* that was freed.
ListedAllocated == \A op \in Ops : Listed(op) => op \in alloc

FreshApart == cancelled \cap fresh = {}

PathInv ==
  SchedInv /\ ItemsKept /\ SentKept /\ Walking /\ ListedAllocated /\ FreshApart /\ FrameSorted

OnePriority == Shifts = {} /\ \A a, b \in Ops : Conf[a].prio = Conf[b].prio

LEMMA SortedIsInOrder == FrameSorted <=> (OnePriority => InOrder(list, item))
BY DEF FrameSorted, OnePriority, InOrder

LEMMA ConfKept ==
  ASSUME NEW op \in Ops, NEW f
  PROVE  KeptItem(op, Conf[op]) /\ KeptItem(op, [Conf[op] EXCEPT !.frame = f])
<1>1. Conf[op] \in Item /\ (Conf[op].range => Conf[op].handle \in Conf[op].lo .. Conf[op].hi)
  BY SchedulerAssumption
<1>2. Conf[op].left \in Int /\ Conf[op].handle \in HandlesOf(op)
  BY <1>1 DEF Item, HandlesOf
<1>3. KeptItem(op, Conf[op])
  BY <1>2 DEF KeptItem
<1> DEFINE c == [Conf[op] EXCEPT !.frame = f]
<1>4. /\ c.prio = Conf[op].prio /\ c.range = Conf[op].range /\ c.lo = Conf[op].lo
      /\ c.hi = Conf[op].hi /\ c.handle = Conf[op].handle /\ c.ival = Conf[op].ival
      /\ c.left = Conf[op].left
  BY <1>1 DEF Item
<1> HIDE DEF c
<1>5. KeptItem(op, c)
  BY <1>3, <1>4 DEF KeptItem
<1> QED
  BY <1>3, <1>5 DEF c

\* A turn keeps the item, and takes one off its count.
LEMMA TurnKeepsItem ==
  ASSUME NEW op \in Ops, NEW old \in Item, KeptItem(op, old), NEW c, c = CountedDown(old)
  PROVE  /\ KeptItem(op, c) /\ KeptItem(op, NextTurn(c))
         /\ c.left = IF old.left > 0 THEN old.left - 1 ELSE old.left
         /\ c.ival = IF old.left = 1 THEN 0 ELSE old.ival
         /\ c.frame = old.frame /\ c.handle = old.handle
         /\ NextTurn(c).left = c.left /\ NextTurn(c).ival = c.ival
         /\ NextTurn(c).frame = c.frame + c.ival
         /\ ~Conf[op].range => NextTurn(c).handle = c.handle
<1>1. /\ old.left \in Int /\ old.ival \in Nat /\ Conf[op].left \in Int /\ Conf[op].lo \in Nat
      /\ Conf[op].hi \in Nat /\ Conf[op].handle \in Nat
      /\ Conf[op].range => Conf[op].handle \in Conf[op].lo .. Conf[op].hi
  BY SchedulerAssumption DEF Item
<1>2. /\ c.left = (IF old.left > 0 THEN old.left - 1 ELSE old.left)
      /\ c.ival = IF old.left = 1 THEN 0 ELSE old.ival
      /\ c.frame = old.frame /\ c.handle = old.handle /\ c.prio = old.prio
      /\ c.range = old.range /\ c.lo = old.lo /\ c.hi = old.hi
  BY DEF CountedDown, Item
<1>3. c \in Item
  BY TurnItem
<1>4. KeptItem(op, c)
  BY <1>1, <1>2 DEF KeptItem
<1> DEFINE n == NextTurn(c)
<1>5. /\ n.left = c.left /\ n.ival = c.ival /\ n.frame = c.frame + c.ival
      /\ n.prio = c.prio /\ n.range = c.range /\ n.lo = c.lo /\ n.hi = c.hi
      /\ n.handle = IF ~c.range THEN c.handle
                    ELSE IF c.handle + 1 > c.hi THEN c.lo ELSE c.handle + 1
  BY <1>3 DEF NextTurn, Item
<1>6. n.handle \in HandlesOf(op)
  <2>1. CASE Conf[op].range
    <3>1. c.handle \in Conf[op].lo .. Conf[op].hi
      BY <1>4, <2>1 DEF KeptItem, HandlesOf
    <3>2. n.handle = IF c.handle + 1 > Conf[op].hi THEN Conf[op].lo ELSE c.handle + 1
      BY <1>4, <1>5, <2>1 DEF KeptItem
    <3>3. n.handle \in Conf[op].lo .. Conf[op].hi
      BY <1>1, <3>1, <3>2
    <3> QED
      BY <2>1, <3>3 DEF HandlesOf
  <2>2. CASE ~Conf[op].range
    BY <1>4, <1>5, <2>2 DEF KeptItem
  <2> QED
    BY <2>1, <2>2
<1> HIDE DEF n
<1>7. KeptItem(op, n)
  BY <1>4, <1>5, <1>6 DEF KeptItem
<1>8. ~Conf[op].range => n.handle = c.handle
  BY <1>4, <1>5 DEF KeptItem
<1> QED
  BY <1>2, <1>4, <1>5, <1>7, <1>8 DEF n

\* A step that leaves list and heap alone; the modem may complete something.
LEMMA IdlePath ==
  ASSUME PathInv, SchedInv', Walking', UNCHANGED <<list, item, alloc, done, fresh, cancelled>>,
         \A i \in DOMAIN modem' : \E j \in DOMAIN modem : modem'[i] = modem[j]
  PROVE  PathInv'
<1>1. ItemsKept'
  BY DEF PathInv, ItemsKept
<1>2. SentKept'
  BY DEF PathInv, SentKept
<1>3. ListedAllocated' /\ FreshApart' /\ FrameSorted'
  BY DEF PathInv, ListedAllocated, Listed, FreshApart, FrameSorted
<1> QED
  BY <1>1, <1>2, <1>3 DEF PathInv

LEMMA SameWalk ==
  ASSUME Walking, UNCHANGED <<list, pc, cur, nxt>>
  PROVE  Walking'
BY DEF Walking, Listed

LEMMA ShiftFramePath ==
  ASSUME NEW h, NEW d \in Shifts PROVE PathInv /\ ShiftFrame(h, d) => PathInv'
<1> SUFFICES ASSUME PathInv, ShiftFrame(h, d) PROVE PathInv'
  OBVIOUS
<1> USE DEF walkVars
<1>1. SchedInv'
  BY ShiftFrameInv DEF PathInv
<1>2. ItemsKept'
  <2>1. ItemsKept /\ item \in [Ops -> Item]
    BY DEF PathInv, SchedInv, TypeOK
  <2>2. CASE WithHandle(h) = {}
    BY <2>1, <2>2 DEF ShiftFrame, ItemsKept
  <2>3. CASE WithHandle(h) # {}
    <3> DEFINE op == list[Min(WithHandle(h))]
               c == [item[op] EXCEPT !.frame = @ + d]
    <3>1. op \in Ops
      BY <2>3, FirstWithHandle DEF PathInv, SchedInv
    <3>2. item' = [item EXCEPT ![op] = c]
      BY <2>3 DEF ShiftFrame
    <3> HIDE DEF op
    <3>3. /\ c.prio = item[op].prio /\ c.range = item[op].range /\ c.lo = item[op].lo
          /\ c.hi = item[op].hi /\ c.handle = item[op].handle /\ c.ival = item[op].ival
          /\ c.left = item[op].left
      BY <2>1, <3>1 DEF Item
    <3> HIDE DEF c
    <3>4. KeptItem(op, c)
      BY <2>1, <3>1, <3>3 DEF ItemsKept, KeptItem
    <3> QED
      BY <2>1, <3>1, <3>2, <3>4 DEF ItemsKept
  <2> QED
    BY <2>2, <2>3
<1>3. SentKept' /\ ListedAllocated' /\ FreshApart' /\ Walking'
  BY DEF PathInv, SentKept, ListedAllocated, Listed, FreshApart, Walking, ShiftFrame
<1>4. FrameSorted'
  BY DEF FrameSorted
<1> QED
  BY <1>1, <1>2, <1>3, <1>4 DEF PathInv

\* An item leaves the list, outside the walk; FREE is what is freed with it.
LEMMA UnlinkPath ==
  ASSUME PathInv, SchedInv', NEW h, Unlink(h), pc' = "wait", UNCHANGED <<item, fresh, modem>>,
         \A i \in DOMAIN done' : \E j \in DOMAIN done : done'[i] = done[j],
         alloc' = alloc \/ FreeUnlinked(h)
  PROVE  PathInv'
<1>1. ItemsKept' /\ SentKept' /\ Walking'
  BY DEF PathInv, ItemsKept, SentKept, Walking
<1>2. ListedAllocated' /\ FreshApart' /\ FrameSorted'
  <2>1. CASE WithHandle(h) = {} /\ list' = list /\ cancelled' = cancelled
    <3>1. alloc' = alloc
      BY <2>1 DEF FreeUnlinked
    <3> QED
      BY <2>1, <3>1 DEF PathInv, ListedAllocated, Listed, FreshApart, FrameSorted
  <2>2. CASE /\ WithHandle(h) # {}
             /\ \E op \in ToSet(list) \cap Ops :
                 /\ op = list[Min(WithHandle(h))]
                 /\ list' = Without(list, op)
                 /\ ToSet(list') = ToSet(list) \ {op}
                 /\ cancelled' = cancelled \cup {op}
    <3>1. PICK op \in ToSet(list) \cap Ops :
                 /\ op = list[Min(WithHandle(h))]
                 /\ list' = Without(list, op)
                 /\ ToSet(list') = ToSet(list) \ {op}
                 /\ cancelled' = cancelled \cup {op}
      BY <2>2
    <3>2. alloc \ {op} \subseteq alloc'
      BY <2>2, <3>1 DEF FreeUnlinked
    <3>3. ListedAllocated'
      BY <3>1, <3>2, ListedIsHeld DEF PathInv, ListedAllocated, Listed, ToSet
    <3>4. op \notin fresh
      BY <3>1 DEF PathInv, SchedInv, ListedOnce, ToSet
    <3>5. FreshApart'
      BY <3>1, <3>4 DEF PathInv, FreshApart
    <3>6. OnePriority => InOrder(list', item')
      BY <3>1, DistinctList, OrderWithout, SortedIsInOrder DEF PathInv
    <3>7. FrameSorted'
      BY <3>6 DEF FrameSorted, InOrder, OnePriority
    <3> QED
      BY <3>3, <3>5, <3>7
  <2> QED
    BY <2>1, <2>2, UnlinkGives DEF PathInv
<1> QED
  BY <1>1, <1>2 DEF PathInv

LEMMA AddPath ==
  ASSUME NEW op \in Ops, NEW f \in Frames PROVE PathInv /\ Add(op, f) => PathInv'
<1> SUFFICES ASSUME PathInv, Add(op, f) PROVE PathInv'
  OBVIOUS
<1> USE DEF walkVars
<1> DEFINE c == [Conf[op] EXCEPT !.frame = f]
           r == AddTo(list, item, op, c)
<1>1. SchedInv'
  BY AddInv DEF PathInv
<1>2. /\ pc' = "wait" /\ op \in fresh /\ item' = [item EXCEPT ![op] = c]
      /\ list' = r.list /\ alloc' = (IF r.ok THEN alloc \cup {op} ELSE alloc)
      /\ fresh' = fresh \ {op} /\ UNCHANGED <<done, modem, cancelled>>
  BY DEF Add
<1>3. /\ r.ok => ToSet(list') = ToSet(list) \cup {op}
      /\ ~r.ok => ToSet(list') = ToSet(list)
  <2>1. list \in Seq(Ops)
    BY DistinctList DEF PathInv
  <2> HIDE DEF c
  <2>2. /\ r.ok => ToSet(r.list) = ToSet(list) \cup {op}
        /\ ~r.ok => ToSet(r.list) = ToSet(list)
    BY <2>1, HoldsAddTo
  <2> HIDE DEF r
  <2> QED
    BY <1>2, <2>2
<1>4. KeptItem(op, c) /\ c.frame = f /\ c.frame \in Int /\ c.prio = Conf[op].prio /\ c.prio \in Nat
  <2>1. Conf[op] \in Item /\ f \in Int
    BY SchedulerAssumption
  <2>2. c.frame = f /\ c.prio = Conf[op].prio /\ Conf[op].prio \in Nat
    BY <2>1 DEF Item, Priorities
  <2> QED
    BY <2>1, <2>2, ConfKept
<1>5. item \in [Ops -> Item] /\ list \in Seq(Ops)
  BY DistinctList DEF PathInv, SchedInv, TypeOK
<1>6. ASSUME OnePriority PROVE InOrder(list', item')
  <2>1. op \notin ToSet(list)
    BY <1>2, <1>5 DEF PathInv, SchedInv, ListedOnce, ToSet
  <2>2. InOrder(list, item)
    BY <1>6, SortedIsInOrder DEF PathInv
  <2>3. \A e \in ToSet(list) : /\ item[e].frame \in Int /\ item'[e] = item[e]
                               /\ item[e].prio = c.prio
    <3> SUFFICES ASSUME NEW e \in ToSet(list)
                 PROVE  /\ item[e].frame \in Int /\ item'[e] = item[e]
                        /\ item[e].prio = c.prio
      OBVIOUS
    <3>1. e \in Ops
      BY <1>5 DEF ToSet
    <3>2. item[e].frame \in Int /\ item[e].prio = Conf[e].prio
      BY <1>5, <3>1 DEF PathInv, ItemsKept, KeptItem, Item
    <3> HIDE DEF c
    <3> QED
      BY <1>2, <1>4, <1>5, <1>6, <2>1, <3>1, <3>2 DEF OnePriority
  <2>4. item'[op] = c
    BY <1>2, <1>5
  <2> HIDE DEF c
  <2> QED
    BY <1>2, <1>4, <1>5, <2>1, <2>2, <2>3, <2>4, OrderAddTo
<1> HIDE DEF c, r
<1>7. ItemsKept'
  BY <1>2, <1>4, <1>5 DEF PathInv, ItemsKept
<1>8. SentKept' /\ FreshApart' /\ Walking'
  BY <1>2 DEF PathInv, SentKept, FreshApart, Walking
<1>9. ListedAllocated'
  <2>1. \A e \in ToSet(list) \cap Ops : e \in alloc
    BY ListedIsHeld DEF PathInv, ListedAllocated
  <2>2. \A e \in ToSet(list') \cap Ops : e \in alloc'
    BY <1>2, <1>3, <2>1
  <2> QED
    BY <2>2 DEF ListedAllocated, Listed, ToSet
<1>10. FrameSorted'
  BY <1>6 DEF FrameSorted, OnePriority, InOrder
<1> QED
  BY <1>1, <1>7, <1>8, <1>9, <1>10 DEF PathInv

LEMMA TakePurgePath == PathInv /\ TakePurge => PathInv'
<1> SUFFICES ASSUME PathInv, TakePurge PROVE PathInv'
  OBVIOUS
<1> USE DEF walkVars
<1>1. SchedInv'
  BY TakePurgeInv DEF PathInv
<1>2. /\ pc' = "wait" /\ list' = <<>> /\ done' = <<>>
      /\ cancelled' = cancelled \cup {op \in Ops : Listed(op)} \cup {done[i].op : i \in DOMAIN done}
      /\ UNCHANGED <<item, modem, fresh>>
  BY DEF TakePurge, Takes
<1>3. ItemsKept' /\ SentKept' /\ Walking'
  BY <1>2 DEF PathInv, ItemsKept, SentKept, Walking
<1>4. ListedAllocated' /\ FrameSorted'
  BY <1>2 DEF ListedAllocated, Listed, FrameSorted
<1>5. FreshApart'
  <2>1. \A op \in Ops : Listed(op) => op \notin fresh
    BY DEF PathInv, SchedInv, ListedOnce, Listed
  <2>2. \A i \in DOMAIN done : done[i].op \notin fresh
    BY DEF PathInv, SentKept
  <2> QED
    BY <1>2, <2>1, <2>2 DEF PathInv, FreshApart
<1> QED
  BY <1>1, <1>3, <1>4, <1>5 DEF PathInv

\* What taking a completion off the queue does to the done list.
LEMMA CompletedGives ==
  ASSUME SchedInv, NEW giveUp \in BOOLEAN, TakeCompleted(giveUp),
         NEW h, h = Head(queue).handle
  PROVE  \/ /\ \A i \in DOMAIN done : done[i].handle # h
            /\ UNCHANGED <<list, done, cancelled, ended>> /\ ~giveUp
         \/ \E p \in 1 .. Len(done), op \in Ops :
              /\ op = done[p].op /\ done[p].handle = h
              /\ giveUp => op \in BgScans
              /\ done' = RemoveAt(done, p)
              /\ ended' = [ended EXCEPT ![op] = @ + Completions(op, FALSE)]
              /\ IF giveUp THEN Unlink(h) ELSE UNCHANGED <<list, cancelled>>
<1> DEFINE F == {i \in DOMAIN done : done[i].handle = h}
           op == done[Min(F)].op
<1>1. CASE F = {}
  BY <1>1 DEF TakeCompleted
<1>2. CASE F # {}
  <2>1. /\ done' = RemoveAt(done, Min(F))
        /\ ended' = [ended EXCEPT ![op] = @ + Completions(op, FALSE)]
        /\ giveUp => op \in BgScans
        /\ IF giveUp THEN Unlink(h) ELSE UNCHANGED <<list, cancelled>>
    BY <1>2 DEF TakeCompleted
  <2>2. done \in Seq([op : Ops, handle : Nat])
    BY DEF SchedInv, TypeOK
  <2>3. DOMAIN done = 1 .. Len(done)
    BY <2>2
  <2>4. Min(F) \in F
    <3>1. F \subseteq Nat
      BY <2>3
    <3> HIDE DEF F
    <3> QED
      BY <1>2, <3>1, MinExists
  <2>5. Min(F) \in 1 .. Len(done) /\ done[Min(F)].handle = h
    BY <2>3, <2>4
  <2> HIDE DEF F
  <2>6. op \in Ops
    <3>1. done[Min(F)] \in [op : Ops, handle : Nat]
      BY <2>2, <2>5, ElementOfSeq
    <3> QED
      BY <3>1
  <2> QED
    BY <2>1, <2>5, <2>6
<1> QED
  BY <1>1, <1>2

LEMMA TakeCompletedPath ==
  ASSUME NEW giveUp \in BOOLEAN PROVE PathInv /\ TakeCompleted(giveUp) => PathInv'
<1> SUFFICES ASSUME PathInv, TakeCompleted(giveUp) PROVE PathInv'
  OBVIOUS
<1> USE DEF walkVars
<1> DEFINE h == Head(queue).handle
           Sent == [op : Ops, handle : Nat]
<1>1. SchedInv'
  BY TakeCompletedInv DEF PathInv
<1>2. pc' = "wait" /\ pc = "wait" /\ UNCHANGED <<item, alloc, modem, fresh, cur, nxt>>
  BY DEF TakeCompleted, Takes
<1>3. /\ \A i \in DOMAIN done' : \E j \in DOMAIN done : done'[i] = done[j]
      /\ UNCHANGED <<list, cancelled>> \/ Unlink(h)
  <2>1. CASE UNCHANGED <<list, done, cancelled>>
    BY <2>1
  <2>2. CASE \E p \in 1 .. Len(done), op \in Ops :
              /\ done' = RemoveAt(done, p)
              /\ IF giveUp THEN Unlink(h) ELSE UNCHANGED <<list, cancelled>>
    <3>1. PICK p \in 1 .. Len(done) :
              /\ done' = RemoveAt(done, p)
              /\ IF giveUp THEN Unlink(h) ELSE UNCHANGED <<list, cancelled>>
      BY <2>2
    <3>2. done \in Seq(Sent)
      BY DEF PathInv, SchedInv, TypeOK
    <3>3. /\ done' \in Seq(Sent) /\ Len(done') = Len(done) - 1
          /\ \A i \in 1 .. Len(done) - 1 : done'[i] = IF i < p THEN done[i] ELSE done[i + 1]
      BY <3>1, <3>2, RemoveAtProperties
    <3>4. DOMAIN done' = 1 .. Len(done) - 1 /\ DOMAIN done = 1 .. Len(done) /\ Len(done) \in Nat
      BY <3>2, <3>3, LenProperties
    <3>5. ASSUME NEW i \in DOMAIN done' PROVE \E j \in DOMAIN done : done'[i] = done[j]
      <4>1. i \in DOMAIN done /\ i + 1 \in DOMAIN done
        BY <3>4
      <4> QED
        BY <3>3, <3>4, <4>1
    <3> QED
      BY <3>1, <3>5
  <2> QED
    BY <2>1, <2>2, CompletedGives DEF PathInv
<1> HIDE DEF h
<1>4. CASE Unlink(h)
  BY <1>1, <1>2, <1>3, <1>4, UnlinkPath
<1>5. CASE UNCHANGED <<list, cancelled>>
  <2>1. ItemsKept' /\ SentKept' /\ Walking'
    BY <1>2, <1>3 DEF PathInv, ItemsKept, SentKept, Walking
  <2>2. ListedAllocated' /\ FreshApart' /\ FrameSorted'
    BY <1>2, <1>5 DEF PathInv, ListedAllocated, Listed, FreshApart, FrameSorted
  <2> QED
    BY <1>1, <2>1, <2>2 DEF PathInv
<1> QED
  BY <1>3, <1>4, <1>5

\* A turn keeps the list in order: an item added again is placed by its new
\* frame, any other one keeps its frame.
LEMMA TurnOrder ==
  ASSUME PathInv, cur \in Ops, NEW l, TurnList(l), NEW t, NEW c,
         c = CountedDown(item[cur]), t = TurnOver(l, c, keep), Apply(t), OnePriority
  PROVE  InOrder(list', item')
<1> DEFINE again == c.ival # 0
           w == Without(l, cur)
           n == NextTurn(c)
           r == AddTo(w, item, cur, n)
           stays == keep \/ (again /\ r.ok)
           base == IF again THEN r.list ELSE l
<1>1. l \in Seq(Ops) /\ Distinct(l) /\ list \in Seq(Ops) /\ Distinct(list)
  BY TurnListProperties, DistinctList DEF PathInv
<1>2. InOrder(l, item)
  <2>1. InOrder(list, item)
    BY SortedIsInOrder DEF PathInv
  <2>2. InOrder(Without(list, cur), item)
    BY <1>1, <2>1, OrderWithout
  <2> QED
    BY <2>1, <2>2 DEF TurnList
<1>3. /\ item \in [Ops -> Item] /\ item[cur] \in Item /\ KeptItem(cur, item[cur])
  BY DEF PathInv, SchedInv, TypeOK, ItemsKept
<1>4. /\ c \in Item /\ n \in Item /\ c.frame = item[cur].frame /\ KeptItem(cur, n)
      /\ n.frame \in Int /\ n.prio = Conf[cur].prio /\ n.prio \in Nat
  <2>1. /\ c \in Item /\ n \in Item
    BY <1>3, TurnItem
  <2>2. c.frame = item[cur].frame /\ KeptItem(cur, n)
    BY <1>3, TurnKeepsItem
  <2>3. n.frame \in Int /\ n.prio \in Nat
    BY <2>1 DEF Item, Priorities
  <2> QED
    BY <2>1, <2>2, <2>3 DEF KeptItem
<1>5. /\ list' = t.list /\ item' = [item EXCEPT ![cur] = t.item]
      /\ t.item = (IF again THEN n ELSE c)
      /\ t.list = IF stays THEN base ELSE Without(base, cur)
  BY DEF Apply, TurnOver, LeftOver
<1> HIDE DEF n
<1>6. /\ \A e \in Ops : e # cur => item'[e] = item[e]
      /\ item'[cur] = IF again THEN n ELSE c
  BY <1>3, <1>5
<1>7. w \in Seq(Ops) /\ ToSet(w) = ToSet(l) \ {cur} /\ ToSet(l) \subseteq Ops
  <2>1. w \in Seq(Ops)
    BY <1>1, WithoutAll
  <2>2. ToSet(w) = ToSet(l) \ {cur}
    BY <1>1, HoldsWithout
  <2>3. ToSet(l) \subseteq Ops
    BY <1>1 DEF ToSet
  <2> QED
    BY <2>1, <2>2, <2>3
<1> HIDE DEF w
<1>8. CASE again
  <2>1. InOrder(w, item)
    BY <1>1, <1>2, OrderWithout DEF w
  <2>2. \A e \in ToSet(w) : /\ item[e].frame \in Int /\ item'[e] = item[e]
                            /\ item[e].prio = n.prio
    <3> SUFFICES ASSUME NEW e \in ToSet(w)
                 PROVE  /\ item[e].frame \in Int /\ item'[e] = item[e]
                        /\ item[e].prio = n.prio
      OBVIOUS
    <3>1. e \in Ops /\ e # cur
      BY <1>7
    <3>2. item[e].frame \in Int /\ item[e].prio = Conf[e].prio
      BY <1>3, <3>1 DEF PathInv, ItemsKept, KeptItem, Item
    <3> QED
      BY <1>4, <1>6, <3>1, <3>2 DEF OnePriority
  <2>3. cur \notin ToSet(w) /\ item'[cur] = n
    BY <1>6, <1>7, <1>8
  <2>4. InOrder(r.list, item')
    BY <1>4, <1>7, <2>1, <2>2, <2>3, OrderAddTo
  <2>5. r.list \in Seq(Ops) /\ Distinct(r.list)
    <3>1. Distinct(w) /\ \A i \in 1 .. Len(w) : w[i] # cur
      BY <1>1, WithoutAll DEF w
    <3> QED
      BY <1>7, <3>1, AddToDistinct
  <2> HIDE DEF r
  <2>6. InOrder(Without(r.list, cur), item')
    BY <2>4, <2>5, OrderWithout
  <2> QED
    BY <1>5, <1>8, <2>4, <2>6
<1>9. CASE ~again
  <2>1. \A e \in Ops : item'[e].frame = item[e].frame
    BY <1>4, <1>6, <1>9
  <2>2. InOrder(l, item')
    <3>1. \A i \in DOMAIN l : l[i] \in Ops
      BY <1>7 DEF ToSet
    <3> QED
      BY <1>2, <2>1, <3>1 DEF InOrder
  <2>3. InOrder(Without(l, cur), item')
    BY <1>1, <2>2, OrderWithout
  <2> QED
    BY <1>5, <1>9, <2>2, <2>3
<1> QED
  BY <1>8, <1>9

LEMMA TurnPath ==
  ASSUME PathInv, SchedInv', pc = "tick", cur \in Ops, NEW l, TurnList(l), NEW t, NEW c,
         c = CountedDown(item[cur]), t = TurnOver(l, c, keep), Apply(t), fresh' = fresh,
         cancelled' \subseteq cancelled \cup {cur},
         NEW entry, entry = [op |-> cur, handle |-> item[cur].handle],
         done' = done \/ done' = Append(done, entry),
         modem' = modem \/ modem' = Append(modem, entry)
  PROVE  PathInv'
<1> DEFINE Sent == [op : Ops, handle : Nat]
<1>1. /\ list' \in Seq(Ops)
      /\ t.item = IF c.ival # 0 THEN NextTurn(c) ELSE c
      /\ ToSet(list') \ {cur} = ToSet(list) \ {cur}
      /\ cur \in ToSet(list') => t.taken \/ keep
      /\ alloc' = IF keep \/ t.taken THEN alloc ELSE alloc \ {cur}
      /\ item' = [item EXCEPT ![cur] = t.item]
      /\ cur' = nxt /\ nxt' = After(list', nxt, NoOp) /\ pc' = pc
  BY TurnGives DEF PathInv
<1>2. /\ list \in Seq(Ops) /\ Distinct(list) /\ item \in [Ops -> Item]
      /\ done \in Seq(Sent) /\ modem \in Seq(Sent) /\ alloc \subseteq Ops
      /\ cur \notin fresh /\ KeptItem(cur, item[cur])
  BY DistinctList DEF PathInv, SchedInv, TypeOK, ListedOnce, ItemsKept
<1>3. ItemsKept'
  <2>1. KeptItem(cur, c) /\ KeptItem(cur, NextTurn(c))
    BY <1>2, TurnKeepsItem
  <2>2. KeptItem(cur, t.item)
    BY <1>1, <2>1
  <2> QED
    BY <1>1, <1>2, <2>2 DEF PathInv, ItemsKept
<1>4. SentKept'
  <2>1. entry.op = cur /\ entry.handle \in HandlesOf(cur) /\ entry \in Sent
    BY <1>2 DEF KeptItem, Item
  <2> HIDE DEF Sent
  <2>2. /\ Len(Append(done, entry)) = Len(done) + 1 /\ Append(done, entry) \in Seq(Sent)
        /\ \A i \in 1 .. Len(done) : Append(done, entry)[i] = done[i]
        /\ Append(done, entry)[Len(done) + 1] = entry
    BY <1>2, <2>1, AppendProperties
  <2>3. /\ Len(Append(modem, entry)) = Len(modem) + 1 /\ Append(modem, entry) \in Seq(Sent)
        /\ \A i \in 1 .. Len(modem) : Append(modem, entry)[i] = modem[i]
        /\ Append(modem, entry)[Len(modem) + 1] = entry
    BY <1>2, <2>1, AppendProperties
  <2>4. /\ DOMAIN done = 1 .. Len(done) /\ Len(done) \in Nat
        /\ DOMAIN modem = 1 .. Len(modem) /\ Len(modem) \in Nat
    BY <1>2, LenProperties
  <2>5. \A i \in DOMAIN Append(done, entry) :
          Append(done, entry)[i] = entry \/ \E j \in DOMAIN done : Append(done, entry)[i] = done[j]
    BY <2>2, <2>4
  <2>6. \A i \in DOMAIN Append(modem, entry) :
          Append(modem, entry)[i] = entry \/ \E j \in DOMAIN modem : Append(modem, entry)[i] = modem[j]
    BY <2>3, <2>4
  <2>7. /\ \A i \in DOMAIN done' : done'[i] = entry \/ \E j \in DOMAIN done : done'[i] = done[j]
        /\ \A i \in DOMAIN modem' : modem'[i] = entry \/ \E j \in DOMAIN modem : modem'[i] = modem[j]
    BY <2>5, <2>6
  <2>8. SentKept /\ fresh' = fresh
    BY DEF PathInv
  <2>9. ASSUME NEW i \in DOMAIN done'
        PROVE  done'[i].op \notin fresh' /\ done'[i].handle \in HandlesOf(done'[i].op)
    <3>1. CASE done'[i] = entry
      BY <1>2, <2>1, <2>8, <3>1
    <3>2. CASE \E j \in DOMAIN done : done'[i] = done[j]
      BY <2>8, <3>2 DEF SentKept
    <3> QED
      BY <2>7, <3>1, <3>2
  <2>10. ASSUME NEW i \in DOMAIN modem'
        PROVE  modem'[i].handle \in HandlesOf(modem'[i].op)
    <3>1. CASE modem'[i] = entry
      BY <1>2, <2>1, <3>1
    <3>2. CASE \E j \in DOMAIN modem : modem'[i] = modem[j]
      BY <2>8, <3>2 DEF SentKept
    <3> QED
      BY <2>7, <3>1, <3>2
  <2> QED
    BY <2>9, <2>10 DEF SentKept
<1>5. Walking'
  <2>1. nxt = NoOp \/ nxt \in ToSet(list) \ {cur}
    BY <1>2, AfterHeld DEF PathInv, Walking
  <2>2. nxt = NoOp \/ nxt \in ToSet(list')
    BY <1>1, <2>1
  <2> QED
    BY <1>1, <2>2 DEF Walking, Listed, ToSet
<1>6. ListedAllocated'
  <2>1. \A e \in ToSet(list) \cap Ops : e \in alloc
    BY ListedIsHeld DEF PathInv, ListedAllocated
  <2>2. cur \in alloc
    BY SchedulerAssumption DEF PathInv, Walking, ListedAllocated
  <2>3. ASSUME NEW e \in ToSet(list') \cap Ops PROVE e \in alloc'
    <3>1. CASE e = cur
      BY <1>1, <2>2, <3>1
    <3>2. CASE e # cur
      <4>1. e \in alloc
        BY <1>1, <2>1, <3>2
      <4> QED
        BY <1>1, <3>2, <4>1
    <3> QED
      BY <3>1, <3>2
  <2> QED
    BY <2>3 DEF ListedAllocated, Listed, ToSet
<1>7. FreshApart'
  BY <1>2 DEF PathInv, FreshApart
<1>8. FrameSorted'
  <2>1. OnePriority => InOrder(list', item')
    BY TurnOrder
  <2> QED
    BY <2>1 DEF FrameSorted, OnePriority, InOrder
<1> QED
  BY <1>3, <1>4, <1>5, <1>6, <1>7, <1>8 DEF PathInv

LEMMA TurnDelayedPath ==
  ASSUME NEW giveUp \in BOOLEAN PROVE PathInv /\ TurnDelayed(giveUp) => PathInv'
<1> SUFFICES ASSUME PathInv, TurnDelayed(giveUp) PROVE PathInv'
  OBVIOUS
<1> DEFINE l == IF giveUp THEN Without(list, cur) ELSE list
           c == CountedDown(item[cur])
           t == TurnOver(l, c, keep)
           entry == [op |-> cur, handle |-> item[cur].handle]
<1>1. SchedInv'
  BY TurnDelayedInv DEF PathInv
<1>2. pc = "tick" /\ cur \in Ops /\ TurnList(l)
  BY DEF TurnDelayed, PathInv, SchedInv, TypeOK, TurnList
<1>3. /\ Apply(t) /\ fresh' = fresh /\ cancelled' \subseteq cancelled \cup {cur}
      /\ done' = done /\ modem' = modem
  BY DEF TurnDelayed
<1>4. t = TurnOver(l, c, keep) /\ c = CountedDown(item[cur])
      /\ entry = [op |-> cur, handle |-> item[cur].handle]
  OBVIOUS
<1> HIDE DEF l, c, t, entry
<1> QED
  BY <1>1, <1>2, <1>3, <1>4, TurnPath

LEMMA TurnSentPath ==
  ASSUME NEW err \in BOOLEAN PROVE PathInv /\ TurnSent(err) => PathInv'
<1> SUFFICES ASSUME PathInv, TurnSent(err) PROVE PathInv'
  OBVIOUS
<1> DEFINE c == CountedDown(item[cur])
           t == TurnOver(list, c, keep)
           entry == [op |-> cur, handle |-> item[cur].handle]
<1>1. SchedInv'
  BY TurnSentInv DEF PathInv
<1>2. pc = "tick" /\ cur \in Ops /\ TurnList(list)
  BY DEF TurnSent, PathInv, SchedInv, TypeOK, TurnList
<1>3. /\ Apply(t) /\ fresh' = fresh /\ cancelled' \subseteq cancelled \cup {cur}
      /\ done' = done \/ done' = Append(done, entry)
      /\ modem' = modem \/ modem' = Append(modem, entry)
  BY DEF TurnSent
<1>4. t = TurnOver(list, c, keep) /\ c = CountedDown(item[cur])
      /\ entry = [op |-> cur, handle |-> item[cur].handle]
  OBVIOUS
<1> HIDE DEF c, t, entry
<1> QED
  BY <1>1, <1>2, <1>3, <1>4, TurnPath

\* The steps that only move the clock, the queue, the timer or the modem.
LEMMA QuietPath ==
  ASSUME PathInv,
         \/ \E e \in Requests : Request(e)
         \/ Modem \/ TakeSuspendOrResume \/ TimerFires \/ Advance \/ UNCHANGED vars
  PROVE  PathInv'
<1> USE DEF listVars, walkVars, histVars
<1>1. SchedInv'
  BY RequestInv, ModemCompletesInv, TakeSuspendOrResumeInv, TimerFiresInv, AdvanceInv,
     StutterInv DEF PathInv, Modem
<1>2. /\ UNCHANGED <<list, item, alloc, done, fresh, cancelled, pc, cur, nxt>>
      /\ modem' = modem \/ \E i \in DOMAIN modem : modem' = RemoveAt(modem, i)
  <2>1. CASE Modem
    BY <2>1 DEF Modem, ModemCompletes
  <2>2. CASE UNCHANGED vars
    BY <2>2 DEF vars
  <2>3. CASE \E e \in Requests : Request(e)
    BY <2>3 DEF Request
  <2>4. CASE TakeSuspendOrResume \/ TimerFires \/ Advance
    BY <2>4 DEF TakeSuspendOrResume, TimerFires, Advance
  <2> QED
    BY <2>1, <2>2, <2>3, <2>4
<1>3. \A i \in DOMAIN modem' : \E j \in DOMAIN modem : modem'[i] = modem[j]
  <2>1. CASE modem' = modem
    BY <2>1
  <2>2. CASE \E p \in DOMAIN modem : modem' = RemoveAt(modem, p)
    <3> DEFINE Sent == [op : Ops, handle : Nat]
    <3>1. modem \in Seq(Sent)
      BY DEF PathInv, SchedInv, TypeOK
    <3> HIDE DEF Sent
    <3>2. DOMAIN modem = 1 .. Len(modem) /\ Len(modem) \in Nat
      BY <3>1, LenProperties
    <3>3. PICK p \in 1 .. Len(modem) : modem' = RemoveAt(modem, p)
      BY <2>2, <3>2
    <3>4. /\ modem' \in Seq(Sent) /\ Len(modem') = Len(modem) - 1
          /\ \A i \in 1 .. Len(modem) - 1 :
               modem'[i] = IF i < p THEN modem[i] ELSE modem[i + 1]
      BY <3>1, <3>3, RemoveAtProperties
    <3>5. DOMAIN modem' = 1 .. Len(modem) - 1
      BY <3>4
    <3>6. ASSUME NEW i \in DOMAIN modem' PROVE \E j \in DOMAIN modem : modem'[i] = modem[j]
      <4>1. i \in DOMAIN modem /\ i + 1 \in DOMAIN modem
        BY <3>2, <3>5
      <4> QED
        BY <3>4, <3>5, <4>1
    <3> QED
      BY <3>6
  <2> QED
    BY <1>2, <2>1, <2>2
<1>4. Walking'
  BY <1>2, SameWalk DEF PathInv
<1> QED
  BY <1>1, <1>2, <1>3, <1>4, IdlePath

\* The walk begins at the head of the list and ends anywhere.
LEMMA WalkPath ==
  ASSUME PathInv, TakeNextFrame \/ TurnPostponed \/ WalkEnds
  PROVE  PathInv'
<1> USE DEF listVars, histVars
<1>1. SchedInv'
  BY TakeNextFrameInv, TurnPostponedInv, WalkEndsInv DEF PathInv
<1>2. UNCHANGED <<list, item, alloc, done, fresh, cancelled, modem>>
  BY DEF TakeNextFrame, TurnPostponed, WalkEnds
<1>3. Walking'
  <2>1. CASE TakeNextFrame
    <3>1. cur' = HeadOr(list, NoOp) /\ nxt' = After(list, cur', NoOp)
      BY <2>1 DEF TakeNextFrame
    <3>2. list # <<>> => 1 \in DOMAIN list
      BY DistinctList, EmptySeq, LenProperties DEF PathInv
    <3>3. cur' # NoOp => Listed(cur)'
      BY <1>2, <3>1, <3>2 DEF HeadOr, Listed
    <3> QED
      BY <1>2, <3>1, <3>3 DEF Walking
  <2>2. CASE TurnPostponed \/ WalkEnds
    BY <2>2 DEF Walking, TurnPostponed, WalkEnds, LeaveWalk
  <2> QED
    BY <2>1, <2>2
<1> QED
  BY <1>1, <1>2, <1>3, IdlePath

LEMMA RemovalPath ==
  ASSUME PathInv, NEW h,
         RemoveByHandle(h) \/ (TakeRemove /\ h = Head(queue).handle)
  PROVE  PathInv'
<1> USE DEF walkVars
<1>1. SchedInv'
  BY RemoveByHandleInv, TakeRemoveInv DEF PathInv
<1>2. /\ Unlink(h) /\ FreeUnlinked(h) /\ pc' = "wait"
      /\ UNCHANGED <<item, fresh, modem, done>>
  BY DEF RemoveByHandle, TakeRemove, Takes
<1> QED
  BY <1>1, <1>2, UnlinkPath

LEMMA InitPath == Init => PathInv
<1> SUFFICES ASSUME Init PROVE PathInv
  OBVIOUS
<1>1. SchedInv
  BY InitInv
<1>2. ItemsKept
  BY ConfKept DEF Init, ItemsKept
<1>3. SentKept /\ Walking /\ ListedAllocated /\ FreshApart /\ FrameSorted
  BY DEF Init, SentKept, Walking, ListedAllocated, Listed, FreshApart, FrameSorted
<1> QED
  BY <1>1, <1>2, <1>3 DEF PathInv

LEMMA NextPath == PathInv /\ [Next]_vars => PathInv'
<1> SUFFICES ASSUME PathInv, [Next]_vars PROVE PathInv'
  OBVIOUS
<1>1. CASE Users
  BY <1>1, AddPath, RemovalPath, ShiftFramePath, QuietPath DEF Users
<1>2. CASE Thread
  <2>1. CASE Walk
    BY <2>1, TurnDelayedPath, TurnSentPath, WalkPath DEF Walk
  <2> QED
    BY <1>2, <2>1, TakeCompletedPath, TakePurgePath, RemovalPath, QuietPath, WalkPath DEF Thread
<1>3. CASE Modem \/ TimerFires \/ Advance \/ UNCHANGED vars
  BY <1>3, QuietPath
<1> QED
  BY <1>1, <1>2, <1>3 DEF Next

\* However the thread is interleaved with its callers, the walk stands on listed
\* items, nothing freed is listed, and an item keeps what it was added with.
THEOREM PathHolds == Spec => []PathInv
<1>1. Init => PathInv
  BY InitPath
<1>2. PathInv /\ [Next]_vars => PathInv'
  BY NextPath
<1> QED
  BY <1>1, <1>2, PTL DEF Spec

\* Nothing that was freed is listed: the walk, the searches and the removals
\* only meet allocated items, however late the walk is.
THEOREM NothingFreedIsListed == Spec => []ListedAllocated
<1>1. PathInv => ListedAllocated
  BY DEF PathInv
<1> QED
  BY <1>1, PathHolds, PTL

\* Operations of one priority stay in the order of their frames as long as no
\* frame time is corrected in place.
THEOREM ListIsSorted == Spec => []FrameSorted
<1>1. PathInv => FrameSorted
  BY DEF PathInv
<1> QED
  BY <1>1, PathHolds, PTL

--------------------------------------------------------------------------------
(* Scheduling in order: no interval operation is late.                     *)

\* The thread gets to every listed frame before it is over, its callers add no
\* operation to one that is, and a correction only delays. Else an
\* interval operation can be late: the runs of SchedZombie show what becomes of it.
OnTime == KeepsUp /\ Shifts \subseteq Nat
NoLateIntervals == OnTime \/ \A op \in Ops : OneShot(op)

\* No two operations share a handle, as the handle ranges of dect_phy_shell.h
\* have it (an operation here is one k_heap item: a handle used again for the next
\* one-shot transmission is not covered), and a count comes with an interval.
OwnHandles == \A a, b \in Ops : a # b => HandlesOf(a) \cap HandlesOf(b) = {}
CountsRepeat == \A op \in Ops : OneShot(op) => Conf[op].left < 1

Orderly == NoLateIntervals /\ OwnHandles /\ CountsRepeat

\* No item was left in place by a turn that found it taken, and none is late.
InTime ==
  /\ ~keep
  /\ OnTime => \A op \in Ops : Listed(op) => item[op].frame >= now

\* An allocated item is listed, or was leaked by a background scan that gave up.
Owned == \A op \in alloc : Listed(op) \/ op \in cancelled \cap BgScans

Repeats(op) == Conf[op].ival # 0 /\ Conf[op].left > 0

\* The turns of an item: none before it is added, one without an interval, and
\* one for each unit of its count, on the grid.
TurnsCounted(op) ==
  /\ op \in fresh => turns[op] = 0
  /\ OneShot(op) => turns[op] <= 1 /\ (Listed(op) => turns[op] = 0)
  /\ Repeats(op) =>
       /\ turns[op] + item[op].left = Conf[op].left
       /\ Listed(op) => /\ item[op].left > 0
                        /\ item[op].frame = asked[op] + turns[op] * Conf[op].ival

Sent == [op : Ops, handle : Nat]
CopiesOf(op) == {e \in Sent : e.op = op}

\* Each turn is completed at most once: it has at most one copy waiting.
EndsCounted(op) == Number(done, CopiesOf(op)) + ended[op] <= turns[op]

OrderInv ==
  /\ PathInv /\ InTime /\ Owned /\ CancelledStaysOut
  /\ \A op \in Ops : TurnsCounted(op) /\ EndsCounted(op)

\* What a turn does when none before it left an item in place.
LEMMA OrderlyTurn ==
  ASSUME PathInv, ~keep, pc = "tick", cur \in Ops, NEW l, TurnList(l), NEW t, NEW c,
         c = CountedDown(item[cur]), t = TurnOver(l, c, keep), Apply(t)
  PROVE  /\ cur \in ToSet(list) /\ cur \notin fresh
         /\ t.taken \in BOOLEAN
         /\ t.taken => ToSet(list') = ToSet(list) /\ alloc' = alloc
         /\ ~t.taken => ToSet(list') = ToSet(list) \ {cur} /\ alloc' = alloc \ {cur}
         /\ item' = [item EXCEPT ![cur] = t.item] /\ t.item \in Item
         /\ turns' = [turns EXCEPT ![cur] = @ + 1]
         /\ t.item.left = IF item[cur].left > 0 THEN item[cur].left - 1 ELSE item[cur].left
         /\ t.taken => /\ item[cur].left # 1 /\ item[cur].ival # 0
                       /\ t.item.frame = item[cur].frame + item[cur].ival
         /\ t.late => item[cur].ival # 0
         /\ KeptItem(cur, item[cur]) /\ KeptItem(cur, t.item)
         /\ ~Conf[cur].range => t.item.handle = item[cur].handle
<1>1. /\ t.item \in Item /\ t.item = IF c.ival # 0 THEN NextTurn(c) ELSE c
      /\ t.taken \in BOOLEAN /\ (t.taken => c.ival # 0)
      /\ t.late => c.ival # 0
      /\ ToSet(list') \ {cur} = ToSet(list) \ {cur}
      /\ t.taken => cur \in ToSet(list')
      /\ cur \in ToSet(list') => t.taken \/ keep
      /\ alloc' = IF keep \/ t.taken THEN alloc ELSE alloc \ {cur}
      /\ item' = [item EXCEPT ![cur] = t.item]
      /\ turns' = [turns EXCEPT ![cur] = @ + 1]
  BY TurnGives DEF PathInv
<1>2. cur \in ToSet(list) /\ cur \notin fresh
  BY ListedIsHeld, SchedulerAssumption DEF PathInv, Walking, SchedInv, ListedOnce
<1>3. item[cur] \in Item /\ KeptItem(cur, item[cur])
  BY DEF PathInv, SchedInv, TypeOK, ItemsKept
<1>4. /\ KeptItem(cur, c) /\ KeptItem(cur, NextTurn(c))
      /\ c.left = IF item[cur].left > 0 THEN item[cur].left - 1 ELSE item[cur].left
      /\ c.ival = IF item[cur].left = 1 THEN 0 ELSE item[cur].ival
      /\ c.frame = item[cur].frame /\ c.handle = item[cur].handle
      /\ NextTurn(c).left = c.left /\ NextTurn(c).ival = c.ival
      /\ NextTurn(c).frame = c.frame + c.ival
      /\ ~Conf[cur].range => NextTurn(c).handle = c.handle
  BY <1>3, TurnKeepsItem
<1>5. t.taken => ToSet(list') = ToSet(list) /\ alloc' = alloc
  BY <1>1, <1>2
<1>6. ~t.taken => ToSet(list') = ToSet(list) \ {cur} /\ alloc' = alloc \ {cur}
  BY <1>1
<1>7. c.ival # 0 => item[cur].left # 1 /\ item[cur].ival # 0 /\ c.ival = item[cur].ival
  BY <1>4
<1> QED
  BY <1>1, <1>2, <1>3, <1>4, <1>5, <1>6, <1>7

\* A delayed turn is that of an item without an interval, which leaves the list.
LEMMA DelayedIsOneShot ==
  ASSUME NoLateIntervals, PathInv, InTime, NEW giveUp, TurnDelayed(giveUp)
  PROVE  ~OnTime /\ OneShot(cur) /\ item[cur].ival = 0
<1>1. pc = "tick" /\ cur \in Ops /\ item[cur].frame < now
  BY DEF TurnDelayed, PathInv, SchedInv, TypeOK, Delayed
<1>2. Listed(cur)
  BY <1>1, SchedulerAssumption DEF PathInv, Walking
<1>3. item[cur].frame \in Int /\ now \in Int
  BY <1>1 DEF PathInv, SchedInv, TypeOK, Item
<1>4. ~OnTime
  BY <1>1, <1>2, <1>3 DEF InTime
<1>5. OneShot(cur)
  BY <1>1, <1>4 DEF NoLateIntervals
<1> QED
  BY <1>1, <1>4, <1>5 DEF OneShot, PathInv, ItemsKept, KeptItem

\* Which copies there are of an operation after a change of the done list.
LEMMA CopiesType ==
  ASSUME TypeOK, NEW S
  PROVE  Number(done, S) \in Nat /\ done \in Seq(Sent)
         /\ Number(modem, S) \in Nat /\ modem \in Seq(Sent)
<1>1. done \in Seq(Sent) /\ modem \in Seq(Sent)
  BY DEF TypeOK, Sent
<1> QED
  BY <1>1, NumberType

LEMMA PathTypes ==
  ASSUME PathInv
  PROVE  /\ item \in [Ops -> Item] /\ asked \in [Ops -> Int] /\ now \in Nat
         /\ turns \in [Ops -> Nat] /\ ended \in [Ops -> Nat]
         /\ \A op \in Ops : /\ item[op].frame \in Int /\ item[op].left \in Int
                           /\ item[op].ival \in Nat /\ Conf[op].ival \in Nat
                           /\ Conf[op].left \in Int /\ turns[op] * Conf[op].ival \in Int
<1>1. /\ item \in [Ops -> Item] /\ asked \in [Ops -> Int] /\ now \in Nat
      /\ turns \in [Ops -> Nat] /\ ended \in [Ops -> Nat]
  BY DEF PathInv, SchedInv, TypeOK
<1>2. ASSUME NEW op \in Ops
      PROVE  /\ item[op].frame \in Int /\ item[op].left \in Int
             /\ item[op].ival \in Nat /\ Conf[op].ival \in Nat
             /\ Conf[op].left \in Int /\ turns[op] * Conf[op].ival \in Int
  <2>1. item[op] \in Item /\ Conf[op] \in Item
    BY <1>1, SchedulerAssumption
  <2>2. /\ item[op].frame \in Int /\ item[op].left \in Int
        /\ item[op].ival \in Nat /\ Conf[op].ival \in Nat /\ Conf[op].left \in Int
    BY <2>1 DEF Item
  <2>3. turns[op] \in Nat
    BY <1>1
  <2> QED
    BY <2>2, <2>3
<1> QED
  BY <1>1, <1>2

LEMMA InitOrder == Init => OrderInv
<1> SUFFICES ASSUME Init PROVE OrderInv
  OBVIOUS
<1>1. PathInv
  BY InitPath
<1>2. InTime /\ Owned /\ CancelledStaysOut
  BY DEF Init, InTime, Owned, CancelledStaysOut, Listed
<1>3. ASSUME NEW op \in Ops PROVE TurnsCounted(op) /\ EndsCounted(op)
  <2>1. /\ ~Listed(op) /\ turns[op] = 0 /\ ended[op] = 0 /\ item[op] = Conf[op]
        /\ done = <<>>
    BY DEF Init, Listed
  <2>2. Number(done, CopiesOf(op)) = 0
    BY <2>1, NumberEmpty
  <2>3. Conf[op].left \in Int
    BY SchedulerAssumption DEF Item
  <2> QED
    BY <2>1, <2>2, <2>3 DEF TurnsCounted, EndsCounted
<1> QED
  BY <1>1, <1>2, <1>3 DEF OrderInv

\* A step that handles and adds nothing: counts stay, items may leave.
LEMMA CountsKept ==
  ASSUME OrderInv, PathInv', InTime', Owned', CancelledStaysOut',
         UNCHANGED <<item, turns, asked, fresh>>, ToSet(list') \subseteq ToSet(list),
         \A op \in Ops : Number(done', CopiesOf(op)) + ended'[op]
                           <= Number(done, CopiesOf(op)) + ended[op]
  PROVE  OrderInv'
<1>1. ASSUME NEW op \in Ops PROVE TurnsCounted(op)' /\ EndsCounted(op)'
  <2>1. TurnsCounted(op) /\ EndsCounted(op)
    BY DEF OrderInv
  <2>2. Listed(op)' => Listed(op)
    BY DEF Listed, ToSet
  <2>3. TurnsCounted(op)'
    BY <2>1, <2>2 DEF TurnsCounted
  <2>4. Number(done', CopiesOf(op)) + ended'[op] <= Number(done, CopiesOf(op)) + ended[op]
    OBVIOUS
  <2>5. /\ Number(done, CopiesOf(op)) \in Nat /\ Number(done', CopiesOf(op)) \in Nat
        /\ ended[op] \in Nat /\ turns[op] \in Nat /\ ended'[op] \in Nat
    <3>1. TypeOK /\ TypeOK'
      BY DEF OrderInv, PathInv, SchedInv
    <3>2. Number(done, CopiesOf(op)) \in Nat
      BY <3>1, CopiesType
    <3>3. done' \in Seq(Sent)
      BY <3>1 DEF TypeOK, Sent
    <3>4. Number(done', CopiesOf(op)) \in Nat
      BY <3>3, NumberType
    <3>5. ended[op] \in Nat /\ turns[op] \in Nat /\ ended'[op] \in Nat
      BY <3>1 DEF TypeOK
    <3> QED
      BY <3>2, <3>4, <3>5
  <2>6. EndsCounted(op)'
    BY <2>1, <2>4, <2>5 DEF EndsCounted
  <2> QED
    BY <2>3, <2>6
<1> QED
  BY <1>1 DEF OrderInv

\* The steps outside the list: also time passing, with KeepsUp.
LEMMA QuietOrder ==
  ASSUME OrderInv, PathInv',
         \/ \E e \in Requests : Request(e)
         \/ Modem \/ TakeSuspendOrResume \/ TimerFires \/ Advance \/ UNCHANGED vars
         \/ TakeNextFrame \/ TurnPostponed \/ WalkEnds
  PROVE  OrderInv'
<1> USE DEF listVars, walkVars, histVars
<1>1. /\ UNCHANGED <<list, item, alloc, done, fresh, cancelled, asked, turns, ended>>
      /\ keep' = keep \/ keep' = FALSE
      /\ \/ now' = now
         \/ now' = now + 1 /\ (KeepsUp => \A i \in DOMAIN list : item[list[i]].frame > now)
  <2>1. CASE Modem
    BY <2>1 DEF Modem, ModemCompletes
  <2>2. CASE UNCHANGED vars
    BY <2>2 DEF vars
  <2>3. CASE \E e \in Requests : Request(e)
    BY <2>3 DEF Request
  <2>4. CASE TakeSuspendOrResume \/ TimerFires
    BY <2>4 DEF TakeSuspendOrResume, TimerFires
  <2>5. CASE TakeNextFrame \/ TurnPostponed \/ WalkEnds
    BY <2>5 DEF TakeNextFrame, TurnPostponed, WalkEnds, LeaveWalk
  <2>6. CASE Advance
    BY <2>6 DEF Advance
  <2> QED
    BY <2>1, <2>2, <2>3, <2>4, <2>5, <2>6
<1>2. InTime'
  <2>1. ~keep'
    BY <1>1 DEF OrderInv, InTime
  <2>2. ASSUME OnTime, NEW op \in Ops, Listed(op)' PROVE item'[op].frame >= now'
    <3>0. item \in [Ops -> Item] /\ now \in Int
      BY DEF OrderInv, PathInv, SchedInv, TypeOK
    <3>1. Listed(op) /\ item[op].frame \in Int /\ now \in Int
      BY <1>1, <2>2, <3>0 DEF Listed, Item
    <3>2. item[op].frame >= now
      BY <2>2, <3>1 DEF OrderInv, InTime
    <3>3. now' = now + 1 => item[op].frame > now
      BY <1>1, <2>2, <3>1 DEF OnTime, Listed
    <3> QED
      BY <1>1, <3>1, <3>2, <3>3
  <2> QED
    BY <2>1, <2>2 DEF InTime
<1>3. Owned' /\ CancelledStaysOut'
  BY <1>1 DEF OrderInv, Owned, CancelledStaysOut, Listed
<1>4. \A op \in Ops : Number(done', CopiesOf(op)) + ended'[op]
                        <= Number(done, CopiesOf(op)) + ended[op]
  <2> TAKE op \in Ops
  <2>1. Number(done, CopiesOf(op)) \in Nat /\ ended[op] \in Nat
    BY CopiesType DEF OrderInv, PathInv, SchedInv, TypeOK
  <2>2. Number(done', CopiesOf(op)) = Number(done, CopiesOf(op)) /\ ended'[op] = ended[op]
    BY <1>1
  <2> QED
    BY <2>1, <2>2
<1> QED
  BY <1>1, <1>2, <1>3, <1>4, CountsKept

\* A user's or the thread's removal frees what it takes out.
LEMMA RemovalOrder ==
  ASSUME OrderInv, PathInv', NEW h,
         RemoveByHandle(h) \/ (TakeRemove /\ h = Head(queue).handle)
  PROVE  OrderInv'
<1> USE DEF walkVars
<1>1. /\ Unlink(h) /\ FreeUnlinked(h)
      /\ UNCHANGED <<item, now, keep, fresh, asked, turns, done, ended>>
  BY DEF RemoveByHandle, TakeRemove
<1>2. PICK G \in SUBSET Ops :
        /\ ToSet(list') = ToSet(list) \ G /\ cancelled' = cancelled \cup G
        /\ alloc' = alloc \ (G \ BgScans)
  <2>1. CASE WithHandle(h) = {} /\ list' = list /\ cancelled' = cancelled
    <3>1. alloc' = alloc
      BY <1>1, <2>1 DEF FreeUnlinked
    <3> QED
      BY <2>1, <3>1
  <2>2. CASE /\ WithHandle(h) # {}
             /\ \E op \in ToSet(list) \cap Ops :
                 /\ op = list[Min(WithHandle(h))]
                 /\ ToSet(list') = ToSet(list) \ {op}
                 /\ cancelled' = cancelled \cup {op}
    <3>1. PICK op \in ToSet(list) \cap Ops :
                 /\ op = list[Min(WithHandle(h))]
                 /\ ToSet(list') = ToSet(list) \ {op}
                 /\ cancelled' = cancelled \cup {op}
      BY <2>2
    <3>2. alloc' = alloc \ ({op} \ BgScans)
      BY <1>1, <2>2, <3>1 DEF FreeUnlinked
    <3> QED
      BY <3>1, <3>2
  <2> QED
    BY <1>1, <2>1, <2>2, UnlinkGives DEF OrderInv, PathInv
<1>3. InTime'
  BY <1>1, <1>2 DEF OrderInv, InTime, Listed, ToSet
<1>4. Owned'
  <2>1. \A op \in alloc : op \in ToSet(list) \/ op \in cancelled \cap BgScans
    BY ListedIsHeld DEF OrderInv, Owned
  <2>2. \A op \in alloc' : op \in ToSet(list') \/ op \in cancelled' \cap BgScans
    BY <1>2, <2>1
  <2> QED
    BY <2>2 DEF Owned, Listed, ToSet
<1>5. CancelledStaysOut'
  <2>1. \A op \in cancelled : op \notin ToSet(list)
    BY ListedIsHeld DEF OrderInv, CancelledStaysOut
  <2>2. \A op \in cancelled' : op \notin ToSet(list')
    BY <1>2, <2>1
  <2> QED
    BY <2>2 DEF CancelledStaysOut, Listed, ToSet
<1>6. \A op \in Ops : Number(done', CopiesOf(op)) + ended'[op]
                        <= Number(done, CopiesOf(op)) + ended[op]
  <2> TAKE op \in Ops
  <2>1. Number(done, CopiesOf(op)) \in Nat /\ ended[op] \in Nat
    BY CopiesType DEF OrderInv, PathInv, SchedInv, TypeOK
  <2> QED
    BY <1>1, <2>1
<1> QED
  BY <1>1, <1>2, <1>3, <1>4, <1>5, <1>6, CountsKept

LEMMA TakePurgeOrder == ASSUME OrderInv, PathInv', TakePurge PROVE OrderInv'
<1> USE DEF walkVars
<1>1. /\ list' = <<>> /\ done' = <<>> /\ alloc' = {op \in alloc : ~Listed(op)}
      /\ cancelled \subseteq cancelled'
      /\ UNCHANGED <<item, now, keep, fresh, asked, turns, ended>>
  BY DEF TakePurge
<1>2. InTime' /\ CancelledStaysOut' /\ Owned' /\ ToSet(list') \subseteq ToSet(list)
  BY <1>1 DEF OrderInv, InTime, Listed, CancelledStaysOut, Owned, ToSet
<1>3. \A op \in Ops : Number(done', CopiesOf(op)) + ended'[op]
                        <= Number(done, CopiesOf(op)) + ended[op]
  <2> TAKE op \in Ops
  <2>1. Number(done, CopiesOf(op)) \in Nat /\ ended[op] \in Nat
    BY CopiesType DEF OrderInv, PathInv, SchedInv, TypeOK
  <2>2. Number(done', CopiesOf(op)) = 0 /\ ended'[op] = ended[op]
    BY <1>1, NumberEmpty
  <2> QED
    BY <2>1, <2>2
<1> QED
  BY <1>1, <1>2, <1>3, CountsKept

\* A correction moves the frame and the grid.
LEMMA ShiftFrameOrder ==
  ASSUME OrderInv, PathInv', NEW h, NEW d \in Shifts, ShiftFrame(h, d) PROVE OrderInv'
<1> USE DEF walkVars
<1>1. UNCHANGED <<list, alloc, done, now, keep, fresh, cancelled, turns, ended>>
  BY DEF ShiftFrame
<1>2. d \in Int /\ item \in [Ops -> Item] /\ asked \in [Ops -> Int] /\ now \in Int
  <2>1. d \in Int
    BY SchedulerAssumption
  <2> QED
    BY <2>1, PathTypes DEF OrderInv
<1>3. \A op \in Ops : \E s \in {0, d} :
        /\ item'[op].frame = item[op].frame + s
        /\ item'[op].left = item[op].left
        /\ asked'[op] = asked[op] + s
  <2> TAKE op \in Ops
  <2>1. item[op] \in Item /\ item[op].frame \in Int /\ asked[op] \in Int
    BY <1>2 DEF Item
  <2>2. CASE WithHandle(h) = {}
    <3>1. UNCHANGED <<item, asked>>
      BY <2>2 DEF ShiftFrame
    <3> QED
      BY <2>1, <3>1
  <2>3. CASE WithHandle(h) # {}
    <3> DEFINE o == list[Min(WithHandle(h))]
    <3>1. /\ item' = [item EXCEPT ![o].frame = @ + d]
          /\ asked' = [asked EXCEPT ![o] = @ + d]
      BY <2>3 DEF ShiftFrame
    <3> HIDE DEF o
    <3>2. /\ item'[op].frame = item[op].frame + IF op = o THEN d ELSE 0
          /\ item'[op].left = item[op].left
          /\ asked'[op] = asked[op] + IF op = o THEN d ELSE 0
      BY <1>2, <2>1, <3>1 DEF Item
    <3> QED
      BY <3>2
  <2> QED
    BY <2>2, <2>3
<1>4. InTime'
  <2> SUFFICES ASSUME OnTime, NEW op \in Ops, Listed(op)' PROVE item'[op].frame >= now'
    BY <1>1 DEF OrderInv, InTime
  <2>1. item[op].frame >= now /\ item[op].frame \in Int
    BY <1>1, <1>2 DEF OrderInv, InTime, Listed, Item
  <2>2. d >= 0
    BY DEF OnTime
  <2>3. PICK s \in {0, d} : item'[op].frame = item[op].frame + s
    BY <1>3
  <2> QED
    BY <1>1, <1>2, <2>1, <2>2, <2>3
<1>5. Owned' /\ CancelledStaysOut'
  BY <1>1 DEF OrderInv, Owned, CancelledStaysOut, Listed
<1>6. ASSUME NEW op \in Ops PROVE TurnsCounted(op)' /\ EndsCounted(op)'
  <2>1. TurnsCounted(op) /\ EndsCounted(op) /\ (Listed(op)' <=> Listed(op))
    BY <1>1 DEF OrderInv, Listed
  <2>2. EndsCounted(op)'
    BY <1>1, <2>1 DEF EndsCounted
  <2>3. turns[op] * Conf[op].ival \in Int
    BY PathTypes DEF OrderInv
  <2>4. item[op].frame \in Int /\ asked[op] \in Int
    BY <1>2 DEF Item
  <2>5. item[op].frame = asked[op] + turns[op] * Conf[op].ival
          => item'[op].frame = asked'[op] + turns[op] * Conf[op].ival
    BY <1>2, <1>3, <2>3, <2>4
  <2>6. item'[op].left = item[op].left
    BY <1>3
  <2>7. fresh' = fresh /\ turns' = turns
    BY DEF ShiftFrame
  <2>8. TurnsCounted(op)'
    BY <2>1, <2>5, <2>6, <2>7 DEF TurnsCounted, OneShot, Repeats
  <2> QED
    BY <2>2, <2>8
<1> QED
  BY <1>4, <1>5, <1>6 DEF OrderInv

LEMMA AddOrder ==
  ASSUME OrderInv, PathInv', NEW op \in Ops, NEW f \in Frames, Add(op, f) PROVE OrderInv'
<1> USE DEF walkVars
<1> DEFINE c == [Conf[op] EXCEPT !.frame = f]
           r == AddTo(list, item, op, c)
<1>1. /\ op \in fresh /\ item' = [item EXCEPT ![op] = c] /\ (KeepsUp => f >= now)
      /\ list' = r.list /\ alloc' = (IF r.ok THEN alloc \cup {op} ELSE alloc)
      /\ fresh' = fresh \ {op} /\ asked' = [asked EXCEPT ![op] = f]
      /\ UNCHANGED <<done, now, keep, cancelled, turns, ended>>
  BY DEF Add
<1>2. /\ item \in [Ops -> Item] /\ asked \in [Ops -> Int] /\ now \in Nat
      /\ turns \in [Ops -> Nat] /\ ended \in [Ops -> Nat]
      /\ \A o \in Ops : /\ item[o].frame \in Int /\ item[o].left \in Int
                        /\ item[o].ival \in Nat /\ Conf[o].ival \in Nat
                        /\ Conf[o].left \in Int /\ turns[o] * Conf[o].ival \in Int
  BY PathTypes DEF OrderInv
<1>3. f \in Int /\ c.frame = f /\ c.left = Conf[op].left
  BY SchedulerAssumption DEF Item
<1>4. /\ r.ok => ToSet(list') = ToSet(list) \cup {op}
      /\ ~r.ok => ToSet(list') = ToSet(list)
  <2>1. list \in Seq(Ops)
    BY DistinctList DEF OrderInv, PathInv
  <2> HIDE DEF c
  <2>2. /\ r.ok => ToSet(r.list) = ToSet(list) \cup {op}
        /\ ~r.ok => ToSet(r.list) = ToSet(list)
    BY <2>1, HoldsAddTo
  <2> HIDE DEF r
  <2> QED
    BY <1>1, <2>2
<1> HIDE DEF c, r
<1>5. op \notin ToSet(list) /\ op \notin cancelled
  BY <1>1 DEF OrderInv, PathInv, SchedInv, ListedOnce, FreshApart, ToSet
<1>6. \A o \in Ops : o # op => /\ item'[o] = item[o] /\ asked'[o] = asked[o]
                               /\ (Listed(o)' => Listed(o)) /\ (o \in fresh' <=> o \in fresh)
  <2>1. \A o \in Ops : o # op => (o \in ToSet(list') => o \in ToSet(list))
    BY <1>4
  <2> QED
    BY <1>1, <1>2, <2>1 DEF Listed, ToSet
<1>7. item'[op] = c /\ asked'[op] = f /\ op \notin fresh'
  BY <1>1, <1>2
<1>8. InTime'
  <2> SUFFICES ASSUME OnTime, NEW o \in Ops, Listed(o)' PROVE item'[o].frame >= now'
    BY <1>1 DEF OrderInv, InTime
  <2>1. CASE o = op
    BY <1>1, <1>3, <1>7, <2>1 DEF OnTime
  <2>2. CASE o # op
    <3>1. item'[o] = item[o] /\ Listed(o)
      BY <1>6, <2>2
    <3> QED
      BY <1>1, <3>1 DEF OrderInv, InTime
  <2> QED
    BY <2>1, <2>2
<1>9. Owned'
  <2>1. \A o \in alloc : o \in ToSet(list) \/ o \in cancelled \cap BgScans
    BY ListedIsHeld DEF OrderInv, Owned
  <2>2. \A o \in alloc' : o \in ToSet(list') \/ o \in cancelled' \cap BgScans
    BY <1>1, <1>4, <2>1
  <2> QED
    BY <2>2 DEF Owned, Listed, ToSet
<1>10. CancelledStaysOut'
  <2>1. \A o \in cancelled : o \notin ToSet(list)
    BY ListedIsHeld DEF OrderInv, CancelledStaysOut
  <2>2. \A o \in cancelled' : o \notin ToSet(list')
    BY <1>1, <1>4, <1>5, <2>1
  <2> QED
    BY <2>2 DEF CancelledStaysOut, Listed, ToSet
<1>11. ASSUME NEW o \in Ops PROVE TurnsCounted(o)' /\ EndsCounted(o)'
  <2>1. TurnsCounted(o) /\ EndsCounted(o)
    BY DEF OrderInv
  <2>2. EndsCounted(o)'
    BY <1>1, <2>1 DEF EndsCounted
  <2>3. CASE o # op
    <3>1. /\ item'[o] = item[o] /\ asked'[o] = asked[o]
          /\ (Listed(o)' => Listed(o)) /\ (o \in fresh' <=> o \in fresh)
          /\ turns'[o] = turns[o]
      BY <1>1, <1>6, <2>3
    <3>2. TurnsCounted(o)'
      BY <2>1, <3>1 DEF TurnsCounted
    <3> QED
      BY <2>2, <3>2
  <2>4. CASE o = op
    <3>1. turns[op] = 0 /\ turns'[op] = 0
      BY <1>1, <2>1, <2>4 DEF TurnsCounted
    <3>2. item'[op].frame = f /\ item'[op].left = Conf[op].left /\ asked'[op] = f
      BY <1>3, <1>7
    <3>3. 0 * Conf[op].ival = 0
      BY <1>2
    <3>4. TurnsCounted(op)'
      BY <1>2, <1>3, <1>7, <3>1, <3>2, <3>3 DEF TurnsCounted, Repeats
    <3> QED
      BY <2>2, <2>4, <3>4
  <2> QED
    BY <2>3, <2>4
<1> QED
  BY <1>8, <1>9, <1>10, <1>11 DEF OrderInv

\* A completion ends one copy; a background scan that gives up unlinks itself
\* and no other item, handles being its own.
LEMMA TakeCompletedOrder ==
  ASSUME OwnHandles, OrderInv, PathInv', NEW giveUp \in BOOLEAN, TakeCompleted(giveUp)
  PROVE  OrderInv'
<1> USE DEF walkVars
<1> DEFINE h == Head(queue).handle
<1>1. UNCHANGED <<item, alloc, now, keep, fresh, asked, turns>>
  BY DEF TakeCompleted
<1>2. CASE UNCHANGED <<list, done, cancelled, ended>>
  <2>1. InTime' /\ Owned' /\ CancelledStaysOut'
    BY <1>1, <1>2 DEF OrderInv, InTime, Owned, CancelledStaysOut, Listed
  <2>2. \A op \in Ops : Number(done', CopiesOf(op)) + ended'[op]
                          <= Number(done, CopiesOf(op)) + ended[op]
    <3> TAKE op \in Ops
    <3>1. Number(done, CopiesOf(op)) \in Nat /\ ended[op] \in Nat
      BY CopiesType DEF OrderInv, PathInv, SchedInv, TypeOK
    <3> QED
      BY <1>2, <3>1
  <2> QED
    BY <1>1, <1>2, <2>1, <2>2, CountsKept
<1>3. CASE \E p \in 1 .. Len(done), op \in Ops :
              /\ op = done[p].op /\ done[p].handle = h
              /\ giveUp => op \in BgScans
              /\ done' = RemoveAt(done, p)
              /\ ended' = [ended EXCEPT ![op] = @ + Completions(op, FALSE)]
              /\ IF giveUp THEN Unlink(h) ELSE UNCHANGED <<list, cancelled>>
  <2>1. PICK p \in 1 .. Len(done), op \in Ops :
              /\ op = done[p].op /\ done[p].handle = h
              /\ giveUp => op \in BgScans
              /\ done' = RemoveAt(done, p)
              /\ ended' = [ended EXCEPT ![op] = @ + Completions(op, FALSE)]
              /\ IF giveUp THEN Unlink(h) ELSE UNCHANGED <<list, cancelled>>
    BY <1>3
  <2> HIDE DEF h
  <2>2. TypeOK /\ done \in Seq(Sent)
    BY CopiesType DEF OrderInv, PathInv, SchedInv
  <2>3. \A o \in Ops : Number(done', CopiesOf(o)) + ended'[o]
                         <= Number(done, CopiesOf(o)) + ended[o]
    <3> TAKE o \in Ops
    <3>1. Number(done', CopiesOf(o))
            = Number(done, CopiesOf(o)) - IF done[p] \in CopiesOf(o) THEN 1 ELSE 0
      BY <2>1, <2>2, NumberRemoveAt
    <3>2. done[p] \in CopiesOf(o) <=> o = op
      BY <2>1, <2>2, ElementOfSeq DEF CopiesOf
    <3>3. PICK n \in {0, 1} : Completions(op, FALSE) = n
      BY DEF Completions
    <3>4. ended'[o] = IF o = op THEN ended[o] + Completions(op, FALSE) ELSE ended[o]
      <4>1. ended \in [Ops -> Nat]
        BY <2>2 DEF TypeOK
      <4> QED
        BY <2>1, <4>1
    <3>5. Number(done, CopiesOf(o)) \in Nat /\ ended[o] \in Nat
      <4>1. ended[o] \in Nat
        BY <2>2 DEF TypeOK
      <4> QED
        BY <2>2, <4>1, CopiesType
    <3>6. CASE o = op
      <4>1. Number(done', CopiesOf(o)) = Number(done, CopiesOf(o)) - 1
        BY <3>1, <3>2, <3>6
      <4>2. ended'[o] = ended[o] + n
        BY <3>3, <3>4, <3>6
      <4>3. n \in Nat /\ n <= 1
        OBVIOUS
      <4> QED
        BY <3>5, <4>1, <4>2, <4>3
    <3>7. CASE o # op
      <4>1. Number(done', CopiesOf(o)) = Number(done, CopiesOf(o)) - 0
        BY <3>1, <3>2, <3>7
      <4>2. ended'[o] = ended[o]
        BY <3>4, <3>7
      <4> QED
        BY <3>5, <4>1, <4>2
    <3> QED
      BY <3>6, <3>7
  <2>4. PICK G \in SUBSET (Ops \cap BgScans) :
          ToSet(list') = ToSet(list) \ G /\ cancelled' = cancelled \cup G
    <3>1. CASE list' = list /\ cancelled' = cancelled
      BY <3>1
    <3>2. CASE giveUp /\ ~(list' = list /\ cancelled' = cancelled)
      <4>1. PICK o \in ToSet(list) \cap Ops :
               /\ item[o].handle = h /\ ToSet(list') = ToSet(list) \ {o}
               /\ cancelled' = cancelled \cup {o}
        BY <2>1, <3>2, UnlinkGives DEF OrderInv, PathInv
      <4>2. h \in HandlesOf(o)
        BY <4>1 DEF OrderInv, PathInv, ItemsKept, KeptItem
      <4>3. h \in HandlesOf(op)
        <5>1. p \in DOMAIN done
          BY <2>2, LenProperties
        <5> QED
          BY <2>1, <5>1 DEF OrderInv, PathInv, SentKept
      <4>4. o = op
        BY <4>2, <4>3 DEF OwnHandles
      <4> QED
        BY <2>1, <3>2, <4>1, <4>4
    <3> QED
      BY <2>1, <3>1, <3>2
  <2>5. InTime'
    BY <1>1, <2>4 DEF OrderInv, InTime, Listed, ToSet
  <2>6. Owned'
    <3>1. \A o \in alloc : o \in ToSet(list) \/ o \in cancelled \cap BgScans
      BY ListedIsHeld DEF OrderInv, Owned
    <3>2. \A o \in alloc' : o \in ToSet(list') \/ o \in cancelled' \cap BgScans
      BY <1>1, <2>4, <3>1
    <3> QED
      BY <3>2 DEF Owned, Listed, ToSet
  <2>7. CancelledStaysOut'
    <3>1. \A o \in cancelled : o \notin ToSet(list)
      BY ListedIsHeld DEF OrderInv, CancelledStaysOut
    <3>2. \A o \in cancelled' : o \notin ToSet(list')
      BY <2>4, <3>1
    <3> QED
      BY <3>2 DEF CancelledStaysOut, Listed, ToSet
  <2> QED
    BY <1>1, <2>3, <2>4, <2>5, <2>6, <2>7, CountsKept
<1> QED
  BY <1>2, <1>3, CompletedGives DEF OrderInv, PathInv

\* What both kinds of turn have in common.
LEMMA TurnOrderly ==
  ASSUME OrderInv, PathInv', pc = "tick", NEW it \in Ops, cur = it, NEW l, TurnList(l), NEW t, NEW c,
         c = CountedDown(item[cur]), t = TurnOver(l, c, keep), Apply(t),
         ~keep', UNCHANGED <<fresh, asked, now>>,
         cancelled \subseteq cancelled',
         cancelled' \subseteq cancelled \cup (IF t.taken THEN {} ELSE {cur}),
         \A op \in Ops : Number(done', CopiesOf(op)) + ended'[op]
                <= Number(done, CopiesOf(op)) + ended[op] + IF op = cur THEN 1 ELSE 0
  PROVE  OrderInv'
<1>1. /\ it \in ToSet(list) /\ it \notin fresh /\ t.taken \in BOOLEAN
      /\ t.taken => ToSet(list') = ToSet(list) /\ alloc' = alloc
      /\ ~t.taken => ToSet(list') = ToSet(list) \ {it} /\ alloc' = alloc \ {it}
      /\ item' = [item EXCEPT ![it] = t.item]
      /\ turns' = [turns EXCEPT ![it] = @ + 1]
      /\ t.item.left = IF item[it].left > 0 THEN item[it].left - 1 ELSE item[it].left
      /\ t.taken => /\ item[it].left # 1 /\ item[it].ival # 0
                    /\ t.item.frame = item[it].frame + item[it].ival
      /\ KeptItem(it, item[it])
  BY OrderlyTurn DEF OrderInv, InTime
<1>2. /\ item \in [Ops -> Item] /\ asked \in [Ops -> Int] /\ now \in Nat
      /\ turns \in [Ops -> Nat] /\ ended \in [Ops -> Nat]
      /\ \A o \in Ops : /\ item[o].frame \in Int /\ item[o].left \in Int
                        /\ item[o].ival \in Nat /\ Conf[o].ival \in Nat
                        /\ Conf[o].left \in Int /\ turns[o] * Conf[o].ival \in Int
  BY PathTypes DEF OrderInv
<1>3. Listed(it)
  BY <1>1, ListedIsHeld
<1>4. ASSUME NEW op \in Ops
      PROVE  /\ Listed(op)' => Listed(op)
             /\ Listed(it)' => t.taken
             /\ op # it => item'[op] = item[op] /\ turns'[op] = turns[op]
             /\ item'[it] = t.item /\ turns'[it] = turns[it] + 1
  <2>1. op \in ToSet(list') => op \in ToSet(list)
    BY <1>1
  <2>2. Listed(op)' => Listed(op)
    BY <2>1 DEF Listed, ToSet
  <2>3. it \in ToSet(list') => t.taken
    BY <1>1
  <2>4. Listed(it)' => t.taken
    BY <2>3 DEF Listed, ToSet
  <2> QED
    BY <1>1, <1>2, <2>2, <2>4
<1>5. InTime'
  <2> SUFFICES ASSUME OnTime, NEW op \in Ops, Listed(op)' PROVE item'[op].frame >= now'
    BY DEF InTime
  <2>1. item[op].frame >= now /\ now' = now
    BY <1>4 DEF OrderInv, InTime
  <2>2. CASE op # it
    BY <1>4, <2>1, <2>2
  <2>3. CASE op = it
    <3>1. item'[it].frame = item[it].frame + item[it].ival
      BY <1>1, <1>4, <2>3
    <3> QED
      BY <1>2, <2>1, <2>3, <3>1
  <2> QED
    BY <2>2, <2>3
<1>6. Owned'
  <2>1. \A o \in alloc : o \in ToSet(list) \/ o \in cancelled \cap BgScans
    BY ListedIsHeld DEF OrderInv, Owned
  <2>2. \A o \in alloc' : o \in ToSet(list') \/ o \in cancelled' \cap BgScans
    BY <1>1, <2>1
  <2> QED
    BY <2>2 DEF Owned, Listed, ToSet
<1>7. CancelledStaysOut'
  <2>1. \A o \in cancelled : o \notin ToSet(list)
    BY ListedIsHeld DEF OrderInv, CancelledStaysOut
  <2>2. \A o \in cancelled' : o \notin ToSet(list')
    BY <1>1, <2>1
  <2> QED
    BY <2>2 DEF CancelledStaysOut, Listed, ToSet
<1>8. ASSUME NEW op \in Ops PROVE TurnsCounted(op)' /\ EndsCounted(op)'
  <2>1. TurnsCounted(op) /\ EndsCounted(op) /\ fresh' = fresh /\ asked' = asked
    BY DEF OrderInv
  <2>2. EndsCounted(op)'
    <3>1. turns'[op] = turns[op] + (IF op = it THEN 1 ELSE 0) /\ turns[op] \in Nat
      BY <1>2, <1>4
    <3>2. Number(done', CopiesOf(op)) + ended'[op]
                <= Number(done, CopiesOf(op)) + ended[op] + IF op = it THEN 1 ELSE 0
      OBVIOUS
    <3>3. /\ Number(done, CopiesOf(op)) \in Nat /\ ended[op] \in Nat
          /\ Number(done', CopiesOf(op)) \in Nat /\ ended'[op] \in Nat
      <4>1. TypeOK /\ TypeOK'
        BY DEF OrderInv, PathInv, SchedInv
      <4>2. done' \in Seq(Sent)
        BY <4>1 DEF TypeOK, Sent
      <4>3. Number(done', CopiesOf(op)) \in Nat
        BY <4>2, NumberType
      <4> QED
        BY <4>1, <4>3, CopiesType DEF TypeOK
    <3> QED
      BY <2>1, <3>1, <3>2, <3>3 DEF EndsCounted
  <2>3. CASE op # it
    <3>1. TurnsCounted(op)'
      BY <1>4, <2>1, <2>3 DEF TurnsCounted
    <3> QED
      BY <2>2, <3>1
  <2>4. CASE op = it
    <3>1. OneShot(it) => turns'[it] <= 1 /\ ~Listed(it)'
      <4> SUFFICES ASSUME OneShot(it) PROVE turns'[it] <= 1 /\ ~Listed(it)'
        OBVIOUS
      <4>1. turns[it] = 0
        BY <1>3, <2>1, <2>4 DEF TurnsCounted
      <4>2. item[it].ival = 0
        BY <1>1 DEF KeptItem, OneShot
      <4> QED
        BY <1>1, <1>4, <4>1, <4>2
    <3>2. ASSUME Repeats(it)
          PROVE  /\ turns'[it] + item'[it].left = Conf[it].left
                 /\ Listed(it)' => /\ item'[it].left > 0
                                    /\ item'[it].frame = asked'[it] + turns'[it] * Conf[it].ival
      <4>1. /\ turns[it] + item[it].left = Conf[it].left /\ item[it].left > 0
            /\ item[it].frame = asked[it] + turns[it] * Conf[it].ival
        BY <1>3, <2>1, <2>4, <3>2 DEF TurnsCounted
      <4>2. item'[it].left = item[it].left - 1 /\ turns'[it] = turns[it] + 1
        BY <1>1, <1>4, <4>1
      <4>3. turns[it] \in Nat /\ item[it].left \in Int /\ asked[it] \in Int /\ Conf[it].ival \in Nat
        BY <1>2
      <4>4. turns'[it] + item'[it].left = Conf[it].left
        BY <4>1, <4>2, <4>3
      <4>5. ASSUME Listed(it)'
            PROVE  item'[it].left > 0 /\ item'[it].frame = asked'[it] + turns'[it] * Conf[it].ival
        <5>1. t.taken
          BY <1>4, <4>5
        <5>2. item[it].left # 1 /\ item'[it].frame = item[it].frame + Conf[it].ival
          BY <1>1, <1>4, <4>1, <5>1 DEF KeptItem
        <5>3. (turns[it] + 1) * Conf[it].ival = turns[it] * Conf[it].ival + Conf[it].ival
          BY <4>3
        <5>4. turns[it] * Conf[it].ival \in Int
          BY <1>2
        <5>5. item'[it].frame = asked[it] + (turns[it] + 1) * Conf[it].ival
          BY <4>1, <4>3, <5>2, <5>3, <5>4
        <5> QED
          BY <2>1, <4>1, <4>2, <4>3, <5>2, <5>5
      <4> QED
        BY <4>4, <4>5
    <3>3. it \notin fresh'
      BY <1>1, <2>1
    <3>4. TurnsCounted(it)'
      BY <3>1, <3>2, <3>3 DEF TurnsCounted
    <3> QED
      BY <2>2, <2>4, <3>4
  <2> QED
    BY <2>3, <2>4
<1> QED
  BY <1>5, <1>6, <1>7, <1>8 DEF OrderInv

LEMMA TurnDelayedOrder ==
  ASSUME NoLateIntervals, CountsRepeat, OrderInv, PathInv',
         NEW giveUp \in BOOLEAN, TurnDelayed(giveUp)
  PROVE  OrderInv'
<1> DEFINE l == IF giveUp THEN Without(list, cur) ELSE list
           c == CountedDown(item[cur])
           t == TurnOver(l, c, keep)
<1>1. PICK it \in Ops : it = cur
  BY DEF TurnDelayed, OrderInv, PathInv, SchedInv, TypeOK
<1>2. pc = "tick" /\ cur \in Ops /\ TurnList(l) /\ ~keep
  BY <1>1 DEF TurnDelayed, TurnList, OrderInv, InTime
<1>3. /\ Apply(t) /\ UNCHANGED <<fresh, asked, now, done>>
      /\ keep' = (keep \/ t.taken)
      /\ ended' = [ended EXCEPT ![cur] = @ + Completions(cur, LastCounted(cur))]
      /\ cancelled' = IF giveUp THEN cancelled \cup {cur} ELSE cancelled
  BY DEF TurnDelayed
<1>4. OneShot(cur) /\ item[cur].ival = 0
  BY DelayedIsOneShot DEF OrderInv
<1> HIDE DEF l
<1>5. ~t.taken
  <2> HIDE DEF c, t
  <2>1. t.taken => item[cur].ival # 0
    BY <1>2, <1>3, OrderlyTurn DEF OrderInv, c, t
  <2> QED
    BY <1>4, <2>1
<1> HIDE DEF c, t
<1>6. ~keep' /\ cancelled \subseteq cancelled'
      /\ cancelled' \subseteq cancelled \cup (IF t.taken THEN {} ELSE {cur})
  BY <1>2, <1>3, <1>5
<1>7. ~LastCounted(cur)
  <2>1. item[cur].left <= Conf[cur].left /\ Conf[cur].left < 1
    BY <1>2, <1>4 DEF CountsRepeat, OrderInv, PathInv, ItemsKept, KeptItem
  <2>2. item[cur].left \in Int /\ Conf[cur].left \in Int
    BY <1>2, PathTypes DEF OrderInv
  <2> QED
    BY <2>1, <2>2 DEF LastCounted
<1>8. \A op \in Ops : Number(done', CopiesOf(op)) + ended'[op]
                <= Number(done, CopiesOf(op)) + ended[op] + IF op = cur THEN 1 ELSE 0
  <2> TAKE op \in Ops
  <2>1. Number(done, CopiesOf(op)) \in Nat /\ ended \in [Ops -> Nat]
    BY CopiesType, PathTypes DEF OrderInv, PathInv, SchedInv
  <2>2. Completions(cur, LastCounted(cur)) \in {0, 1}
    BY <1>7 DEF Completions
  <2>3. ended'[op] = IF op = cur THEN ended[op] + Completions(cur, LastCounted(cur)) ELSE ended[op]
    BY <1>3, <2>1
  <2>4. ended'[op] <= ended[op] + (IF op = cur THEN 1 ELSE 0) /\ ended'[op] \in Nat /\ ended[op] \in Nat
    BY <2>1, <2>2, <2>3
  <2>5. done' = done
    BY <1>3
  <2>6. CASE op = cur
    BY <2>1, <2>4, <2>5, <2>6
  <2>7. CASE op # cur
    BY <2>1, <2>4, <2>5, <2>7
  <2> QED
    BY <2>6, <2>7
<1> QED
  BY <1>1, <1>2, <1>3, <1>6, <1>8, TurnOrderly DEF c, t

LEMMA TurnSentOrder ==
  ASSUME OrderInv, PathInv', NEW err \in BOOLEAN, TurnSent(err)
  PROVE  OrderInv'
<1> DEFINE c == CountedDown(item[cur])
           t == TurnOver(list, c, keep)
           entry == [op |-> cur, handle |-> item[cur].handle]
<1>1. PICK it \in Ops : it = cur
  BY DEF TurnSent, OrderInv, PathInv, SchedInv, TypeOK
<1>2. pc = "tick" /\ cur \in Ops /\ TurnList(list)
  BY <1>1 DEF TurnSent, TurnList
<1>3. /\ Apply(t) /\ UNCHANGED <<fresh, asked, now, cancelled, ended>>
      /\ ~keep' /\ (done' = done \/ done' = Append(done, entry))
  BY DEF TurnSent
<1> HIDE DEF c, t
<1>4. \A op \in Ops : Number(done', CopiesOf(op)) + ended'[op]
                <= Number(done, CopiesOf(op)) + ended[op] + IF op = cur THEN 1 ELSE 0
  <2> TAKE op \in Ops
  <2>1. Number(done, CopiesOf(op)) \in Nat /\ ended[op] \in Nat /\ done \in Seq(Sent)
    BY CopiesType, PathTypes DEF OrderInv, PathInv, SchedInv
  <2>2. entry \in Sent /\ (entry \in CopiesOf(op) <=> op = cur)
    <3>1. item[cur].handle \in Nat
      BY <1>2 DEF OrderInv, PathInv, SchedInv, TypeOK, Item
    <3> QED
      BY <1>2, <3>1 DEF Sent, CopiesOf
  <2> HIDE DEF entry
  <2>3. Number(Append(done, entry), CopiesOf(op))
          = Number(done, CopiesOf(op)) + IF entry \in CopiesOf(op) THEN 1 ELSE 0
    BY <2>1, <2>2, NumberAppend
  <2>4. ended' = ended /\ (done' = done \/ done' = Append(done, entry))
    BY <1>3
  <2>5. CASE op = cur
    <3>1. Number(Append(done, entry), CopiesOf(op)) = Number(done, CopiesOf(op)) + 1
      BY <2>2, <2>3, <2>5
    <3>2. \/ Number(done', CopiesOf(op)) = Number(done, CopiesOf(op))
          \/ Number(done', CopiesOf(op)) = Number(done, CopiesOf(op)) + 1
      BY <2>4, <3>1
    <3>3. ended'[op] = ended[op]
      BY <2>4
    <3> QED
      BY <2>1, <2>5, <3>2, <3>3
  <2>6. CASE op # cur
    <3>1. Number(Append(done, entry), CopiesOf(op)) = Number(done, CopiesOf(op))
      BY <2>1, <2>2, <2>3, <2>6
    <3>2. Number(done', CopiesOf(op)) = Number(done, CopiesOf(op))
      BY <2>4, <3>1
    <3>3. ended'[op] = ended[op]
      BY <2>4
    <3> QED
      BY <2>1, <2>6, <3>2, <3>3
  <2> QED
    BY <2>5, <2>6
<1> QED
  BY <1>1, <1>2, <1>3, <1>4, TurnOrderly DEF c, t

LEMMA NextOrder == ASSUME Orderly PROVE OrderInv /\ [Next]_vars => OrderInv'
<1> SUFFICES ASSUME OrderInv, [Next]_vars PROVE OrderInv'
  OBVIOUS
<1>0. PathInv'
  BY NextPath DEF OrderInv
<1>1. CASE Users
  BY <1>0, <1>1, AddOrder, RemovalOrder, ShiftFrameOrder, QuietOrder DEF Users
<1>2. CASE Thread
  <2>1. CASE Walk
    BY <1>0, <2>1, TurnDelayedOrder, TurnSentOrder, QuietOrder DEF Walk, Orderly
  <2> QED
    BY <1>0, <1>2, <2>1, TakeCompletedOrder, TakePurgeOrder, RemovalOrder, QuietOrder
       DEF Thread, Orderly
<1>3. CASE Modem \/ TimerFires \/ Advance \/ UNCHANGED vars
  BY <1>0, <1>3, QuietOrder
<1> QED
  BY <1>1, <1>2, <1>3 DEF Next

\* When no interval operation is late, an item on the heap is listed or belongs to
\* a background scan that gave up, and its turns add up to its count.
THEOREM OrderHolds == ASSUME Orderly PROVE Spec => []OrderInv
<1>1. Init => OrderInv
  BY InitOrder
<1>2. OrderInv /\ [Next]_vars => OrderInv'
  BY NextOrder
<1> QED
  BY <1>1, <1>2, PTL DEF Spec

\* The heap is the list: no item leaks, none is freed while it is listed, and
\* none is listed twice.
THEOREM HeapOwned == ASSUME Orderly PROVE Spec => []ListOwnsHeap
<1>1. OrderInv => ListOwnsHeap
  BY DEF OrderInv, Owned, PathInv, ListedAllocated, SchedInv, ListedOnce, ListOwnsHeap
<1> QED
  BY <1>1, OrderHolds, PTL

\* An operation that was removed, purged or gave up is never listed again.
THEOREM CancelledNeverReturns == ASSUME Orderly PROVE Spec => []CancelledStaysOut
<1>1. OrderInv => CancelledStaysOut
  BY DEF OrderInv
<1> QED
  BY <1>1, OrderHolds, PTL

\* An interval operation with a count gets exactly its turns, on its grid, and
\* no turn is completed twice.
THEOREM TurnsAreCounted == ASSUME Orderly PROVE Spec => []IntervalCount
<1>1. OrderInv => IntervalCount
  <2> SUFFICES ASSUME OrderInv, NEW op \in Ops, Repeats(op)
               PROVE  /\ turns[op] + item[op].left = Conf[op].left
                      /\ Listed(op) => item[op].frame = asked[op] + turns[op] * Conf[op].ival
                      /\ Listed(op) => item[op].left > 0
                      /\ ended[op] <= turns[op]
    BY DEF IntervalCount, Repeats
  <2>1. TurnsCounted(op) /\ EndsCounted(op)
    BY DEF OrderInv
  <2>2. Number(done, CopiesOf(op)) \in Nat /\ ended[op] \in Nat /\ turns[op] \in Nat
    BY CopiesType, PathTypes DEF OrderInv, PathInv, SchedInv
  <2>3. ended[op] <= turns[op]
    BY <2>1, <2>2 DEF EndsCounted
  <2> QED
    BY <2>1, <2>3 DEF TurnsCounted
<1> QED
  BY <1>1, OrderHolds, PTL

--------------------------------------------------------------------------------
(* The ledger: turns, what the modem has, what is queued, what is completed.*)

\* The completions of a set of handles.
CompletionsOf(H) == {e \in Events : e.id = "OP_COMPLETED" /\ e.handle \in H}

\* What k_msgq_put() does to the number of events of a kind.
LEMMA PutNumber ==
  ASSUME queue \in Seq(Events), Len(queue) <= QCap,
         NEW evs \in Seq(Events), Put(queue, evs), NEW S
  PROVE  /\ Number(queue, S) <= Number(queue', S)
         /\ Number(queue', S) <= Number(queue, S) + Number(evs, S)
         /\ (\A k \in 1 .. Len(evs) : evs[k] \in S => evs[k].id \notin dropped') =>
              Number(queue', S) = Number(queue, S) + Number(evs, S)
         /\ dropped \subseteq dropped'
<1> DEFINE n == IF Len(queue) + Len(evs) <= QCap THEN Len(evs) ELSE QCap - Len(queue)
           front == SubSeq(evs, 1, n)
<1>1. Len(queue) \in Nat /\ Len(evs) \in Nat /\ n \in 0 .. Len(evs)
  BY SchedulerAssumption, LenProperties
<1>2. /\ queue' = queue \o front
      /\ dropped' = dropped \cup {evs[i].id : i \in n + 1 .. Len(evs)}
  BY DEF Put
<1> HIDE DEF n
<1>3. /\ front \in Seq(Events) /\ Number(front, S) <= Number(evs, S)
      /\ (\A i \in n + 1 .. Len(evs) : evs[i] \notin S) => Number(front, S) = Number(evs, S)
  BY <1>1, NumberFront
<1> HIDE DEF front
<1>4. Number(queue', S) = Number(queue, S) + Number(front, S)
  BY <1>2, <1>3, NumberConcat
<1>5. Number(queue, S) \in Nat /\ Number(front, S) \in Nat /\ Number(evs, S) \in Nat
  BY <1>3, NumberType
<1>6. ASSUME \A k \in 1 .. Len(evs) : evs[k] \in S => evs[k].id \notin dropped'
      PROVE  \A i \in n + 1 .. Len(evs) : evs[i] \notin S
  <2> TAKE i \in n + 1 .. Len(evs)
  <2>1. i \in 1 .. Len(evs) /\ evs[i].id \in dropped'
    BY <1>1, <1>2
  <2> QED
    BY <1>6, <2>1
<1>7. dropped \subseteq dropped'
  BY <1>2
<1> QED
  BY <1>3, <1>4, <1>5, <1>6, <1>7

\* Events of other kinds leave the number of completions alone.
LEMMA OthersPut ==
  ASSUME SchedInv, NEW evs \in Seq(Events), Put(queue, evs),
         \A k \in 1 .. Len(evs) : evs[k].id # "OP_COMPLETED", NEW H
  PROVE  /\ Number(queue', CompletionsOf(H)) = Number(queue, CompletionsOf(H))
         /\ dropped \subseteq dropped'
<1> DEFINE K == CompletionsOf(H)
<1>1. queue \in Seq(Events) /\ Len(queue) <= QCap
  BY PutAssumptions
<1>2. \A k \in 1 .. Len(evs) : evs[k] \notin K
  BY DEF CompletionsOf
<1>3. \A k \in DOMAIN evs : evs[k] \notin K
  BY <1>2, LenProperties
<1> HIDE DEF K
<1>4. Number(evs, K) = 0 /\ Number(queue, K) \in Nat
  BY <1>1, <1>3, NumberType
<1>5. /\ Number(queue', K) = Number(queue, K) + Number(evs, K)
      /\ dropped \subseteq dropped'
  BY <1>1, <1>2, PutNumber
<1> QED
  BY <1>4, <1>5 DEF K

LEMMA OthersTaken ==
  ASSUME SchedInv, queue # <<>>, Head(queue).id # "OP_COMPLETED", queue' = Tail(queue), NEW H
  PROVE  Number(queue', CompletionsOf(H)) = Number(queue, CompletionsOf(H))
<1> DEFINE K == CompletionsOf(H)
<1>1. queue \in Seq(Events)
  BY PutAssumptions
<1>2. Head(queue) \notin K
  BY DEF CompletionsOf
<1> HIDE DEF K
<1>3. Number(queue, K) = Number(Tail(queue), K) + IF Head(queue) \in K THEN 1 ELSE 0
  BY <1>1, NumberTail
<1>4. Number(Tail(queue), K) \in Nat
  BY <1>1, HeadTailProperties, NumberType
<1> QED
  BY <1>2, <1>3, <1>4 DEF K

\* A one-shot operation is at most one of these: with the modem, in a
\* completion still queued, completed.
Owed(op) ==
  OneShot(op) => Number(modem, CopiesOf(op)) + Number(queue, CompletionsOf(HandlesOf(op)))
                   + ended[op] <= turns[op]

SentWith(h) == {e \in Sent : e.handle = h}

\* The copies in the done list with a handle have completions to come.
Answered(h) ==
  Number(done, SentWith(h)) <= Number(modem, SentWith(h)) + Number(queue, CompletionsOf({h}))

\* A failed operation with a handle range is completed with its next handle.
NoRanges == \A op \in Ops : ~Conf[op].range

Answers == "OP_COMPLETED" \in dropped \/ \A h \in Handles : Answered(h)

LedgerInv == OrderInv /\ (\A op \in Ops : Owed(op)) /\ Answers

LEMMA LedgerTypes ==
  ASSUME TypeOK, NEW S
  PROVE  /\ Number(modem, S) \in Nat /\ Number(done, S) \in Nat /\ Number(queue, S) \in Nat
         /\ modem \in Seq(Sent) /\ done \in Seq(Sent) /\ queue \in Seq(Events)
         /\ ended \in [Ops -> Nat] /\ turns \in [Ops -> Nat]
<1>1. /\ modem \in Seq(Sent) /\ done \in Seq(Sent) /\ queue \in Seq(Events)
      /\ ended \in [Ops -> Nat] /\ turns \in [Ops -> Nat]
  BY DEF TypeOK, Sent
<1> QED
  BY <1>1, NumberType

LEMMA LedgerTypesNext ==
  ASSUME TypeOK', NEW S
  PROVE  /\ Number(modem', S) \in Nat /\ Number(done', S) \in Nat /\ Number(queue', S) \in Nat
         /\ ended' \in [Ops -> Nat] /\ turns' \in [Ops -> Nat]
<1>1. /\ modem' \in Seq(Sent) /\ done' \in Seq(Sent) /\ queue' \in Seq(Events)
      /\ ended' \in [Ops -> Nat] /\ turns' \in [Ops -> Nat]
  BY DEF TypeOK, Sent
<1> QED
  BY <1>1, NumberType

\* A step that only moves other events, or purges copies.
LEMMA LedgerKept ==
  ASSUME LedgerInv, OrderInv', UNCHANGED <<modem, ended, turns>>,
         \A H : Number(queue', CompletionsOf(H)) = Number(queue, CompletionsOf(H)),
         done' = done \/ done' = <<>>, dropped \subseteq dropped'
  PROVE  LedgerInv'
<1>1. ASSUME NEW op \in Ops PROVE Owed(op)'
  <2>1. Owed(op)
    BY DEF LedgerInv
  <2>2. /\ modem' = modem /\ ended' = ended /\ turns' = turns
        /\ Number(queue', CompletionsOf(HandlesOf(op))) = Number(queue, CompletionsOf(HandlesOf(op)))
    OBVIOUS
  <2> QED
    BY <2>1, <2>2 DEF Owed
<1>2. ASSUME NEW h, Answered(h) PROVE Answered(h)'
  <2>1. TypeOK
    BY DEF LedgerInv, OrderInv, PathInv, SchedInv
  <2>2. Number(done', SentWith(h)) = Number(done, SentWith(h)) \/ Number(done', SentWith(h)) = 0
    BY NumberEmpty
  <2>3. /\ Number(done, SentWith(h)) \in Nat /\ Number(modem, SentWith(h)) \in Nat
        /\ Number(queue, CompletionsOf({h})) \in Nat
    BY <2>1, LedgerTypes
  <2>4. /\ modem' = modem
        /\ Number(queue', CompletionsOf({h})) = Number(queue, CompletionsOf({h}))
    OBVIOUS
  <2> QED
    BY <1>2, <2>2, <2>3, <2>4 DEF Answered
<1>3. Answers'
  BY <1>2 DEF LedgerInv, Answers
<1> QED
  BY <1>1, <1>3 DEF LedgerInv

LEMMA WakeEventsType ==
  ASSUME NEW r
  PROVE  /\ WakeEvents(r) \in Seq(Events)
         /\ \A k \in 1 .. Len(WakeEvents(r)) : WakeEvents(r)[k].id # "OP_COMPLETED"
<1>1. CASE WakeEvents(r) = <<>>
  BY <1>1
<1>2. CASE WakeEvents(r) = <<NextFrame>>
  <2>1. <<NextFrame>> \in Seq(Events) /\ Len(<<NextFrame>>) = 1 /\ <<NextFrame>>[1] = NextFrame
    BY EventTypes
  <2> QED
    BY <1>2, <2>1, EventTypes
<1> QED
  BY <1>1, <1>2 DEF WakeEvents

LEMMA QuietLedger ==
  ASSUME LedgerInv, OrderInv',
         \/ \E op \in Ops, f \in Frames : Add(op, f)
         \/ \E h \in Handles : RemoveByHandle(h)
         \/ \E h \in Handles, d \in Shifts : ShiftFrame(h, d)
         \/ \E e \in Requests : Request(e)
         \/ TimerFires \/ Advance \/ UNCHANGED vars
         \/ TakePurge \/ TakeRemove \/ TakeSuspendOrResume \/ TakeNextFrame
         \/ TurnPostponed \/ WalkEnds
  PROVE  LedgerInv'
<1> USE DEF listVars, walkVars, histVars
<1>0. SchedInv
  BY DEF LedgerInv, OrderInv, PathInv
<1>1. CASE \/ \E h \in Handles : RemoveByHandle(h)
           \/ \E h \in Handles, d \in Shifts : ShiftFrame(h, d)
           \/ Advance \/ UNCHANGED vars \/ TurnPostponed \/ WalkEnds
  <2>1. UNCHANGED <<modem, ended, turns, queue, done, dropped>>
    <3>1. CASE UNCHANGED vars
      BY <3>1 DEF vars
    <3> QED
      BY <1>1, <3>1 DEF RemoveByHandle, ShiftFrame, Advance, TurnPostponed, WalkEnds
  <2> QED
    BY <2>1, LedgerKept
<1>2. CASE TakePurge \/ TakeRemove \/ TakeSuspendOrResume \/ TakeNextFrame
  <2>1. /\ UNCHANGED <<modem, ended, turns, dropped>> /\ (done' = done \/ done' = <<>>)
        /\ queue # <<>> /\ Head(queue).id # "OP_COMPLETED" /\ queue' = Tail(queue)
    BY <1>2 DEF TakePurge, TakeRemove, TakeSuspendOrResume, TakeNextFrame, Takes
  <2>2. \A H : Number(queue', CompletionsOf(H)) = Number(queue, CompletionsOf(H))
    BY <1>0, <2>1, OthersTaken
  <2> QED
    BY <2>1, <2>2, LedgerKept
<1>3. CASE \/ \E op \in Ops, f \in Frames : Add(op, f)
           \/ \E e \in Requests : Request(e)
           \/ TimerFires
  <2>1. PICK evs \in Seq(Events) :
          /\ Put(queue, evs) /\ \A k \in 1 .. Len(evs) : evs[k].id # "OP_COMPLETED"
          /\ UNCHANGED <<modem, ended, turns, done>>
    <3>1. ASSUME NEW op \in Ops, NEW f \in Frames, Add(op, f)
          PROVE  \E evs \in Seq(Events) :
                    /\ Put(queue, evs) /\ \A k \in 1 .. Len(evs) : evs[k].id # "OP_COMPLETED"
                    /\ UNCHANGED <<modem, ended, turns, done>>
      <4> DEFINE r == AddTo(list, item, op, [Conf[op] EXCEPT !.frame = f])
      <4>1. Put(queue, WakeEvents(r)) /\ UNCHANGED <<modem, ended, turns, done>>
        BY <3>1 DEF Add
      <4> HIDE DEF r
      <4>2. WakeEvents(r) \in Seq(Events) /\ \A k \in 1 .. Len(WakeEvents(r)) : WakeEvents(r)[k].id # "OP_COMPLETED"
        BY WakeEventsType
      <4> QED
        BY <4>1, <4>2
    <3>2. ASSUME NEW e \in Requests, Request(e)
          PROVE  \E evs \in Seq(Events) :
                    /\ Put(queue, evs) /\ \A k \in 1 .. Len(evs) : evs[k].id # "OP_COMPLETED"
                    /\ UNCHANGED <<modem, ended, turns, done>>
      <4>1. e \in Events /\ e.id # "OP_COMPLETED"
        BY HandleType DEF Requests, Event, Events, EventIds
      <4>2. Put(queue, <<e>>) /\ UNCHANGED <<modem, ended, turns, done>>
        BY <3>2 DEF Request
      <4>3. <<e>> \in Seq(Events) /\ \A k \in 1 .. Len(<<e>>) : <<e>>[k].id # "OP_COMPLETED"
        BY <4>1
      <4> QED
        BY <4>2, <4>3
    <3>3. CASE TimerFires
      <4>1. Put(queue, <<NextFrame>>) /\ UNCHANGED <<modem, ended, turns, done>>
        BY <3>3 DEF TimerFires
      <4>2. /\ <<NextFrame>> \in Seq(Events)
            /\ \A k \in 1 .. Len(<<NextFrame>>) : <<NextFrame>>[k].id # "OP_COMPLETED"
        BY EventTypes
      <4> QED
        BY <4>1, <4>2
    <3> QED
      BY <1>3, <3>1, <3>2, <3>3
  <2>2. \A H : Number(queue', CompletionsOf(H)) = Number(queue, CompletionsOf(H))
    BY <1>0, <2>1, OthersPut
  <2>3. dropped \subseteq dropped'
    BY <1>0, <2>1, OthersPut
  <2> QED
    BY <2>1, <2>2, <2>3, LedgerKept
<1> QED
  BY <1>1, <1>2, <1>3

LEMMA InitLedger == Init => LedgerInv
<1> SUFFICES ASSUME Init PROVE LedgerInv
  OBVIOUS
<1>1. OrderInv
  BY InitOrder
<1>2. done = <<>> /\ modem = <<>> /\ queue = <<>> /\ \A op \in Ops : ended[op] = 0 /\ turns[op] = 0
  BY DEF Init
<1>3. \A S : Number(done, S) = 0 /\ Number(modem, S) = 0 /\ Number(queue, S) = 0
  BY <1>2, NumberEmpty
<1>4. \A op \in Ops : Owed(op)
  BY <1>2, <1>3 DEF Owed
<1>5. Answers
  BY <1>3 DEF Answers, Answered
<1> QED
  BY <1>1, <1>4, <1>5 DEF LedgerInv

\* The modem answers one operation with one event.
LEMMA ModemLedger ==
  ASSUME OwnHandles, LedgerInv, OrderInv', NEW i \in DOMAIN modem, ModemCompletes(i)
  PROVE  LedgerInv'
<1> USE DEF listVars, walkVars, histVars
<1> DEFINE h == modem[i].handle
           o == modem[i].op
           e == Event("OP_COMPLETED", h)
<1>1. /\ modem' = RemoveAt(modem, i) /\ Put(queue, <<e>>) /\ UNCHANGED <<done, ended, turns>>
  BY DEF ModemCompletes
<1>2. TypeOK /\ TypeOK' /\ SchedInv
  BY DEF LedgerInv, OrderInv, PathInv, SchedInv
<1>3. /\ modem \in Seq(Sent) /\ i \in 1 .. Len(modem) /\ modem[i] \in Sent
      /\ o \in Ops /\ h \in Nat /\ h \in HandlesOf(o)
  <2>1. modem \in Seq(Sent)
    BY <1>2, LedgerTypes
  <2>2. i \in 1 .. Len(modem)
    BY <2>1, LenProperties
  <2>3. modem[i] \in Sent
    BY <2>1, <2>2, ElementOfSeq
  <2>4. h \in HandlesOf(o)
    BY DEF LedgerInv, OrderInv, PathInv, SentKept
  <2> QED
    BY <2>1, <2>2, <2>3, <2>4 DEF Sent
<1>4. \A S : Number(modem', S) = Number(modem, S) - IF modem[i] \in S THEN 1 ELSE 0
  BY <1>1, <1>3, NumberRemoveAt
<1>5. e \in Events /\ e.id = "OP_COMPLETED" /\ e.handle = h /\ <<e>> \in Seq(Events)
  BY <1>3 DEF Event, Events, EventIds
<1> HIDE DEF e, h, o
<1>6. \A H : e \in CompletionsOf(H) <=> h \in H
  BY <1>5 DEF CompletionsOf
<1>7. queue \in Seq(Events) /\ Len(queue) <= QCap
  BY <1>2, PutAssumptions
<1>8. ASSUME NEW H
      PROVE  /\ h \notin H => Number(queue', CompletionsOf(H)) <= Number(queue, CompletionsOf(H))
             /\ Number(queue', CompletionsOf(H)) <= Number(queue, CompletionsOf(H)) + 1
             /\ Number(queue, CompletionsOf(H)) <= Number(queue', CompletionsOf(H))
             /\ h \in H /\ "OP_COMPLETED" \notin dropped' =>
                  Number(queue', CompletionsOf(H)) = Number(queue, CompletionsOf(H)) + 1
             /\ dropped \subseteq dropped'
  <2> DEFINE K == CompletionsOf(H)
  <2>1. Number(<<e>>, K) = IF h \in H THEN 1 ELSE 0
    BY <1>6, NumberSingle
  <2> HIDE DEF K
  <2>2. /\ Number(queue, K) <= Number(queue', K)
        /\ Number(queue', K) <= Number(queue, K) + Number(<<e>>, K)
        /\ (\A k \in 1 .. Len(<<e>>) : <<e>>[k] \in K => <<e>>[k].id \notin dropped') =>
              Number(queue', K) = Number(queue, K) + Number(<<e>>, K)
        /\ dropped \subseteq dropped'
    BY <1>1, <1>5, <1>7, PutNumber
  <2>3. Number(queue, K) \in Nat /\ Number(queue', K) \in Nat
    BY <1>2, LedgerTypes, LedgerTypesNext
  <2>4. "OP_COMPLETED" \notin dropped' =>
          \A k \in 1 .. Len(<<e>>) : <<e>>[k] \in K => <<e>>[k].id \notin dropped'
    BY <1>5
  <2> QED
    BY <2>1, <2>2, <2>3, <2>4 DEF K
<1>9. ASSUME NEW op \in Ops, OneShot(op) PROVE Owed(op)'
  <2>1. Number(modem, CopiesOf(op)) + Number(queue, CompletionsOf(HandlesOf(op)))
                   + ended[op] <= turns[op]
    BY <1>9 DEF LedgerInv, Owed
  <2>2. /\ Number(modem, CopiesOf(op)) \in Nat /\ ended[op] \in Nat /\ turns[op] \in Nat
        /\ Number(queue, CompletionsOf(HandlesOf(op))) \in Nat
        /\ Number(queue', CompletionsOf(HandlesOf(op))) \in Nat
    BY <1>2, LedgerTypes, LedgerTypesNext
  <2>3. modem[i] \in CopiesOf(op) <=> op = o
    BY <1>3 DEF CopiesOf, o
  <2>4. h \in HandlesOf(op) => op = o
    BY <1>3 DEF OwnHandles
  <2>5. ended' = ended /\ turns' = turns
    BY <1>1
  <2>6. CASE op = o
    <3>1. Number(modem', CopiesOf(op)) = Number(modem, CopiesOf(op)) - 1
      BY <1>4, <2>3, <2>6
    <3> QED
      BY <1>8, <2>1, <2>2, <2>5, <3>1 DEF Owed
  <2>7. CASE op # o
    <3>1. Number(modem', CopiesOf(op)) = Number(modem, CopiesOf(op))
      BY <1>4, <2>2, <2>3, <2>7
    <3>2. h \notin HandlesOf(op)
      BY <2>4, <2>7
    <3> QED
      BY <1>8, <2>1, <2>2, <2>5, <3>1, <3>2 DEF Owed
  <2> QED
    BY <2>6, <2>7
<1>10. ASSUME NEW g, Answered(g), "OP_COMPLETED" \notin dropped' PROVE Answered(g)'
  <2>1. Number(done, SentWith(g)) <= Number(modem, SentWith(g)) + Number(queue, CompletionsOf({g}))
    BY <1>10 DEF Answered
  <2>2. /\ Number(modem, SentWith(g)) \in Nat /\ Number(done, SentWith(g)) \in Nat
        /\ Number(queue, CompletionsOf({g})) \in Nat
        /\ Number(queue', CompletionsOf({g})) \in Nat
    BY <1>2, LedgerTypes, LedgerTypesNext
  <2>3. modem[i] \in SentWith(g) <=> g = h
    BY <1>3 DEF SentWith, h
  <2>4. Number(done', SentWith(g)) = Number(done, SentWith(g))
    BY <1>1
  <2>5. CASE g = h
    <3>1. Number(modem', SentWith(g)) = Number(modem, SentWith(g)) - 1
      BY <1>4, <2>3, <2>5
    <3>2. Number(queue', CompletionsOf({g})) = Number(queue, CompletionsOf({g})) + 1
      BY <1>8, <1>10, <2>5
    <3> QED
      BY <2>1, <2>2, <2>4, <3>1, <3>2 DEF Answered
  <2>6. CASE g # h
    <3>1. Number(modem', SentWith(g)) = Number(modem, SentWith(g))
      BY <1>4, <2>2, <2>3, <2>6
    <3>2. Number(queue, CompletionsOf({g})) <= Number(queue', CompletionsOf({g}))
      BY <1>8
    <3> QED
      BY <2>1, <2>2, <2>4, <3>1, <3>2 DEF Answered
  <2> QED
    BY <2>5, <2>6
<1>11. \A op \in Ops : Owed(op)'
  BY <1>9 DEF Owed
<1>12. Answers'
  BY <1>8, <1>10 DEF LedgerInv, Answers
<1> QED
  BY <1>11, <1>12 DEF LedgerInv

\* The thread ends one copy for one event.
LEMMA TakeCompletedLedger ==
  ASSUME OwnHandles, LedgerInv, OrderInv', NEW giveUp \in BOOLEAN, TakeCompleted(giveUp)
  PROVE  LedgerInv'
<1> DEFINE h == Head(queue).handle
<1>1. /\ queue # <<>> /\ Head(queue).id = "OP_COMPLETED" /\ queue' = Tail(queue)
      /\ UNCHANGED <<modem, turns, dropped>>
  BY DEF TakeCompleted, Takes
<1>2. TypeOK /\ TypeOK' /\ SchedInv /\ queue \in Seq(Events)
  BY DEF LedgerInv, OrderInv, PathInv, SchedInv, TypeOK
<1>3. Head(queue) \in Events
  BY <1>1, <1>2, HeadTailProperties
<1>4. \A H : Head(queue) \in CompletionsOf(H) <=> h \in H
  BY <1>1, <1>3 DEF CompletionsOf
<1>5. \A H : Number(queue, CompletionsOf(H)) = Number(queue', CompletionsOf(H)) + IF h \in H THEN 1 ELSE 0
  <2> TAKE H
  <2>1. Number(queue, CompletionsOf(H))
          = Number(Tail(queue), CompletionsOf(H)) + IF Head(queue) \in CompletionsOf(H) THEN 1 ELSE 0
    BY <1>1, <1>2, NumberTail
  <2> QED
    BY <1>1, <1>4, <2>1
<1>0. h = Head(queue).handle
  OBVIOUS
<1> HIDE DEF h
<1>6. \/ /\ \A i \in DOMAIN done : done[i].handle # h
         /\ UNCHANGED <<list, done, cancelled, ended>> /\ ~giveUp
      \/ \E p \in 1 .. Len(done), op \in Ops :
           /\ op = done[p].op /\ done[p].handle = h
           /\ giveUp => op \in BgScans
           /\ done' = RemoveAt(done, p)
           /\ ended' = [ended EXCEPT ![op] = @ + Completions(op, FALSE)]
           /\ IF giveUp THEN Unlink(h) ELSE UNCHANGED <<list, cancelled>>
  BY <1>0, <1>2, CompletedGives
<1>7. CASE /\ \A i \in DOMAIN done : done[i].handle # h
           /\ UNCHANGED <<list, done, cancelled, ended>> /\ ~giveUp
  <2>1. ASSUME NEW op \in Ops, OneShot(op) PROVE Owed(op)'
    <3>1. Number(modem, CopiesOf(op)) + Number(queue, CompletionsOf(HandlesOf(op)))
                     + ended[op] <= turns[op]
      BY <2>1 DEF LedgerInv, Owed
    <3>2. /\ Number(modem, CopiesOf(op)) \in Nat /\ ended[op] \in Nat /\ turns[op] \in Nat
          /\ Number(queue, CompletionsOf(HandlesOf(op))) \in Nat
          /\ Number(queue', CompletionsOf(HandlesOf(op))) \in Nat
      BY <1>2, LedgerTypes, LedgerTypesNext
    <3>3. Number(queue', CompletionsOf(HandlesOf(op))) <= Number(queue, CompletionsOf(HandlesOf(op)))
      BY <1>5, <3>2
    <3>4. modem' = modem /\ ended' = ended /\ turns' = turns
      BY <1>1, <1>7
    <3> QED
      BY <3>1, <3>2, <3>3, <3>4 DEF Owed
  <2>2. ASSUME NEW g, Answered(g) PROVE Answered(g)'
    <3>1. Number(done, SentWith(g)) <= Number(modem, SentWith(g)) + Number(queue, CompletionsOf({g}))
      BY <2>2 DEF Answered
    <3>2. /\ Number(modem, SentWith(g)) \in Nat /\ Number(done, SentWith(g)) \in Nat
          /\ Number(queue, CompletionsOf({g})) \in Nat
          /\ Number(queue', CompletionsOf({g})) \in Nat /\ done \in Seq(Sent)
      BY <1>2, LedgerTypes, LedgerTypesNext
    <3>3. modem' = modem /\ done' = done
      BY <1>1, <1>7
    <3>4. CASE g = h
      <4>1. \A i \in DOMAIN done : done[i] \notin SentWith(g)
        BY <1>7, <3>4 DEF SentWith
      <4>2. Number(done, SentWith(g)) = 0
        BY <3>2, <4>1, NumberType
      <4> QED
        BY <3>2, <3>3, <4>2 DEF Answered
    <3>5. CASE g # h
      <4>1. Number(queue, CompletionsOf({g})) = Number(queue', CompletionsOf({g}))
        BY <1>5, <3>2, <3>5
      <4> QED
        BY <3>1, <3>3, <4>1 DEF Answered
    <3> QED
      BY <3>4, <3>5
  <2>3. (\A op \in Ops : Owed(op)') /\ Answers'
    BY <1>1, <2>1, <2>2 DEF LedgerInv, Answers, Owed
  <2> QED
    BY <2>3 DEF LedgerInv
<1>8. CASE \E p \in 1 .. Len(done), op \in Ops :
             /\ op = done[p].op /\ done[p].handle = h
             /\ giveUp => op \in BgScans
             /\ done' = RemoveAt(done, p)
             /\ ended' = [ended EXCEPT ![op] = @ + Completions(op, FALSE)]
             /\ IF giveUp THEN Unlink(h) ELSE UNCHANGED <<list, cancelled>>
  <2>1. PICK p \in 1 .. Len(done), o \in Ops :
             /\ o = done[p].op /\ done[p].handle = h
             /\ giveUp => o \in BgScans
             /\ done' = RemoveAt(done, p)
             /\ ended' = [ended EXCEPT ![o] = @ + Completions(o, FALSE)]
             /\ IF giveUp THEN Unlink(h) ELSE UNCHANGED <<list, cancelled>>
    BY <1>8
  <2>2. done \in Seq(Sent) /\ done[p] \in Sent /\ p \in DOMAIN done
    <3>1. done \in Seq(Sent)
      BY <1>2, LedgerTypes
    <3> QED
      BY <3>1, ElementOfSeq, LenProperties
  <2>3. h \in HandlesOf(o)
    BY <2>1, <2>2 DEF LedgerInv, OrderInv, PathInv, SentKept
  <2>4. PICK n \in {0, 1} : Completions(o, FALSE) = n
    BY DEF Completions
  <2>5. ended \in [Ops -> Nat]
    BY <1>2, LedgerTypes
  <2>6. ASSUME NEW op \in Ops, OneShot(op) PROVE Owed(op)'
    <3>1. Number(modem, CopiesOf(op)) + Number(queue, CompletionsOf(HandlesOf(op)))
                     + ended[op] <= turns[op]
      BY <2>6 DEF LedgerInv, Owed
    <3>2. /\ Number(modem, CopiesOf(op)) \in Nat /\ ended[op] \in Nat /\ turns[op] \in Nat
          /\ Number(queue, CompletionsOf(HandlesOf(op))) \in Nat
          /\ Number(queue', CompletionsOf(HandlesOf(op))) \in Nat
      BY <1>2, LedgerTypes, LedgerTypesNext
    <3>3. modem' = modem /\ turns' = turns
      BY <1>1
    <3>4. CASE op = o
      <4>1. Number(queue, CompletionsOf(HandlesOf(op))) = Number(queue', CompletionsOf(HandlesOf(op))) + 1
        BY <1>5, <2>3, <3>4
      <4>2. ended'[op] = ended[op] + n
        BY <2>1, <2>4, <2>5, <3>4
      <4>3. n \in Nat /\ n <= 1
        OBVIOUS
      <4> QED
        BY <3>1, <3>2, <3>3, <4>1, <4>2, <4>3 DEF Owed
    <3>5. CASE op # o
      <4>1. h \notin HandlesOf(op)
        BY <2>3, <3>5 DEF OwnHandles
      <4>2. Number(queue, CompletionsOf(HandlesOf(op))) = Number(queue', CompletionsOf(HandlesOf(op)))
        BY <1>5, <3>2, <4>1
      <4>3. ended'[op] = ended[op]
        BY <2>1, <2>5, <3>5
      <4> QED
        BY <3>1, <3>3, <4>2, <4>3 DEF Owed
    <3> QED
      BY <3>4, <3>5
  <2>7. ASSUME NEW g, Answered(g) PROVE Answered(g)'
    <3>1. Number(done, SentWith(g)) <= Number(modem, SentWith(g)) + Number(queue, CompletionsOf({g}))
      BY <2>7 DEF Answered
    <3>2. /\ Number(modem, SentWith(g)) \in Nat /\ Number(done, SentWith(g)) \in Nat
          /\ Number(queue, CompletionsOf({g})) \in Nat
          /\ Number(queue', CompletionsOf({g})) \in Nat
      BY <1>2, LedgerTypes, LedgerTypesNext
    <3>3. modem' = modem
      BY <1>1
    <3>4. Number(done', SentWith(g)) = Number(done, SentWith(g)) - IF done[p] \in SentWith(g) THEN 1 ELSE 0
      BY <2>1, <2>2, NumberRemoveAt
    <3>5. done[p] \in SentWith(g) <=> g = h
      BY <2>1, <2>2 DEF SentWith
    <3>6. CASE g = h
      <4>1. /\ Number(done', SentWith(g)) = Number(done, SentWith(g)) - 1
            /\ Number(queue, CompletionsOf({g})) = Number(queue', CompletionsOf({g})) + 1
        BY <1>5, <3>4, <3>5, <3>6
      <4> QED
        BY <3>1, <3>2, <3>3, <4>1 DEF Answered
    <3>7. CASE g # h
      <4>1. /\ Number(done', SentWith(g)) = Number(done, SentWith(g))
            /\ Number(queue, CompletionsOf({g})) = Number(queue', CompletionsOf({g}))
        BY <1>5, <3>2, <3>4, <3>5, <3>7
      <4> QED
        BY <3>1, <3>3, <4>1 DEF Answered
    <3> QED
      BY <3>6, <3>7
  <2>8. (\A op \in Ops : Owed(op)') /\ Answers'
    BY <1>1, <2>6, <2>7 DEF LedgerInv, Answers, Owed
  <2> QED
    BY <2>8 DEF LedgerInv
<1> QED
  BY <1>6, <1>7, <1>8

\* A turn whose frame has passed is its operation's only one, and is completed
\* without the modem.
LEMMA TurnDelayedLedger ==
  ASSUME Orderly, LedgerInv, OrderInv', NEW giveUp \in BOOLEAN, TurnDelayed(giveUp)
  PROVE  LedgerInv'
<1> DEFINE l == IF giveUp THEN Without(list, cur) ELSE list
           c == CountedDown(item[cur])
           t == TurnOver(l, c, keep)
<1>1. TypeOK /\ TypeOK' /\ SchedInv
  BY DEF LedgerInv, OrderInv, PathInv, SchedInv
<1>2. PICK it \in Ops : it = cur
  BY <1>1 DEF TurnDelayed, TypeOK
<1>3. /\ Apply(t) /\ Put(queue, t.wake) /\ UNCHANGED <<done, modem>>
      /\ ended' = [ended EXCEPT ![cur] = @ + Completions(cur, LastCounted(cur))]
  BY DEF TurnDelayed
<1>4. OneShot(cur) /\ item[cur].ival = 0
  BY DelayedIsOneShot DEF LedgerInv, OrderInv, Orderly
<1>5. turns' = [turns EXCEPT ![cur] = @ + 1]
  BY <1>3 DEF Apply
<1>6. t.wake \in Seq(Events) /\ \A k \in 1 .. Len(t.wake) : t.wake[k].id # "OP_COMPLETED"
  <2> DEFINE r == AddTo(Without(l, cur), item, cur, NextTurn(c))
  <2>1. t.wake = IF c.ival # 0 THEN WakeEvents(r) ELSE <<>>
    BY DEF TurnOver
  <2> HIDE DEF r
  <2>2. /\ WakeEvents(r) \in Seq(Events)
        /\ \A k \in 1 .. Len(WakeEvents(r)) : WakeEvents(r)[k].id # "OP_COMPLETED"
    BY WakeEventsType
  <2>3. <<>> \in Seq(Events) /\ Len(<<>>) = 0
    OBVIOUS
  <2> HIDE DEF t, c
  <2>4. CASE t.wake = <<>>
    BY <2>3, <2>4
  <2>5. CASE t.wake = WakeEvents(r)
    BY <2>2, <2>5
  <2> QED
    BY <2>1, <2>4, <2>5
<1>7. ~LastCounted(cur)
  <2>1. item[cur].left <= Conf[cur].left /\ Conf[cur].left < 1
    BY <1>2, <1>4 DEF Orderly, CountsRepeat, LedgerInv, OrderInv, PathInv, ItemsKept, KeptItem
  <2>2. item[cur].left \in Int /\ Conf[cur].left \in Int
    BY <1>2, PathTypes DEF LedgerInv, OrderInv
  <2> QED
    BY <2>1, <2>2 DEF LastCounted
<1>8. PICK n \in {0, 1} : Completions(cur, LastCounted(cur)) = n
  BY <1>7 DEF Completions
<1> HIDE DEF t
<1>9. /\ \A H : Number(queue', CompletionsOf(H)) = Number(queue, CompletionsOf(H))
      /\ dropped \subseteq dropped'
  BY <1>1, <1>3, <1>6, OthersPut
<1>10. ended \in [Ops -> Nat] /\ turns \in [Ops -> Nat]
  BY <1>1, LedgerTypes
<1>11. ASSUME NEW op \in Ops, OneShot(op) PROVE Owed(op)'
  <2>1. Number(modem, CopiesOf(op)) + Number(queue, CompletionsOf(HandlesOf(op)))
                   + ended[op] <= turns[op]
    BY <1>11 DEF LedgerInv, Owed
  <2>2. /\ Number(modem, CopiesOf(op)) \in Nat /\ ended[op] \in Nat /\ turns[op] \in Nat
        /\ Number(queue, CompletionsOf(HandlesOf(op))) \in Nat
    BY <1>1, LedgerTypes
  <2>3. /\ Number(queue', CompletionsOf(HandlesOf(op))) = Number(queue, CompletionsOf(HandlesOf(op)))
        /\ modem' = modem
    BY <1>3, <1>9
  <2>4. CASE op = it
    <3>1. ended'[op] = ended[op] + n /\ turns'[op] = turns[op] + 1
      BY <1>2, <1>3, <1>5, <1>8, <1>10, <2>4
    <3>2. n \in Nat /\ n <= 1
      OBVIOUS
    <3> QED
      BY <2>1, <2>2, <2>3, <3>1, <3>2 DEF Owed
  <2>5. CASE op # it
    <3>1. ended'[op] = ended[op] /\ turns'[op] = turns[op]
      BY <1>2, <1>3, <1>5, <1>10, <2>5
    <3> QED
      BY <2>1, <2>3, <3>1 DEF Owed
  <2> QED
    BY <2>4, <2>5
<1>12. ASSUME NEW h, Answered(h) PROVE Answered(h)'
  <2>1. /\ Number(queue', CompletionsOf({h})) = Number(queue, CompletionsOf({h}))
        /\ modem' = modem /\ done' = done
    BY <1>3, <1>9
  <2> QED
    BY <1>12, <2>1 DEF Answered
<1>13. (\A op \in Ops : Owed(op)') /\ Answers'
  BY <1>9, <1>11, <1>12 DEF LedgerInv, Answers, Owed
<1> QED
  BY <1>13 DEF LedgerInv

\* The completions among the events of a turn: that of its failure.
Silent(evs) == evs \in Seq(Events) /\ \A k \in 1 .. Len(evs) : evs[k].id # "OP_COMPLETED"

LEMMA FailureNumber ==
  ASSUME NEW wake, Silent(wake), NEW g \in Nat, NEW H
  PROVE  LET fail == wake \o <<Event("OP_COMPLETED", g)>> IN
         /\ wake \in Seq(Events) /\ Number(wake, CompletionsOf(H)) = 0
         /\ fail \in Seq(Events) /\ Number(fail, CompletionsOf(H)) = IF g \in H THEN 1 ELSE 0
<1> DEFINE e == Event("OP_COMPLETED", g)
<1>1. e \in Events /\ (e \in CompletionsOf(H) <=> g \in H)
  BY DEF Event, Events, EventIds, CompletionsOf
<1> HIDE DEF e
<1>2. wake \in Seq(Events) /\ Number(wake, CompletionsOf(H)) = 0
  <2>1. \A k \in DOMAIN wake : wake[k] \notin CompletionsOf(H)
    BY LenProperties DEF CompletionsOf, Silent
  <2> QED
    BY <2>1, NumberType DEF Silent
<1>3. <<e>> \in Seq(Events)
  BY <1>1
<1>4. /\ wake \o <<e>> \in Seq(Events)
      /\ Number(wake \o <<e>>, CompletionsOf(H))
           = Number(wake, CompletionsOf(H)) + Number(<<e>>, CompletionsOf(H))
  BY <1>2, <1>3, NumberConcat, ConcatProperties
<1>5. Number(<<e>>, CompletionsOf(H)) = IF g \in H THEN 1 ELSE 0
  BY <1>1, NumberSingle
<1>6. Number(wake \o <<e>>, CompletionsOf(H)) = IF g \in H THEN 1 ELSE 0
  BY <1>2, <1>4, <1>5
<1> QED
  BY <1>2, <1>4, <1>6 DEF e

\* A turn that reaches the modem, or fails: one of the two.
LEMMA TurnSentLedger ==
  ASSUME OwnHandles, NoRanges, LedgerInv, OrderInv', NEW err \in BOOLEAN, TurnSent(err)
  PROVE  LedgerInv'
<1> DEFINE c == CountedDown(item[cur])
           t == TurnOver(list, c, keep)
           failed == state = "SUSPENDED" \/ err
           entry == [op |-> cur, handle |-> item[cur].handle]
           b == failed \/ t.late
           g == t.item.handle
           r == AddTo(Without(list, cur), item, cur, NextTurn(c))
           evs == t.wake \o FailureEvents(failed \/ t.late, t.item.handle)
<1>1. TypeOK /\ TypeOK' /\ SchedInv /\ PathInv /\ ~keep
  BY DEF LedgerInv, OrderInv, PathInv, SchedInv, InTime
<1>2. PICK it \in Ops : it = cur
  BY <1>1 DEF TurnSent, TypeOK
<1>3. /\ pc = "tick" /\ Apply(t) /\ Put(queue, evs) /\ ended' = ended
      /\ modem' = (IF failed THEN modem ELSE Append(modem, entry))
      /\ done' = done \/ done' = Append(done, entry)
  BY DEF TurnSent
<1>4. t.wake \in Seq(Events) /\ \A k \in 1 .. Len(t.wake) : t.wake[k].id # "OP_COMPLETED"
  <2>1. t.wake = IF c.ival # 0 THEN WakeEvents(r) ELSE <<>>
    BY DEF TurnOver
  <2> HIDE DEF r
  <2>2. /\ WakeEvents(r) \in Seq(Events)
        /\ \A k \in 1 .. Len(WakeEvents(r)) : WakeEvents(r)[k].id # "OP_COMPLETED"
    BY WakeEventsType
  <2>3. <<>> \in Seq(Events) /\ Len(<<>>) = 0
    OBVIOUS
  <2> HIDE DEF t, c
  <2>4. CASE t.wake = <<>>
    BY <2>3, <2>4
  <2>5. CASE t.wake = WakeEvents(r)
    BY <2>2, <2>5
  <2> QED
    BY <2>1, <2>4, <2>5
<1>5. t.late \in BOOLEAN
  BY DEF TurnOver
<1> HIDE DEF c, t, r
<1>6. /\ turns' = [turns EXCEPT ![cur] = @ + 1] /\ t.item \in Item
      /\ t.late => item[cur].ival # 0
      /\ KeptItem(cur, item[cur]) /\ KeptItem(cur, t.item)
      /\ ~Conf[cur].range => t.item.handle = item[cur].handle
  <2>1. TurnList(list) /\ cur \in Ops
    BY <1>2 DEF TurnList
  <2> QED
    BY <1>1, <1>3, <2>1, OrderlyTurn DEF t, c
<1>7. g \in Nat /\ g \in HandlesOf(it) /\ item[cur].handle = g
  BY <1>2, <1>6 DEF Item, KeptItem, NoRanges
<1>8. OneShot(it) => ~t.late
  BY <1>2, <1>6 DEF OneShot, KeptItem
<1>9. b \in BOOLEAN /\ failed \in BOOLEAN /\ (failed => b)
  BY <1>5
<1>10. evs = t.wake \o FailureEvents(b, g)
  OBVIOUS
<1>11. entry \in Sent /\ entry.op = it /\ entry.handle = g
  BY <1>2, <1>7 DEF Sent
<1>12. OneShot(it) => (b <=> failed)
  BY <1>8
<1>13. b \/ ~failed
  BY <1>9
<1> HIDE DEF failed, entry, b, g, evs
<1>14. /\ evs \in Seq(Events)
       /\ \A H : Number(evs, CompletionsOf(H)) = IF b /\ g \in H THEN 1 ELSE 0
  <2> DEFINE w == t.wake
             fail == w \o <<Event("OP_COMPLETED", g)>>
  <2>1. Silent(w) /\ (b => evs = fail) /\ (~b => evs = w \o <<>>)
    BY <1>4, <1>10 DEF FailureEvents, Silent
  <2>2. w \o <<>> = w
    BY <1>4, ConcatEmptySeq
  <2>3. evs = IF b THEN fail ELSE w
    BY <2>1, <2>2
  <2> HIDE DEF w
  <2>4. ASSUME NEW H
        PROVE  /\ w \in Seq(Events) /\ Number(w, CompletionsOf(H)) = 0
               /\ fail \in Seq(Events)
               /\ Number(fail, CompletionsOf(H)) = IF g \in H THEN 1 ELSE 0
    BY <1>7, <2>1, FailureNumber
  <2> HIDE DEF fail
  <2>5. CASE b
    BY <2>3, <2>4, <2>5
  <2>6. CASE ~b
    BY <2>3, <2>4, <2>6
  <2> QED
    BY <2>5, <2>6
<1>15. ASSUME NEW H
       PROVE  /\ Number(queue, CompletionsOf(H)) <= Number(queue', CompletionsOf(H))
              /\ Number(queue', CompletionsOf(H))
                   <= Number(queue, CompletionsOf(H)) + IF b /\ g \in H THEN 1 ELSE 0
              /\ "OP_COMPLETED" \notin dropped' =>
                   Number(queue', CompletionsOf(H))
                     = Number(queue, CompletionsOf(H)) + IF b /\ g \in H THEN 1 ELSE 0
              /\ dropped \subseteq dropped'
  <2> DEFINE K == CompletionsOf(H)
  <2>1. \A k \in 1 .. Len(evs) : evs[k] \in K => evs[k].id = "OP_COMPLETED"
    BY DEF CompletionsOf
  <2>2. Number(evs, K) = IF b /\ g \in H THEN 1 ELSE 0
    BY <1>14
  <2> HIDE DEF K
  <2>3. /\ Number(queue, K) <= Number(queue', K)
        /\ Number(queue', K) <= Number(queue, K) + Number(evs, K)
        /\ (\A k \in 1 .. Len(evs) : evs[k] \in K => evs[k].id \notin dropped') =>
              Number(queue', K) = Number(queue, K) + Number(evs, K)
        /\ dropped \subseteq dropped'
    BY <1>1, <1>3, <1>14, PutAssumptions, PutNumber
  <2>4. "OP_COMPLETED" \notin dropped' =>
           \A k \in 1 .. Len(evs) : evs[k] \in K => evs[k].id \notin dropped'
    BY <2>1
  <2> QED
    BY <2>2, <2>3, <2>4 DEF K
<1>16. \A S : Number(modem', S) = Number(modem, S) + IF ~failed /\ entry \in S THEN 1 ELSE 0
  <2> TAKE S
  <2>1. modem \in Seq(Sent) /\ Number(modem, S) \in Nat
    BY <1>1, LedgerTypes
  <2>2. Number(Append(modem, entry), S) = Number(modem, S) + IF entry \in S THEN 1 ELSE 0
    BY <1>11, <2>1, NumberAppend
  <2>3. CASE failed
    <3>1. modem' = modem
      BY <1>3, <2>3
    <3> QED
      BY <2>1, <2>3, <3>1
  <2>4. CASE ~failed
    <3>1. modem' = Append(modem, entry)
      BY <1>3, <2>4
    <3> QED
      BY <2>2, <2>4, <3>1
  <2> QED
    BY <2>3, <2>4
<1>17. \A S : Number(done', S) <= Number(done, S) + IF entry \in S THEN 1 ELSE 0
  <2> TAKE S
  <2>1. done \in Seq(Sent) /\ Number(done, S) \in Nat
    BY <1>1, LedgerTypes
  <2>2. Number(Append(done, entry), S) = Number(done, S) + IF entry \in S THEN 1 ELSE 0
    BY <1>11, <2>1, NumberAppend
  <2>3. CASE done' = done
    <3>1. Number(done', S) = Number(done, S)
      BY <2>3
    <3> QED
      BY <2>1, <3>1
  <2>4. CASE done' = Append(done, entry)
    <3>1. Number(done', S) = Number(done, S) + IF entry \in S THEN 1 ELSE 0
      BY <2>2, <2>4
    <3> QED
      BY <2>1, <3>1
  <2> QED
    BY <1>3, <2>3, <2>4
<1>18. ASSUME NEW op \in Ops, OneShot(op) PROVE Owed(op)'
  <2>1. Number(modem, CopiesOf(op)) + Number(queue, CompletionsOf(HandlesOf(op)))
                   + ended[op] <= turns[op]
    BY <1>18 DEF LedgerInv, Owed
  <2>2. /\ Number(modem, CopiesOf(op)) \in Nat /\ ended[op] \in Nat /\ turns[op] \in Nat
        /\ Number(queue, CompletionsOf(HandlesOf(op))) \in Nat
        /\ Number(queue', CompletionsOf(HandlesOf(op))) \in Nat
        /\ turns \in [Ops -> Nat]
    BY <1>1, LedgerTypes, LedgerTypesNext
  <2>3. entry \in CopiesOf(op) <=> op = it
    BY <1>11 DEF CopiesOf
  <2>4. g \in HandlesOf(op) => op = it
    BY <1>7 DEF OwnHandles
  <2>5. ended' = ended
    BY <1>3
  <2>6. CASE op = it
    <3>1. turns'[op] = turns[op] + 1
      BY <1>2, <1>6, <2>2, <2>6
    <3>2. b <=> failed
      BY <1>12, <1>18, <2>6
    <3>3. CASE failed
      <4>1. Number(modem', CopiesOf(op)) = Number(modem, CopiesOf(op))
        BY <1>16, <2>2, <3>3
      <4>2. Number(queue', CompletionsOf(HandlesOf(op)))
              <= Number(queue, CompletionsOf(HandlesOf(op))) + 1
        BY <1>15, <2>2
      <4> QED
        BY <2>1, <2>2, <2>5, <3>1, <4>1, <4>2 DEF Owed
    <3>4. CASE ~failed
      <4>1. Number(modem', CopiesOf(op)) = Number(modem, CopiesOf(op)) + 1
        BY <1>16, <2>3, <2>6, <3>4
      <4>2. Number(queue', CompletionsOf(HandlesOf(op)))
              <= Number(queue, CompletionsOf(HandlesOf(op)))
        BY <1>15, <2>2, <3>2, <3>4
      <4> QED
        BY <2>1, <2>2, <2>5, <3>1, <4>1, <4>2 DEF Owed
    <3> QED
      BY <3>3, <3>4
  <2>7. CASE op # it
    <3>1. turns'[op] = turns[op]
      BY <1>2, <1>6, <2>2, <2>7
    <3>2. g \notin HandlesOf(op)
      BY <2>4, <2>7
    <3>3. Number(modem', CopiesOf(op)) = Number(modem, CopiesOf(op))
      BY <1>16, <2>2, <2>3, <2>7
    <3>4. Number(queue', CompletionsOf(HandlesOf(op)))
            <= Number(queue, CompletionsOf(HandlesOf(op)))
      BY <1>15, <2>2, <3>2
    <3> QED
      BY <2>1, <2>2, <2>5, <3>1, <3>3, <3>4 DEF Owed
  <2> QED
    BY <2>6, <2>7
<1>19. ASSUME NEW h, Answered(h), "OP_COMPLETED" \notin dropped' PROVE Answered(h)'
  <2>1. Number(done, SentWith(h)) <= Number(modem, SentWith(h)) + Number(queue, CompletionsOf({h}))
    BY <1>19 DEF Answered
  <2>2. /\ Number(modem, SentWith(h)) \in Nat /\ Number(done, SentWith(h)) \in Nat
        /\ Number(queue, CompletionsOf({h})) \in Nat
        /\ Number(done', SentWith(h)) \in Nat
    BY <1>1, LedgerTypes, LedgerTypesNext
  <2>3. entry \in SentWith(h) <=> h = g
    BY <1>11 DEF SentWith
  <2>4. CASE h = g
    <3>1. Number(done', SentWith(h)) <= Number(done, SentWith(h)) + 1
      BY <1>17, <2>3, <2>4
    <3>2. CASE failed
      <4>1. Number(modem', SentWith(h)) = Number(modem, SentWith(h))
        BY <1>16, <2>2, <3>2
      <4>2. Number(queue', CompletionsOf({h})) = Number(queue, CompletionsOf({h})) + 1
        BY <1>9, <1>15, <1>19, <2>4, <3>2
      <4> QED
        BY <2>1, <2>2, <3>1, <4>1, <4>2 DEF Answered
    <3>3. CASE ~failed
      <4>1. Number(modem', SentWith(h)) = Number(modem, SentWith(h)) + 1
        BY <1>16, <2>3, <2>4, <3>3
      <4>2. /\ Number(queue, CompletionsOf({h})) <= Number(queue', CompletionsOf({h}))
            /\ Number(queue', CompletionsOf({h})) \in Nat
        BY <1>1, <1>15, LedgerTypesNext
      <4> QED
        BY <2>1, <2>2, <3>1, <4>1, <4>2 DEF Answered
    <3> QED
      BY <3>2, <3>3
  <2>5. CASE h # g
    <3>1. Number(done', SentWith(h)) <= Number(done, SentWith(h))
      BY <1>17, <2>2, <2>3, <2>5
    <3>2. Number(modem', SentWith(h)) = Number(modem, SentWith(h))
      BY <1>16, <2>2, <2>3, <2>5
    <3>3. /\ Number(queue, CompletionsOf({h})) <= Number(queue', CompletionsOf({h}))
          /\ Number(queue', CompletionsOf({h})) \in Nat
      BY <1>1, <1>15, LedgerTypesNext
    <3> QED
      BY <2>1, <2>2, <3>1, <3>2, <3>3 DEF Answered
  <2> QED
    BY <2>4, <2>5
<1>20. (\A op \in Ops : Owed(op)') /\ Answers'
  BY <1>15, <1>18, <1>19 DEF LedgerInv, Answers, Owed
<1> QED
  BY <1>20 DEF LedgerInv

LEMMA NextLedger == ASSUME Orderly, NoRanges PROVE LedgerInv /\ [Next]_vars => LedgerInv'
<1> SUFFICES ASSUME LedgerInv, [Next]_vars PROVE LedgerInv'
  OBVIOUS
<1>0. OrderInv' /\ OwnHandles
  BY NextOrder DEF LedgerInv, Orderly
<1>1. CASE Users
  BY <1>0, <1>1, QuietLedger DEF Users
<1>2. CASE Thread
  <2>1. CASE Walk
    BY <1>0, <2>1, TurnDelayedLedger, TurnSentLedger, QuietLedger DEF Walk
  <2> QED
    BY <1>0, <1>2, <2>1, TakeCompletedLedger, QuietLedger DEF Thread
<1>3. CASE Modem
  BY <1>0, <1>3, ModemLedger DEF Modem
<1>4. CASE TimerFires \/ Advance \/ UNCHANGED vars
  BY <1>0, <1>4, QuietLedger
<1> QED
  BY <1>1, <1>2, <1>3, <1>4 DEF Next

LEMMA LedgerGives == ASSUME NoRanges PROVE LedgerInv => CompletedOnce
<1> SUFFICES ASSUME LedgerInv PROVE CompletedOnce
  OBVIOUS
<1>1. TypeOK
  BY DEF LedgerInv, OrderInv, PathInv, SchedInv
<1>2. ASSUME NEW h \in Handles, Answered(h)
      PROVE  CountOf(done, h) <=
               CountOf(modem, h)
                 + Cardinality({i \in Pending("OP_COMPLETED") : queue[i].handle = h})
  <2>1. done \in Seq(Sent) /\ modem \in Seq(Sent) /\ queue \in Seq(Events)
    BY <1>1, LedgerTypes
  <2>2. \A i \in DOMAIN done : done[i] \in Sent
    BY <2>1, ElementOfSeq, LenProperties
  <2>3. \A i \in DOMAIN modem : modem[i] \in Sent
    BY <2>1, ElementOfSeq, LenProperties
  <2>4. \A i \in DOMAIN queue : queue[i] \in Events
    BY <2>1, ElementOfSeq, LenProperties
  <2>5. {i \in DOMAIN done : done[i].handle = h} = PlacesOf(done, SentWith(h))
    BY <2>2 DEF PlacesOf, SentWith
  <2>6. {i \in DOMAIN modem : modem[i].handle = h} = PlacesOf(modem, SentWith(h))
    BY <2>3 DEF PlacesOf, SentWith
  <2>7. {i \in Pending("OP_COMPLETED") : queue[i].handle = h} = PlacesOf(queue, CompletionsOf({h}))
    BY <2>4 DEF PlacesOf, CompletionsOf, Pending
  <2> QED
    BY <1>2, <2>5, <2>6, <2>7 DEF Answered, CountOf, Number
<1>3. DoneAwaitsCompletion
  BY <1>2 DEF DoneAwaitsCompletion, LedgerInv, Answers
<1>4. ASSUME NEW op \in Ops, OneShot(op)
      PROVE  /\ turns[op] <= 1 /\ ended[op] <= 1
             /\ ended[op] = 1 => \A i \in DOMAIN modem : modem[i].op # op
  <2>1. turns[op] <= 1
    BY <1>4 DEF LedgerInv, OrderInv, TurnsCounted
  <2>2. Number(modem, CopiesOf(op)) + Number(queue, CompletionsOf(HandlesOf(op)))
          + ended[op] <= turns[op]
    BY <1>4 DEF LedgerInv, Owed
  <2>3. /\ Number(modem, CopiesOf(op)) \in Nat /\ ended[op] \in Nat /\ turns[op] \in Nat
        /\ Number(queue, CompletionsOf(HandlesOf(op))) \in Nat /\ modem \in Seq(Sent)
    BY <1>1, LedgerTypes
  <2>4. ended[op] = 1 => Number(modem, CopiesOf(op)) = 0
    BY <2>1, <2>2, <2>3
  <2>5. ASSUME Number(modem, CopiesOf(op)) = 0, NEW i \in DOMAIN modem PROVE modem[i].op # op
    <3>1. modem[i] \notin CopiesOf(op) /\ modem[i] \in Sent
      BY <2>3, <2>5, NumberType, ElementOfSeq, LenProperties
    <3> QED
      BY <3>1 DEF CopiesOf
  <2> QED
    BY <2>1, <2>2, <2>3, <2>4, <2>5
<1>5. OneShotsCompletedOnce
  BY <1>4 DEF OneShotsCompletedOnce
<1> QED
  BY <1>3, <1>5 DEF CompletedOnce

\* Each copy in the done list has its completion to come, and a one-shot
\* operation completes once and never while the modem has it.
THEOREM CompletionsMatch == ASSUME Orderly, NoRanges PROVE Spec => []CompletedOnce
<1>1. Init => LedgerInv
  BY InitLedger
<1>2. LedgerInv /\ [Next]_vars => LedgerInv'
  BY NextLedger
<1>3. LedgerInv => CompletedOnce
  BY LedgerGives
<1> QED
  BY <1>1, <1>2, <1>3, PTL DEF Spec

--------------------------------------------------------------------------------
(* Every step maps to a step of OpLife, or to none.                        *)

stages == [op \in Shots |-> StageOf(op)]
Held(op) == \E i \in DOMAIN done : done[i].op = op

\* What the stage of an operation is read from.
SameStage(op) ==
  /\ op \in fresh' <=> op \in fresh
  /\ ended'[op] = ended[op]
  /\ Held(op)' <=> Held(op)
  /\ op \in cancelled' <=> op \in cancelled
  /\ Listed(op)' <=> Listed(op)

LEMMA StageStays ==
  ASSUME NEW op \in Ops, SameStage(op) PROVE StageOf(op)' = StageOf(op)
BY DEF SameStage, StageOf, Held

LEMMA AllStay ==
  ASSUME \A op \in Shots : StageOf(op)' = StageOf(op)
  PROVE  [Life!LifeNext]_stages
<1>1. stages' = stages
  BY DEF stages
<1> QED
  BY <1>1

\* One operation moves on.
LEMMA OneMoves ==
  ASSUME NEW op \in Shots, NEW from, NEW to, StageOf(op) = from, StageOf(op)' = to,
         \A o \in Shots : o # op => StageOf(o)' = StageOf(o)
  PROVE  stages[op] = from /\ stages' = [stages EXCEPT ![op] = to]
BY DEF stages

\* Between its adding and its turn an operation has no copy and no completion;
\* afterwards it has at most one of the two.
LEMMA StageCounts ==
  ASSUME OrderInv, NEW op \in Shots
  PROVE  /\ op \in Ops /\ OneShot(op) /\ Conf[op].done
         /\ ended \in [Ops -> Nat] /\ turns \in [Ops -> Nat]
         /\ Listed(op) => ended[op] = 0 /\ ~Held(op) /\ op \notin fresh /\ op \notin cancelled
         /\ op \in fresh => ended[op] = 0 /\ ~Held(op) /\ op \notin cancelled /\ ~Listed(op)
         /\ Held(op) => ended[op] = 0 /\ op \notin fresh
<1>1. op \in Ops /\ OneShot(op) /\ Conf[op].done
  BY DEF Shots
<1>2. TypeOK /\ ended \in [Ops -> Nat] /\ turns \in [Ops -> Nat]
  BY PathTypes DEF OrderInv, PathInv, SchedInv
<1>3. Number(done, CopiesOf(op)) + ended[op] <= turns[op] /\ TurnsCounted(op)
  BY <1>1 DEF OrderInv, EndsCounted
<1>4. Number(done, CopiesOf(op)) \in Nat /\ ended[op] \in Nat /\ turns[op] \in Nat
  BY <1>1, <1>2, CopiesType
<1>5. Held(op) <=> Number(done, CopiesOf(op)) # 0
  <2>1. done \in Seq(Sent) /\ \A i \in DOMAIN done : done[i] \in Sent
    BY <1>2, CopiesType, ElementOfSeq, LenProperties
  <2>2. Number(done, CopiesOf(op)) = 0 <=> \A i \in DOMAIN done : done[i] \notin CopiesOf(op)
    BY <2>1, NumberType
  <2> QED
    BY <2>1, <2>2 DEF Held, CopiesOf
<1>6. ASSUME turns[op] = 0 PROVE ended[op] = 0 /\ ~Held(op)
  BY <1>3, <1>4, <1>5, <1>6
<1>7. Listed(op) => turns[op] = 0 /\ op \notin fresh /\ op \notin cancelled
  <2>1. Listed(op) => turns[op] = 0
    BY <1>1, <1>3 DEF TurnsCounted
  <2>2. Listed(op) => op \notin cancelled
    BY DEF OrderInv, CancelledStaysOut
  <2>3. Listed(op) => op \notin fresh
    BY DEF OrderInv, PathInv, SchedInv, ListedOnce, Listed
  <2> QED
    BY <2>1, <2>2, <2>3
<1>8. op \in fresh => turns[op] = 0 /\ op \notin cancelled
  BY <1>3 DEF TurnsCounted, OrderInv, PathInv, FreshApart
<1>9. Held(op) => op \notin fresh
  BY DEF Held, OrderInv, PathInv, SentKept
<1>10. turns[op] <= 1
  BY <1>1, <1>3 DEF TurnsCounted
<1>11. Held(op) => ended[op] = 0
  BY <1>3, <1>4, <1>5, <1>10
<1> QED
  BY <1>1, <1>2, <1>6, <1>7, <1>8, <1>9, <1>11

LEMMA AddMapped ==
  ASSUME OrderInv, OrderInv', NEW op \in Ops, NEW f \in Frames, Add(op, f)
  PROVE  [Life!LifeNext]_stages
<1> DEFINE r == AddTo(list, item, op, [Conf[op] EXCEPT !.frame = f])
<1>1. /\ op \in fresh /\ list' = r.list /\ fresh' = fresh \ {op}
      /\ UNCHANGED <<done, cancelled, ended>>
  BY DEF Add
<1>2. ToSet(list') \ {op} = ToSet(list) \ {op}
  <2>1. list \in Seq(Ops)
    BY DistinctList DEF OrderInv, PathInv
  <2>2. /\ r.ok => ToSet(r.list) = ToSet(list) \cup {op}
        /\ ~r.ok => ToSet(r.list) = ToSet(list)
    BY <2>1, HoldsAddTo
  <2> HIDE DEF r
  <2> QED
    BY <1>1, <2>2
<1> HIDE DEF r
<1>3. ASSUME NEW o \in Shots, o # op PROVE StageOf(o)' = StageOf(o)
  <2>1. o \in ToSet(list') <=> o \in ToSet(list)
    BY <1>2, <1>3
  <2>2. SameStage(o)
    BY <1>1, <1>3, <2>1 DEF SameStage, Held, Listed, ToSet
  <2> QED
    BY <2>2, StageStays DEF Shots
<1>4. CASE op \in Shots
  <2>1. StageOf(op) = "new"
    BY <1>1 DEF StageOf
  <2>2. ended[op] = 0 /\ ~Held(op) /\ op \notin cancelled
    BY <1>1, <1>4, StageCounts
  <2>3. StageOf(op)' \in {"listed", "refused"}
    BY <1>1, <2>2 DEF StageOf, Held
  <2>4. PICK to \in {"listed", "refused"} : StageOf(op)' = to
    BY <2>3
  <2>5. stages[op] = "new" /\ stages' = [stages EXCEPT ![op] = to]
    BY <1>3, <1>4, <2>1, <2>4, OneMoves
  <2>6. Life!Submit(op)
    BY <2>4, <2>5 DEF Life!Submit, Life!Becomes, stages
  <2> QED
    BY <1>4, <2>6 DEF Life!LifeNext
<1>5. CASE op \notin Shots
  <2>1. \A o \in Shots : StageOf(o)' = StageOf(o)
    BY <1>3, <1>5
  <2> QED
    BY <2>1, AllStay
<1> QED
  BY <1>4, <1>5

\* An item that is taken out is cancelled, unless it is no one-shot operation.
LEMMA RemovalMapped ==
  ASSUME OrderInv, OrderInv', NEW h,
         RemoveByHandle(h) \/ (TakeRemove /\ h = Head(queue).handle)
  PROVE  [Life!LifeNext]_stages
<1>1. Unlink(h) /\ UNCHANGED <<fresh, done, ended>>
  BY DEF RemoveByHandle, TakeRemove
<1>2. CASE WithHandle(h) = {} /\ list' = list /\ cancelled' = cancelled
  <2>1. \A o \in Shots : SameStage(o)
    BY <1>1, <1>2 DEF SameStage, Held, Listed
  <2>2. \A o \in Shots : StageOf(o)' = StageOf(o)
    BY <2>1, StageStays DEF Shots
  <2> QED
    BY <2>2, AllStay
<1>3. CASE \E op \in ToSet(list) \cap Ops :
             ToSet(list') = ToSet(list) \ {op} /\ cancelled' = cancelled \cup {op}
  <2>1. PICK op \in ToSet(list) \cap Ops :
             ToSet(list') = ToSet(list) \ {op} /\ cancelled' = cancelled \cup {op}
    BY <1>3
  <2>2. ASSUME NEW o \in Shots, o # op PROVE StageOf(o)' = StageOf(o)
    <3>1. o \in ToSet(list') <=> o \in ToSet(list)
      BY <2>1, <2>2
    <3>2. SameStage(o)
      BY <1>1, <2>1, <2>2, <3>1 DEF SameStage, Held, Listed, ToSet
    <3> QED
      BY <3>2, StageStays DEF Shots
  <2>3. CASE op \in Shots
    <3>1. Listed(op) /\ op \in cancelled'
      BY <2>1, ListedIsHeld
    <3>2. ended[op] = 0 /\ ~Held(op) /\ op \notin fresh /\ op \notin cancelled
      BY <2>3, <3>1, StageCounts
    <3>3. StageOf(op) = "listed"
      BY <3>1, <3>2 DEF StageOf, Held
    <3>4. StageOf(op)' = "cancelled"
      BY <1>1, <3>1, <3>2 DEF StageOf, Held
    <3>5. stages[op] = "listed" /\ stages' = [stages EXCEPT ![op] = "cancelled"]
      BY <2>2, <2>3, <3>3, <3>4, OneMoves
    <3>6. Life!Cancel({op})
      BY <2>3, <3>5 DEF Life!Cancel, stages
    <3> QED
      BY <2>3, <3>6 DEF Life!LifeNext
  <2>4. CASE op \notin Shots
    <3>1. \A o \in Shots : StageOf(o)' = StageOf(o)
      BY <2>2, <2>4
    <3> QED
      BY <3>1, AllStay
  <2> QED
    BY <2>3, <2>4
<1> QED
  BY <1>1, <1>2, <1>3, UnlinkGives DEF OrderInv, PathInv

LEMMA TakePurgeMapped ==
  ASSUME OrderInv, OrderInv', TakePurge PROVE [Life!LifeNext]_stages
<1> DEFINE S == {op \in Shots : StageOf(op) \in {"listed", "busy"}}
<1>1. /\ list' = <<>> /\ done' = <<>> /\ fresh' = fresh /\ ended' = ended
      /\ cancelled' = cancelled \cup {op \in Ops : Listed(op)} \cup {done[i].op : i \in DOMAIN done}
  BY DEF TakePurge
<1>2. ASSUME NEW op \in Shots
      PROVE  StageOf(op)' = IF op \in S THEN "cancelled" ELSE StageOf(op)
  <2>1. /\ op \in Ops /\ ended[op] \in Nat
        /\ Listed(op) => ended[op] = 0 /\ ~Held(op) /\ op \notin fresh /\ op \notin cancelled
        /\ op \in fresh => ended[op] = 0 /\ ~Held(op) /\ op \notin cancelled /\ ~Listed(op)
        /\ Held(op) => ended[op] = 0 /\ op \notin fresh
    BY StageCounts
  <2>2. /\ ~Listed(op)' /\ ~Held(op)'
        /\ op \in cancelled' <=> op \in cancelled \/ Listed(op) \/ Held(op)
    BY <1>1, <2>1 DEF Listed, Held
  <2>3. CASE op \in fresh
    <3>1. StageOf(op) = "new" /\ StageOf(op)' = "new"
      BY <1>1, <2>3 DEF StageOf
    <3> QED
      BY <3>1
  <2>4. CASE op \notin fresh /\ ended[op] > 0
    <3>1. StageOf(op) = "over" /\ StageOf(op)' = "over"
      BY <1>1, <2>4 DEF StageOf
    <3> QED
      BY <3>1
  <2>5. CASE op \notin fresh /\ ~(ended[op] > 0) /\ Held(op)
    <3>1. StageOf(op) = "busy"
      BY <2>5 DEF StageOf, Held
    <3>2. StageOf(op)' = "cancelled"
      BY <1>1, <2>2, <2>5 DEF StageOf, Held
    <3> QED
      BY <3>1, <3>2
  <2>6. CASE op \notin fresh /\ ~(ended[op] > 0) /\ ~Held(op) /\ op \in cancelled
    <3>1. StageOf(op) = "cancelled"
      BY <2>6 DEF StageOf, Held
    <3>2. StageOf(op)' = "cancelled"
      BY <1>1, <2>2, <2>6 DEF StageOf, Held
    <3> QED
      BY <3>1, <3>2
  <2>7. CASE op \notin fresh /\ ~(ended[op] > 0) /\ ~Held(op) /\ op \notin cancelled /\ Listed(op)
    <3>1. StageOf(op) = "listed"
      BY <2>7 DEF StageOf, Held
    <3>2. StageOf(op)' = "cancelled"
      BY <1>1, <2>2, <2>7 DEF StageOf, Held
    <3> QED
      BY <3>1, <3>2
  <2>8. CASE op \notin fresh /\ ~(ended[op] > 0) /\ ~Held(op) /\ op \notin cancelled /\ ~Listed(op)
    <3>1. StageOf(op) = "refused"
      BY <2>8 DEF StageOf, Held
    <3>2. StageOf(op)' = "refused"
      BY <1>1, <2>2, <2>8 DEF StageOf, Held
    <3> QED
      BY <3>1, <3>2
  <2> QED
    BY <2>3, <2>4, <2>5, <2>6, <2>7, <2>8
<1>3. PICK T \in SUBSET Shots : T = S
  OBVIOUS
<1>4. stages' = [op \in Shots |-> IF op \in T THEN "cancelled" ELSE stages[op]]
  BY <1>2, <1>3 DEF stages
<1>5. \A op \in T : stages[op] \in {"listed", "busy"}
  BY <1>3 DEF stages
<1>6. Life!Cancel(T)
  BY <1>4, <1>5 DEF Life!Cancel, stages
<1> QED
  BY <1>6 DEF Life!LifeNext

\* A completed copy was its operation's only one.
LEMMA TakeCompletedMapped ==
  ASSUME OwnHandles, OrderInv, OrderInv', NEW giveUp \in BOOLEAN, TakeCompleted(giveUp)
  PROVE  [Life!LifeNext]_stages
<1>1. PICK h : h = Head(queue).handle
  OBVIOUS
<1>2. fresh' = fresh
  BY DEF TakeCompleted
<1>3. SchedInv /\ TypeOK /\ done \in Seq(Sent)
  BY CopiesType DEF OrderInv, PathInv, SchedInv
<1>4. CASE UNCHANGED <<list, done, cancelled, ended>>
  <2>1. \A o \in Shots : SameStage(o)
    BY <1>2, <1>4 DEF SameStage, Held, Listed
  <2>2. \A o \in Shots : StageOf(o)' = StageOf(o)
    BY <2>1, StageStays DEF Shots
  <2> QED
    BY <2>2, AllStay
<1>5. CASE \E p \in 1 .. Len(done), op \in Ops :
             /\ op = done[p].op /\ done[p].handle = h
             /\ giveUp => op \in BgScans
             /\ done' = RemoveAt(done, p)
             /\ ended' = [ended EXCEPT ![op] = @ + Completions(op, FALSE)]
             /\ IF giveUp THEN Unlink(h) ELSE UNCHANGED <<list, cancelled>>
  <2>1. PICK p \in 1 .. Len(done), op \in Ops :
             /\ op = done[p].op /\ done[p].handle = h
             /\ giveUp => op \in BgScans
             /\ done' = RemoveAt(done, p)
             /\ ended' = [ended EXCEPT ![op] = @ + Completions(op, FALSE)]
             /\ IF giveUp THEN Unlink(h) ELSE UNCHANGED <<list, cancelled>>
    BY <1>5
  <2>2. /\ p \in DOMAIN done /\ Len(done') = Len(done) - 1
        /\ \A i \in 1 .. Len(done) - 1 : done'[i] = IF i < p THEN done[i] ELSE done[i + 1]
        /\ done' \in Seq(Sent)
    BY <1>3, <2>1, RemoveAtProperties, LenProperties
  <2>3. /\ DOMAIN done = 1 .. Len(done) /\ DOMAIN done' = 1 .. Len(done) - 1
        /\ Len(done) \in Nat
    BY <1>3, <2>2, LenProperties
  <2>4. \A o \in Ops : o # op => (Held(o)' <=> Held(o))
    <3> TAKE o \in Ops
    <3> HAVE o # op
    <3>1. ASSUME NEW i \in DOMAIN done', done'[i].op = o PROVE Held(o)
      <4>1. i \in DOMAIN done /\ i + 1 \in DOMAIN done
        BY <2>3
      <4> QED
        BY <2>2, <2>3, <3>1, <4>1 DEF Held
    <3>2. ASSUME NEW i \in DOMAIN done, done[i].op = o PROVE Held(o)'
      <4>1. i # p
        BY <2>1, <3>2
      <4>2. CASE i < p
        <5>1. i \in DOMAIN done' /\ done'[i] = done[i]
          BY <2>2, <2>3, <4>2
        <5> QED
          BY <3>2, <5>1 DEF Held
      <4>3. CASE i > p
        <5>1. i - 1 \in DOMAIN done' /\ done'[i - 1] = done[i]
          BY <2>2, <2>3, <4>3
        <5> QED
          BY <3>2, <5>1 DEF Held
      <4> QED
        BY <2>3, <4>1, <4>2, <4>3
    <3> QED
      BY <3>1, <3>2 DEF Held
  <2>5. /\ ToSet(list') \ {op} = ToSet(list) \ {op}
        /\ cancelled' \ {op} = cancelled \ {op}
    <3>1. CASE UNCHANGED <<list, cancelled>>
      BY <3>1
    <3>2. CASE giveUp /\ Unlink(h)
      <4>1. CASE list' = list /\ cancelled' = cancelled
        BY <4>1
      <4>2. CASE \E o \in ToSet(list) \cap Ops :
               /\ item[o].handle = h /\ ToSet(list') = ToSet(list) \ {o}
               /\ cancelled' = cancelled \cup {o}
        <5>1. PICK o \in ToSet(list) \cap Ops :
               /\ item[o].handle = h /\ ToSet(list') = ToSet(list) \ {o}
               /\ cancelled' = cancelled \cup {o}
          BY <4>2
        <5>2. h \in HandlesOf(o)
          BY <5>1 DEF OrderInv, PathInv, ItemsKept, KeptItem
        <5>3. h \in HandlesOf(op)
          BY <2>1, <2>2 DEF OrderInv, PathInv, SentKept
        <5>4. o = op
          BY <5>2, <5>3 DEF OwnHandles
        <5> QED
          BY <5>1, <5>4
      <4> QED
        BY <1>3, <3>2, <4>1, <4>2, UnlinkGives
    <3> QED
      BY <2>1, <3>1, <3>2
  <2>6. ASSUME NEW o \in Shots, o # op PROVE StageOf(o)' = StageOf(o)
    <3>1. o \in Ops /\ ended \in [Ops -> Nat]
      BY <1>3 DEF Shots, TypeOK
    <3>2. ended'[o] = ended[o]
      BY <2>1, <2>6, <3>1
    <3>3. /\ o \in cancelled' <=> o \in cancelled
          /\ o \in ToSet(list') <=> o \in ToSet(list)
      BY <2>5, <2>6
    <3>4. SameStage(o)
      BY <1>2, <2>4, <2>6, <3>1, <3>2, <3>3 DEF SameStage, Listed, ToSet
    <3> QED
      BY <3>1, <3>4, StageStays
  <2>7. CASE op \in Shots
    <3>1. Held(op)
      BY <2>1, <2>2 DEF Held
    <3>2. ended[op] = 0 /\ op \notin fresh /\ Conf[op].done /\ ended \in [Ops -> Nat]
      BY <2>7, <3>1, StageCounts
    <3>3. ended'[op] = 1
      BY <2>1, <3>2 DEF Completions
    <3>4. StageOf(op) = "busy"
      BY <3>1, <3>2 DEF StageOf, Held
    <3>5. StageOf(op)' = "over"
      BY <1>2, <3>2, <3>3 DEF StageOf
    <3>6. stages[op] = "busy" /\ stages' = [stages EXCEPT ![op] = "over"]
      BY <2>6, <2>7, <3>4, <3>5, OneMoves
    <3>7. Life!Finish(op)
      BY <3>6 DEF Life!Finish, Life!Becomes, stages
    <3> QED
      BY <2>7, <3>7 DEF Life!LifeNext
  <2>8. CASE op \notin Shots
    <3>1. \A o \in Shots : StageOf(o)' = StageOf(o)
      BY <2>6, <2>8
    <3> QED
      BY <3>1, AllStay
  <2> QED
    BY <2>7, <2>8
<1> QED
  BY <1>1, <1>3, <1>4, <1>5, CompletedGives

\* In a turn only the operation handled can change its stage.
LEMMA OthersStay ==
  ASSUME OrderInv, pc = "tick", NEW it \in Ops, cur = it, NEW l, TurnList(l), NEW t, NEW c,
         c = CountedDown(item[cur]), t = TurnOver(l, c, keep), Apply(t), fresh' = fresh,
         cancelled \subseteq cancelled', cancelled' \subseteq cancelled \cup {cur},
         \A o \in Ops : o # it => ended'[o] = ended[o] /\ (Held(o)' <=> Held(o))
  PROVE  /\ \A o \in Shots : o # it => StageOf(o)' = StageOf(o)
         /\ Listed(it)
<1>1. /\ it \in ToSet(list) /\ t.taken \in BOOLEAN
      /\ t.taken => ToSet(list') = ToSet(list)
      /\ ~t.taken => ToSet(list') = ToSet(list) \ {it}
  BY OrderlyTurn DEF OrderInv, InTime
<1>2. ASSUME NEW o \in Shots, o # it PROVE StageOf(o)' = StageOf(o)
  <2>1. o \in Ops
    BY DEF Shots
  <2>2. /\ o \in ToSet(list') <=> o \in ToSet(list)
        /\ o \in cancelled' <=> o \in cancelled
    BY <1>1, <1>2
  <2>3. SameStage(o)
    BY <1>2, <2>1, <2>2 DEF SameStage, Listed, ToSet
  <2> QED
    BY <2>1, <2>3, StageStays
<1> QED
  BY <1>1, <1>2, ListedIsHeld

LEMMA TurnDelayedMapped ==
  ASSUME Orderly, OrderInv, OrderInv', NEW giveUp \in BOOLEAN, TurnDelayed(giveUp)
  PROVE  [Life!LifeNext]_stages
<1> DEFINE l == IF giveUp THEN Without(list, cur) ELSE list
           c == CountedDown(item[cur])
           t == TurnOver(l, c, keep)
<1>1. PICK it \in Ops : it = cur
  BY DEF TurnDelayed, OrderInv, PathInv, SchedInv, TypeOK
<1>2. pc = "tick" /\ cur = it /\ TurnList(l)
  BY <1>1 DEF TurnDelayed, TurnList
<1>3. /\ Apply(t) /\ fresh' = fresh /\ done' = done
      /\ ended' = [ended EXCEPT ![cur] = @ + Completions(cur, LastCounted(cur))]
      /\ cancelled' = IF giveUp THEN cancelled \cup {cur} ELSE cancelled
  BY DEF TurnDelayed
<1>4. t = TurnOver(l, c, keep) /\ c = CountedDown(item[cur])
  OBVIOUS
<1> HIDE DEF l, c, t
<1>5. ended \in [Ops -> Nat]
  BY PathTypes DEF OrderInv
<1>6. \A o \in Ops : o # it => ended'[o] = ended[o] /\ (Held(o)' <=> Held(o))
  BY <1>1, <1>3, <1>5 DEF Held
<1>7. /\ \A o \in Shots : o # it => StageOf(o)' = StageOf(o)
      /\ Listed(it)
  BY <1>2, <1>3, <1>4, <1>6, OthersStay
<1>8. CASE it \in Shots
  <2>1. ended[it] = 0 /\ ~Held(it) /\ it \notin fresh /\ it \notin cancelled /\ Conf[it].done
    BY <1>7, <1>8, StageCounts
  <2>2. StageOf(it) = "listed"
    BY <1>7, <2>1 DEF StageOf, Held
  <2>3. Completions(cur, LastCounted(cur)) \in {1, 2}
    BY <1>1, <2>1 DEF Completions
  <2>4. ended'[it] = ended[it] + Completions(cur, LastCounted(cur))
    BY <1>1, <1>3, <1>5
  <2>5. ended'[it] > 0
    BY <2>1, <2>3, <2>4
  <2>6. StageOf(it)' = "over"
    BY <1>3, <2>1, <2>5 DEF StageOf
  <2>7. stages[it] = "listed" /\ stages' = [stages EXCEPT ![it] = "over"]
    BY <1>7, <1>8, <2>2, <2>6, OneMoves
  <2>8. Life!Miss(it)
    BY <2>7 DEF Life!Miss, Life!Becomes, stages
  <2> QED
    BY <1>8, <2>8 DEF Life!LifeNext
<1>9. CASE it \notin Shots
  <2>1. \A o \in Shots : StageOf(o)' = StageOf(o)
    BY <1>7, <1>9
  <2> QED
    BY <2>1, AllStay
<1> QED
  BY <1>8, <1>9

LEMMA TurnSentMapped ==
  ASSUME OrderInv, OrderInv', NEW err \in BOOLEAN, TurnSent(err)
  PROVE  [Life!LifeNext]_stages
<1> DEFINE c == CountedDown(item[cur])
           t == TurnOver(list, c, keep)
           entry == [op |-> cur, handle |-> item[cur].handle]
<1>1. PICK it \in Ops : it = cur
  BY DEF TurnSent, OrderInv, PathInv, SchedInv, TypeOK
<1>2. pc = "tick" /\ cur = it /\ TurnList(list)
  BY <1>1 DEF TurnSent, TurnList
<1>3. /\ Apply(t) /\ fresh' = fresh /\ cancelled' = cancelled /\ ended' = ended
      /\ done' = IF NeedsDone(cur) THEN Append(done, entry) ELSE done
  BY DEF TurnSent
<1>4. t = TurnOver(list, c, keep) /\ c = CountedDown(item[cur])
  OBVIOUS
<1> HIDE DEF c, t
<1>5. done \in Seq(Sent) /\ entry \in Sent /\ entry.op = it
  <2>1. TypeOK /\ item[cur].handle \in Nat
    BY <1>1 DEF OrderInv, PathInv, SchedInv, TypeOK, Item
  <2> QED
    BY <1>1, <2>1, CopiesType DEF Sent
<1> HIDE DEF entry
<1>6. /\ Len(Append(done, entry)) = Len(done) + 1
      /\ \A i \in 1 .. Len(done) : Append(done, entry)[i] = done[i]
      /\ Append(done, entry)[Len(done) + 1] = entry
      /\ DOMAIN done = 1 .. Len(done) /\ DOMAIN Append(done, entry) = 1 .. Len(done) + 1
      /\ Len(done) \in Nat
  <2>1. Append(done, entry) \in Seq(Sent) /\ Len(Append(done, entry)) = Len(done) + 1
    BY <1>5, AppendProperties
  <2> QED
    BY <1>5, <2>1, AppendProperties, LenProperties
<1>7. \A o \in Ops : o # it => (Held(o)' <=> Held(o))
  <2>1. CASE done' = done
    BY <2>1 DEF Held
  <2>2. CASE done' = Append(done, entry)
    <3>1. ASSUME NEW o \in Ops, o # it PROVE Held(o)' <=> Held(o)
      <4>1. \A i \in 1 .. Len(done) + 1 : i \in 1 .. Len(done) \/ i = Len(done) + 1
        BY <1>6
      <4>2. \A i \in 1 .. Len(done) : i \in 1 .. Len(done) + 1
        BY <1>6
      <4> QED
        BY <1>5, <1>6, <2>2, <3>1, <4>1, <4>2 DEF Held
    <3> QED
      BY <3>1
  <2> QED
    BY <1>3, <2>1, <2>2
<1>8. /\ \A o \in Shots : o # it => StageOf(o)' = StageOf(o)
      /\ Listed(it)
  BY <1>2, <1>3, <1>4, <1>7, OthersStay
<1>9. CASE it \in Shots
  <2>1. ended[it] = 0 /\ ~Held(it) /\ it \notin fresh /\ it \notin cancelled /\ Conf[it].done
    BY <1>8, <1>9, StageCounts
  <2>2. StageOf(it) = "listed"
    BY <1>8, <2>1 DEF StageOf, Held
  <2>3. done' = Append(done, entry)
    BY <1>1, <1>3, <2>1 DEF NeedsDone
  <2>4. Held(it)'
    <3>1. Len(done) + 1 \in DOMAIN done' /\ done'[Len(done) + 1].op = it
      BY <1>5, <1>6, <2>3
    <3> QED
      BY <3>1 DEF Held
  <2>5. StageOf(it)' = "busy"
    BY <1>3, <2>1, <2>4 DEF StageOf, Held
  <2>6. stages[it] = "listed" /\ stages' = [stages EXCEPT ![it] = "busy"]
    BY <1>8, <1>9, <2>2, <2>5, OneMoves
  <2>7. Life!Start(it)
    BY <2>6 DEF Life!Start, Life!Becomes, stages
  <2> QED
    BY <1>9, <2>7 DEF Life!LifeNext
<1>10. CASE it \notin Shots
  <2>1. \A o \in Shots : StageOf(o)' = StageOf(o)
    BY <1>8, <1>10
  <2> QED
    BY <2>1, AllStay
<1> QED
  BY <1>9, <1>10

\* The other steps are invisible.
LEMMA QuietMapped ==
  ASSUME \/ \E h \in Handles, d \in Shifts : ShiftFrame(h, d)
         \/ \E e \in Requests : Request(e)
         \/ Modem \/ TimerFires \/ Advance \/ UNCHANGED vars
         \/ TakeSuspendOrResume \/ TakeNextFrame \/ TurnPostponed \/ WalkEnds
  PROVE  [Life!LifeNext]_stages
<1> USE DEF listVars, walkVars, histVars
<1>1. UNCHANGED <<list, done, fresh, cancelled, ended>>
  <2>1. CASE UNCHANGED vars
    BY <2>1 DEF vars
  <2>2. CASE Modem
    BY <2>2 DEF Modem, ModemCompletes
  <2>3. CASE \/ \E h \in Handles, d \in Shifts : ShiftFrame(h, d)
             \/ \E e \in Requests : Request(e)
    BY <2>3 DEF ShiftFrame, Request
  <2>4. CASE TimerFires \/ Advance \/ TakeSuspendOrResume
    BY <2>4 DEF TimerFires, Advance, TakeSuspendOrResume
  <2>5. CASE TakeNextFrame \/ TurnPostponed \/ WalkEnds
    BY <2>5 DEF TakeNextFrame, TurnPostponed, WalkEnds
  <2> QED
    BY <2>1, <2>2, <2>3, <2>4, <2>5
<1>2. \A o \in Shots : SameStage(o)
  BY <1>1 DEF SameStage, Held, Listed
<1>3. \A o \in Shots : StageOf(o)' = StageOf(o)
  BY <1>2, StageStays DEF Shots
<1> QED
  BY <1>3, AllStay

LEMMA NextMapped ==
  ASSUME Orderly, OrderInv, OrderInv', [Next]_vars PROVE [Life!LifeNext]_stages
<1>0. OwnHandles
  BY DEF Orderly
<1>1. CASE Users
  BY <1>1, AddMapped, RemovalMapped, QuietMapped DEF Users
<1>2. CASE Thread
  <2>1. CASE Walk
    BY <2>1, TurnDelayedMapped, TurnSentMapped, QuietMapped DEF Walk
  <2> QED
    BY <1>0, <1>2, <2>1, TakeCompletedMapped, TakePurgeMapped, RemovalMapped, QuietMapped
       DEF Thread
<1>3. CASE Modem \/ TimerFires \/ Advance \/ UNCHANGED vars
  BY <1>3, QuietMapped
<1> QED
  BY <1>1, <1>2, <1>3 DEF Next

\* The scheduler implements the promise of OpLife.
THEOREM OpLifeRefined == ASSUME Orderly PROVE Spec => RefinesOpLife
<1>1. Init => Life!LifeInit
  BY DEF Init, Life!LifeInit, StageOf, Shots
<1>2. OrderInv /\ OrderInv' /\ [Next]_vars => [Life!LifeNext]_stages
  BY NextMapped
<1>3. Spec => []OrderInv
  BY OrderHolds
<1> QED
  BY <1>1, <1>2, <1>3, PTL DEF Spec, RefinesOpLife, Life!LifeSpec, stages

================================================================================
