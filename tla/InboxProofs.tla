------------------------------- MODULE InboxProofs -------------------------------
(***************************************************************************)
(* Theorems about Inbox: its types, that the list stays in order, and that *)
(* it shows the filter that is selected.  All three need that merging a    *)
(* page into the rows on screen gives the page that came.                  *)
(***************************************************************************)
EXTENDS Inbox, OrderProofs, SequenceTheorems

Sorted(rows) == \A i, j \in DOMAIN rows : i < j => rows[i].id > rows[j].id

LEMMA MinOfTwo ==
    ASSUME NEW a \in Int, NEW b \in Int
    PROVE  Min({a, b}) = IF a <= b THEN a ELSE b
<1>1. \E x \in {a, b} : \A y \in {a, b} : x =< y
  OBVIOUS
<1> QED BY <1>1 DEF Min

LEMMA MaxOfTwo ==
    ASSUME NEW a \in Int, NEW b \in Int
    PROVE  Max({a, b}) = IF a <= b THEN b ELSE a
<1>1. \E x \in {a, b} : \A y \in {a, b} : x >= y
  OBVIOUS
<1> QED BY <1>1 DEF Max

(* t is s with e at k. *)
Inserted(t, S, s, k, e) ==
    /\ t \in Seq(S)
    /\ Len(t) = Len(s) + 1
    /\ \A j \in 1..(Len(s) + 1) : t[j] = IF j < k THEN s[j] ELSE IF j = k THEN e ELSE s[j - 1]

LEMMA InsertIs ==
    ASSUME NEW S, NEW s \in Seq(S), NEW k \in 1..(Len(s) + 1), NEW e \in S
    PROVE  Inserted(InsertAt(s, k, e), S, s, k, e)
<1> DEFINE a == SubSeq(s, 1, k - 1)
           b == SubSeq(s, k, Len(s))
<1>1. a \in Seq(S) /\ Len(a) = k - 1 /\ \A j \in 1..(k - 1) : a[j] = s[j]
  OBVIOUS
<1>2. b \in Seq(S) /\ Len(b) = Len(s) - k + 1 /\ \A j \in 1..(Len(s) - k + 1) : b[j] = s[k + j - 1]
  OBVIOUS
<1> HIDE DEF a, b
<1>0. Len(s) \in Nat /\ k \in Nat /\ 1 <= k /\ k <= Len(s) + 1
  OBVIOUS
<1>3. InsertAt(s, k, e) = a \o <<e>> \o b
  BY DEF InsertAt, a, b
<1> DEFINE c == a \o <<e>>
<1>4. c \in Seq(S) /\ Len(c) = k /\ \A j \in 1..k : c[j] = IF j < k THEN s[j] ELSE e
  BY <1>0, <1>1
<1> HIDE DEF c
<1>5. /\ c \o b \in Seq(S) /\ Len(c \o b) = Len(s) + 1
      /\ \A j \in 1..(Len(s) + 1) : (c \o b)[j] = IF j <= k THEN c[j] ELSE b[j - k]
  <2>1. /\ c \o b \in Seq(S) /\ Len(c \o b) = Len(c) + Len(b)
        /\ \A j \in 1..(Len(c) + Len(b)) :
               (c \o b)[j] = IF j <= Len(c) THEN c[j] ELSE b[j - Len(c)]
    BY <1>2, <1>4, ConcatProperties
  <2>2. Len(c) = k /\ Len(c) + Len(b) = Len(s) + 1
    BY <1>0, <1>2, <1>4
  <2> QED BY <2>1, <2>2
<1>6. InsertAt(s, k, e) = c \o b
  BY <1>3 DEF c
<1>7. ASSUME NEW j \in 1..(Len(s) + 1)
      PROVE  (c \o b)[j] = IF j < k THEN s[j] ELSE IF j = k THEN e ELSE s[j - 1]
  <2>1. CASE j <= k
    <3>1. j \in 1..k
      BY <1>0, <2>1
    <3>2. (c \o b)[j] = c[j]
      BY <1>5, <2>1
    <3> QED BY <1>0, <1>4, <2>1, <3>1, <3>2
  <2>2. CASE j > k
    <3>1. j - k \in 1..(Len(s) - k + 1) /\ k + (j - k) - 1 = j - 1
      BY <1>0, <2>2
    <3>2. (c \o b)[j] = b[j - k]
      BY <1>0, <1>5, <2>2
    <3>3. b[j - k] = s[j - 1]
      BY <1>2, <3>1
    <3> QED BY <1>0, <2>2, <3>2, <3>3
  <2>3. j <= k \/ j > k
    BY <1>0
  <2> QED BY <2>1, <2>2, <2>3
<1> QED BY <1>5, <1>6, <1>7 DEF Inserted

-----------------------------------------------------------------------------
(* Where the merge has come to after i of the rows that came: they are the first
   i, and whatever follows has come too, in order. *)
MergedTo(rows, incoming, i) ==
    /\ rows \in Seq(Item)
    /\ Sorted(rows)
    /\ \A k \in 1..Len(rows) : \E j \in 1..Len(incoming) : rows[k] = incoming[j]
    /\ i <= Len(rows)
    /\ \A j \in 1..i : rows[j] = incoming[j]

LEMMA PlaceKeepsMerging ==
    ASSUME NEW incoming \in Seq(Item), Sorted(incoming),
           NEW i \in 1..Len(incoming), NEW rows, MergedTo(rows, incoming, i - 1)
    PROVE  MergedTo(Place(rows, incoming, i), incoming, i)
<1> DEFINE n == incoming[i]
<1>0. ASSUME NEW s \in Seq(Item), Sorted(s)
      PROVE  /\ \A k \in 1..Len(s) : s[k].id \in Int
             /\ \A j, k \in 1..Len(s) : j < k => s[j].id > s[k].id
  <2>1. \A k \in 1..Len(s) : s[k] \in Item
    OBVIOUS
  <2>2. \A m \in Item : m.id \in Int
    BY InboxAssumption DEF Item, Id
  <2>3. DOMAIN s = 1..Len(s)
    OBVIOUS
  <2> QED BY <1>0, <2>1, <2>2, <2>3 DEF Sorted
<1>1. /\ rows \in Seq(Item) /\ Len(rows) \in Nat /\ DOMAIN rows = 1..Len(rows)
      /\ i - 1 <= Len(rows)
      /\ \A k \in 1..Len(rows) : rows[k].id \in Int
      /\ \A j, k \in 1..Len(rows) : j < k => rows[j].id > rows[k].id
      /\ \A k \in 1..Len(rows) : \E j \in 1..Len(incoming) : rows[k] = incoming[j]
      /\ \A j \in 1..(i - 1) : rows[j] = incoming[j]
      /\ Len(incoming) \in Nat
      /\ \A j \in 1..Len(incoming) : incoming[j] \in Item /\ incoming[j].id \in Int
      /\ \A j, k \in 1..Len(incoming) : j < k => incoming[j].id > incoming[k].id
  <2>1. rows \in Seq(Item) /\ Sorted(rows)
    BY DEF MergedTo
  <2>2. Len(rows) \in Nat /\ DOMAIN rows = 1..Len(rows) /\ Len(incoming) \in Nat
    BY <2>1
  <2>3. \A j \in 1..Len(incoming) : incoming[j] \in Item
    OBVIOUS
  <2> QED BY <1>0, <2>1, <2>2, <2>3 DEF MergedTo
<1> HIDE DEF n
<1>n. /\ n = incoming[i] /\ n \in Item /\ n.id \in Int
      /\ i \in Nat /\ 1 <= i /\ i <= Len(incoming)
  BY <1>1 DEF n
<1>2. ASSUME NEW k \in i..Len(rows)
      PROVE  rows[k] = n \/ rows[k].id < n.id
  <2>1. PICK m \in 1..Len(incoming) : rows[k] = incoming[m]
    BY <1>1, <1>n
  <2>2. CASE m < i
    <3>1. rows[m] = rows[k] /\ m \in 1..Len(rows) /\ m < k
      BY <1>1, <1>n, <2>1, <2>2
    <3>2. rows[m].id > rows[k].id
      BY <1>1, <1>n, <3>1
    <3> QED BY <1>1, <1>n, <3>1, <3>2
  <2>3. CASE m > i
    BY <1>1, <1>n, <2>1, <2>3
  <2> QED BY <1>n, <2>1, <2>2, <2>3
<1>3. ASSUME NEW k \in 1..(i - 1)
      PROVE  rows[k].id > n.id /\ rows[k] = incoming[k]
  <2>1. k \in 1..Len(incoming) /\ k < i
    BY <1>1, <1>n
  <2>2. incoming[k].id > incoming[i].id
    BY <1>1, <1>n, <2>1
  <2>3. rows[k] = incoming[k]
    BY <1>1
  <2> QED BY <1>n, <2>2, <2>3
<1>4. CASE n.id \in IdsOf(rows)
  <2>1. Place(rows, incoming, i) = rows
    BY <1>4 DEF Place, n
  <2>2. PICK k \in 1..Len(rows) : rows[k].id = n.id
    BY <1>1, <1>n, <1>4 DEF IdsOf, ToSet
  <2>3. k \in i..Len(rows)
    BY <1>1, <1>n, <1>3, <2>2
  <2>4. rows[k] = n
    BY <1>1, <1>n, <1>2, <2>2, <2>3
  <2>5. k = i
    <3>1. SUFFICES ASSUME i < k PROVE FALSE
      BY <2>3
    <3>2. rows[i].id > n.id
      BY <1>1, <1>n, <2>2, <2>3, <3>1
    <3>3. rows[i] = n \/ rows[i].id < n.id
      BY <1>n, <1>1, <1>2, <2>3, <3>1
    <3>4. rows[i].id \in Int
      BY <1>n, <1>1, <2>3, <3>1
    <3> QED BY <1>n, <3>2, <3>3, <3>4
  <2> QED BY <1>1, <1>n, <2>1, <2>3, <2>4, <2>5 DEF MergedTo
<1>5. CASE n.id \notin IdsOf(rows)
  <2> DEFINE s == InsertAt(rows, i, n)
  <2>1. Place(rows, incoming, i) = s
    <3>1. Min({i, Len(rows) + 1}) = i
      BY <1>1, <1>n, MinOfTwo
    <3> QED BY <1>5, <3>1 DEF Place, n
  <2>2. /\ s \in Seq(Item)
        /\ Len(s) = Len(rows) + 1
        /\ \A j \in 1..(Len(rows) + 1) :
               s[j] = IF j < i THEN rows[j] ELSE IF j = i THEN n ELSE rows[j - 1]
    <3>1. i \in 1..(Len(rows) + 1)
      BY <1>1, <1>n
    <3>2. rows \in Seq(Item) /\ n \in Item
      BY <1>1, <1>n
    <3>3. Inserted(s, Item, rows, i, n)
      BY <3>1, <3>2, InsertIs
    <3> QED BY <3>3, Zenon DEF Inserted
  <2> HIDE DEF s
  <2>3. \A k \in i..Len(rows) : rows[k].id < n.id
    <3> TAKE k \in i..Len(rows)
    <3>1. rows[k].id \in IdsOf(rows)
      <4>1. k \in DOMAIN rows
        BY <1>1, <1>n
      <4> QED BY <4>1 DEF IdsOf, ToSet
    <3>2. rows[k].id # n.id
      BY <1>5, <3>1
    <3> QED BY <1>2, <3>2
  <2>4. Sorted(s)
    <3>1. ASSUME NEW j \in 1..(Len(rows) + 1), NEW k \in 1..(Len(rows) + 1), j < k
          PROVE  s[j].id > s[k].id
      <4>1. CASE k < i
        BY <1>1, <1>n, <2>2, <3>1, <4>1
      <4>2. CASE k = i
        BY <1>1, <1>n, <1>3, <2>2, <3>1, <4>2
      <4>3. CASE k > i
        <5>1. k - 1 \in i..Len(rows) /\ s[k] = rows[k - 1]
          BY <1>1, <1>n, <2>2, <4>3
        <5>2. CASE j < i
          BY <1>1, <1>n, <2>2, <3>1, <5>1, <5>2
        <5>3. CASE j = i
          BY <1>1, <1>n, <2>2, <2>3, <5>1, <5>3
        <5>4. CASE j > i
          <6>1. j - 1 \in 1..Len(rows) /\ k - 1 \in 1..Len(rows) /\ j - 1 < k - 1
            BY <1>1, <1>n, <3>1, <4>3, <5>4
          <6>2. s[j] = rows[j - 1]
            BY <1>n, <2>2, <5>4
          <6>3. rows[j - 1].id > rows[k - 1].id
            BY <1>1, <6>1
          <6> QED BY <5>1, <6>2, <6>3
        <5> QED BY <5>2, <5>3, <5>4
      <4> QED BY <4>1, <4>2, <4>3
    <3> QED BY <1>1, <1>n, <2>2, <3>1 DEF Sorted
  <2>5. \A k \in 1..Len(s) : \E j \in 1..Len(incoming) : s[k] = incoming[j]
    <3> TAKE k \in 1..Len(s)
    <3>0. k \in 1..(Len(rows) + 1)
      BY <2>2
    <3>1. CASE k < i
      <4>1. k \in 1..Len(rows) /\ s[k] = rows[k]
        BY <1>1, <1>n, <2>2, <3>0, <3>1
      <4> QED BY <1>1, <4>1
    <3>2. CASE k = i
      <4>1. s[k] = incoming[i]
        BY <1>n, <2>2, <3>0, <3>2
      <4> QED BY <1>n, <4>1
    <3>3. CASE k > i
      <4>1. k - 1 \in 1..Len(rows) /\ s[k] = rows[k - 1]
        BY <1>1, <1>n, <2>2, <3>0, <3>3
      <4> QED BY <1>1, <4>1
    <3> QED BY <1>n, <3>0, <3>1, <3>2, <3>3
  <2>6. \A j \in 1..i : s[j] = incoming[j]
    BY <1>1, <1>n, <1>3, <2>2
  <2> QED BY <1>1, <1>n, <2>1, <2>2, <2>4, <2>5, <2>6 DEF MergedTo
<1> QED BY <1>4, <1>5

(* The merge is what its recursion says: by induction on the rows looked at, there
   is a function that satisfies it. *)
LEMMA MergeUnfolds ==
    ASSUME NEW rows, NEW incoming \in Seq(Item)
    PROVE  \E m : /\ m[0] = rows
                  /\ \A i \in 1..Len(incoming) : m[i] = Place(m[i - 1], incoming, i)
                  /\ Merge(rows, incoming) = m[Len(incoming)]
<1> DEFINE Unfolded(m, n) ==
               m = [i \in 0..n |-> IF i = 0 THEN rows ELSE Place(m[i - 1], incoming, i)]
           P == {n \in Nat : \E m : Unfolded(m, n)}
<1>1. 0 \in P
  <2> DEFINE m == [i \in 0..0 |-> rows]
  <2>1. Unfolded(m, 0)
    OBVIOUS
  <2> HIDE DEF m, Unfolded
  <2> QED BY <2>1
<1>2. ASSUME NEW n \in P
      PROVE  n + 1 \in P
  <2>1. PICK m : Unfolded(m, n)
    OBVIOUS
  <2>0. n \in Nat
    OBVIOUS
  <2> DEFINE l == [i \in 0..(n + 1) |-> IF i = n + 1 THEN Place(m[n], incoming, n + 1) ELSE m[i]]
  <2>2. ASSUME NEW i \in 0..(n + 1)
        PROVE  l[i] = IF i = 0 THEN rows ELSE Place(l[i - 1], incoming, i)
    <3>1. CASE i = 0
      BY <2>0, <2>1, <3>1
    <3>2. CASE i \in 1..n
      <4>1. l[i] = m[i] /\ l[i - 1] = m[i - 1]
        BY <2>0, <3>2
      <4>2. m[i] = Place(m[i - 1], incoming, i)
        BY <2>0, <2>1, <3>2
      <4> QED BY <3>2, <4>1, <4>2
    <3>3. CASE i = n + 1
      BY <2>0, <3>3
    <3> QED BY <2>0, <3>1, <3>2, <3>3
  <2>3. Unfolded(l, n + 1)
    BY <2>2
  <2> HIDE DEF l, Unfolded
  <2> QED BY <2>0, <2>3
<1>3. P = Nat
  <2>1. P \in SUBSET Nat
    OBVIOUS
  <2> HIDE DEF P
  <2> QED BY <1>1, <1>2, <2>1, Induction
<1>4. Len(incoming) \in Nat
  OBVIOUS
<1> DEFINE merged == CHOOSE m : Unfolded(m, Len(incoming))
<1>5. Unfolded(merged, Len(incoming))
  <2>1. \E m : Unfolded(m, Len(incoming))
    BY <1>3, <1>4
  <2> HIDE DEF Unfolded
  <2> QED BY <2>1
<1>6. Merge(rows, incoming) = merged[Len(incoming)]
  BY DEF Merge
<1> HIDE DEF merged
<1>7. merged[0] = rows /\ \A i \in 1..Len(incoming) : merged[i] = Place(merged[i - 1], incoming, i)
  BY <1>4, <1>5
<1> QED BY <1>6, <1>7

(* When every row of the first i that came is in its place, and there are no more,
   that is all there is. *)
LEMMA MergedToEnd ==
    ASSUME NEW incoming \in Seq(Item), NEW rows, MergedTo(rows, incoming, Len(incoming))
    PROVE  rows = incoming
<1>1. rows \in Seq(Item) /\ Len(rows) \in Nat /\ Len(incoming) \in Nat
  BY DEF MergedTo
<1>2. \A k \in 1..Len(rows) : rows[k].id \in Int
  <2>1. \A k \in 1..Len(rows) : rows[k] \in Item
    BY <1>1
  <2> QED BY <2>1, InboxAssumption DEF Item, Id
<1>3. Len(rows) = Len(incoming)
  <2>1. SUFFICES ASSUME Len(incoming) < Len(rows) PROVE FALSE
    BY <1>1 DEF MergedTo
  <2> DEFINE k == Len(incoming) + 1
  <2>2. k \in 1..Len(rows) /\ k \in DOMAIN rows
    BY <1>1, <2>1
  <2>3. PICK j \in 1..Len(incoming) : rows[k] = incoming[j]
    BY <2>2 DEF MergedTo
  <2>4. rows[j] = rows[k]
    BY <2>3 DEF MergedTo
  <2>5. j \in DOMAIN rows /\ j < k
    BY <1>1, <2>1, <2>3
  <2>6. rows[j].id > rows[k].id
    BY <2>2, <2>5 DEF MergedTo, Sorted
  <2> QED BY <1>2, <2>2, <2>4, <2>6
<1>4. \A j \in 1..Len(incoming) : rows[j] = incoming[j]
  BY DEF MergedTo
<1> HIDE DEF Item
<1> QED BY <1>1, <1>3, <1>4

LEMMA MergeGivesWhatCame ==
    ASSUME NEW incoming \in Seq(Item), Sorted(incoming), NEW rows, MergedTo(rows, incoming, 0)
    PROVE  Merge(rows, incoming) = incoming
<1>1. PICK m : /\ m[0] = rows
               /\ \A i \in 1..Len(incoming) : m[i] = Place(m[i - 1], incoming, i)
               /\ Merge(rows, incoming) = m[Len(incoming)]
  BY MergeUnfolds
<1> DEFINE P == {i \in Nat : i <= Len(incoming) => MergedTo(m[i], incoming, i)}
<1>2. 0 \in P
  BY <1>1
<1>3. ASSUME NEW i \in P
      PROVE  i + 1 \in P
  <2>1. i \in Nat /\ i + 1 \in Nat /\ (i + 1) - 1 = i
    OBVIOUS
  <2>2. ASSUME i + 1 <= Len(incoming)
        PROVE  MergedTo(m[i + 1], incoming, i + 1)
    <3>1. i + 1 \in 1..Len(incoming) /\ i <= Len(incoming)
      BY <2>1, <2>2
    <3>2. MergedTo(m[i], incoming, (i + 1) - 1)
      BY <2>1, <3>1
    <3>3. MergedTo(Place(m[i], incoming, i + 1), incoming, i + 1)
      BY <3>1, <3>2, PlaceKeepsMerging
    <3> QED BY <1>1, <2>1, <3>1, <3>3
  <2> QED BY <2>1, <2>2
<1>4. P = Nat
  <2>1. P \in SUBSET Nat
    OBVIOUS
  <2> HIDE DEF P
  <2> QED BY <1>2, <1>3, <2>1, Induction
<1>5. MergedTo(m[Len(incoming)], incoming, Len(incoming))
  <2>1. Len(incoming) \in Nat /\ Len(incoming) <= Len(incoming)
    OBVIOUS
  <2> QED BY <1>4, <2>1
<1> QED BY <1>1, <1>5, MergedToEnd

LEMMA KeptIs ==
    ASSUME NEW rows \in Seq(Item), Sorted(rows), NEW ids
    PROVE  /\ Kept(rows, ids) \in Seq(Item)
           /\ Sorted(Kept(rows, ids))
           /\ Len(Kept(rows, ids)) <= Len(rows)
           /\ \A k \in 1..Len(Kept(rows, ids)) :
                  \E j \in 1..Len(rows) : Kept(rows, ids)[k] = rows[j] /\ rows[j].id \in ids
<1> DEFINE n == Len(rows)
           I == {i \in DOMAIN rows : rows[i].id \in ids}
           c == Cardinality(I)
<1>1. n \in Nat /\ rows \in [1..n -> Item] /\ I \in SUBSET (1..n)
  OBVIOUS
<1>2. Kept(rows, ids) = Elements(rows, I)
  BY DEF Kept
<1>3. \A i \in I : rows[i].id \in ids
  OBVIOUS
<1> HIDE DEF I, n
<1>4. PICK at \in [1..c -> I] :
          /\ Increasing(at)
          /\ Elements(rows, I) = [k \in 1..c |-> rows[at[k]]]
          /\ Elements(rows, I) \in [1..c -> Item]
          /\ c \in 0..n
  BY <1>1, ElementsAre
<1> HIDE DEF c
<1> DEFINE kept == Elements(rows, I)
<1>5. kept \in Seq(Item) /\ Len(kept) = c /\ DOMAIN kept = 1..c /\ c <= n
  <2>1. kept \in [1..c -> Item] /\ c \in Nat /\ c <= n
    BY <1>1, <1>4
  <2> HIDE DEF kept
  <2> QED BY <2>1
<1>6. \A k \in 1..c : at[k] \in I /\ at[k] \in 1..n /\ kept[k] = rows[at[k]]
  BY <1>1, <1>4
<1>7. \A j, k \in 1..c : j < k => at[j] < at[k]
  BY <1>4 DEF Increasing
<1> HIDE DEF kept
<1>8. Sorted(kept)
  <2>1. ASSUME NEW j \in 1..c, NEW k \in 1..c, j < k
        PROVE  kept[j].id > kept[k].id
    <3>1. DOMAIN rows = 1..n
      BY <1>1
    <3>2. rows[at[j]].id > rows[at[k]].id
      BY <1>6, <1>7, <2>1, <3>1 DEF Sorted
    <3> QED BY <1>6, <3>2
  <2> QED BY <1>5, <2>1 DEF Sorted
<1>9. \A k \in 1..c : \E j \in 1..n : kept[k] = rows[j] /\ rows[j].id \in ids
  BY <1>3, <1>6
<1> QED BY <1>2, <1>5, <1>8, <1>9 DEF kept, n

LEMMA UpdatedStartsMerge ==
    ASSUME NEW items \in Seq(Item), Sorted(items), NEW incoming \in Seq(Item)
    PROVE  MergedTo(Updated(items, incoming), incoming, 0)
<1> DEFINE ids == IdsOf(incoming)
           kept == Kept(items, ids)
           Now(k) == CHOOSE n \in ToSet(incoming) : n.id = kept[k].id
<1>1. /\ kept \in Seq(Item) /\ Sorted(kept)
      /\ \A k \in 1..Len(kept) : kept[k].id \in ids
  BY KeptIs
<1> HIDE DEF kept
<1>2. Updated(items, incoming) = [k \in DOMAIN kept |-> Now(k)]
  BY DEF Updated, kept
<1>3. \A k \in 1..Len(kept) : Now(k) \in ToSet(incoming) /\ Now(k).id = kept[k].id
  <2> TAKE k \in 1..Len(kept)
  <2>1. \E n \in ToSet(incoming) : n.id = kept[k].id
    BY <1>1 DEF IdsOf
  <2> QED BY <2>1
<1> DEFINE u == [k \in DOMAIN kept |-> Now(k)]
<1>4. \A n \in ToSet(incoming) : n \in Item /\ \E j \in 1..Len(incoming) : n = incoming[j]
  BY DEF ToSet
<1>5. DOMAIN kept = 1..Len(kept) /\ Len(kept) \in Nat
  BY <1>1
<1>6. \A k \in 1..Len(kept) : u[k] = Now(k) /\ u[k] \in Item
  BY <1>3, <1>4, <1>5
<1> HIDE DEF Now
<1>7. u \in Seq(Item) /\ Len(u) = Len(kept) /\ DOMAIN u = 1..Len(kept)
  <2>1. u \in [1..Len(kept) -> Item]
    BY <1>5, <1>6
  <2> HIDE DEF u
  <2> QED BY <1>5, <2>1
<1> HIDE DEF u
<1>8. Sorted(u)
  BY <1>1, <1>3, <1>5, <1>6, <1>7 DEF Sorted
<1>9. \A k \in 1..Len(u) : \E j \in 1..Len(incoming) : u[k] = incoming[j]
  BY <1>3, <1>4, <1>6, <1>7
<1>10. 0 <= Len(u)
  BY <1>5, <1>7
<1>11. Updated(items, incoming) = u
  BY <1>2 DEF u
<1> QED BY <1>7, <1>8, <1>9, <1>10, <1>11 DEF MergedTo

(* _reconcile: whatever rows were shown, in order, what is shown afterwards is the
   page that came. *)
LEMMA ReconcileGivesWhatCame ==
    ASSUME NEW items \in Seq(Item), Sorted(items),
           NEW incoming \in Seq(Item), Sorted(incoming)
    PROVE  Reconcile(items, incoming) = incoming
BY UpdatedStartsMerge, MergeGivesWhatCame DEF Reconcile

-----------------------------------------------------------------------------
(* The rows belong to a filter. *)
Fits(rows, filter) ==
    filter # "all" => \A i \in DOMAIN rows : rows[i].is_new = (filter = "new")

Stores == UNION {[S -> BOOLEAN] : S \in SUBSET Id}

LEMMA ListingIs ==
    ASSUME NEW rows
    PROVE  rows \in Listing <=> rows \in Seq(Item) /\ Len(rows) <= PageSize
<1>1. Listing = UNION {[1..m -> Item] : m \in 0..PageSize}
  BY DEF Listing, BoundedSeq, SeqOf
<1>2. PageSize \in Nat
  BY InboxAssumption
<1>3. ASSUME rows \in Listing
      PROVE  rows \in Seq(Item) /\ Len(rows) <= PageSize
  <2>1. PICK m \in 0..PageSize : rows \in [1..m -> Item]
    BY <1>1, <1>3
  <2>2. m \in Nat /\ m <= PageSize
    BY <1>2, <2>1
  <2> HIDE DEF Item
  <2> QED BY <2>1, <2>2
<1>4. ASSUME rows \in Seq(Item), Len(rows) <= PageSize
      PROVE  rows \in Listing
  <2>1. Len(rows) \in 0..PageSize /\ rows \in [1..Len(rows) -> Item]
    BY <1>2, <1>4
  <2> QED BY <1>1, <2>1
<1> QED BY <1>3, <1>4

LEMMA NothingIsAListing == <<>> \in Listing
<1>1. <<>> \in Seq(Item) /\ Len(<<>>) = 0
  OBVIOUS
<1>2. 0 <= PageSize
  BY InboxAssumption
<1> QED BY <1>1, <1>2, ListingIs

(* list: a page of the table is in order and fits the filter it was asked with. *)
LEMMA ListPageIs ==
    ASSUME store \in Stores, NEW filter \in Filter, NEW page \in 0..MaxId
    PROVE  /\ ListPage(filter, page) \in Listing
           /\ Sorted(ListPage(filter, page))
           /\ Fits(ListPage(filter, page), filter)
<1> DEFINE S == Selected(filter)
           ids == Descending(S)
           c == Cardinality(S)
           lo == page * PageSize + 1
           hi == Min({(page + 1) * PageSize, Len(ids)})
           shown == SubSeq(ids, lo, hi)
           rows == [i \in DOMAIN shown |-> [id |-> shown[i], is_new |-> store[shown[i]]]]
<1>1. MaxId \in Nat /\ PageSize \in Nat /\ page \in Nat
  BY InboxAssumption
<1>2. DOMAIN store \in SUBSET (1..MaxId) /\ \A id \in DOMAIN store : store[id] \in BOOLEAN
  BY DEF Stores, Id
<1>3. /\ S \in SUBSET (1..MaxId) /\ S \in SUBSET DOMAIN store
      /\ \A id \in S : filter # "all" => store[id] = (filter = "new")
  BY <1>2 DEF Selected
<1> HIDE DEF S
<1>4. /\ c \in 0..MaxId /\ ids \in [1..c -> S]
      /\ \A i, j \in 1..c : i < j => ids[i] > ids[j]
  BY <1>1, <1>3, DescendingIs
<1> HIDE DEF c, ids
<1>5. ids \in Seq(S) /\ Len(ids) = c /\ c \in Nat
  <2>1. c \in Nat
    BY <1>1, <1>4
  <2> QED BY <1>4, <2>1
<1>6. /\ lo \in Nat /\ 1 <= lo /\ hi \in Nat /\ hi <= c /\ hi - lo + 1 <= PageSize
  <2>1. page * PageSize \in Nat /\ (page + 1) * PageSize = page * PageSize + PageSize
    BY <1>1
  <2>2. (page + 1) * PageSize \in Nat
    BY <1>1, <2>1
  <2>3. hi = IF (page + 1) * PageSize <= c THEN (page + 1) * PageSize ELSE c
    BY <1>5, <2>2, MinOfTwo
  <2> HIDE DEF hi
  <2> QED BY <1>1, <1>5, <2>1, <2>2, <2>3
<1> HIDE DEF lo, hi
<1>7. /\ shown \in Seq(S) /\ Len(shown) \in Nat /\ Len(shown) <= PageSize
      /\ \A i \in 1..Len(shown) : lo + i - 1 \in 1..c /\ shown[i] = ids[lo + i - 1]
  <2>1. CASE lo <= hi
    <3>1. lo \in 1..Len(ids) /\ hi \in lo..Len(ids)
      BY <1>5, <1>6, <2>1
    <3>2. /\ shown \in Seq(S) /\ Len(shown) = hi - lo + 1
          /\ \A i \in 1..(hi - lo + 1) : shown[i] = ids[lo + i - 1]
      BY <1>5, <1>6, <2>1, <3>1
    <3> HIDE DEF shown
    <3>3. Len(shown) \in Nat /\ Len(shown) = hi - lo + 1 /\ Len(shown) <= PageSize
      BY <1>6, <2>1, <3>2
    <3>4. \A i \in 1..Len(shown) : lo + i - 1 \in 1..c
      BY <1>5, <1>6, <3>3
    <3> QED BY <3>2, <3>3, <3>4
  <2>2. CASE hi < lo
    <3>1. shown = <<>>
      BY <1>5, <1>6, <2>2
    <3> HIDE DEF shown
    <3> QED BY <1>1, <3>1
  <2> QED BY <1>6, <2>1, <2>2
<1>8. ListPage(filter, page) = rows
  BY DEF ListPage, shown, hi, lo, ids, S
<1> HIDE DEF shown
<1>9. DOMAIN shown = 1..Len(shown) /\ \A i \in 1..Len(shown) : shown[i] \in S
  BY <1>7
<1>10. \A i \in 1..Len(shown) : rows[i].id = shown[i] /\ rows[i].is_new = store[shown[i]]
  BY <1>9
<1>11. \A i \in 1..Len(shown) : rows[i] \in Item
  <2> TAKE i \in 1..Len(shown)
  <2>1. shown[i] \in Id /\ store[shown[i]] \in BOOLEAN
    BY <1>2, <1>3, <1>9 DEF Id
  <2> QED BY <1>9, <2>1 DEF Item
<1>12. rows \in Seq(Item) /\ Len(rows) = Len(shown) /\ DOMAIN rows = 1..Len(shown)
  <2>1. rows \in [1..Len(shown) -> Item]
    BY <1>9, <1>11
  <2> HIDE DEF rows
  <2> QED BY <1>7, <2>1
<1> HIDE DEF rows
<1>13. Sorted(rows)
  <2>1. ASSUME NEW i \in 1..Len(shown), NEW j \in 1..Len(shown), i < j
        PROVE  shown[i] > shown[j]
    <3>1. lo + i - 1 \in 1..c /\ lo + j - 1 \in 1..c /\ lo + i - 1 < lo + j - 1
      BY <1>6, <1>7, <2>1
    <3> QED BY <1>4, <1>7, <3>1
  <2> QED BY <1>10, <1>12, <2>1 DEF Sorted
<1>14. Fits(rows, filter)
  <2>1. ASSUME filter # "all", NEW i \in 1..Len(shown)
        PROVE  rows[i].is_new = (filter = "new")
    BY <1>3, <1>9, <1>10, <2>1
  <2> QED BY <1>12, <2>1 DEF Fits
<1> QED BY <1>7, <1>8, <1>12, <1>13, <1>14, ListingIs

-----------------------------------------------------------------------------
(* The invariant. *)
Typed ==
    /\ store \in Stores
    /\ requests \in SUBSET Request
    /\ mark \in Mark \cup {None}
    /\ app \in App
    /\ visible \in BOOLEAN
    /\ changes \in 0..MaxChanges

(* What is shown and what is on its way is in order. *)
Ordered == Sorted(app.items) /\ \A r \in requests : Sorted(r.items)

OneCurrent == \A r, q \in requests : r.current /\ q.current => r = q

(* The current request asks for the filter that is selected, and what is listed for
   a request fits its filter. *)
Asked == \A r \in requests : Fits(r.items, r.filter) /\ (r.current => r.filter = app.filter)

(* The rows fit the filter, or they are about to be replaced, or are not shown. *)
Shows == (\E r \in requests : r.current) \/ app.error \/ Fits(app.items, app.filter)

InboxInv == Typed /\ Ordered /\ OneCurrent /\ Asked /\ Shows

LEMMA InitEstablishes == Init => InboxInv
<1> SUFFICES ASSUME Init PROVE InboxInv
  OBVIOUS
<1> USE DEF Init
<1> DEFINE first == FetchOf("new", 0, "reset")
<1>0. MaxId \in Nat /\ MaxId >= 1 /\ OnRecord \in 0..MaxId /\ MaxChanges \in Nat /\ PageSize \in Nat
  BY InboxAssumption
<1>1. store \in Stores
  <2>1. 1..OnRecord \in SUBSET Id
    BY <1>0 DEF Id
  <2>2. store \in [1..OnRecord -> BOOLEAN]
    OBVIOUS
  <2> QED BY <2>1, <2>2 DEF Stores
<1>2. <<>> \in Listing
  BY NothingIsAListing
<1>3. first \in Request
  BY <1>0, <1>2 DEF FetchOf, Request, Filter
<1>4. app \in App
  BY <1>0, <1>2 DEF App, Filter
<1>5. Typed
  BY <1>0, <1>1, <1>3, <1>4 DEF Typed
<1>6. Sorted(<<>>) /\ \A f : Fits(<<>>, f)
  BY DEF Sorted, Fits
<1>7. first.items = <<>> /\ first.current = TRUE /\ first.filter = "new"
  BY DEF FetchOf
<1>8. app.items = <<>> /\ app.filter = "new" /\ requests = {first}
  OBVIOUS
<1> HIDE DEF first, Init
<1> QED BY <1>5, <1>6, <1>7, <1>8 DEF InboxInv, Ordered, OneCurrent, Asked, Shows

(* What does not touch the view and its requests, does not disturb them. *)
LEMMA ViewUntouched ==
    ASSUME InboxInv, UNCHANGED <<requests, app>>, Typed'
    PROVE  InboxInv'
BY DEF InboxInv, Ordered, OneCurrent, Asked, Shows

(* runFetch, whatever it was called for. *)
LEMMA FetchKeeps ==
    ASSUME InboxInv, NEW view \in App, Sorted(view.items), NEW page \in 0..MaxId,
           NEW why \in {"reset", "turn", "refresh"}, Fetch(view, page, why),
           store' = store, mark' \in Mark \cup {None}, visible' \in BOOLEAN,
           changes' \in 0..MaxChanges
    PROVE  InboxInv'
<1> DEFINE new == FetchOf(view.filter, page, why)
<1>1. <<>> \in Listing /\ 0 \in 0..MaxId
  BY InboxAssumption, NothingIsAListing
<1>2. /\ new \in Request /\ new.items = <<>> /\ new.current = TRUE /\ new.filter = view.filter
  <2>1. view.filter \in Filter
    BY DEF App
  <2> QED BY <1>1, <2>1 DEF FetchOf, Request
<1> HIDE DEF new
<1>3. requests' = Superseded \cup {new}
  BY DEF Fetch, new
<1>4. /\ app' \in App /\ app'.items = view.items /\ app'.filter = view.filter
  BY DEF Fetch, App
<1>5. ASSUME NEW q \in Superseded
      PROVE  /\ q \in Request /\ q.current = FALSE
             /\ \E r \in requests : q.items = r.items /\ q.filter = r.filter
  <2>1. PICK r \in requests : q = [r EXCEPT !.current = FALSE]
    BY DEF Superseded
  <2>2. r \in Request
    BY DEF InboxInv, Typed
  <2> QED BY <2>1, <2>2 DEF Request
<1>6. Typed'
  BY <1>2, <1>3, <1>4, <1>5 DEF InboxInv, Typed, Stores
<1>7. Ordered'
  <2>1. Sorted(<<>>)
    BY DEF Sorted
  <2>2. \A r \in requests : Sorted(r.items)
    BY DEF InboxInv, Ordered
  <2>3. \A q \in requests' : Sorted(q.items)
    BY <1>2, <1>3, <1>5, <2>1, <2>2
  <2> QED BY <1>4, <2>3 DEF Ordered
<1>8. OneCurrent'
  BY <1>3, <1>5 DEF OneCurrent
<1>9. Asked'
  <2>1. \A f : Fits(<<>>, f)
    BY DEF Fits
  <2>2. \A r \in requests : Fits(r.items, r.filter)
    BY DEF InboxInv, Asked
  <2>3. \A q \in requests' : Fits(q.items, q.filter)
    BY <1>2, <1>3, <1>5, <2>1, <2>2
  <2>4. \A q \in requests' : q.current => q.filter = app'.filter
    BY <1>2, <1>3, <1>4, <1>5
  <2> QED BY <2>3, <2>4 DEF Asked
<1>10. Shows'
  BY <1>2, <1>3 DEF Shows
<1> QED BY <1>6, <1>7, <1>8, <1>9, <1>10 DEF InboxInv

(* The handler takes a request further; it stays whose it was. *)
LEMMA ServedKeeps ==
    ASSUME InboxInv, NEW r \in requests, NEW q \in Request,
           q.current = r.current, q.filter = r.filter, Sorted(q.items), Fits(q.items, q.filter),
           requests' = (requests \ {r}) \cup {q},
           UNCHANGED <<store, mark, app, visible, changes>>
    PROVE  InboxInv'
<1>1. Typed'
  BY DEF InboxInv, Typed, Stores
<1>2. Ordered'
  BY DEF InboxInv, Ordered
<1>3. OneCurrent'
  BY DEF InboxInv, OneCurrent
<1>4. Asked'
  BY DEF InboxInv, Asked
<1>5. Shows'
  BY DEF InboxInv, Shows
<1> QED BY <1>1, <1>2, <1>3, <1>4, <1>5 DEF InboxInv

(* Only the rows and the total change, and no request. *)
LEMMA RowsKeep ==
    ASSUME InboxInv, NEW view \in App, app' = view,
           view.filter = app.filter, view.error = app.error,
           Sorted(view.items), Fits(app.items, app.filter) => Fits(view.items, view.filter),
           UNCHANGED <<store, requests, visible, changes>>, mark' \in Mark \cup {None}
    PROVE  InboxInv'
<1>1. Typed'
  BY DEF InboxInv, Typed, Stores
<1>2. Ordered'
  BY DEF InboxInv, Ordered
<1>3. OneCurrent'
  BY DEF InboxInv, OneCurrent
<1>4. Asked'
  BY DEF InboxInv, Asked
<1>5. Shows'
  BY DEF InboxInv, Shows
<1> QED BY <1>1, <1>2, <1>3, <1>4, <1>5 DEF InboxInv

-----------------------------------------------------------------------------
(* The actions, each with what it may change. *)
LEMMA StoreStep ==
    ASSUME InboxInv, Insert \/ PurgeOldest \/ OtherClient
    PROVE  InboxInv'
<1>1. /\ store \in Stores /\ UNCHANGED <<requests, mark, app, visible>>
      /\ changes' \in 0..MaxChanges
  BY InboxAssumption DEF InboxInv, Typed, Insert, PurgeOldest, OtherClient, Change
<1>2. PICK S \in SUBSET Id : store \in [S -> BOOLEAN]
  BY <1>1 DEF Stores
<1>3. store' \in Stores
  <2>1. CASE Insert
    <3> DEFINE id == Max(DOMAIN store \cup {0}) + 1
    <3>1. id \in Id
      <4> DEFINE I == DOMAIN store \cup {0}
      <4>1. I \in SUBSET Nat /\ I # {} /\ \A i \in I : i <= MaxId
        BY <1>2, InboxAssumption DEF Id
      <4>2. MaxId \in Nat
        BY InboxAssumption
      <4>3. \E i \in I : \A j \in I : i >= j
        <5> HIDE DEF I
        <5>1. PICK i \in I : \A j \in I : j <= i
          BY <4>1, <4>2, GreatestExists
        <5>2. \A j \in I : i >= j
          BY <4>1, <5>1
        <5> QED BY <5>2
      <4>4. Max(I) \in I
        <5> HIDE DEF I
        <5> QED BY <4>3 DEF Max
      <4>5. Max(I) \in Nat
        <5> HIDE DEF I
        <5> QED BY <4>1, <4>4
      <4>6. id <= MaxId
        BY <2>1 DEF Insert
      <4> HIDE DEF I
      <4>7. id = Max(I) + 1
        BY DEF I
      <4> QED BY <4>2, <4>5, <4>6, <4>7 DEF Id
    <3>2. store' = [k \in DOMAIN store \cup {id} |-> k = id \/ store[k]]
      BY <2>1 DEF Insert
    <3> HIDE DEF id
    <3>3. S \cup {id} \in SUBSET Id
      BY <1>2, <3>1
    <3>4. store' \in [S \cup {id} -> BOOLEAN]
      BY <1>2, <3>2
    <3> QED BY <3>3, <3>4 DEF Stores
  <2>2. CASE PurgeOldest
    <3>1. store' = [k \in S \ {Min(S)} |-> store[k]]
      BY <1>2, <2>2 DEF PurgeOldest
    <3>2. store' \in [S \ {Min(S)} -> BOOLEAN]
      BY <1>2, <3>1
    <3> QED BY <3>2 DEF Stores
  <2>3. CASE OtherClient
    <3>1. PICK ids : \E is_new \in BOOLEAN :
              store' = [id \in DOMAIN store |-> IF id \in ids THEN is_new ELSE store[id]]
      BY <2>3, Zenon DEF OtherClient, Flag
    <3>2. store' \in [S -> BOOLEAN]
      BY <1>2, <3>1
    <3> QED BY <3>2 DEF Stores
  <2> QED BY <2>1, <2>2, <2>3
<1>4. Typed'
  BY <1>1, <1>3 DEF InboxInv, Typed
<1> QED BY <1>1, <1>4, ViewUntouched

LEMMA ServeStep ==
    ASSUME InboxInv, NEW r \in requests, Lists(r) \/ Counts(r)
    PROVE  InboxInv'
<1>1. r \in Request /\ Sorted(r.items) /\ Fits(r.items, r.filter) /\ store \in Stores
  BY DEF InboxInv, Typed, Ordered, Asked
<1>2. r.filter \in Filter /\ r.page \in 0..MaxId
  BY <1>1 DEF Request
<1>3. CASE Lists(r)
  <2> DEFINE page == ListPage(r.filter, r.page)
             q == [r EXCEPT !.stage = "listed", !.items = page]
  <2>1. page \in Listing /\ Sorted(page) /\ Fits(page, r.filter)
    BY <1>1, <1>2, ListPageIs
  <2>2. requests' = (requests \ {r}) \cup {q} /\ UNCHANGED <<store, mark, app, visible, changes>>
    BY <1>3 DEF Lists
  <2> HIDE DEF page
  <2>3. q \in Request /\ q.current = r.current /\ q.filter = r.filter /\ q.items = page
    BY <1>1, <2>1 DEF Request
  <2> HIDE DEF q
  <2> QED BY <2>1, <2>2, <2>3, ServedKeeps
<1>4. CASE Counts(r)
  <2> DEFINE q == [r EXCEPT !.stage = "answered", !.total = Count(r.filter)]
  <2>1. Count(r.filter) \in 0..MaxId
    <3>1. Selected(r.filter) \in SUBSET (1..MaxId) /\ MaxId \in Nat
      BY <1>1, InboxAssumption DEF Selected, Stores, Id
    <3> HIDE DEF Selected
    <3> QED BY <3>1, AscendingIs DEF Count
  <2>2. requests' = (requests \ {r}) \cup {q} /\ UNCHANGED <<store, mark, app, visible, changes>>
    BY <1>4 DEF Counts
  <2> HIDE DEF Count
  <2>3. q \in Request /\ q.current = r.current /\ q.filter = r.filter /\ q.items = r.items
    BY <1>1, <2>1 DEF Request
  <2> HIDE DEF q
  <2> QED BY <1>1, <2>2, <2>3, ServedKeeps
<1> QED BY <1>3, <1>4

LEMMA MarkStep ==
    ASSUME InboxInv, Flags \/ ReadsBack \/ MarkFails \/ MarkAnsweredWithError
    PROVE  InboxInv'
<1>1. Typed
  BY DEF InboxInv
<1>2. UNCHANGED <<requests, app, visible, changes>>
  BY DEF Flags, ReadsBack, MarkFails, MarkAnsweredWithError
<1>3. mark' \in Mark \cup {None}
  <2>1. CASE MarkAnsweredWithError
    BY <2>1 DEF MarkAnsweredWithError
  <2>2. CASE ~MarkAnsweredWithError
    <3>1. mark \in Mark
      BY <1>1, <2>2 DEF Typed, Flags, ReadsBack, MarkFails
    <3>2. \E stage \in {"flagged", "done", "failed"} : mark' = [mark EXCEPT !.stage = stage]
      BY <2>2 DEF Flags, ReadsBack, MarkFails
    <3> QED BY <3>1, <3>2 DEF Mark
  <2> QED BY <2>1, <2>2
<1>4. store' \in Stores
  <2>1. CASE Flags
    <3>1. PICK S \in SUBSET Id : store \in [S -> BOOLEAN]
      BY <1>1 DEF Typed, Stores
    <3>2. PICK ids : \E is_new \in BOOLEAN :
              store' = [id \in DOMAIN store |-> IF id \in ids THEN is_new ELSE store[id]]
      <4>1. \E ids : Flag(ids, mark.kind = "new")
        BY <2>1 DEF Flags
      <4>2. (mark.kind = "new") \in BOOLEAN
        OBVIOUS
      <4> QED BY <4>1, <4>2, Zenon DEF Flag
    <3>3. store' \in [S -> BOOLEAN]
      BY <3>1, <3>2
    <3> QED BY <3>3 DEF Stores
  <2>2. CASE ~Flags
    BY <1>1, <2>2 DEF Typed, ReadsBack, MarkFails, MarkAnsweredWithError
  <2> QED BY <2>1, <2>2
<1>5. Typed'
  BY <1>1, <1>2, <1>3, <1>4 DEF Typed
<1> QED BY <1>2, <1>5, ViewUntouched

(* An answer that is accepted is the current request's, and becomes the rows. *)
LEMMA AnsweredStep ==
    ASSUME InboxInv, NEW r \in requests, Answered(r)
    PROVE  InboxInv'
<1>1. /\ r \in Request /\ Sorted(r.items) /\ Fits(r.items, r.filter)
      /\ r.current => r.filter = app.filter
      /\ app \in App /\ Sorted(app.items)
  BY DEF InboxInv, Typed, Ordered, Asked
<1>2. requests' = requests \ {r} /\ UNCHANGED <<store, mark, visible, changes>>
  BY DEF Answered
<1>3. r.items \in Seq(Item) /\ app.items \in Seq(Item) /\ r.items \in Listing
  <2>1. r.items \in Listing /\ app.items \in Listing
    BY <1>1 DEF Request, App
  <2> QED BY <2>1, ListingIs
<1>4. Reconcile(app.items, r.items) = r.items
  BY <1>1, <1>3, ReconcileGivesWhatCame
<1>5. CASE r.current
  <2>1. app' = [app EXCEPT !.page = r.page, !.total = r.total, !.loading = FALSE,
                    !.items = r.items]
    BY <1>4, <1>5 DEF Answered, Accepted, Applied
  <2>2. app' \in App /\ app'.items = r.items /\ app'.filter = app.filter
    <3>1. r.page \in 0..MaxId /\ r.total \in 0..MaxId
      BY <1>1 DEF Request
    <3> QED BY <1>1, <1>3, <2>1, <3>1 DEF App
  <2>3. Typed'
    BY <1>2, <2>2 DEF InboxInv, Typed, Stores
  <2>4. Ordered'
    BY <1>1, <1>2, <2>2 DEF InboxInv, Ordered
  <2>5. OneCurrent'
    BY <1>2 DEF InboxInv, OneCurrent
  <2>6. Asked'
    BY <1>2, <2>2 DEF InboxInv, Asked
  <2>7. Shows'
    BY <1>1, <1>5, <2>2 DEF Shows
  <2> QED BY <2>3, <2>4, <2>5, <2>6, <2>7 DEF InboxInv
<1>6. CASE ~r.current
  <2>1. app' = app
    BY <1>6 DEF Answered, Accepted
  <2>2. Typed'
    BY <1>2, <2>1 DEF InboxInv, Typed, Stores
  <2>3. Ordered'
    BY <1>2, <2>1 DEF InboxInv, Ordered
  <2>4. OneCurrent'
    BY <1>2 DEF InboxInv, OneCurrent
  <2>5. Asked'
    BY <1>2, <2>1 DEF InboxInv, Asked
  <2>6. Shows'
    BY <1>2, <1>6, <2>1 DEF InboxInv, Shows
  <2> QED BY <2>2, <2>3, <2>4, <2>5, <2>6 DEF InboxInv
<1> QED BY <1>5, <1>6

LEMMA EndedStep ==
    ASSUME InboxInv, NEW r \in requests, Failed(r) \/ Cancelled(r)
    PROVE  InboxInv'
<1>1. /\ requests' = requests \ {r} /\ UNCHANGED <<store, mark, visible, changes>>
      /\ app \in App
  BY DEF Failed, Cancelled, InboxInv, Typed
<1>2. app' = app \/ app' = [app EXCEPT !.error = TRUE, !.loading = FALSE]
  BY DEF Failed, Cancelled
<1>3. app' \in App /\ app'.items = app.items /\ app'.filter = app.filter
  BY <1>1, <1>2 DEF App
<1>4. Typed'
  BY <1>1, <1>3 DEF InboxInv, Typed, Stores
<1>5. Ordered'
  BY <1>1, <1>3 DEF InboxInv, Ordered
<1>6. OneCurrent'
  BY <1>1 DEF InboxInv, OneCurrent
<1>7. Asked'
  BY <1>1, <1>3 DEF InboxInv, Asked
<1>8. Shows'
  <2>1. CASE Failed(r)
    <3>1. app'.error = TRUE
      BY <1>1, <2>1 DEF Failed, App
    <3> QED BY <3>1 DEF Shows
  <2>2. CASE Cancelled(r)
    <3>1. ~r.current /\ app' = app
      BY <2>2 DEF Cancelled
    <3> QED BY <1>1, <3>1 DEF InboxInv, Shows
  <2> QED BY <2>1, <2>2
<1> QED BY <1>4, <1>5, <1>6, <1>7, <1>8 DEF InboxInv

LEMMA RefreshStep ==
    ASSUME InboxInv, Refresh \/ Return
    PROVE  InboxInv'
<1>1. /\ app \in App /\ Sorted(app.items) /\ app.page \in 0..MaxId
      /\ store' = store /\ mark' \in Mark \cup {None} /\ visible' \in BOOLEAN
      /\ changes' \in 0..MaxChanges
  BY DEF InboxInv, Typed, Ordered, App, Refresh, Return
<1>2. Fetch(app, app.page, "refresh")
  BY DEF Refresh, Return
<1> QED BY <1>1, <1>2, FetchKeeps

LEMMA SelectFilterStep ==
    ASSUME InboxInv, SelectFilter
    PROVE  InboxInv'
<1>1. PICK f \in Filter : Fetch([app EXCEPT !.filter = f], 0, "reset")
  BY DEF SelectFilter
<1> DEFINE view == [app EXCEPT !.filter = f]
<1>2. /\ view \in App /\ Sorted(view.items) /\ 0 \in 0..MaxId
      /\ store' = store /\ mark' \in Mark \cup {None} /\ visible' \in BOOLEAN
      /\ changes' \in 0..MaxChanges
  BY InboxAssumption DEF InboxInv, Typed, Ordered, App, SelectFilter, Change
<1> HIDE DEF view
<1> QED BY <1>1, <1>2, FetchKeeps DEF view

(* The last page there can be is not beyond the bound on ids. *)
LEMMA PagesBounded ==
    ASSUME app \in App
    PROVE  TotalPages \in Nat /\ TotalPages - 1 <= MaxId
<1>1. app.total \in Nat /\ app.total <= MaxId /\ MaxId \in Nat /\ PageSize \in Nat /\ PageSize >= 1
  BY InboxAssumption DEF App
<1> DEFINE q == (app.total + PageSize - 1) \div PageSize
<1>2. q \in Nat /\ q * PageSize <= app.total + PageSize - 1
  BY <1>1
<1>3. q <= app.total + 1
  <2>1. SUFFICES ASSUME q >= app.total + 2 PROVE FALSE
    BY <1>1, <1>2
  <2>2. q * PageSize >= (app.total + 2) * PageSize
    BY <1>1, <1>2, <2>1
  <2>3. (app.total + 2) * PageSize >= app.total + PageSize
    BY <1>1
  <2> HIDE DEF q
  <2> QED BY <1>1, <1>2, <2>2, <2>3
<1> HIDE DEF q
<1>4. TotalPages = IF 1 <= q THEN q ELSE 1
  BY <1>2, MaxOfTwo DEF TotalPages, q
<1> QED BY <1>1, <1>2, <1>3, <1>4

LEMMA TurnPageStep ==
    ASSUME InboxInv, TurnPage
    PROVE  InboxInv'
<1>1. PICK page \in {p \in {0, app.page - 1} : app.page > 0}
                   \cup {p \in {app.page + 1, TotalPages - 1} : app.page < TotalPages - 1} :
          Fetch(app, page, "turn")
  BY DEF TurnPage
<1>2. /\ app \in App /\ Sorted(app.items)
      /\ store' = store /\ mark' \in Mark \cup {None} /\ visible' \in BOOLEAN
      /\ changes' \in 0..MaxChanges
  BY InboxAssumption DEF InboxInv, Typed, Ordered, TurnPage, Change
<1>3. page \in 0..MaxId
  <2>1. app.page \in 0..MaxId /\ MaxId \in Nat
    BY <1>2, InboxAssumption DEF App
  <2>2. TotalPages \in Nat /\ TotalPages - 1 <= MaxId
    BY <1>2, PagesBounded
  <2> HIDE DEF TotalPages
  <2> QED BY <2>1, <2>2
<1> QED BY <1>1, <1>2, <1>3, FetchKeeps

(* The rows without one id: part of them, in order. *)
LEMMA WithoutIs ==
    ASSUME app \in App, Sorted(app.items), NEW ids
    PROVE  /\ Kept(app.items, ids) \in Listing
           /\ Sorted(Kept(app.items, ids))
           /\ \A f : Fits(app.items, f) => Fits(Kept(app.items, ids), f)
<1> DEFINE kept == Kept(app.items, ids)
<1>1. app.items \in Seq(Item) /\ Len(app.items) <= PageSize
  <2>1. app.items \in Listing
    BY DEF App
  <2> QED BY <2>1, ListingIs
<1>2. /\ kept \in Seq(Item) /\ Sorted(kept) /\ Len(kept) <= Len(app.items)
      /\ \A k \in 1..Len(kept) : \E j \in 1..Len(app.items) : kept[k] = app.items[j]
  BY <1>1, KeptIs
<1> HIDE DEF kept
<1>3. kept \in Listing
  <2>1. Len(kept) \in Nat /\ Len(app.items) \in Nat /\ PageSize \in Nat
    BY <1>1, <1>2, InboxAssumption
  <2>2. Len(kept) <= PageSize
    BY <1>1, <1>2, <2>1
  <2> QED BY <1>2, <2>2, ListingIs
<1>4. DOMAIN kept = 1..Len(kept) /\ DOMAIN app.items = 1..Len(app.items)
  BY <1>1, <1>2
<1>5. \A f : Fits(app.items, f) => Fits(kept, f)
  BY <1>2, <1>4 DEF Fits
<1> QED BY <1>2, <1>3, <1>5 DEF kept

LEMMA RemoveStep ==
    ASSUME InboxInv, mark' = None, app' = RemoveAndSettle(mark.id),
           UNCHANGED <<store, requests, visible, changes>>
    PROVE  InboxInv'
<1> DEFINE kept == Kept(app.items, Id \ {mark.id})
           total == Max({app.total - 1, 0})
           view == [app EXCEPT !.items = kept, !.total = total]
<1>1. app \in App /\ Sorted(app.items)
  BY DEF InboxInv, Typed, Ordered
<1>2. /\ kept \in Listing /\ Sorted(kept)
      /\ \A f : Fits(app.items, f) => Fits(kept, f)
  BY <1>1, WithoutIs
<1>3. total \in 0..MaxId
  <2>1. app.total \in Nat /\ app.total <= MaxId /\ MaxId \in Nat
    BY <1>1, InboxAssumption DEF App
  <2>2. total = IF app.total - 1 <= 0 THEN 0 ELSE app.total - 1
    BY <2>1, MaxOfTwo
  <2> HIDE DEF total
  <2> QED BY <2>1, <2>2
<1>4. app' = view
  BY DEF RemoveAndSettle
<1> HIDE DEF kept, total
<1>5. view \in App /\ view.items = kept /\ view.filter = app.filter /\ view.error = app.error
  BY <1>1, <1>2, <1>3 DEF App
<1> HIDE DEF view
<1> QED BY <1>2, <1>4, <1>5, RowsKeep

(* Under "all" a row that is marked stays where it is. *)
LEMMA SetStep ==
    ASSUME InboxInv, app.filter = "all", mark' = None, NEW is_new \in BOOLEAN,
           app' = SetIsNew(mark.id, is_new),
           UNCHANGED <<store, requests, visible, changes>>
    PROVE  InboxInv'
<1> DEFINE rows == [i \in DOMAIN app.items |->
               IF app.items[i].id = mark.id THEN [app.items[i] EXCEPT !.is_new = is_new]
               ELSE app.items[i]]
           view == [app EXCEPT !.items = rows]
<1>1. /\ app \in App /\ Sorted(app.items)
      /\ app.items \in Listing
  BY DEF InboxInv, Typed, Ordered, App
<1>2. app.items \in Seq(Item) /\ Len(app.items) <= PageSize
  BY <1>1, ListingIs
<1>3. DOMAIN app.items = 1..Len(app.items) /\ Len(app.items) \in Nat
  BY <1>2
<1>4. \A i \in 1..Len(app.items) : rows[i] \in Item /\ rows[i].id = app.items[i].id
  <2> TAKE i \in 1..Len(app.items)
  <2>1. app.items[i] \in Item
    BY <1>2
  <2> QED BY <1>3, <2>1 DEF Item
<1>5. rows \in Seq(Item) /\ Len(rows) = Len(app.items) /\ DOMAIN rows = 1..Len(app.items)
  <2>1. rows \in [1..Len(app.items) -> Item]
    BY <1>3, <1>4
  <2> HIDE DEF rows, Item
  <2> QED BY <1>3, <2>1
<1>6. app' = view
  BY DEF SetIsNew
<1> HIDE DEF rows
<1>7. Sorted(rows)
  BY <1>1, <1>3, <1>4, <1>5 DEF Sorted
<1>8. rows \in Listing
  BY <1>2, <1>5, ListingIs
<1>9. view \in App /\ view.items = rows /\ view.filter = app.filter /\ view.error = app.error
  BY <1>1, <1>8 DEF App
<1>10. Fits(view.items, view.filter)
  BY <1>9 DEF Fits
<1> HIDE DEF view
<1> QED BY <1>6, <1>7, <1>9, <1>10, RowsKeep

LEMMA MarkAnsweredStep ==
    ASSUME InboxInv, MarkAnswered
    PROVE  InboxInv'
<1>1. /\ app \in App /\ Sorted(app.items) /\ app.page \in 0..MaxId
      /\ mark' = None /\ UNCHANGED <<store, visible, changes>>
  BY DEF InboxInv, Typed, Ordered, App, MarkAnswered
<1>2. CASE mark.kind = "all"
  <2>1. Fetch(app, app.page, "refresh")
    BY <1>2 DEF MarkAnswered
  <2>2. store' = store /\ mark' \in Mark \cup {None} /\ visible' \in BOOLEAN
        /\ changes' \in 0..MaxChanges
    BY <1>1 DEF InboxInv, Typed
  <2> QED BY <1>1, <2>1, <2>2, FetchKeeps
<1>3. CASE mark.kind # "all"
  <2>1. requests' = requests
    BY <1>3 DEF MarkAnswered
  <2>2. CASE app.filter = "all" /\ app' = SetIsNew(mark.id, mark.kind = "new")
    <3>1. (mark.kind = "new") \in BOOLEAN
      OBVIOUS
    <3> QED BY <1>1, <2>1, <2>2, <3>1, SetStep
  <2>3. CASE app' = RemoveAndSettle(mark.id)
    BY <1>1, <2>1, <2>3, RemoveStep
  <2>4. CASE app' = app
    <3>1. Typed'
      BY <1>1, <2>1, <2>4 DEF InboxInv, Typed, Stores
    <3> QED BY <2>1, <2>4, <3>1, ViewUntouched
  <2> QED BY <1>3, <2>2, <2>3, <2>4 DEF MarkAnswered
<1> QED BY <1>2, <1>3

LEMMA UserStep ==
    ASSUME InboxInv, Leave \/ MarkOne \/ MarkAllAsRead
    PROVE  InboxInv'
<1>1. UNCHANGED <<store, requests, app>> /\ changes' \in 0..MaxChanges
  BY InboxAssumption DEF InboxInv, Typed, Leave, MarkOne, MarkAllAsRead, Change
<1>2. mark' \in Mark \cup {None} /\ visible' \in BOOLEAN
  <2>1. CASE Leave
    BY <2>1 DEF Leave, InboxInv, Typed
  <2>2. CASE MarkOne
    <3>1. PICK i \in DOMAIN app.items :
              mark' = [kind |-> IF app.items[i].is_new THEN "read" ELSE "new",
                       id |-> app.items[i].id, stage |-> "sent"]
      BY <2>2 DEF MarkOne
    <3>2. app.items[i] \in Item
      <4>1. app.items \in Listing
        BY DEF InboxInv, Typed, App
      <4>2. app.items \in Seq(Item)
        BY <4>1, ListingIs
      <4> QED BY <4>2
    <3>3. app.items[i].id \in Id
      BY <3>2 DEF Item
    <3>4. mark' \in Mark
      BY <3>1, <3>3 DEF Mark
    <3> QED BY <2>2, <3>4 DEF MarkOne, InboxInv, Typed
  <2>3. CASE MarkAllAsRead
    <3>1. 1 \in Id
      BY InboxAssumption DEF Id
    <3>2. mark' \in Mark
      BY <2>3, <3>1 DEF MarkAllAsRead, Mark
    <3> QED BY <2>3, <3>2 DEF MarkAllAsRead, InboxInv, Typed
  <2> QED BY <2>1, <2>2, <2>3
<1>3. Typed'
  BY <1>1, <1>2 DEF InboxInv, Typed, Stores
<1> QED BY <1>1, <1>3, ViewUntouched

-----------------------------------------------------------------------------
LEMMA NextKeeps == InboxInv /\ [Next]_vars => InboxInv'
<1> SUFFICES ASSUME InboxInv, [Next]_vars PROVE InboxInv'
  OBVIOUS
<1>1. CASE Insert \/ PurgeOldest \/ OtherClient
  BY <1>1, StoreStep
<1>2. CASE \E r \in requests : Lists(r) \/ Counts(r)
  BY <1>2, ServeStep
<1>3. CASE \E r \in requests : Answered(r)
  BY <1>3, AnsweredStep
<1>4. CASE \E r \in requests : Failed(r) \/ Cancelled(r)
  BY <1>4, EndedStep
<1>5. CASE Flags \/ ReadsBack \/ MarkFails \/ MarkAnsweredWithError
  BY <1>5, MarkStep
<1>6. CASE MarkAnswered
  BY <1>6, MarkAnsweredStep
<1>7. CASE Refresh \/ Return
  BY <1>7, RefreshStep
<1>8. CASE Leave \/ MarkOne \/ MarkAllAsRead
  BY <1>8, UserStep
<1>9. CASE SelectFilter
  BY <1>9, SelectFilterStep
<1>10. CASE TurnPage
  BY <1>10, TurnPageStep
<1>11. CASE UNCHANGED vars
  <2>1. Typed'
    BY <1>11 DEF vars, InboxInv, Typed, Stores
  <2> QED BY <1>11, <2>1, ViewUntouched DEF vars
<1> QED BY <1>1, <1>2, <1>3, <1>4, <1>5, <1>6, <1>7, <1>8, <1>9, <1>10, <1>11 DEF Next

THEOREM InboxInvariant == Spec => []InboxInv
<1> QED BY InitEstablishes, NextKeeps, PTL DEF Spec

(* The fields of the view, the requests and the table are what they should be, and
   at most one request is current, whatever overlaps. *)
THEOREM InboxTypesCorrect == Spec => []TypeOK
<1>1. InboxInv => TypeOK
  <2> SUFFICES ASSUME InboxInv PROVE TypeOK
    OBVIOUS
  <2> DEFINE C == {r \in requests : r.current}
  <2>1. C = {} \/ \E r : C = {r}
    BY DEF InboxInv, OneCurrent
  <2> HIDE DEF C
  <2>2. Cardinality(C) <= 1
    <3>1. CASE C = {}
      BY <3>1, FS_EmptySet
    <3>2. CASE \E r : C = {r}
      <4>1. PICK r : C = {r}
        BY <3>2
      <4>2. Cardinality({r}) = 1
        BY FS_Singleton
      <4> QED BY <4>1, <4>2
    <3> QED BY <2>1, <3>1, <3>2
  <2> QED BY <2>2 DEF TypeOK, InboxInv, Typed, Stores, C
<1> QED BY <1>1, InboxInvariant, PTL

(* Merging an answer row by row never leaves a row out of order, or twice
   (notifications_list.dart:280). *)
THEOREM RowsAreNewestFirst == Spec => []NewestFirst
<1>1. InboxInv => NewestFirst
  BY DEF InboxInv, Ordered, Sorted, NewestFirst
<1> QED BY <1>1, InboxInvariant, PTL

(* A late answer, or a mark answered after the filter has changed, leaves no row
   that does not belong to the filter (paginated_list_state.dart:70). *)
THEOREM SettledListFits == Spec => []SettledShowsFilter
<1>1. InboxInv => SettledShowsFilter
  BY DEF InboxInv, Shows, Fits, SettledShowsFilter
<1> QED BY <1>1, InboxInvariant, PTL
=============================================================================
