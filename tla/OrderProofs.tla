------------------------------- MODULE OrderProofs -------------------------------
(***************************************************************************)
(* Lemmas for sequences and sets of any size.  Induction over the naturals *)
(* is stated about a set of numbers, which a lemma can be instantiated     *)
(* with; it rests on the naturals being well founded.                      *)
(***************************************************************************)
EXTENDS Ordering, TLAPS, WellFoundedInduction, FiniteSetTheorems

Less == {p \in Nat \X Nat : p[1] < p[2]}

LEMMA LessIsWellFounded == IsWellFoundedOn(Less, Nat)
BY NatLessThanWellFounded DEF OpToRel, Less

(* A set of numbers that is not empty has a least one. *)
LEMMA LeastExists ==
    ASSUME NEW I \in SUBSET Nat, I # {}
    PROVE  \E i \in I : \A j \in I : i <= j
<1>1. PICK i \in I : \A j \in I : <<j, i>> \notin Less
  BY LessIsWellFounded, WFMin
<1>2. \A j \in I : i <= j
  <2> TAKE j \in I
  <2>1. i \in Nat /\ j \in Nat
    OBVIOUS
  <2>2. ~(j < i)
    BY <1>1, <2>1 DEF Less
  <2> QED BY <2>1, <2>2
<1> QED BY <1>2

(* A set of numbers with a bound has a greatest one. *)
LEMMA GreatestExists ==
    ASSUME NEW I \in SUBSET Nat, I # {}, NEW n \in Nat, \A i \in I : i <= n
    PROVE  \E i \in I : \A j \in I : j <= i
<1> DEFINE D == {n - i : i \in I}
<1>1. D \in SUBSET Nat /\ D # {}
  <2>1. \A i \in I : n - i \in Nat
    OBVIOUS
  <2> QED BY <2>1
<1>2. PICK d \in D : \A e \in D : d <= e
  <2> HIDE DEF D
  <2> QED BY <1>1, LeastExists
<1>3. PICK i \in I : d = n - i
  OBVIOUS
<1>4. \A j \in I : j <= i
  <2> TAKE j \in I
  <2>1. n - j \in D
    OBVIOUS
  <2>2. n - i <= n - j
    BY <1>2, <1>3, <2>1
  <2> QED BY <2>2
<1> QED BY <1>4

(* Induction: a set of numbers with 0 and with every successor is all of them. *)
LEMMA Induction ==
    ASSUME NEW P \in SUBSET Nat, 0 \in P, \A n \in P : n + 1 \in P
    PROVE  P = Nat
<1>1. SUFFICES ASSUME Nat \ P # {}
               PROVE  FALSE
  OBVIOUS
<1>2. PICK n \in Nat \ P : \A m \in Nat \ P : n <= m
  BY <1>1, LeastExists
<1>3. n - 1 \in Nat
  BY <1>2
<1>4. n - 1 \in P
  BY <1>2, <1>3
<1> QED BY <1>2, <1>3, <1>4

-----------------------------------------------------------------------------
Increasing(s) == \A i, j \in DOMAIN s : i < j => s[i] < s[j]

(* A set of numbers with a bound can be put in order, and all of it. *)
LEMMA OrderExists ==
    ASSUME NEW n \in Nat, NEW S \in SUBSET (1..n)
    PROVE  \E s \in [1..Cardinality(S) -> S] :
               Increasing(s) /\ \A x \in S : \E i \in 1..Cardinality(S) : s[i] = x
<1> DEFINE Good(s, T) == /\ s \in [1..Cardinality(T) -> T]
                         /\ Increasing(s)
                         /\ \A x \in T : \E i \in 1..Cardinality(T) : s[i] = x
           P == {m \in Nat : \A T \in SUBSET (1..m) : \E s : Good(s, T)}
<1>1. 0 \in P
  <2>1. ASSUME NEW T \in SUBSET (1..0)
        PROVE  Good(<<>>, T)
    <3>1. T = {}
      OBVIOUS
    <3>2. Cardinality(T) = 0
      BY <3>1, FS_EmptySet
    <3>3. <<>> \in [1..0 -> T] /\ DOMAIN <<>> = {}
      OBVIOUS
    <3> QED BY <3>1, <3>2, <3>3 DEF Increasing
  <2> HIDE DEF Good
  <2> QED BY <2>1
<1>2. ASSUME NEW m \in P
      PROVE  m + 1 \in P
  <2>0. m \in Nat
    OBVIOUS
  <2>1. ASSUME NEW T \in SUBSET (1..(m + 1))
        PROVE  \E s : Good(s, T)
    <3> DEFINE R == T \ {m + 1}
    <3>1. R \in SUBSET (1..m)
      OBVIOUS
    <3>2. PICK r : Good(r, R)
      <4> HIDE DEF Good, R
      <4> QED BY <3>1
    <3>3. CASE m + 1 \notin T
      <4>1. R = T
        BY <3>3
      <4> HIDE DEF Good, R
      <4> QED BY <3>2, <4>1
    <3>4. CASE m + 1 \in T
      <4> DEFINE c == Cardinality(R)
                 s == [k \in 1..(c + 1) |-> IF k = c + 1 THEN m + 1 ELSE r[k]]
      <4>1. IsFiniteSet(R) /\ IsFiniteSet(T)
        <5>1. IsFiniteSet(1..m) /\ IsFiniteSet(1..(m + 1))
          BY FS_Interval
        <5> HIDE DEF R
        <5> QED BY <3>1, <5>1, FS_Subset
      <4>2. c \in Nat
        BY <4>1, FS_CardinalityType
      <4>3. Cardinality(T) = c + 1
        <5>1. T = R \cup {m + 1} /\ m + 1 \notin R
          BY <3>4
        <5> HIDE DEF R
        <5> QED BY <4>1, <5>1, FS_AddElement
      <4>4. r \in [1..c -> R] /\ \A x \in R : x \in 1..m
        BY <3>1, <3>2
      <4>5. \A k \in 1..c : r[k] \in R /\ s[k] = r[k]
        <5> HIDE DEF R
        <5> QED BY <4>2, <4>4
      <4>6. s[c + 1] = m + 1 /\ DOMAIN s = 1..(c + 1)
        BY <4>2
      <4>7. s \in [1..(c + 1) -> T]
        <5>1. \A k \in 1..(c + 1) : k = c + 1 \/ k \in 1..c
          BY <4>2
        <5>2. \A k \in 1..c : r[k] \in T
          BY <4>5
        <5> HIDE DEF c, R, Good
        <5> QED BY <3>4, <5>1, <5>2
      <4>8. Increasing(s)
        <5>1. ASSUME NEW i \in 1..(c + 1), NEW j \in 1..(c + 1), i < j
              PROVE  s[i] < s[j]
          <6>1. i \in 1..c
            BY <5>1, <4>2
          <6>2. CASE j = c + 1
            <7>1. r[i] \in 1..m
              BY <4>4, <4>5, <6>1
            <7>2. s[i] = r[i] /\ s[j] = m + 1
              BY <4>5, <4>6, <6>1, <6>2
            <7> HIDE DEF s, P
            <7>3. r[i] < m + 1
              BY <2>0, <7>1
            <7> QED BY <7>2, <7>3
          <6>3. CASE j \in 1..c
            <7>1. r[i] < r[j]
              BY <3>2, <4>4, <5>1, <6>1, <6>3 DEF Increasing
            <7> HIDE DEF s
            <7> QED BY <4>5, <6>1, <6>3, <7>1
          <6> QED BY <4>2, <6>2, <6>3
        <5> HIDE DEF s
        <5> QED BY <4>6, <5>1 DEF Increasing
      <4>9. \A x \in T : \E i \in 1..(c + 1) : s[i] = x
        <5> TAKE x \in T
        <5>1. CASE x = m + 1
          BY <4>2, <4>6, <5>1
        <5>2. CASE x \in R
          <6>1. PICK i \in 1..c : r[i] = x
            BY <3>2, <5>2
          <6>2. s[i] = x /\ i \in 1..(c + 1)
            BY <4>2, <4>5, <6>1
          <6> QED BY <6>2
        <5> QED BY <5>1, <5>2
      <4>10. Good(s, T)
        <5> HIDE DEF s
        <5> QED BY <4>3, <4>7, <4>8, <4>9
      <4> HIDE DEF s, Good
      <4> QED BY <4>10
    <3> QED BY <3>3, <3>4
  <2> HIDE DEF Good
  <2> QED BY <2>1
<1>3. P = Nat
  <2>1. P \in SUBSET Nat
    OBVIOUS
  <2> HIDE DEF P
  <2> QED BY <1>1, <1>2, <2>1, Induction
<1>4. \E s : Good(s, S)
  <2> HIDE DEF Good
  <2> QED BY <1>3
<1> QED BY <1>4

LEMMA AscendingIs ==
    ASSUME NEW n \in Nat, NEW S \in SUBSET (1..n)
    PROVE  /\ Cardinality(S) \in 0..n
           /\ Ascending(S) \in [1..Cardinality(S) -> S]
           /\ Increasing(Ascending(S))
<1>1. \E s \in [1..Cardinality(S) -> S] : \A i, j \in DOMAIN s : i < j => s[i] < s[j]
  BY OrderExists DEF Increasing
<1>2. Cardinality(S) \in 0..n
  <2>1. IsFiniteSet(1..n) /\ Cardinality(1..n) = n
    BY FS_Interval
  <2>2. IsFiniteSet(S) /\ Cardinality(S) <= n
    BY <2>1, FS_Subset
  <2> QED BY <2>2, FS_CardinalityType
<1> QED BY <1>1, <1>2 DEF Ascending, Increasing

LEMMA DescendingIs ==
    ASSUME NEW n \in Nat, NEW S \in SUBSET (1..n)
    PROVE  /\ Cardinality(S) \in 0..n
           /\ Descending(S) \in [1..Cardinality(S) -> S]
           /\ \A i, j \in 1..Cardinality(S) : i < j => Descending(S)[i] > Descending(S)[j]
<1> DEFINE c == Cardinality(S)
           up == Ascending(S)
<1>1. /\ c \in 0..n
      /\ up \in [1..c -> S]
      /\ \A i, j \in 1..c : i < j => up[i] < up[j]
  BY AscendingIs DEF Increasing
<1>2. Descending(S) = [k \in 1..c |-> up[c + 1 - k]]
  BY DEF Descending
<1>3. \A k \in 1..c : c + 1 - k \in 1..c
  BY <1>1
<1>4. \A i, j \in 1..c : i < j => c + 1 - j < c + 1 - i
  BY <1>1
<1> HIDE DEF c, up
<1>5. Descending(S) \in [1..c -> S]
  BY <1>1, <1>2, <1>3
<1>6. \A i, j \in 1..c : i < j => Descending(S)[i] > Descending(S)[j]
  <2> TAKE i \in 1..c, j \in 1..c
  <2> HAVE i < j
  <2>1. up[c + 1 - j] < up[c + 1 - i]
    BY <1>1, <1>3, <1>4
  <2>2. up[c + 1 - j] \in 1..n /\ up[c + 1 - i] \in 1..n
    BY <1>1, <1>3
  <2> QED BY <1>2, <2>1, <2>2
<1> QED BY <1>1, <1>5, <1>6 DEF c

(* Picking rows by their indices: rows of the sequence, in its order. *)
LEMMA ElementsAre ==
    ASSUME NEW S, NEW n \in Nat, NEW s \in [1..n -> S], NEW I \in SUBSET (1..n)
    PROVE  \E at \in [1..Cardinality(I) -> I] :
               /\ Increasing(at)
               /\ Elements(s, I) = [k \in 1..Cardinality(I) |-> s[at[k]]]
               /\ Elements(s, I) \in [1..Cardinality(I) -> S]
               /\ Cardinality(I) \in 0..n
<1>1. /\ Cardinality(I) \in 0..n
      /\ Ascending(I) \in [1..Cardinality(I) -> I]
      /\ Increasing(Ascending(I))
  BY AscendingIs
<1>2. Elements(s, I) = [k \in 1..Cardinality(I) |-> s[Ascending(I)[k]]]
  BY DEF Elements
<1>3. Elements(s, I) \in [1..Cardinality(I) -> S]
  BY <1>1, <1>2
<1> QED BY <1>1, <1>2, <1>3

-----------------------------------------------------------------------------
(* As many different elements as the set has are all of them. *)
LEMMA AllAreListed ==
    ASSUME NEW S, IsFiniteSet(S), NEW s \in [1..Cardinality(S) -> S],
           \A i, j \in 1..Cardinality(S) : i # j => s[i] # s[j]
    PROVE  \A x \in S : \E i \in 1..Cardinality(S) : s[i] = x
<1> DEFINE c == Cardinality(S)
<1>1. c \in Nat
  BY FS_CardinalityType
<1> HIDE DEF c
<1>2. s \in [1..c -> S] /\ \A i, j \in 1..c : i # j => s[i] # s[j]
  BY DEF c
<1>3. s \in Injection(1..c, S)
  BY <1>2 DEF Injection, IsInjective
<1>4. Cardinality(1..c) = Cardinality(S)
  BY <1>1, FS_Interval DEF c
<1>5. s \in Surjection(1..c, S)
  BY <1>3, <1>4, FS_Injection
<1>6. \A x \in S : \E i \in 1..c : s[i] = x
  BY <1>5 DEF Surjection
<1> QED BY <1>6 DEF c

(* s lists the c elements of S, none against the order. *)
Enumerates(s, c, S, Before) ==
    /\ s \in [1..c -> S]
    /\ \A i, j \in 1..c : i # j => s[i] # s[j]
    /\ \A x \in S : \E i \in 1..c : s[i] = x
    /\ \A i, j \in 1..c : i < j => <<s[j], s[i]>> \notin Before

(* Of two elements, one comes before the other. *)
Complete(S, Before) ==
    \A x, y \in S : x # y => <<x, y>> \in Before \/ <<y, x>> \in Before

(* Where of two elements one comes before the other, there is one order. *)
LEMMA OrderIsUnique ==
    ASSUME NEW c \in Nat, NEW S, NEW Before, Complete(S, Before),
           NEW s, NEW t, Enumerates(s, c, S, Before), Enumerates(t, c, S, Before)
    PROVE  s = t
<1>a. /\ s \in [1..c -> S] /\ t \in [1..c -> S]
      /\ \A i, j \in 1..c : i # j => s[i] # s[j] /\ t[i] # t[j]
      /\ \A x \in S : (\E i \in 1..c : s[i] = x) /\ (\E i \in 1..c : t[i] = x)
      /\ \A i, j \in 1..c : i < j => /\ <<s[j], s[i]>> \notin Before
                                    /\ <<t[j], t[i]>> \notin Before
  BY Zenon DEF Enumerates
<1>b. \A x, y \in S : x # y => <<x, y>> \in Before \/ <<y, x>> \in Before
  BY DEF Complete
<1> USE <1>a, <1>b
<1> DEFINE D == {k \in 1..c : s[k] # t[k]}
<1>0. D = {} => s = t
  <2>1. ASSUME D = {} PROVE \A k \in 1..c : s[k] = t[k]
    BY <2>1
  <2> HIDE DEF D
  <2>2. s = [k \in 1..c |-> s[k]] /\ t = [k \in 1..c |-> t[k]]
    OBVIOUS
  <2> QED BY <2>1, <2>2
<1>1. SUFFICES ASSUME D # {}
               PROVE  FALSE
  BY <1>0
<1>2. PICK k \in D : \A j \in D : k <= j
  <2>1. D \in SUBSET Nat
    OBVIOUS
  <2> HIDE DEF D
  <2> QED BY <1>1, <2>1, LeastExists
<1>3. k \in 1..c /\ s[k] # t[k] /\ s[k] \in S /\ t[k] \in S
  OBVIOUS
<1>4. \A j \in 1..c : j < k => s[j] = t[j]
  BY <1>2
<1>5. PICK i \in 1..c : t[i] = s[k]
  BY <1>3
<1>6. PICK j \in 1..c : s[j] = t[k]
  BY <1>3
<1>7. k < i
  <2>1. i # k
    BY <1>3, <1>5
  <2>2. ~(i < k)
    <3>1. ASSUME i < k PROVE FALSE
      <4>1. s[i] = s[k] /\ i # k
        BY <1>3, <1>4, <1>5, <3>1
      <4> QED BY <1>3, <4>1
    <3> QED BY <3>1
  <2> QED BY <1>3, <2>1, <2>2
<1>8. k < j
  <2>1. j # k
    BY <1>3, <1>6
  <2>2. ~(j < k)
    <3>1. ASSUME j < k PROVE FALSE
      <4>1. t[j] = t[k] /\ j # k
        BY <1>3, <1>4, <1>6, <3>1
      <4> QED BY <1>3, <4>1
    <3> QED BY <3>1
  <2> QED BY <1>3, <2>1, <2>2
<1>9. <<s[k], t[k]>> \notin Before /\ <<t[k], s[k]>> \notin Before
  BY <1>3, <1>5, <1>6, <1>7, <1>8
<1> QED BY <1>3, <1>9

(* There is one way to put a set of numbers in order. *)
LEMMA AscendingIsUnique ==
    ASSUME NEW n \in Nat, NEW S \in SUBSET (1..n), NEW s \in [1..Cardinality(S) -> S],
           Increasing(s)
    PROVE  Ascending(S) = s
<1> DEFINE c == Cardinality(S)
           before == {p \in S \X S : p[1] < p[2]}
<1>1. c \in Nat /\ Ascending(S) \in [1..c -> S] /\ Increasing(Ascending(S))
  <2>1. /\ Cardinality(S) \in 0..n /\ Ascending(S) \in [1..Cardinality(S) -> S]
        /\ Increasing(Ascending(S))
    BY AscendingIs
  <2> QED BY <2>1
<1>2. IsFiniteSet(S)
  <2>1. IsFiniteSet(1..n)
    BY FS_Interval
  <2> QED BY <2>1, FS_Subset
<1>3. Complete(S, before)
  <2>1. ASSUME NEW x \in S, NEW y \in S, x # y
        PROVE  <<x, y>> \in before \/ <<y, x>> \in before
    <3>1. x \in 1..n /\ y \in 1..n
      OBVIOUS
    <3>2. x < y \/ y < x
      BY <2>1, <3>1
    <3> QED BY <3>2
  <2> HIDE DEF before
  <2> QED BY <2>1, Zenon DEF Complete
<1>4. ASSUME NEW t \in [1..c -> S], Increasing(t)
      PROVE  Enumerates(t, c, S, before)
  <2>1. \A i, j \in 1..c : i < j => t[i] < t[j]
    BY <1>4 DEF Increasing
  <2>2. \A i \in 1..c : t[i] \in 1..n
    <3> HIDE DEF c
    <3> QED OBVIOUS
  <2>3. \A i, j \in 1..c : i # j => t[i] # t[j]
    <3>1. ASSUME NEW i \in 1..c, NEW j \in 1..c, i # j PROVE t[i] # t[j]
      <4>1. i < j \/ j < i
        BY <1>1, <3>1
      <4>2. t[i] < t[j] \/ t[j] < t[i]
        BY <2>1, <4>1
      <4> QED BY <2>2, <4>2
    <3> QED BY <3>1
  <2>4. \A x \in S : \E i \in 1..c : t[i] = x
    BY <1>2, <2>3, AllAreListed
  <2>5. ASSUME NEW i \in 1..c, NEW j \in 1..c, i < j PROVE <<t[j], t[i]>> \notin before
    <3>1. t[i] < t[j] /\ t[i] \in 1..n /\ t[j] \in 1..n
      BY <2>1, <2>2, <2>5
    <3>2. ~(t[j] < t[i])
      BY <3>1
    <3> QED BY <3>2
  <2> HIDE DEF before, c
  <2> QED BY <2>3, <2>4, <2>5, Zenon DEF Enumerates
<1>5. Enumerates(s, c, S, before) /\ Enumerates(Ascending(S), c, S, before)
  BY <1>1, <1>4
<1> QED BY <1>1, <1>3, <1>5, OrderIsUnique

(* Picking one more row than the rows before it: it comes last. *)
Grown(s, I, n) ==
    LET c == Cardinality(I)
        J == I \cup {n}
    IN  /\ c \in Nat /\ Cardinality(J) = c + 1
        /\ DOMAIN Elements(s, I) = 1..c
        /\ Elements(s, J) = [k \in 1..(c + 1) |-> IF k = c + 1 THEN s[n]
                                                 ELSE Elements(s, I)[k]]

LEMMA ElementsGrow ==
    ASSUME NEW n \in Nat, NEW s, NEW I \in SUBSET (1..n)
    PROVE  Grown(s, I, n + 1)
<1> DEFINE c == Cardinality(I)
           J == I \cup {n + 1}
           up == Ascending(I)
           t == [k \in 1..(c + 1) |-> IF k = c + 1 THEN n + 1 ELSE up[k]]
<1>1. c \in Nat /\ up \in [1..c -> I] /\ Increasing(up)
  BY AscendingIs
<1>2. Cardinality(J) = c + 1
  <2>1. IsFiniteSet(1..n)
    BY FS_Interval
  <2>2. IsFiniteSet(I)
    BY <2>1, FS_Subset
  <2>3. n + 1 \notin I
    OBVIOUS
  <2> QED BY <2>2, <2>3, FS_AddElement
<1>3. \A i, j \in 1..c : i < j => up[i] < up[j]
  BY <1>1 DEF Increasing
<1> HIDE DEF up, c
<1>4. \A i \in 1..c : up[i] \in I /\ up[i] \in 1..n
  BY <1>1
<1>5. t \in [1..(c + 1) -> J]
  BY <1>1, <1>4
<1>6. Increasing(t)
  <2>1. ASSUME NEW i \in 1..(c + 1), NEW j \in 1..(c + 1), i < j PROVE t[i] < t[j]
    <3>1. i \in 1..c /\ t[i] = up[i]
      BY <1>1, <2>1
    <3>2. CASE j = c + 1
      <4>1. t[j] = n + 1
        BY <3>2
      <4>2. up[i] \in 1..n
        BY <1>4, <3>1
      <4> HIDE DEF t
      <4> QED BY <3>1, <4>1, <4>2
    <3>3. CASE j # c + 1
      <4>1. j \in 1..c /\ t[j] = up[j]
        BY <1>1, <3>3
      <4> HIDE DEF t
      <4> QED BY <1>3, <2>1, <3>1, <4>1
    <3> QED BY <3>2, <3>3
  <2>2. DOMAIN t = 1..(c + 1)
    OBVIOUS
  <2> HIDE DEF t
  <2> QED BY <2>1, <2>2 DEF Increasing
<1>7. Ascending(J) = t
  <2>1. J \in SUBSET (1..(n + 1)) /\ n + 1 \in Nat
    OBVIOUS
  <2> HIDE DEF J, t
  <2> QED BY <1>2, <1>5, <1>6, <2>1, AscendingIsUnique
<1>8. Elements(s, J) = [k \in 1..(c + 1) |-> s[t[k]]]
  <2> HIDE DEF t, J
  <2> QED BY <1>2, <1>7 DEF Elements
<1>9. Elements(s, I) = [k \in 1..c |-> s[up[k]]]
  BY DEF Elements, up, c
<1>10. \A k \in 1..(c + 1) : s[t[k]] = IF k = c + 1 THEN s[n + 1] ELSE Elements(s, I)[k]
  <2>1. ASSUME NEW k \in 1..(c + 1)
        PROVE  s[t[k]] = IF k = c + 1 THEN s[n + 1] ELSE Elements(s, I)[k]
    <3>1. CASE k = c + 1
      BY <3>1
    <3>2. CASE k # c + 1
      <4>1. k \in 1..c /\ t[k] = up[k]
        BY <1>1, <3>2
      <4>2. Elements(s, I)[k] = s[up[k]]
        BY <1>9, <4>1
      <4> QED BY <3>2, <4>1, <4>2
    <3> QED BY <3>1, <3>2
  <2> QED BY <2>1
<1>11. /\ c \in Nat /\ Cardinality(J) = c + 1 /\ DOMAIN Elements(s, I) = 1..c
       /\ Elements(s, J) = [k \in 1..(c + 1) |-> IF k = c + 1 THEN s[n + 1]
                                                 ELSE Elements(s, I)[k]]
  <2>1. DOMAIN Elements(s, I) = 1..c
    BY <1>9
  <2> HIDE DEF t, J
  <2>2. [k \in 1..(c + 1) |-> s[t[k]]]
           = [k \in 1..(c + 1) |-> IF k = c + 1 THEN s[n + 1] ELSE Elements(s, I)[k]]
    BY <1>10
  <2> QED BY <1>1, <1>2, <1>8, <2>1, <2>2
<1> QED BY <1>11 DEF c, Grown
=============================================================================
