-------------------------------- MODULE Ordering --------------------------------
(***************************************************************************)
(* What the code does with filter and sort: the numbers of a set in order, *)
(* and the elements of a sequence at some of its indices.                  *)
(***************************************************************************)
EXTENDS Integers, FiniteSets

Ascending(S) ==
    CHOOSE s \in [1..Cardinality(S) -> S] : \A i, j \in DOMAIN s : i < j => s[i] < s[j]

Descending(S) ==
    LET up == Ascending(S)
    IN  [k \in 1..Cardinality(S) |-> up[Cardinality(S) + 1 - k]]

Elements(s, I) ==
    LET at == Ascending(I) IN [k \in 1..Cardinality(I) |-> s[at[k]]]
=============================================================================
