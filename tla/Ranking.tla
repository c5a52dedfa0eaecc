------------------------------ MODULE Ranking -------------------------------
(***************************************************************************)
(* Sorting as the standard library promises it: positions in the order of  *)
(* a relation, and a list rearranged by its positions.                     *)
(***************************************************************************)
EXTENDS Integers, FiniteSets

\* The elements of a finite set from the first to the last; "before" is a set of pairs.
Ranked(S, before) ==
    [k \in 1 .. Cardinality(S) |->
        CHOOSE i \in S : Cardinality({j \in S : <<j, i>> \in before}) = k - 1]

\* Numbers from the smallest to the greatest.
Ascending(S) == Ranked(S, {p \in S \X S : p[1] < p[2]})

\* The elements of a list at some positions, in the order of these.
Arranged(list, positions) == [k \in DOMAIN positions |-> list[positions[k]]]
=============================================================================
