----------------------------- MODULE ResultSort -----------------------------
(***************************************************************************)
(* How the list of results is sorted by a column (gui/main_dialog.hpp,     *)
(* util/sort_utils.hpp): the comparison, the test whether the list is      *)
(* sorted already, and the sort by keys, which moves the results along the *)
(* cycles of a permutation.  A list is a sequence of results in the order  *)
(* it is shown, a result a record with drive, visit and depth.             *)
(***************************************************************************)
EXTENDS Ranking, Sequences, SequencesExt

CONSTANTS
    File(_),    \* of a result: name, length, allocated, bulkiness
    SizeBits    \* width of an unsigned long long

ASSUME SizeBitsAssumption == SizeBits \in Nat \ {0}

\* The columns the comparator compares results for, and those it makes keys for.
ByName == {"name"}
ByKey == {"size", "allocated"}
Columns == ByName \union ByKey \union {"descendants"}

\* The keys that were held when a column was clicked.
Variations == [alt : BOOLEAN, shift : BOOLEAN]

\* Mutant: the difference is not moved to the middle of the range.
KeyUnbiased(column, variation, r) ==
    <<IF variation.shift THEN 65535 - r.depth ELSE 0,
      CASE column = "size" /\ variation.alt -> (File(r).length - File(r).allocated) % 2 ^ SizeBits
        [] column = "size" /\ ~variation.alt -> File(r).length
        [] column = "allocated" /\ variation.alt -> File(r).bulkiness
        [] OTHER -> File(r).allocated>>

\* ResultCompare::operator() of one result.  With Alt, sizes are sorted by the space
\* saved, whose sign is kept by moving zero to the middle of the range.
Key(column, variation, r) ==
    <<IF variation.shift THEN 65535 - r.depth ELSE 0,
      CASE column = "size" /\ variation.alt ->
              (File(r).length - File(r).allocated - 2 ^ SizeBits \div 2) % 2 ^ SizeBits
        [] column = "size" /\ ~variation.alt -> File(r).length
        [] column = "allocated" /\ variation.alt -> File(r).bulkiness
        [] OTHER -> File(r).allocated>>

\* result_type::operator<.
KeyLess(k, l) == k[1] < l[1] \/ (k[1] = l[1] /\ k[2] < l[2])

\* operator() of two results: with Shift, of two at different levels either may be less.
Less(column, variation, a, b) ==
    \/ variation.shift /\ a.depth < b.depth
    \/ IF column \in ByName
       THEN File(a).name < File(b).name
       ELSE KeyLess(Key(column, variation, a), Key(column, variation, b))

\* is_sorted_ex().
IsSortedEx(list, column, variation, reversed) ==
    \A i \in 1 .. Len(list) - 1 :
        IF reversed
        THEN ~Less(column, variation, list[i], list[i + 1])
        ELSE ~Less(column, variation, list[i + 1], list[i])

\* The positions in a list in the order of their keys, or of their names.
Order(list, column, variation) ==
    LET key == [i \in DOMAIN list |->
            IF column \in ByName THEN <<0, File(list[i]).name>> ELSE Key(column, variation, list[i])]
        before == {p \in (DOMAIN list) \X (DOMAIN list) :
            \/ KeyLess(key[p[1]], key[p[2]])
            \/ ~KeyLess(key[p[2]], key[p[1]]) /\ p[1] < p[2]}
    IN Ranked(DOMAIN list, before)

Swapped(list, i, j) == [list EXCEPT ![i] = list[j], ![j] = list[i]]

-----------------------------------------------------------------------------
(***************************************************************************)
(* stable_sort_by_key() after its keys are sorted: the second parts of the *)
(* keys, the cycle and the position in it, and the list.                   *)
(***************************************************************************)
PlacingBegun(list, order) == [second |-> order, i |-> 1, j |-> 1, list |-> list]

Placed(p) == p.i > Len(p.list)

\* Mutant: positions are not marked as done.
PlaceNextUnmarked(p) ==
    LET j == p.second[p.j]
    IN IF j = p.i
       THEN [p EXCEPT !.i = @ + 1, !.j = p.i + 1]
       ELSE [p EXCEPT !.j = j, !.list = Swapped(@, j, p.second[j])]

\* One round of the inner loop: a position is marked as done, and the cycle ends or two
\* results change places.
PlaceNext(p) ==
    LET j == p.second[p.j]
        second == [p.second EXCEPT ![p.j] = p.j]
    IN IF j = p.i
       THEN [p EXCEPT !.second = second, !.i = @ + 1, !.j = p.i + 1]
       ELSE [p EXCEPT !.second = second, !.j = j, !.list = Swapped(@, j, second[j])]
=============================================================================
