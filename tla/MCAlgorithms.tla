---------------------------- MODULE MCAlgorithms ----------------------------
(* Instances of Algorithms for TLC. *)
EXTENDS Algorithms

CONSTANTS s1, s2, s3, s4

\* Streams that are alike.
Alike == Permutations(Streams)

MCCharacters == {"C", "c", "a", ":", Separator, Star, Question}

MCRoot == <<"C", ":", Separator>>

MCNames == {<<"C">>, <<"C", "a">>}

Letters == {"c", "a", Separator, Star, Question}

\* Patterns by character, such that name the drive, and such built from groups.
Short == BoundedSeq(Letters, 4)
OnDrive == {<<"C", ":">> \o p : p \in BoundedSeq({"c", Separator, Star, Question}, 4)}
OddDrive == {<<"c", ":">> \o p : p \in BoundedSeq({"c", Separator, Star}, 2)}
Grouped == {FlattenSeq(p) :
              p \in BoundedSeq({<<Star, Star>>, <<Star>>, <<Separator>>, <<"c">>}, 5)}
Deep == {<<start, Separator>> \o FlattenSeq([i \in 1 .. n |-> <<Star, Star, Separator>>]) \o rest :
            start \in {Star, "c"}, n \in 1 .. 4, rest \in {<<>>, <<"c">>, <<Star, Star>>}}

\* An MFT in one, two and three extents, the last nearest; with records of
\* two sectors in clusters of four, of two and of one; with slack, full, and
\* grown beyond the extents when its size is asked for; and none.
Extent(next, lcn) == [next |-> next, lcn |-> lcn]
MCMfts ==
    {[extents |-> e, cluster |-> c, record |-> 2, sizes |-> {s, s + 3, s + 9}] :
        e \in {<<>>, <<Extent(2, 7)>>, <<Extent(1, 7), Extent(3, 2)>>,
              <<Extent(1, 7), Extent(2, 4), Extent(4, 0)>>},
        c \in {1, 2, 4}, s \in {2, 3, 5}}

MCPatterns == Short \union OnDrive \union OddDrive \union Grouped \union Deep

\* Last words that differ between versions or not, and may be a version's number.
MCContents == {<<1, 2, 3, 0>>, <<2, 2, 1, 0>>}
=============================================================================
