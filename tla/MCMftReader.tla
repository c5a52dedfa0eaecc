---------------------------- MODULE MCMftReader ----------------------------
(***************************************************************************)
(* A small volume for MftReader: clusters of two records, reads of two     *)
(* clusters, a $DATA of two extents in three chunks (2, 1 and 1 clusters)  *)
(* and a $BITMAP of two extents of one cluster each.                       *)
(***************************************************************************)
EXTENDS MftReader

CONSTANTS w1, w2

TwoBitmapExtents == <<1, 2>>
TwoDataExtents   == <<3, 4>>

\* All records in use; only the first and the last cluster half used; a whole
\* chunk unused; the middle of a chunk unused.
FourDisks == {0 .. 7, {0, 7}, {2, 5, 6}, {1, 2, 3}}

\* Disks of a volume whose $DATA has room for more records than are valid.
SlackDisks == {0 .. 4, {0, 3}}

AllDisks == FourDisks \cup SlackDisks

ValidRecords == [d \in AllDisks |-> IF d \in FourDisks THEN 8 ELSE 5]
SlackRecords == [d \in SlackDisks |-> 5]
=============================================================================
