---------------------------- MODULE MCIconCache ----------------------------
(***************************************************************************)
(* An instance of IconCache: three paths in two lists of two rows, and a   *)
(* cache that evicts when it holds two.                                    *)
(***************************************************************************)
EXTENDS IconCache

CONSTANTS pathA, pathB, pathC

TwoLists == {<<pathA, pathB>>, <<pathC, pathA>>}
=============================================================================
