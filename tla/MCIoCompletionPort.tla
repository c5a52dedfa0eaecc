------------------------- MODULE MCIoCompletionPort -------------------------
(***************************************************************************)
(* Small instances of IoCompletionPort for TLC.                            *)
(***************************************************************************)
EXTENDS IoCompletionPort

CONSTANTS w1, w2, main, j1, r1, r2, r3, f1, f2

OneFile  == [r \in Reads |-> f1]
TwoFiles == [r \in Reads |-> IF r = r2 THEN f2 ELSE f1]
=============================================================================
