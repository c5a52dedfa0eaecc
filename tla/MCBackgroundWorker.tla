------------------------- MODULE MCBackgroundWorker -------------------------
(***************************************************************************)
(* Instances of BackgroundWorker: thunks t1, t2 and t3; only t3 may return *)
(* false.                                                                  *)
(***************************************************************************)
EXTENDS BackgroundWorker

CONSTANTS t1, t2, t3
=============================================================================
