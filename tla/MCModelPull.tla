---------------------------- MODULE MCModelPull ----------------------------
(***************************************************************************)
(* Small instances of ModelPull for TLC.                                   *)
(***************************************************************************)
EXTENDS ModelPull

CONSTANTS p1, p2, t1, t2

TwoPages == {p1, p2}
TwoThreads == {t1, t2}
=============================================================================
