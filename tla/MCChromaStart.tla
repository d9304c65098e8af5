--------------------------- MODULE MCChromaStart ---------------------------
(***************************************************************************)
(* Small instances of ChromaStart for TLC.                                 *)
(***************************************************************************)
EXTENDS ChromaStart, TLC

CONSTANTS i1, i2, k1, k2

OneItem == {i1}
TwoItems == {i1, i2}
TwoConfigs == {k1, k2}
AnyFailure == {"reset", "unlink", "modify"}
=============================================================================
