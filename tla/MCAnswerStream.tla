--------------------------- MODULE MCAnswerStream ---------------------------
(***************************************************************************)
(* Small instances of AnswerStream for TLC.                                *)
(***************************************************************************)
EXTENDS AnswerStream

CONSTANTS s1, s2

OneStream == {s1}
TwoStreams == {s1, s2}
NoFailure == {}
AnyFailure == {"lookup", "search", "store"}
=============================================================================
