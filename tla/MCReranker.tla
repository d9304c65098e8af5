----------------------------- MODULE MCReranker -----------------------------
(***************************************************************************)
(* Small instances of Reranker for TLC.                                    *)
(***************************************************************************)
EXTENDS Reranker

CONSTANTS c1, c2, c3

TwoCallers == {c1, c2}
ThreeCallers == {c1, c2, c3}
=============================================================================
