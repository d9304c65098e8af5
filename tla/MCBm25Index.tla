---------------------------- MODULE MCBm25Index ----------------------------
(***************************************************************************)
(* Small instances of Bm25Index for TLC.                                   *)
(***************************************************************************)
EXTENDS Bm25Index, TLC

CONSTANTS d1, d2, app, job

TwoSids == {d1, d2}
OneSid == {d1}
JustApp == {app}
AppAndJob == {app, job}
OneBlank == {2}
NoBlank == {}
NoMixes == [f \in ToSet(CacheFiles) |-> {}]

\* The two versions of one file have the same length, and so do the writes.
MixOfTwo ==
    [NoMixes EXCEPT !["corpus"] =
        {<<[sid |-> d1, version |-> 1], [sid |-> d1, version |-> 2]>>}]

SidSymmetry == Permutations(TwoSids)
=============================================================================
