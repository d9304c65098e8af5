--------------------------- MODULE MCSyncPipeline ---------------------------
(***************************************************************************)
(* Small instances of SyncPipeline for TLC.                                *)
(***************************************************************************)
EXTENDS SyncPipeline, TLC

CONSTANTS s1, s2, a, b, c, v1, v2, blank

AllJobs == {"full", "force", "single", "batch", "cli"}
Buttons == {"full", "single"}
OnlyFull == {"full"}

OneSession == {s1}
TwoSessions == {s1, s2}
OnePath == {a}
TwoPaths == {a, b}
ThreePaths == {a, b, c}
OneContent == {v1}
TwoContents == {v1, v2}
WithBlank == {v1, blank}
NoBlank == {}
OneBlank == {blank}
TwoParsers == {"manual", "docling"}
OneParser == {"manual"}

AllPdf == [p \in Paths |-> "pdf"]
EachKind == a :> "md" @@ b :> "pdf" @@ c :> "hwp"
OwnNames == [p \in Paths |-> p]
SameName == [p \in Paths |-> a]

\* Where all files are of one kind, with names of their own, and no content is
\* blank, exchanging two files or two contents maps behaviours to behaviours.
Symmetry == Permutations(Paths) \cup Permutations(Contents)
=============================================================================
