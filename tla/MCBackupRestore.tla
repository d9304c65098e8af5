--------------------------- MODULE MCBackupRestore ---------------------------
(***************************************************************************)
(* Small instances of BackupRestore for TLC.                               *)
(***************************************************************************)
EXTENDS BackupRestore

CONSTANTS j1, j2, sqlite, vectors

OneJob == {j1}
TwoJobs == {j1, j2}
NoJob == {}
OnePart == {sqlite}
TwoParts == {sqlite, vectors}

NoFailure == {}
AnyFailure == {"touch", "tar", "hash", "rotate", "server", "list", "move", "extract",
               "diagnose", "wipe"}
ListFailure == {"list"}
\* Without those after which the code gives a file up, or the whole directory.
RecoverableFailures == {"touch", "tar", "hash", "rotate", "extract", "diagnose"}
=============================================================================
