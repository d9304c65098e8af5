---------------------------- MODULE BackupRestore ----------------------------
(***************************************************************************)
(* Backup and restore of the vector database (vector_db/backup_manager.py).*)
(* A job is one call of backup_chromadb or restore_chromadb: a background  *)
(* task of the API, or a process started by cron or an administrator.      *)
(*                                                                         *)
(* The database is a directory of files; a file is known by the number of  *)
(* the write it is from.  The lock is a file of that directory too, so it  *)
(* is moved away and put back with the others.  Archives and the           *)
(* directories that keep the old files are named after the second they     *)
(* were made in.                                                           *)
(***************************************************************************)
EXTENDS Naturals, FiniteSets

CONSTANTS
    Jobs,        \* calls that may run at a time
    Cli,         \* those that run in a process of their own
    Parts,       \* the files of the database
    Sqlite,      \* the one that diagnose_db opens
    Limit,       \* rotation_limit
    Server,      \* CHROMA_SERVER_HOST is set
    Failing,     \* the calls that may fail
    Missing, Empty, Torn, NoHash, NoStamp, LockFile,
    MaxTime,     \* bound: seconds
    MaxWrites,   \* bound: writes to the database
    MaxFaults    \* bound: failing calls and crashes

Stamps == 0..MaxTime
Writes == 0..MaxWrites
Databases == [Parts -> Writes \cup {Missing, Empty}]

ASSUME ConstantsOK ==
    /\ Cli \subseteq Jobs
    /\ Sqlite \in Parts /\ LockFile \notin Parts
    /\ Limit \in Nat \ {0}
    /\ Server \in BOOLEAN
    /\ Failing \subseteq {"touch", "tar", "hash", "rotate", "server", "list", "move",
                          "extract", "diagnose", "wipe"}
    /\ Missing \notin Writes /\ Empty \notin Writes /\ Missing # Empty
    /\ Torn \notin Databases /\ NoHash \notin Databases /\ Torn # NoHash
    /\ NoStamp \notin Stamps
    /\ MaxTime \in Nat /\ MaxWrites \in Nat /\ MaxFaults \in Nat

VARIABLES
    live,      \* VECTOR_DB_DIR: its files
    lock,      \* the lock file is among them
    parked,    \* vector_db_temp_<second>: the files of the database, and the lock
    archive,   \* BACKUP_DIR: the archives and their .sha256 files
    status,    \* backup_status.json
    pc, job,   \* per job: program point, locals
    now, written, faults

disk == <<live, lock, parked, archive, status>>
vars == <<disk, pc, job, now, written, faults>>

PCs == {"idle", "lock", "touch", "wait", "tar", "hash", "rotate", "undo",
        "server", "list", "move", "extract", "commit", "wipe", "putback"}

Archives == [state : {"none", "open", "closed"}, db : Databases,
             hash : Databases \cup {Torn, NoHash}, mtime : Stamps]

\* before and quiet are history: the database when the restore began, and
\* whether nothing was written to it since.
Locals == [kind : {"none", "backup", "restore"}, archive : Stamps \cup {NoStamp},
           temp : Stamps \cup {NoStamp}, inside : BOOLEAN, entered : BOOLEAN,
           left : SUBSET (Parts \cup {LockFile}), source : Databases,
           before : Databases, quiet : BOOLEAN]

NoDb == [p \in Parts |-> Missing]
NoArchive == [state |-> "none", db |-> NoDb, hash |-> NoHash, mtime |-> 0]
NoLocals == [kind |-> "none", archive |-> NoStamp, temp |-> NoStamp,
             inside |-> FALSE, entered |-> FALSE, left |-> {}, source |-> NoDb,
             before |-> NoDb, quiet |-> TRUE]
NothingParked == [db |-> NoDb, lock |-> FALSE]

TypeOK ==
    /\ live \in Databases /\ lock \in BOOLEAN
    /\ parked \in [Stamps -> [db : Databases, lock : BOOLEAN]]
    /\ archive \in [Stamps -> Archives]
    /\ status \in [state : {"idle", "running", "completed", "failed"},
                   target : Stamps \cup {NoStamp}]
    /\ pc \in [Jobs -> PCs] /\ job \in [Jobs -> Locals]
    /\ \A j \in Jobs : pc[j] = "idle" <=> job[j] = NoLocals
    /\ now \in Stamps /\ written \in Writes /\ faults \in 0..MaxFaults

Init ==
    /\ live = [p \in Parts |-> 0] /\ lock = FALSE
    /\ parked = [t \in Stamps |-> NothingParked]
    /\ archive = [t \in Stamps |-> NoArchive]
    /\ status = [state |-> "idle", target |-> NoStamp]
    /\ pc = [j \in Jobs |-> "idle"] /\ job = [j \in Jobs |-> NoLocals]
    /\ now = 0 /\ written = 0 /\ faults = 0

-----------------------------------------------------------------------------

Goto(j, label) == pc' = [pc EXCEPT ![j] = label]

\* Mutant: the locals outlive the call.
EndJobKept(j) == Goto(j, "idle") /\ UNCHANGED job

EndJob(j) == Goto(j, "idle") /\ job' = [job EXCEPT ![j] = NoLocals]
Report(state, target) == status' = [state |-> state, target |-> target]
Fault(call) == call \in Failing /\ faults < MaxFaults /\ faults' = faults + 1

Exists(a) == archive[a].state # "none"
Present(db) == {p \in Parts : db[p] # Missing}
Items(db, withLock) == Present(db) \cup {f \in {LockFile} : withLock}

\* Where a call that raises continues: the except clause of its function.
OnError(j) == IF job[j].kind = "backup" THEN "undo" ELSE "wipe"

\* An error leaves the with statement: the lock file is deleted, whoever made it.
Raise(j) ==
    /\ lock' = FALSE
    /\ Goto(j, OnError(j))
    /\ job' = [job EXCEPT ![j].inside = FALSE, ![j].left = {}]

\* verify_hash_sidecar: an archive without a hash file passes.
Verified(a) ==
    \/ archive[a].hash = NoHash
    \/ archive[a].state = "closed" /\ archive[a].hash = archive[a].db

-----------------------------------------------------------------------------
(* Starting, and _operation_lock.                                          *)

StartBackup(j) ==
    /\ pc[j] = "idle" /\ now < MaxTime
    /\ Report("running", NoStamp)
    /\ job' = [job EXCEPT ![j] = [NoLocals EXCEPT !.kind = "backup", !.archive = now]]
    /\ Goto(j, "lock")
    /\ UNCHANGED <<live, lock, parked, archive, now, written, faults>>

\* The newest backup or the one that was asked for; the API takes any name.
StartRestore(j) ==
    /\ pc[j] = "idle"
    /\ \E a \in Stamps :
          \/ /\ Exists(a) /\ Verified(a)
             /\ Report("running", a)
             /\ job' = [job EXCEPT ![j] = [NoLocals EXCEPT !.kind = "restore",
                                               !.archive = a, !.before = live]]
             /\ Goto(j, "lock")
          \/ /\ ~(Exists(a) /\ Verified(a))
             /\ Report("failed", NoStamp)
             /\ UNCHANGED <<pc, job>>
    /\ UNCHANGED <<live, lock, parked, archive, now, written, faults>>

\* Mutant: a lock file that exists is waited for.
WaitForLock(j) ==
    /\ pc[j] = "lock" /\ ~lock
    /\ Goto(j, "touch")
    /\ UNCHANGED <<disk, job, now, written, faults>>

\* A lock file that exists raises before there is anything to clean up ...
CheckLock(j) ==
    /\ pc[j] = "lock"
    /\ Goto(j, IF lock THEN OnError(j) ELSE "touch")
    /\ UNCHANGED <<disk, job, now, written, faults>>

\* ... one that was made in between raises inside, where it is deleted.
TouchLock(j) ==
    /\ pc[j] = "touch"
    /\ \/ /\ ~lock /\ lock' = TRUE
          /\ Goto(j, IF job[j].kind = "backup" THEN "wait"
                     ELSE IF Server THEN "server" ELSE "list")
          /\ job' = [job EXCEPT ![j].inside = TRUE, ![j].entered = TRUE]
       \/ lock /\ Raise(j)
    /\ UNCHANGED <<live, parked, archive, status, now, written, faults>>

\* Mutant: a file that cannot be extracted is logged and the rest skipped.
CallFailsLogged(j) ==
    /\ pc[j] = "extract" /\ Fault(pc[j])
    /\ job' = [job EXCEPT ![j].left = {}]
    /\ UNCHANGED <<disk, pc, now, written>>

\* _move_existing_db raises when the directory cannot be read or the one for the
\* kept files not be made: before anything was moved, and temp is not assigned.
CallFails(j) ==
    /\ pc[j] \in {"touch", "tar", "hash", "list", "extract"} /\ Fault(pc[j])
    /\ Raise(j)
    /\ UNCHANGED <<live, parked, archive, status, now, written>>

-----------------------------------------------------------------------------
(* backup_chromadb.                                                        *)

\* _wait_for_stable_snapshot sleeps a second at least and its answer is ignored.
OpenArchive(j) ==
    /\ pc[j] = "wait" /\ now > job[j].archive
    /\ archive' = [archive EXCEPT ![job[j].archive].state = "open",
                                  ![job[j].archive].db = NoDb,
                                  ![job[j].archive].mtime = now]
    /\ job' = [job EXCEPT ![j].left = Present(live)]
    /\ Goto(j, "tar")
    /\ UNCHANGED <<live, lock, parked, status, now, written, faults>>

\* A file that is gone by now raises.  An archive that was deleted meanwhile is
\* written to no avail.
ArchivePart(j) ==
    /\ pc[j] = "tar"
    /\ \E p \in job[j].left :
          \/ /\ live[p] # Missing
             /\ archive' = IF Exists(job[j].archive)
                           THEN [archive EXCEPT ![job[j].archive].db[p] = live[p]]
                           ELSE archive
             /\ job' = [job EXCEPT ![j].left = @ \ {p}]
             /\ UNCHANGED <<lock, pc>>
          \/ /\ live[p] = Missing
             /\ Raise(j)
             /\ UNCHANGED archive
    /\ UNCHANGED <<live, parked, status, now, written, faults>>

CloseArchive(j) ==
    /\ pc[j] = "tar" /\ job[j].left = {}
    /\ archive' = IF Exists(job[j].archive)
                  THEN [archive EXCEPT ![job[j].archive].state = "closed",
                                       ![job[j].archive].mtime = now]
                  ELSE archive
    /\ Goto(j, "hash")
    /\ UNCHANGED <<live, lock, parked, status, job, now, written, faults>>

\* _generate_hash_sidecar.  The success is reported before the rotation.
WriteHash(j) ==
    /\ pc[j] = "hash"
    /\ \/ /\ Exists(job[j].archive)
          /\ archive' = [archive EXCEPT ![job[j].archive].hash = archive[job[j].archive].db]
          /\ Report("completed", job[j].archive)
          /\ Goto(j, "rotate")
          /\ UNCHANGED <<lock, job>>
       \/ /\ ~Exists(job[j].archive)
          /\ Raise(j)
          /\ UNCHANGED <<archive, status>>
    /\ UNCHANGED <<live, parked, now, written, faults>>

\* Mutant: one archive less is kept.
RotatedByOneMore ==
    LET all == {a \in Stamps : Exists(a)} IN
    {old \in SUBSET all :
        /\ Cardinality(all) < Limit => old = {}
        /\ Cardinality(all) >= Limit => Cardinality(all \ old) = Limit - 1
        /\ \A a \in old, b \in all \ old : archive[a].mtime <= archive[b].mtime}

\* Mutant: the newest archives are deleted.
RotatedFromNewest ==
    LET all == {a \in Stamps : Exists(a)} IN
    {old \in SUBSET all :
        /\ Cardinality(all) <= Limit => old = {}
        /\ Cardinality(all) > Limit => Cardinality(all \ old) = Limit
        /\ \A a \in old, b \in all \ old : archive[a].mtime >= archive[b].mtime}

\* What rotate_backups may choose to delete: all but the Limit newest.
Rotated ==
    LET all == {a \in Stamps : Exists(a)} IN
    {old \in SUBSET all :
        /\ Cardinality(all) <= Limit => old = {}
        /\ Cardinality(all) > Limit => Cardinality(all \ old) = Limit
        /\ \A a \in old, b \in all \ old : archive[a].mtime <= archive[b].mtime}

Deleted(old) == [a \in Stamps |-> IF a \in old THEN NoArchive ELSE archive[a]]

\* The lock is released on the way out, or when a file cannot be deleted: an
\* archive or, with the archive gone already, its hash.
Rotate(j) ==
    /\ pc[j] = "rotate"
    /\ \E old \in Rotated :
          \/ /\ archive' = Deleted(old)
             /\ lock' = FALSE
             /\ EndJob(j)
             /\ UNCHANGED faults
          \/ \E part \in SUBSET old :
                /\ old # {} /\ Fault("rotate")
                /\ archive' = Deleted(part)
                /\ Raise(j)
    /\ UNCHANGED <<live, parked, status, now, written>>

\* Whatever failed, an archive with the name of this job is deleted.
UndoBackup(j) ==
    /\ pc[j] = "undo"
    /\ Report("failed", NoStamp)
    /\ archive' = Deleted({job[j].archive})
    /\ EndJob(j)
    /\ UNCHANGED <<live, lock, parked, now, written, faults>>

-----------------------------------------------------------------------------
(* restore_chromadb.                                                       *)

\* _release_chromadb_locks: the server empties its database.  Errors are ignored.
ReleaseServer(j) ==
    /\ pc[j] = "server"
    /\ \/ /\ live' = [p \in Parts |-> IF p = Sqlite THEN Empty ELSE Missing]
          /\ UNCHANGED faults
       \/ Fault("server") /\ UNCHANGED live
    /\ Goto(j, "list")
    /\ UNCHANGED <<lock, parked, archive, status, job, now, written>>

\* _move_existing_db: with nothing there, not even a lock, there is nothing to keep.
ListExisting(j) ==
    /\ pc[j] = "list"
    /\ LET items == Items(live, lock) IN
       job' = [job EXCEPT ![j].left = items,
                          ![j].temp = IF items = {} THEN NoStamp ELSE now]
    /\ Goto(j, "move")
    /\ UNCHANGED <<disk, now, written, faults>>

\* An item that cannot be moved, or is gone, is passed over.
MoveItem(j) ==
    /\ pc[j] = "move"
    /\ \E item \in job[j].left :
          /\ job' = [job EXCEPT ![j].left = @ \ {item}]
          /\ \/ /\ item \in Items(live, lock)
                /\ parked' = [parked EXCEPT ![job[j].temp] =
                       IF item = LockFile THEN [@ EXCEPT !.lock = TRUE]
                       ELSE [@ EXCEPT !.db[item] = live[item]]]
                /\ live' = [p \in Parts |-> IF p = item THEN Missing ELSE live[p]]
                /\ lock' = (lock /\ item # LockFile)
                /\ UNCHANGED faults
             \/ /\ item \notin Items(live, lock)
                /\ UNCHANGED <<live, lock, parked, faults>>
             \/ Fault("move") /\ UNCHANGED <<live, lock, parked>>
    /\ UNCHANGED <<archive, status, pc, now, written>>

\* Mutant: does not wait until the old files are out of the way.
OpenBackupAtOnce(j) ==
    /\ pc[j] = "move"
    /\ archive[job[j].archive].state = "closed"
    /\ job' = [job EXCEPT ![j].source = archive[job[j].archive].db,
                          ![j].left = Present(archive[job[j].archive].db)]
    /\ Goto(j, "extract")
    /\ UNCHANGED <<disk, now, written, faults>>

\* An archive that was not finished, or was deleted since, cannot be read.
OpenBackup(j) ==
    /\ pc[j] = "move" /\ job[j].left = {}
    /\ LET source == archive[job[j].archive] IN
       \/ /\ source.state = "closed"
          /\ job' = [job EXCEPT ![j].source = source.db, ![j].left = Present(source.db)]
          /\ Goto(j, "extract")
          /\ UNCHANGED lock
       \/ source.state # "closed" /\ Raise(j)
    /\ UNCHANGED <<live, parked, archive, status, now, written, faults>>

ExtractPart(j) ==
    /\ pc[j] = "extract"
    /\ \E p \in job[j].left :
          /\ live' = [live EXCEPT ![p] = job[j].source[p]]
          /\ job' = [job EXCEPT ![j].left = @ \ {p}]
    /\ UNCHANGED <<lock, parked, archive, status, pc, now, written, faults>>

\* diagnose_db opens the database file and asks for a collection in it.
Diagnose(j) ==
    /\ pc[j] = "extract" /\ job[j].left = {}
    /\ \/ /\ Goto(j, IF live[Sqlite] \in {Missing, Empty} THEN "wipe" ELSE "commit")
          /\ UNCHANGED faults
       \/ Goto(j, "wipe") /\ Fault("diagnose")
    /\ UNCHANGED <<disk, job, now, written>>

\* _remove_previous_db.
Commit(j) ==
    /\ pc[j] = "commit"
    /\ parked' = IF job[j].temp = NoStamp THEN parked
                 ELSE [parked EXCEPT ![job[j].temp] = NothingParked]
    /\ Report("completed", job[j].archive)
    /\ lock' = FALSE
    /\ EndJob(j)
    /\ UNCHANGED <<live, archive, now, written, faults>>

\* _restore_previous_db empties the directory first, the lock file included ...
Wipe(j) ==
    /\ pc[j] = "wipe"
    /\ live' = NoDb /\ lock' = FALSE
    /\ job' = [job EXCEPT ![j].left =
           IF job[j].temp = NoStamp THEN {}
           ELSE Items(parked[job[j].temp].db, parked[job[j].temp].lock)]
    /\ Goto(j, "putback")
    /\ UNCHANGED <<parked, archive, status, now, written, faults>>

\* ... which may stop half way.  After a failed diagnosis it is then tried again,
\* outside of the lock; after an exception it is given up.
WipeFails(j) ==
    /\ pc[j] = "wipe" /\ Fault("wipe")
    /\ \E gone \in SUBSET Parts :
          live' = [p \in Parts |-> IF p \in gone THEN Missing ELSE live[p]]
    /\ IF job[j].inside
       THEN /\ job' = [job EXCEPT ![j].inside = FALSE]
            /\ lock' = FALSE
            /\ UNCHANGED <<pc, status>>
       ELSE /\ Report("failed", job[j].archive)
            /\ EndJob(j)
            /\ UNCHANGED lock
    /\ UNCHANGED <<parked, archive, now, written>>

\* The kept items return, the lock file among them; failures are passed over.
PutBackItem(j) ==
    /\ pc[j] = "putback"
    /\ \E item \in job[j].left :
          /\ job' = [job EXCEPT ![j].left = @ \ {item}]
          /\ \/ /\ live' = [p \in Parts |-> IF p = item THEN parked[job[j].temp].db[p]
                                                        ELSE live[p]]
                /\ lock' = (lock \/ item = LockFile)
                /\ parked' = [parked EXCEPT ![job[j].temp] =
                       IF item = LockFile THEN [@ EXCEPT !.lock = FALSE]
                       ELSE [@ EXCEPT !.db[item] = Missing]]
                /\ UNCHANGED faults
             \/ Fault("move") /\ UNCHANGED <<live, lock, parked>>
    /\ UNCHANGED <<archive, status, pc, now, written>>

\* What did not return goes with its directory.  Leaving the with statement, if
\* this is still inside, deletes the lock file.
EndRestore(j) ==
    /\ pc[j] = "putback" /\ job[j].left = {}
    /\ parked' = IF job[j].temp = NoStamp THEN parked
                 ELSE [parked EXCEPT ![job[j].temp] = NothingParked]
    /\ lock' = (lock /\ ~job[j].inside)
    /\ Report("failed", job[j].archive)
    /\ EndJob(j)
    /\ UNCHANGED <<live, archive, now, written, faults>>

-----------------------------------------------------------------------------
(* The environment.                                                        *)

\* The chatbot's ingestion, which knows nothing of the lock, writes every file.
Write ==
    /\ written < MaxWrites /\ live[Sqlite] # Missing
    /\ written' = written + 1
    /\ live' = [p \in Parts |-> written']
    /\ job' = [j \in Jobs |-> IF pc[j] = "idle" THEN job[j]
                              ELSE [job[j] EXCEPT !.quiet = FALSE]]
    /\ UNCHANGED <<lock, parked, archive, status, pc, now, faults>>

Tick ==
    /\ now < MaxTime
    /\ now' = now + 1
    /\ UNCHANGED <<disk, pc, job, written, faults>>

\* A process ends in the middle: a command, or the API with all its jobs, which
\* deletes the status file when it starts again.  That takes a second or more.
Crash ==
    /\ now < MaxTime /\ faults < MaxFaults
    /\ \E dead \in {{j} : j \in Cli} \cup {Jobs \ Cli} :
          /\ \E j \in dead : pc[j] # "idle"
          /\ pc' = [j \in Jobs |-> IF j \in dead THEN "idle" ELSE pc[j]]
          /\ job' = [j \in Jobs |-> IF j \in dead THEN NoLocals ELSE job[j]]
          /\ \E torn \in SUBSET {job[j].archive : j \in {k \in dead : pc[k] = "hash"}} :
                archive' = [a \in Stamps |-> IF a \in torn /\ Exists(a)
                                             THEN [archive[a] EXCEPT !.hash = Torn]
                                             ELSE archive[a]]
          /\ IF dead \subseteq Cli THEN UNCHANGED status ELSE Report("idle", NoStamp)
    /\ now' = now + 1 /\ faults' = faults + 1
    /\ UNCHANGED <<live, lock, parked, written>>

-----------------------------------------------------------------------------

BackupStep(j) ==
    \/ OpenArchive(j) \/ ArchivePart(j) \/ CloseArchive(j) \/ WriteHash(j)
    \/ Rotate(j) \/ UndoBackup(j)

RestoreStep(j) ==
    \/ ReleaseServer(j) \/ ListExisting(j) \/ MoveItem(j) \/ OpenBackup(j)
    \/ ExtractPart(j) \/ Diagnose(j) \/ Commit(j)
    \/ Wipe(j) \/ WipeFails(j) \/ PutBackItem(j) \/ EndRestore(j)

JobStep(j) ==
    CheckLock(j) \/ TouchLock(j) \/ CallFails(j) \/ BackupStep(j) \/ RestoreStep(j)

Next ==
    \/ \E j \in Jobs : StartBackup(j) \/ StartRestore(j) \/ JobStep(j)
    \/ Write \/ Tick \/ Crash

Spec == Init /\ [][Next]_vars

\* Every job is a thread or a process of its own, and seconds pass.
FairSpec == Spec /\ WF_vars(Tick) /\ \A j \in Jobs : WF_vars(JobStep(j))

-----------------------------------------------------------------------------
(* Properties.                                                             *)

Restoring(j) == job[j].kind = "restore"
Ended(j) == pc[j] # "idle" /\ pc'[j] = "idle" /\ status'.state \in {"completed", "failed"}

\* A restore that got the lock, with nobody writing, ends with the database of
\* the archive if it reports its success, and with the one that was there if it
\* reports a failure, never with a mixture or with nothing (restore_chromadb).
\* It takes that no call fails after which the code itself gives the old files
\* up: the move of a file, the removal of the new ones, the reset of a server,
\* or the listing of the old ones (ListFails.cfg).
RestoreIsAllOrNothing ==
    [][\A j \in Jobs :
          Restoring(j) /\ job[j].entered /\ job[j].quiet /\ Ended(j)
             => live' = IF status'.state = "completed" THEN job[j].source
                        ELSE job[j].before]_vars

\* While a restore is under way every file of the database as it was is still on
\* disk, in its place or in the directory of the kept files (_move_existing_db,
\* _restore_previous_db): whenever the process dies an operator can put it back.
\* It takes what RestoreIsAllOrNothing takes.
OldDbOnDisk ==
    \A j \in Jobs :
       Restoring(j) /\ job[j].entered /\ job[j].quiet =>
          \A p \in Parts :
             \/ live[p] = job[j].before[p]
             \/ job[j].temp # NoStamp /\ parked[job[j].temp].db[p] = job[j].before[p]

\* An archive that a restore accepts and can read to its end.
Usable(a) == archive[a].state = "closed" /\ Verified(a)

\* The archive that the status names as completed can be restored from, also
\* after the rotation that follows the report (backup_chromadb).
CompletedIsUsable ==
    status.state = "completed" => Usable(status.target)

\* The usable archives that no backup is still at work on.
KeptBackups == {a \in Stamps :
    Usable(a) /\ \A j \in Jobs : job[j].kind = "backup" => job[j].archive # a}

\* When at least two archives are kept, one failure or crash never costs the last
\* backup to restore from (rotate_backups and the clean up of backup_chromadb).
\* A second one can: an archive that a crash left unfinished counts as one of the
\* newest, and a rotation that fails half way also undoes the new backup.
UsableBackupRemains ==
    [][Limit >= 2 /\ faults' <= 1 /\ KeptBackups # {} => KeptBackups' # {}]_vars

\* Every backup and restore comes to an end, whatever fails, and whatever a
\* crash left on disk (_operation_lock, _wait_for_stable_snapshot).
OperationEnds == \A j \in Jobs : pc[j] # "idle" ~> pc[j] = "idle"

\* A finished archive holds the files of one moment (scripts/README.md, 48-54: it
\* is compared with the files after it was written, and deleted if they changed).
ArchivesConsistent ==
    \A a \in Stamps : Usable(a) => \A p, q \in Parts : archive[a].db[p] = archive[a].db[q]

\* "Another backup or restore is in progress": one operation at a time
\* (backup_manager.py, 41-43).
OneOperationAtATime == Cardinality({j \in Jobs : job[j].inside}) <= 1

\* A restore that reports a failure has left the database as it was
\* ("the original DB was restored", backup_manager.py, 288).
FailedRestoreKeepsDb ==
    [][\A j \in Jobs :
          Restoring(j) /\ job[j].quiet /\ Ended(j) /\ status'.state = "failed"
             => live' = job[j].before]_vars
=============================================================================
