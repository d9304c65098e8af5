------------------------ MODULE BackupRestoreProofs ------------------------
(***************************************************************************)
(* Theorems about BackupRestore for every set of jobs and files, every     *)
(* rotation limit and every bound.  Type correctness holds for any number  *)
(* of concurrent jobs; that a restore is all or nothing holds for one at a *)
(* time, without a server and if the old files can be listed, moved and    *)
(* put back; what is said of the archives holds for one at a time,         *)
(* whatever fails.                                                         *)
(***************************************************************************)
EXTENDS BackupRestore, FiniteSetTheorems, TLAPS

-----------------------------------------------------------------------------
(* Type correctness.                                                       *)

\* What the locals of a call are at each point of it.
LocalsOK ==
    \A j \in Jobs :
       /\ pc[j] # "idle" => job[j].kind # "none" /\ job[j].archive \in Stamps
       /\ pc[j] \in {"move", "putback"} /\ job[j].left # {} => job[j].temp \in Stamps

TypeInv == TypeOK /\ LocalsOK

ControlOK ==
    /\ pc \in [Jobs -> PCs] /\ job \in [Jobs -> Locals]
    /\ \A j \in Jobs : pc[j] = "idle" <=> job[j] = NoLocals
    /\ LocalsOK

DiskOK ==
    /\ live \in Databases /\ lock \in BOOLEAN
    /\ parked \in [Stamps -> [db : Databases, lock : BOOLEAN]]
    /\ archive \in [Stamps -> Archives]
    /\ status \in [state : {"idle", "running", "completed", "failed"},
                   target : Stamps \cup {NoStamp}]

BoundsOK == now \in Stamps /\ written \in Writes /\ faults \in 0..MaxFaults

LEMMA TypeParts == TypeInv <=> ControlOK /\ DiskOK /\ BoundsOK
BY DEF TypeInv, TypeOK, ControlOK, DiskOK, BoundsOK

LEMMA TypePartsNext == TypeInv' <=> ControlOK' /\ DiskOK' /\ BoundsOK'
BY DEF TypeInv, TypeOK, ControlOK, DiskOK, BoundsOK

\* The records things start from.
LEMMA EmptyTypes ==
    /\ 0 \in Stamps /\ 0 \in Writes
    /\ NoDb \in Databases
    /\ NothingParked \in [db : Databases, lock : BOOLEAN]
    /\ NoArchive \in Archives
    /\ NoLocals \in Locals
    /\ NoLocals.kind = "none" /\ NoLocals.temp = NoStamp
<1>1. 0 \in Stamps /\ 0 \in Writes
  BY ConstantsOK DEF Stamps, Writes
<1>2. NoDb \in Databases
  BY DEF NoDb, Databases
<1>3. NothingParked \in [db : Databases, lock : BOOLEAN]
  BY <1>2 DEF NothingParked
<1>4. NoArchive \in Archives
  BY <1>1, <1>2 DEF NoArchive, Archives
<1>5. NoLocals \in Locals
  BY <1>2 DEF NoLocals, Locals
<1>6. NoLocals.kind = "none" /\ NoLocals.temp = NoStamp
  BY DEF NoLocals
<1> QED BY <1>1, <1>2, <1>3, <1>4, <1>5, <1>6

\* A job that goes on at a point of its call with well-typed locals.
LEMMA GoOn ==
    ASSUME TypeInv, NEW j \in Jobs, NEW label \in PCs \ {"idle"}, NEW r \in Locals,
           pc' = [pc EXCEPT ![j] = label], job' = [job EXCEPT ![j] = r],
           r.kind # "none", r.archive \in Stamps,
           label \in {"move", "putback"} /\ r.left # {} => r.temp \in Stamps
    PROVE  ControlOK'
<1>1. r # NoLocals
  BY EmptyTypes
<1> QED BY <1>1 DEF TypeInv, TypeOK, ControlOK, LocalsOK

\* A job that ends.
LEMMA EndJobType == ASSUME TypeInv, NEW j \in Jobs, EndJob(j) PROVE ControlOK'
BY EmptyTypes DEF TypeInv, TypeOK, ControlOK, LocalsOK, EndJob, Goto, PCs

\* A job that is under way has started somewhere.
LEMMA Underway ==
    ASSUME TypeInv, NEW j \in Jobs, pc[j] # "idle"
    PROVE  /\ job[j] \in Locals /\ job[j].kind \in {"backup", "restore"}
           /\ job[j].archive \in Stamps /\ archive[job[j].archive] \in Archives
BY DEF TypeInv, TypeOK, LocalsOK, Locals

\* Locals of which only the open end of a loop or a flag changes.
LEMMA LocalsTypes ==
    ASSUME NEW r \in Locals
    PROVE  /\ \A left \in SUBSET (Parts \cup {LockFile}) : [r EXCEPT !.left = left] \in Locals
           /\ \A a, b \in BOOLEAN : [r EXCEPT !.inside = a, !.entered = b] \in Locals
           /\ [r EXCEPT !.inside = FALSE] \in Locals
           /\ [r EXCEPT !.inside = FALSE, !.left = {}] \in Locals
BY DEF Locals

LEMMA FaultType == \A call : TypeInv /\ Fault(call) => faults' \in 0..MaxFaults
BY ConstantsOK DEF TypeInv, TypeOK, Fault

LEMMA ItemsType ==
    \A db, withLock : Items(db, withLock) \in SUBSET (Parts \cup {LockFile})
BY DEF Items, Present

LEMMA RaiseType ==
    ASSUME TypeInv, NEW j \in Jobs, pc[j] # "idle", Raise(j) PROVE ControlOK' /\ lock' \in BOOLEAN
<1> DEFINE r == [job[j] EXCEPT !.inside = FALSE, !.left = {}]
<1>1. r \in Locals /\ r.kind = job[j].kind /\ r.archive = job[j].archive /\ r.left = {}
  BY Underway, LocalsTypes DEF Locals
<1>2. job' = [job EXCEPT ![j] = r]
  BY DEF Raise, TypeInv, TypeOK
<1>3. pc' = [pc EXCEPT ![j] = OnError(j)] /\ OnError(j) \in PCs \ {"idle"}
  BY DEF Raise, Goto, OnError, PCs
<1>4. r.kind # "none" /\ r.archive \in Stamps
  BY <1>1, Underway
<1> HIDE DEF r
<1>5. ControlOK'
  BY <1>1, <1>2, <1>3, <1>4, GoOn
<1> QED BY <1>5 DEF Raise

\* Only the program point of a job changes, and not to the head of a loop.
LEMMA MoveOn ==
    ASSUME TypeInv, NEW j \in Jobs, NEW label \in PCs \ {"idle", "move", "putback"},
           pc[j] # "idle", Goto(j, label), job' = job
    PROVE  ControlOK'
BY Underway DEF TypeInv, TypeOK, ControlOK, LocalsOK, Goto

-----------------------------------------------------------------------------
(* Every action keeps the types.                                           *)

LEMMA StartBackupType == ASSUME TypeInv, NEW j \in Jobs, StartBackup(j) PROVE TypeInv'
<1> DEFINE r == [NoLocals EXCEPT !.kind = "backup", !.archive = now]
<1>1. r \in Locals /\ r.kind = "backup" /\ r.archive \in Stamps
  BY EmptyTypes DEF TypeInv, TypeOK, Locals
<1>2. job' = [job EXCEPT ![j] = r] /\ pc' = [pc EXCEPT ![j] = "lock"]
  BY DEF StartBackup, Goto
<1> HIDE DEF r
<1>3. ControlOK'
  BY <1>1, <1>2, GoOn DEF PCs
<1>4. DiskOK' /\ BoundsOK'
  BY DEF StartBackup, Report, TypeInv, TypeOK, DiskOK, BoundsOK
<1> QED BY <1>3, <1>4, TypePartsNext

LEMMA StartRestoreType == ASSUME TypeInv, NEW j \in Jobs, StartRestore(j) PROVE TypeInv'
<1>1. PICK a \in Stamps :
         \/ /\ Report("running", a)
            /\ job' = [job EXCEPT ![j] = [NoLocals EXCEPT !.kind = "restore",
                                              !.archive = a, !.before = live]]
            /\ Goto(j, "lock")
         \/ Report("failed", NoStamp) /\ UNCHANGED <<pc, job>>
  BY DEF StartRestore
<1>2. ControlOK'
  <2> DEFINE r == [NoLocals EXCEPT !.kind = "restore", !.archive = a, !.before = live]
  <2>1. r \in Locals /\ r.kind = "restore" /\ r.archive \in Stamps
    BY EmptyTypes DEF TypeInv, TypeOK, Locals
  <2>2. CASE job' = [job EXCEPT ![j] = r] /\ Goto(j, "lock")
    <3>1. pc' = [pc EXCEPT ![j] = "lock"]
      BY <2>2 DEF Goto
    <3>2. job' = [job EXCEPT ![j] = r]
      BY <2>2
    <3> HIDE DEF r
    <3> QED BY <2>1, <3>1, <3>2, GoOn DEF PCs
  <2>3. CASE UNCHANGED <<pc, job>>
    BY <2>3 DEF TypeInv, TypeOK, ControlOK, LocalsOK
  <2> QED BY <1>1, <2>2, <2>3
<1>3. DiskOK' /\ BoundsOK'
  BY <1>1 DEF StartRestore, Report, TypeInv, TypeOK, DiskOK, BoundsOK
<1> QED BY <1>2, <1>3, TypePartsNext

LEMMA CheckLockType == ASSUME TypeInv, NEW j \in Jobs, CheckLock(j) PROVE TypeInv'
<1>1. OnError(j) \in PCs \ {"idle", "move", "putback"} /\ "touch" \in PCs \ {"idle", "move", "putback"}
  BY DEF OnError, PCs
<1>2. ControlOK'
  BY <1>1, MoveOn DEF CheckLock
<1>3. DiskOK' /\ BoundsOK'
  BY DEF CheckLock, disk, TypeInv, TypeOK, DiskOK, BoundsOK
<1> QED BY <1>2, <1>3, TypePartsNext

LEMMA TouchLockType == ASSUME TypeInv, NEW j \in Jobs, TouchLock(j) PROVE TypeInv'
<1>1. pc[j] # "idle"
  BY DEF TouchLock
<1>2. CASE Raise(j)
  BY <1>1, <1>2, RaiseType, TypePartsNext
     DEF TouchLock, TypeInv, TypeOK, DiskOK, BoundsOK
<1>3. CASE /\ lock' = TRUE
           /\ Goto(j, IF job[j].kind = "backup" THEN "wait"
                      ELSE IF Server THEN "server" ELSE "list")
           /\ job' = [job EXCEPT ![j].inside = TRUE, ![j].entered = TRUE]
  <2> DEFINE r == [job[j] EXCEPT !.inside = TRUE, !.entered = TRUE]
             label == IF job[j].kind = "backup" THEN "wait"
                      ELSE IF Server THEN "server" ELSE "list"
  <2>1. r \in Locals /\ r.kind # "none" /\ r.archive \in Stamps
    BY <1>1, Underway, LocalsTypes DEF Locals
  <2>2. job' = [job EXCEPT ![j] = r]
    BY <1>3 DEF TypeInv, TypeOK
  <2>3. label \in PCs \ {"idle"} /\ label \notin {"move", "putback"}
    BY DEF PCs
  <2>4. pc' = [pc EXCEPT ![j] = label]
    BY <1>3 DEF Goto
  <2> HIDE DEF r, label
  <2>5. ControlOK'
    BY <2>1, <2>2, <2>3, <2>4, GoOn
  <2> QED BY <2>5, <1>3, TypePartsNext DEF TouchLock, TypeInv, TypeOK, DiskOK, BoundsOK
<1> QED BY <1>2, <1>3 DEF TouchLock

LEMMA CallFailsType == ASSUME TypeInv, NEW j \in Jobs, CallFails(j) PROVE TypeInv'
<1>1. pc[j] # "idle" /\ Raise(j) /\ Fault(pc[j])
  BY DEF CallFails
<1>2. faults' \in 0..MaxFaults
  BY <1>1, FaultType
<1> QED BY <1>1, <1>2, RaiseType, TypePartsNext
       DEF CallFails, TypeInv, TypeOK, DiskOK, BoundsOK

\* The directory of archives with one of them changed, or some deleted.
LEMMA ArchiveType ==
    ASSUME TypeInv, NEW a \in Stamps, NEW r \in Archives
    PROVE  /\ [archive EXCEPT ![a] = r] \in [Stamps -> Archives]
           /\ \A old : Deleted(old) \in [Stamps -> Archives]
BY EmptyTypes DEF TypeInv, TypeOK, Deleted

LEMMA OpenArchiveType == ASSUME TypeInv, NEW j \in Jobs, OpenArchive(j) PROVE TypeInv'
<1> DEFINE a == job[j].archive
           r == [job[j] EXCEPT !.left = Present(live)]
           new == [archive[a] EXCEPT !.state = "open", !.db = NoDb, !.mtime = now]
<1>1. pc[j] # "idle"
  BY DEF OpenArchive
<1>2. r \in Locals /\ r.kind # "none" /\ r.archive \in Stamps
  BY <1>1, Underway DEF Present, Locals
<1>3. job' = [job EXCEPT ![j] = r]
  BY DEF OpenArchive, TypeInv, TypeOK
<1>4. pc' = [pc EXCEPT ![j] = "tar"]
  BY DEF OpenArchive, Goto
<1>5. new \in Archives /\ a \in Stamps
  BY <1>1, Underway, EmptyTypes DEF TypeInv, TypeOK, Archives
<1>6. archive' = [archive EXCEPT ![a] = new]
  BY <1>5 DEF OpenArchive, TypeInv, TypeOK
<1> HIDE DEF a, r, new
<1>7. archive' \in [Stamps -> Archives]
  BY <1>5, <1>6, ArchiveType
<1>8. ControlOK'
  BY <1>2, <1>3, <1>4, GoOn DEF PCs
<1> QED BY <1>7, <1>8, TypePartsNext DEF OpenArchive, TypeInv, TypeOK, DiskOK, BoundsOK

LEMMA ArchivePartType == ASSUME TypeInv, NEW j \in Jobs, ArchivePart(j) PROVE TypeInv'
<1>1. pc[j] # "idle" /\ pc[j] = "tar"
  BY DEF ArchivePart
<1>2. PICK p \in job[j].left :
         \/ /\ live[p] # Missing
            /\ archive' = IF Exists(job[j].archive)
                          THEN [archive EXCEPT ![job[j].archive].db[p] = live[p]]
                          ELSE archive
            /\ job' = [job EXCEPT ![j].left = @ \ {p}]
            /\ UNCHANGED <<lock, pc>>
         \/ /\ live[p] = Missing
            /\ Raise(j)
            /\ UNCHANGED archive
  BY DEF ArchivePart
<1>3. CASE Raise(j) /\ UNCHANGED archive
  BY <1>1, <1>3, RaiseType, TypePartsNext
     DEF ArchivePart, TypeInv, TypeOK, DiskOK, BoundsOK
<1>4. CASE /\ live[p] # Missing
           /\ archive' = IF Exists(job[j].archive)
                         THEN [archive EXCEPT ![job[j].archive].db[p] = live[p]]
                         ELSE archive
           /\ job' = [job EXCEPT ![j].left = @ \ {p}]
           /\ UNCHANGED <<lock, pc>>
  <2> DEFINE a == job[j].archive
             r == [job[j] EXCEPT !.left = @ \ {p}]
             new == [archive[a] EXCEPT !.db = [@ EXCEPT ![p] = live[p]]]
  <2>1. r \in Locals /\ r.kind # "none" /\ r.archive \in Stamps
    BY <1>1, Underway DEF Locals
  <2>2. job' = [job EXCEPT ![j] = r] /\ pc' = [pc EXCEPT ![j] = "tar"]
    BY <1>1, <1>4 DEF TypeInv, TypeOK
  <2>3. new \in Archives /\ a \in Stamps
    <3>1. archive[a].db \in Databases /\ archive[a] \in Archives /\ a \in Stamps
      BY <1>1, Underway DEF Archives
    <3>2. [archive[a].db EXCEPT ![p] = live[p]] \in Databases
      BY <3>1 DEF TypeInv, TypeOK, Databases
    <3> QED BY <3>1, <3>2 DEF Archives
  <2>4. archive' = archive \/ archive' = [archive EXCEPT ![a] = new]
    BY <1>4, <2>3 DEF TypeInv, TypeOK, Archives
  <2> HIDE DEF a, r, new
  <2>5. archive' \in [Stamps -> Archives]
    BY <2>3, <2>4, ArchiveType DEF TypeInv, TypeOK
  <2>6. ControlOK'
    BY <2>1, <2>2, GoOn DEF PCs
  <2> QED BY <1>4, <2>5, <2>6, TypePartsNext
         DEF ArchivePart, TypeInv, TypeOK, DiskOK, BoundsOK
<1> QED BY <1>2, <1>3, <1>4

LEMMA CloseArchiveType == ASSUME TypeInv, NEW j \in Jobs, CloseArchive(j) PROVE TypeInv'
<1> DEFINE a == job[j].archive
           new == [archive[a] EXCEPT !.state = "closed", !.mtime = now]
<1>1. pc[j] # "idle" /\ "hash" \in PCs \ {"idle", "move", "putback"}
  BY DEF CloseArchive, PCs
<1>2. new \in Archives /\ a \in Stamps
  BY <1>1, Underway DEF TypeInv, TypeOK, Archives
<1>3. archive' = archive \/ archive' = [archive EXCEPT ![a] = new]
  BY <1>2 DEF CloseArchive, TypeInv, TypeOK
<1> HIDE DEF a, new
<1>4. archive' \in [Stamps -> Archives]
  BY <1>2, <1>3, ArchiveType DEF TypeInv, TypeOK
<1>5. ControlOK'
  BY <1>1, MoveOn DEF CloseArchive
<1> QED BY <1>4, <1>5, TypePartsNext DEF CloseArchive, TypeInv, TypeOK, DiskOK, BoundsOK

LEMMA WriteHashType == ASSUME TypeInv, NEW j \in Jobs, WriteHash(j) PROVE TypeInv'
<1>1. pc[j] # "idle" /\ "rotate" \in PCs \ {"idle", "move", "putback"}
  BY DEF WriteHash, PCs
<1>2. CASE Raise(j) /\ UNCHANGED <<archive, status>>
  BY <1>1, <1>2, RaiseType, TypePartsNext
     DEF WriteHash, TypeInv, TypeOK, DiskOK, BoundsOK
<1>3. CASE /\ archive' = [archive EXCEPT ![job[j].archive].hash = archive[job[j].archive].db]
           /\ Report("completed", job[j].archive)
           /\ Goto(j, "rotate")
           /\ UNCHANGED <<lock, job>>
  <2> DEFINE a == job[j].archive
             new == [archive[a] EXCEPT !.hash = archive[a].db]
  <2>1. new \in Archives /\ a \in Stamps
    BY <1>1, Underway DEF Archives
  <2>2. archive' = [archive EXCEPT ![a] = new]
    BY <1>3, <2>1 DEF TypeInv, TypeOK
  <2>3. status' = [state |-> "completed", target |-> a]
    BY <1>3 DEF Report
  <2> HIDE DEF a, new
  <2>4. archive' \in [Stamps -> Archives]
    BY <2>1, <2>2, ArchiveType
  <2>5. ControlOK'
    BY <1>1, <1>3, MoveOn
  <2> QED BY <1>3, <2>1, <2>3, <2>4, <2>5, TypePartsNext
         DEF WriteHash, TypeInv, TypeOK, DiskOK, BoundsOK
<1> QED BY <1>2, <1>3 DEF WriteHash

LEMMA RotateType == ASSUME TypeInv, NEW j \in Jobs, Rotate(j) PROVE TypeInv'
<1>1. pc[j] # "idle"
  BY DEF Rotate
<1>2. PICK old : \/ /\ archive' = Deleted(old) /\ lock' = FALSE
                    /\ EndJob(j) /\ UNCHANGED faults
                 \/ /\ archive' = Deleted(old) /\ Raise(j) /\ Fault("rotate")
  BY DEF Rotate
<1>3. archive' \in [Stamps -> Archives]
  BY <1>2, EmptyTypes, ArchiveType
<1>4. ControlOK' /\ lock' \in BOOLEAN
  BY <1>1, <1>2, EndJobType, RaiseType
<1>5. faults' \in 0..MaxFaults
  BY <1>2, FaultType DEF TypeInv, TypeOK
<1> QED BY <1>3, <1>4, <1>5, TypePartsNext DEF Rotate, TypeInv, TypeOK, DiskOK, BoundsOK

LEMMA UndoBackupType == ASSUME TypeInv, NEW j \in Jobs, UndoBackup(j) PROVE TypeInv'
<1>1. archive' \in [Stamps -> Archives]
  BY EmptyTypes, ArchiveType DEF UndoBackup
<1>2. ControlOK'
  BY EndJobType DEF UndoBackup
<1> QED BY <1>1, <1>2, TypePartsNext
       DEF UndoBackup, Report, TypeInv, TypeOK, DiskOK, BoundsOK

LEMMA ReleaseServerType == ASSUME TypeInv, NEW j \in Jobs, ReleaseServer(j) PROVE TypeInv'
<1>1. pc[j] # "idle" /\ "list" \in PCs \ {"idle", "move", "putback"}
  BY DEF ReleaseServer, PCs
<1>2. ControlOK'
  BY <1>1, MoveOn DEF ReleaseServer
<1>3. live' \in Databases
  BY DEF ReleaseServer, TypeInv, TypeOK, Databases
<1>4. faults' \in 0..MaxFaults
  BY FaultType DEF ReleaseServer, TypeInv, TypeOK
<1> QED BY <1>2, <1>3, <1>4, TypePartsNext
       DEF ReleaseServer, TypeInv, TypeOK, DiskOK, BoundsOK

LEMMA ListExistingType == ASSUME TypeInv, NEW j \in Jobs, ListExisting(j) PROVE TypeInv'
<1> DEFINE items == Items(live, lock)
           temp == IF items = {} THEN NoStamp ELSE now
           r == [job[j] EXCEPT !.left = items, !.temp = temp]
<1>1. pc[j] # "idle"
  BY DEF ListExisting
<1>2. job' = [job EXCEPT ![j] = r] /\ pc' = [pc EXCEPT ![j] = "move"]
  BY DEF ListExisting, Goto, TypeInv, TypeOK
<1>3. items \in SUBSET (Parts \cup {LockFile})
  BY ItemsType
<1>4. temp \in Stamps \cup {NoStamp} /\ (items # {} => temp \in Stamps)
  BY DEF TypeInv, TypeOK
<1> HIDE DEF items, temp
<1>5. r \in Locals /\ r.kind # "none" /\ r.archive \in Stamps /\ (r.left # {} => r.temp \in Stamps)
  BY <1>1, <1>3, <1>4, Underway DEF Locals
<1> HIDE DEF r
<1>6. ControlOK'
  BY <1>2, <1>5, GoOn DEF PCs
<1> QED BY <1>6, TypePartsNext DEF ListExisting, disk, TypeInv, TypeOK, DiskOK, BoundsOK

\* The types of a loop over items of the kept files: one less is left.
LEMMA NextItemType ==
    ASSUME TypeInv, NEW j \in Jobs, pc[j] \in {"move", "putback"}, NEW item \in job[j].left,
           job' = [job EXCEPT ![j].left = @ \ {item}], pc' = pc
    PROVE  /\ ControlOK'
           /\ job[j].temp \in Stamps
           /\ \/ /\ item = LockFile /\ item \notin Parts
              \/ /\ item \in Parts /\ item # LockFile
<1> DEFINE r == [job[j] EXCEPT !.left = @ \ {item}]
<1>1. r \in Locals /\ r.kind # "none" /\ r.archive \in Stamps /\ r.temp = job[j].temp
  BY Underway DEF Locals
<1>2. job[j].temp \in Stamps
  BY DEF TypeInv, LocalsOK
<1>3. job' = [job EXCEPT ![j] = r] /\ pc' = [pc EXCEPT ![j] = pc[j]]
  BY DEF TypeInv, TypeOK
<1>4. pc[j] \in PCs \ {"idle"}
  BY DEF PCs
<1>5. item \in Parts \cup {LockFile}
  BY Underway DEF Locals
<1> HIDE DEF r
<1>6. ControlOK'
  BY <1>1, <1>2, <1>3, <1>4, GoOn
<1> QED BY <1>2, <1>5, <1>6, ConstantsOK

\* A directory of kept files with one file or the lock more or less.
LEMMA ParkedType ==
    ASSUME TypeInv, NEW t \in Stamps
    PROVE  /\ \A p \in Parts : \A w \in Writes \cup {Missing, Empty} :
                 [parked EXCEPT ![t] = [@ EXCEPT !.db[p] = w]]
                    \in [Stamps -> [db : Databases, lock : BOOLEAN]]
           /\ \A b \in BOOLEAN : [parked EXCEPT ![t] = [@ EXCEPT !.lock = b]]
                    \in [Stamps -> [db : Databases, lock : BOOLEAN]]
           /\ [parked EXCEPT ![t] = NothingParked] \in [Stamps -> [db : Databases, lock : BOOLEAN]]
<1>1. parked[t] \in [db : Databases, lock : BOOLEAN]
  BY DEF TypeInv, TypeOK
<1>2. ASSUME NEW p \in Parts, NEW w \in Writes \cup {Missing, Empty}
      PROVE  [parked[t] EXCEPT !.db[p] = w] \in [db : Databases, lock : BOOLEAN]
  <2>1. [parked[t].db EXCEPT ![p] = w] \in Databases
    BY <1>1 DEF Databases
  <2> QED BY <1>1, <2>1
<1>3. ASSUME NEW b \in BOOLEAN
      PROVE  [parked[t] EXCEPT !.lock = b] \in [db : Databases, lock : BOOLEAN]
  BY <1>1
<1> QED BY <1>1, <1>2, <1>3, EmptyTypes DEF TypeInv, TypeOK

LEMMA MoveItemType == ASSUME TypeInv, NEW j \in Jobs, MoveItem(j) PROVE TypeInv'
<1>1. PICK item \in job[j].left :
         /\ job' = [job EXCEPT ![j].left = @ \ {item}]
         /\ \/ /\ parked' = [parked EXCEPT ![job[j].temp] =
                      IF item = LockFile THEN [@ EXCEPT !.lock = TRUE]
                      ELSE [@ EXCEPT !.db[item] = live[item]]]
               /\ live' = [p \in Parts |-> IF p = item THEN Missing ELSE live[p]]
               /\ lock' = (lock /\ item # LockFile)
               /\ UNCHANGED faults
            \/ UNCHANGED <<live, lock, parked, faults>>
            \/ Fault("move") /\ UNCHANGED <<live, lock, parked>>
  BY DEF MoveItem
<1>2. pc[j] = "move" /\ pc' = pc
  BY DEF MoveItem
<1>3. /\ ControlOK' /\ job[j].temp \in Stamps
      /\ (item = LockFile /\ item \notin Parts) \/ (item \in Parts /\ item # LockFile)
  <2>1. job' = [job EXCEPT ![j].left = @ \ {item}]
    BY <1>1
  <2> QED BY <1>2, <2>1, NextItemType
<1>4. faults' \in 0..MaxFaults
  BY <1>1, FaultType DEF TypeInv, TypeOK
<1>5. parked' \in [Stamps -> [db : Databases, lock : BOOLEAN]]
  <2>1. item \in Parts => live[item] \in Writes \cup {Missing, Empty}
    BY DEF TypeInv, TypeOK, Databases
  <2>2. CASE UNCHANGED parked
    BY <2>2 DEF TypeInv, TypeOK
  <2>3. CASE /\ item = LockFile
             /\ parked' = [parked EXCEPT ![job[j].temp] = [@ EXCEPT !.lock = TRUE]]
    BY <1>3, <2>3, ParkedType
  <2>4. CASE /\ item # LockFile
             /\ parked' = [parked EXCEPT ![job[j].temp] = [@ EXCEPT !.db[item] = live[item]]]
    BY <1>3, <2>1, <2>4, ParkedType
  <2> QED BY <1>1, <2>2, <2>3, <2>4
<1>6. live' \in Databases /\ lock' \in BOOLEAN
  BY <1>1 DEF TypeInv, TypeOK, Databases
<1> QED BY <1>3, <1>4, <1>5, <1>6, TypePartsNext
       DEF MoveItem, TypeInv, TypeOK, DiskOK, BoundsOK

LEMMA OpenBackupType == ASSUME TypeInv, NEW j \in Jobs, OpenBackup(j) PROVE TypeInv'
<1> DEFINE src == archive[job[j].archive]
<1>1. pc[j] # "idle"
  BY DEF OpenBackup
<1>2. CASE Raise(j)
  BY <1>1, <1>2, RaiseType, TypePartsNext
     DEF OpenBackup, TypeInv, TypeOK, DiskOK, BoundsOK
<1>3. CASE /\ job' = [job EXCEPT ![j].source = src.db, ![j].left = Present(src.db)]
           /\ Goto(j, "extract")
           /\ UNCHANGED lock
  <2> DEFINE r == [job[j] EXCEPT !.source = src.db, !.left = Present(src.db)]
  <2>1. src.db \in Databases
    BY <1>1, Underway DEF Archives
  <2>2. job' = [job EXCEPT ![j] = r] /\ pc' = [pc EXCEPT ![j] = "extract"]
    BY <1>3 DEF Goto, TypeInv, TypeOK
  <2>3. r \in Locals /\ r.kind # "none" /\ r.archive \in Stamps
    BY <1>1, <2>1, Underway DEF Present, Locals
  <2> HIDE DEF r
  <2>4. ControlOK'
    BY <2>2, <2>3, GoOn DEF PCs
  <2> QED BY <1>3, <2>4, TypePartsNext
         DEF OpenBackup, TypeInv, TypeOK, DiskOK, BoundsOK
<1> QED BY <1>2, <1>3 DEF OpenBackup

LEMMA ExtractPartType == ASSUME TypeInv, NEW j \in Jobs, ExtractPart(j) PROVE TypeInv'
<1>1. PICK p \in job[j].left : /\ live' = [live EXCEPT ![p] = job[j].source[p]]
                               /\ job' = [job EXCEPT ![j].left = @ \ {p}]
  BY DEF ExtractPart
<1>2. pc[j] = "extract" /\ pc' = pc
  BY DEF ExtractPart
<1> DEFINE r == [job[j] EXCEPT !.left = @ \ {p}]
<1>3. r \in Locals /\ r.kind # "none" /\ r.archive \in Stamps
  BY <1>2, Underway DEF Locals
<1>4. job' = [job EXCEPT ![j] = r] /\ pc' = [pc EXCEPT ![j] = "extract"]
  BY <1>1, <1>2 DEF TypeInv, TypeOK
<1> HIDE DEF r
<1>5. ControlOK'
  BY <1>3, <1>4, GoOn DEF PCs
<1>6. live' \in Databases
  <2>1. job[j].source \in Databases
    BY <1>2, Underway DEF Locals
  <2> QED BY <1>1, <2>1 DEF TypeInv, TypeOK, Databases
<1> QED BY <1>5, <1>6, TypePartsNext DEF ExtractPart, TypeInv, TypeOK, DiskOK, BoundsOK

LEMMA DiagnoseType == ASSUME TypeInv, NEW j \in Jobs, Diagnose(j) PROVE TypeInv'
<1>1. pc[j] # "idle" /\ {"wipe", "commit"} \subseteq PCs \ {"idle", "move", "putback"}
  BY DEF Diagnose, PCs
<1>2. Goto(j, "wipe") \/ Goto(j, "commit")
  BY DEF Diagnose
<1>3. ControlOK'
  BY <1>1, <1>2, MoveOn DEF Diagnose
<1>4. faults' \in 0..MaxFaults
  BY FaultType DEF Diagnose, TypeInv, TypeOK
<1> QED BY <1>3, <1>4, TypePartsNext DEF Diagnose, disk, TypeInv, TypeOK, DiskOK, BoundsOK

LEMMA CommitType == ASSUME TypeInv, NEW j \in Jobs, Commit(j) PROVE TypeInv'
<1>1. pc[j] # "idle"
  BY DEF Commit
<1>2. job[j].temp \in Stamps \cup {NoStamp} /\ job[j].archive \in Stamps
  BY <1>1, Underway DEF Locals
<1>3. parked' \in [Stamps -> [db : Databases, lock : BOOLEAN]]
  BY <1>2, ParkedType DEF Commit, TypeInv, TypeOK
<1>4. ControlOK'
  BY EndJobType DEF Commit
<1> QED BY <1>2, <1>3, <1>4, TypePartsNext
       DEF Commit, Report, TypeInv, TypeOK, DiskOK, BoundsOK

LEMMA WipeType == ASSUME TypeInv, NEW j \in Jobs, Wipe(j) PROVE TypeInv'
<1> DEFINE temp == job[j].temp
           items == IF temp = NoStamp THEN {} ELSE Items(parked[temp].db, parked[temp].lock)
           r == [job[j] EXCEPT !.left = items]
<1>1. pc[j] # "idle"
  BY DEF Wipe
<1>2. temp \in Stamps \cup {NoStamp} /\ items \in SUBSET (Parts \cup {LockFile})
  BY <1>1, Underway, ItemsType DEF Locals
<1>3. items # {} => temp \in Stamps
  BY <1>2
<1>4. job' = [job EXCEPT ![j] = r] /\ pc' = [pc EXCEPT ![j] = "putback"]
  BY DEF Wipe, Goto, TypeInv, TypeOK
<1> HIDE DEF items
<1>5. r \in Locals
  BY <1>1, <1>2, Underway, LocalsTypes
<1>7. r.kind # "none" /\ r.archive \in Stamps /\ r.left = items /\ r.temp = temp
  BY <1>1, Underway DEF Locals
<1> HIDE DEF r, temp
<1>6. ControlOK'
  BY <1>3, <1>4, <1>5, <1>7, GoOn DEF PCs
<1> QED BY <1>6, TypePartsNext, EmptyTypes DEF Wipe, TypeInv, TypeOK, DiskOK, BoundsOK

LEMMA WipeFailsType == ASSUME TypeInv, NEW j \in Jobs, WipeFails(j) PROVE TypeInv'
<1>1. pc[j] # "idle" /\ pc[j] = "wipe"
  BY DEF WipeFails
<1>2. live' \in Databases
  BY DEF WipeFails, TypeInv, TypeOK, Databases
<1>3. faults' \in 0..MaxFaults
  BY FaultType DEF WipeFails
<1>4. CASE job[j].inside
  <2> DEFINE r == [job[j] EXCEPT !.inside = FALSE]
  <2>1. r \in Locals /\ r.kind # "none" /\ r.archive \in Stamps
    BY <1>1, Underway, LocalsTypes DEF Locals
  <2>2. job' = [job EXCEPT ![j] = r] /\ pc' = [pc EXCEPT ![j] = "wipe"]
    BY <1>1, <1>4 DEF WipeFails, TypeInv, TypeOK
  <2> HIDE DEF r
  <2>3. ControlOK'
    BY <2>1, <2>2, GoOn DEF PCs
  <2> QED BY <1>2, <1>3, <1>4, <2>3, TypePartsNext
         DEF WipeFails, TypeInv, TypeOK, DiskOK, BoundsOK
<1>5. CASE ~job[j].inside
  <2>1. job[j].archive \in Stamps
    BY <1>1, Underway
  <2>2. ControlOK'
    BY <1>5, EndJobType DEF WipeFails
  <2> QED BY <1>2, <1>3, <1>5, <2>1, <2>2, TypePartsNext
         DEF WipeFails, Report, TypeInv, TypeOK, DiskOK, BoundsOK
<1> QED BY <1>4, <1>5

LEMMA PutBackItemType == ASSUME TypeInv, NEW j \in Jobs, PutBackItem(j) PROVE TypeInv'
<1>1. PICK item \in job[j].left :
         /\ job' = [job EXCEPT ![j].left = @ \ {item}]
         /\ \/ /\ live' = [p \in Parts |-> IF p = item THEN parked[job[j].temp].db[p]
                                                       ELSE live[p]]
               /\ lock' = (lock \/ item = LockFile)
               /\ parked' = [parked EXCEPT ![job[j].temp] =
                      IF item = LockFile THEN [@ EXCEPT !.lock = FALSE]
                      ELSE [@ EXCEPT !.db[item] = Missing]]
               /\ UNCHANGED faults
            \/ Fault("move") /\ UNCHANGED <<live, lock, parked>>
  BY DEF PutBackItem
<1>2. pc[j] = "putback" /\ pc' = pc
  BY DEF PutBackItem
<1>3. /\ ControlOK' /\ job[j].temp \in Stamps
      /\ (item = LockFile /\ item \notin Parts) \/ (item \in Parts /\ item # LockFile)
  <2>1. job' = [job EXCEPT ![j].left = @ \ {item}]
    BY <1>1
  <2> QED BY <1>2, <2>1, NextItemType
<1>4. faults' \in 0..MaxFaults
  BY <1>1, FaultType DEF TypeInv, TypeOK
<1>5. parked' \in [Stamps -> [db : Databases, lock : BOOLEAN]]
  <2>1. CASE UNCHANGED parked
    BY <2>1 DEF TypeInv, TypeOK
  <2>2. CASE /\ item = LockFile
             /\ parked' = [parked EXCEPT ![job[j].temp] = [@ EXCEPT !.lock = FALSE]]
    BY <1>3, <2>2, ParkedType
  <2>3. CASE /\ item # LockFile
             /\ parked' = [parked EXCEPT ![job[j].temp] = [@ EXCEPT !.db[item] = Missing]]
    BY <1>3, <2>3, ParkedType
  <2> QED BY <1>1, <2>1, <2>2, <2>3
<1>6. live' \in Databases /\ lock' \in BOOLEAN
  <2>1. parked[job[j].temp].db \in Databases
    BY <1>3 DEF TypeInv, TypeOK
  <2> QED BY <1>1, <2>1 DEF TypeInv, TypeOK, Databases
<1> QED BY <1>3, <1>4, <1>5, <1>6, TypePartsNext
       DEF PutBackItem, TypeInv, TypeOK, DiskOK, BoundsOK

LEMMA EndRestoreType == ASSUME TypeInv, NEW j \in Jobs, EndRestore(j) PROVE TypeInv'
<1>1. pc[j] # "idle"
  BY DEF EndRestore
<1>2. job[j].temp \in Stamps \cup {NoStamp} /\ job[j].archive \in Stamps
  BY <1>1, Underway DEF Locals
<1>3. parked' \in [Stamps -> [db : Databases, lock : BOOLEAN]]
  BY <1>2, ParkedType DEF EndRestore, TypeInv, TypeOK
<1>4. ControlOK'
  BY EndJobType DEF EndRestore
<1>5. lock' \in BOOLEAN
  BY DEF EndRestore
<1> QED BY <1>2, <1>3, <1>4, <1>5, TypePartsNext
       DEF EndRestore, Report, TypeInv, TypeOK, DiskOK, BoundsOK

LEMMA WriteType == TypeInv /\ Write => TypeInv'
<1> SUFFICES ASSUME TypeInv, Write PROVE TypeInv'
  OBVIOUS
<1>1. written' \in Writes
  BY ConstantsOK DEF Write, TypeInv, TypeOK, Writes
<1>2. live' \in Databases
  BY <1>1 DEF Write, Databases
<1>3. ControlOK'
  <2>1. \A j \in Jobs : /\ job'[j] \in Locals
                        /\ job'[j].kind = job[j].kind /\ job'[j].archive = job[j].archive
                        /\ job'[j].left = job[j].left /\ job'[j].temp = job[j].temp
                        /\ pc[j] = "idle" => job'[j] = job[j]
    BY DEF Write, TypeInv, TypeOK, Locals
  <2>2. \A j \in Jobs : pc[j] # "idle" => job'[j].kind # "none"
    BY <2>1 DEF TypeInv, LocalsOK
  <2>3. job' \in [Jobs -> Locals] /\ pc' = pc
    BY <2>1 DEF Write
  <2>4. \A j \in Jobs : pc'[j] = "idle" <=> job'[j] = NoLocals
    BY <2>1, <2>2, <2>3, EmptyTypes DEF TypeInv, TypeOK
  <2>5. LocalsOK'
    BY <2>1, <2>3 DEF TypeInv, LocalsOK
  <2> QED BY <2>3, <2>4, <2>5 DEF ControlOK, TypeInv, TypeOK
<1> QED BY <1>1, <1>2, <1>3, TypePartsNext DEF Write, TypeInv, TypeOK, DiskOK, BoundsOK

LEMMA TickType == TypeInv /\ Tick => TypeInv'
BY ConstantsOK DEF Tick, disk, TypeInv, TypeOK, LocalsOK, Stamps

LEMMA CrashType == TypeInv /\ Crash => TypeInv'
<1> SUFFICES ASSUME TypeInv, Crash PROVE TypeInv'
  OBVIOUS
<1>1. PICK dead \in {{j} : j \in Cli} \cup {Jobs \ Cli} :
         /\ pc' = [j \in Jobs |-> IF j \in dead THEN "idle" ELSE pc[j]]
         /\ job' = [j \in Jobs |-> IF j \in dead THEN NoLocals ELSE job[j]]
         /\ \E torn \in SUBSET {job[j].archive : j \in {k \in dead : pc[k] = "hash"}} :
               archive' = [a \in Stamps |-> IF a \in torn /\ Exists(a)
                                            THEN [archive[a] EXCEPT !.hash = Torn]
                                            ELSE archive[a]]
  BY DEF Crash
<1>5. UNCHANGED status \/ Report("idle", NoStamp)
  BY DEF Crash
<1>2. ControlOK'
  <2>1. pc' \in [Jobs -> PCs] /\ job' \in [Jobs -> Locals]
    BY <1>1, EmptyTypes DEF TypeInv, TypeOK, PCs
  <2>2. \A j \in Jobs : \/ pc'[j] = "idle" /\ job'[j] = NoLocals
                        \/ pc'[j] = pc[j] /\ job'[j] = job[j]
    BY <1>1
  <2>3. \A j \in Jobs : pc'[j] = "idle" <=> job'[j] = NoLocals
    BY <2>2 DEF TypeInv, TypeOK
  <2>4. LocalsOK'
    BY <2>2 DEF TypeInv, LocalsOK
  <2> QED BY <2>1, <2>3, <2>4 DEF ControlOK
<1>3. archive' \in [Stamps -> Archives]
  <2>1. \A a \in Stamps : [archive[a] EXCEPT !.hash = Torn] \in Archives
    BY DEF TypeInv, TypeOK, Archives
  <2>2. PICK torn : archive' = [a \in Stamps |-> IF a \in torn /\ Exists(a)
                                                THEN [archive[a] EXCEPT !.hash = Torn]
                                                ELSE archive[a]]
    BY <1>1
  <2> QED BY <2>1, <2>2 DEF TypeInv, TypeOK
<1>4. now' \in Stamps /\ faults' \in 0..MaxFaults
  BY ConstantsOK DEF Crash, TypeInv, TypeOK, Stamps
<1> QED BY <1>2, <1>3, <1>4, <1>5, TypePartsNext
       DEF Crash, Report, TypeInv, TypeOK, DiskOK, BoundsOK

LEMMA InitType == Init => TypeInv
<1> SUFFICES ASSUME Init PROVE TypeInv
  OBVIOUS
<1>1. live \in Databases
  BY EmptyTypes DEF Init, Databases
<1>2. 0 \in 0..MaxFaults
  BY ConstantsOK
<1> QED BY <1>1, <1>2, EmptyTypes DEF Init, TypeInv, TypeOK, LocalsOK, PCs

LEMMA StepKeepsType == TypeInv /\ [Next]_vars => TypeInv'
<1> SUFFICES ASSUME TypeInv, [Next]_vars PROVE TypeInv'
  OBVIOUS
<1>1. ASSUME NEW j \in Jobs, StartBackup(j) \/ StartRestore(j) PROVE TypeInv'
  BY <1>1, StartBackupType, StartRestoreType
<1>2. ASSUME NEW j \in Jobs, BackupStep(j) PROVE TypeInv'
  BY <1>2, OpenArchiveType, ArchivePartType, CloseArchiveType, WriteHashType, RotateType,
     UndoBackupType
     DEF BackupStep
<1>3. ASSUME NEW j \in Jobs, RestoreStep(j) PROVE TypeInv'
  BY <1>3, ReleaseServerType, ListExistingType, MoveItemType, OpenBackupType,
     ExtractPartType, DiagnoseType, CommitType, WipeType, WipeFailsType,
     PutBackItemType, EndRestoreType
     DEF RestoreStep
<1>4. ASSUME NEW j \in Jobs, JobStep(j) PROVE TypeInv'
  BY <1>2, <1>3, <1>4, CheckLockType, TouchLockType, CallFailsType DEF JobStep
<1>5. CASE Write \/ Tick \/ Crash
  BY <1>5, WriteType, TickType, CrashType
<1>6. CASE UNCHANGED vars
  BY <1>6 DEF vars, disk, TypeInv, TypeOK, LocalsOK
<1> QED BY <1>1, <1>4, <1>5, <1>6 DEF Next

\* Every reachable state is well typed, with any number of concurrent calls: a
\* call has locals exactly while it runs, names an archive, and has a directory
\* of kept files whenever it moves one (backup_chromadb, restore_chromadb).
THEOREM BackupTypeCorrect == Spec => [](TypeOK /\ LocalsOK)
BY InitType, StepKeepsType, PTL DEF Spec, TypeInv

-----------------------------------------------------------------------------
(* One call at a time, no server, and old files that can be listed, moved  *)
(* and put back.                                                           *)

Undisturbed ==
    /\ \A j, k \in Jobs : j = k
    /\ ~Server
    /\ "list" \notin Failing /\ "move" \notin Failing /\ "wipe" \notin Failing

BackupPCs == {"wait", "tar", "hash", "rotate", "undo"}
RestorePCs == {"server", "list", "move", "extract", "commit", "wipe", "putback"}

\* How far a call is, whatever was written meanwhile.
StageOK(j) ==
    /\ pc[j] \in BackupPCs => job[j].kind = "backup"
    /\ pc[j] \in RestorePCs => job[j].kind = "restore"
    /\ pc[j] \in {"lock", "touch"} =>
          ~job[j].entered /\ (Restoring(j) /\ job[j].quiet => live = job[j].before)
    /\ pc[j] \in {"idle", "lock", "touch", "list"} \cup BackupPCs => job[j].temp = NoStamp
    /\ pc[j] = "list" => lock
    /\ pc[j] # "server"
    /\ job[j].temp # NoStamp => job[j].temp <= now
    /\ Restoring(j) => status.state = "running"

\* Nothing is left in the directories of kept files of this second or later,
\* except of the restore that is under way.
KeptDirsOK ==
    \A t \in Stamps :
       parked[t].db # NoDb => t < now \/ \E j \in Jobs : job[j].temp = t

KeptDb(j) == parked[job[j].temp].db

\* Where the old and the new files are while nobody writes.
FilesOK(j) ==
    /\ pc[j] = "list" => live = job[j].before
    /\ pc[j] \in {"move", "extract", "commit", "wipe", "putback"} => job[j].temp \in Stamps
    /\ pc[j] = "move" =>
          \A p \in Parts :
             IF p \in job[j].left THEN live[p] = job[j].before[p] /\ live[p] # Missing
             ELSE live[p] = Missing /\ KeptDb(j)[p] = job[j].before[p]
    /\ pc[j] \in {"extract", "commit", "wipe"} => KeptDb(j) = job[j].before
    /\ pc[j] = "extract" => \A p \in Parts \ job[j].left : live[p] = job[j].source[p]
    /\ pc[j] = "commit" => live = job[j].source
    /\ pc[j] = "putback" =>
          \A p \in Parts : IF p \in job[j].left THEN KeptDb(j)[p] = job[j].before[p]
                           ELSE live[p] = job[j].before[p]

Holding(j) == Restoring(j) /\ job[j].entered /\ job[j].quiet
JobOK(j) == StageOK(j) /\ (Holding(j) => FilesOK(j))

RestoreInv == TypeInv /\ KeptDirsOK /\ \A j \in Jobs : JobOK(j)

\* A call that ends and has cleared its directory of kept files.
LEMMA EndJobSafe ==
    ASSUME RestoreInv, Undisturbed, NEW j \in Jobs, EndJob(j), now' = now,
           \A t \in Stamps : parked'[t] = parked[t] \/ parked'[t].db = NoDb,
           job[j].temp \in Stamps => parked'[job[j].temp].db = NoDb
    PROVE  KeptDirsOK' /\ JobOK(j)'
<1>1. pc'[j] = "idle" /\ job'[j] = NoLocals
  BY DEF EndJob, Goto, RestoreInv, TypeInv, TypeOK
<1>2. JobOK(j)'
  BY <1>1, EmptyTypes DEF JobOK, StageOK, Holding, Restoring, BackupPCs, RestorePCs
<1>3. ASSUME NEW t \in Stamps, parked'[t].db # NoDb PROVE t < now'
  <2>1. parked[t].db # NoDb /\ t # job[j].temp
    BY <1>3
  <2> QED BY <2>1 DEF RestoreInv, KeptDirsOK, Undisturbed
<1> QED BY <1>2, <1>3 DEF KeptDirsOK

\* A step that neither moves kept files nor the locals that tell where they are.
LEMMA SameDirs ==
    ASSUME RestoreInv, NEW j \in Jobs, Undisturbed, job'[j].temp = job[j].temp,
           parked' = parked, now' = now
    PROVE  KeptDirsOK'
BY DEF RestoreInv, KeptDirsOK, Undisturbed

LEMMA StartSafe ==
    ASSUME RestoreInv, Undisturbed, NEW j \in Jobs, StartBackup(j) \/ StartRestore(j)
    PROVE  KeptDirsOK' /\ JobOK(j)'
<1>1. job[j] = NoLocals /\ job[j].temp = NoStamp /\ pc[j] = "idle"
  BY EmptyTypes DEF StartBackup, StartRestore, RestoreInv, TypeInv, TypeOK
<1>2. \/ job'[j] = NoLocals /\ pc'[j] = "idle"
      \/ /\ pc'[j] = "lock" /\ ~job'[j].entered /\ job'[j].temp = NoStamp
         /\ status'.state = "running"
         /\ job'[j].kind = "restore" => live' = job'[j].before
  <2>1. CASE StartBackup(j)
    BY <1>1, <2>1 DEF StartBackup, Goto, Report, RestoreInv, TypeInv, TypeOK, NoLocals
  <2>2. CASE StartRestore(j)
    <3>1. PICK a \in Stamps :
             \/ /\ Report("running", a)
                /\ job' = [job EXCEPT ![j] = [NoLocals EXCEPT !.kind = "restore",
                                                  !.archive = a, !.before = live]]
                /\ Goto(j, "lock")
             \/ UNCHANGED <<pc, job>>
      BY <2>2 DEF StartRestore
    <3>2. live' = live
      BY <2>2 DEF StartRestore
    <3>3. CASE UNCHANGED <<pc, job>>
      BY <1>1, <3>3
    <3>4. CASE /\ Report("running", a)
               /\ job' = [job EXCEPT ![j] = [NoLocals EXCEPT !.kind = "restore",
                                                 !.archive = a, !.before = live]]
               /\ Goto(j, "lock")
      BY <3>2, <3>4 DEF Goto, Report, RestoreInv, TypeInv, TypeOK, NoLocals
    <3> QED BY <3>1, <3>3, <3>4
  <2> QED BY <2>1, <2>2
<1>3. KeptDirsOK'
  BY <1>1, <1>2, EmptyTypes, SameDirs DEF StartBackup, StartRestore
<1>4. JobOK(j)'
  BY <1>2, EmptyTypes DEF JobOK, StageOK, Holding, Restoring, BackupPCs, RestorePCs
<1> QED BY <1>3, <1>4

\* An exception: the locals stay, the call goes to its except clause.
LEMMA RaiseSafe ==
    ASSUME RestoreInv, Undisturbed, NEW j \in Jobs, Raise(j),
           pc[j] \in {"touch", "tar", "hash", "rotate", "move", "extract"},
           pc[j] = "move" => job[j].left = {},
           UNCHANGED <<live, parked, now>>,
           Restoring(j) => UNCHANGED status
    PROVE  KeptDirsOK' /\ JobOK(j)'
<1>1. /\ pc'[j] = OnError(j) /\ job'[j].temp = job[j].temp /\ job'[j].kind = job[j].kind
      /\ job'[j].entered = job[j].entered /\ job'[j].quiet = job[j].quiet
      /\ job'[j].before = job[j].before
  BY DEF Raise, Goto, RestoreInv, TypeInv, TypeOK, Locals
<1>2. KeptDirsOK'
  BY <1>1, SameDirs
<1>3. job[j].kind \in {"backup", "restore"}
  BY Underway DEF RestoreInv
<1>4. StageOK(j) /\ (Holding(j) => FilesOK(j))
  BY DEF RestoreInv, JobOK
<1>5. CASE job[j].kind = "backup"
  <2>1. pc'[j] = "undo" /\ ~Restoring(j)'
    BY <1>1, <1>5 DEF OnError, Restoring
  <2>2. job'[j].temp = NoStamp
    BY <1>1, <1>4, <1>5 DEF StageOK, BackupPCs, RestorePCs
  <2> QED BY <1>1, <1>2, <1>5, <2>1, <2>2
         DEF JobOK, StageOK, Holding, BackupPCs, RestorePCs
<1>6. CASE job[j].kind = "restore"
  <2>1. pc'[j] = "wipe"
    BY <1>1, <1>6 DEF OnError
  <2>2. StageOK(j)'
    BY <1>1, <1>4, <1>6, <2>1 DEF StageOK, Restoring, BackupPCs, RestorePCs
  <2>3. ASSUME Holding(j)' PROVE FilesOK(j)'
    <3>1. Holding(j) /\ pc[j] \in {"move", "extract"}
      BY <1>1, <1>4, <1>6, <2>3 DEF Holding, Restoring, StageOK, BackupPCs
    <3>2. job[j].temp \in Stamps /\ KeptDb(j) = job[j].before
      <4>1. KeptDb(j) \in Databases /\ job[j].before \in Databases
        BY <1>4, <3>1 DEF FilesOK, KeptDb, RestoreInv, TypeInv, TypeOK, Locals
      <4>2. FilesOK(j)
        BY <1>4, <3>1
      <4>3. CASE pc[j] = "extract"
        BY <4>2, <4>3 DEF FilesOK
      <4>4. CASE pc[j] = "move"
        <5>1. \A p \in Parts : KeptDb(j)[p] = job[j].before[p]
          BY <4>2, <4>4 DEF FilesOK
        <5>2. job[j].temp \in Stamps
          BY <4>2, <4>4 DEF FilesOK
        <5> QED BY <4>1, <5>1, <5>2 DEF Databases
      <4> QED BY <3>1, <4>3, <4>4
    <3>3. job'[j].temp \in Stamps /\ parked'[job'[j].temp].db = job'[j].before
      BY <1>1, <3>2 DEF KeptDb
    <3> QED BY <2>1, <3>3 DEF FilesOK, KeptDb
  <2> QED BY <1>2, <2>2, <2>3 DEF JobOK
<1> QED BY <1>3, <1>5, <1>6

LEMMA LockSafe ==
    ASSUME RestoreInv, Undisturbed, NEW j \in Jobs,
           CheckLock(j) \/ TouchLock(j) \/ CallFails(j)
    PROVE  KeptDirsOK' /\ JobOK(j)'
<1>1. StageOK(j) /\ (Holding(j) => FilesOK(j))
  BY DEF RestoreInv, JobOK
<1>2. CASE CheckLock(j)
  <2>1. /\ pc'[j] \in {"undo", "wipe", "touch"} /\ job' = job /\ UNCHANGED <<live, parked, now, status>>
        /\ pc'[j] = "undo" => job[j].kind = "backup"
        /\ pc'[j] = "wipe" => job[j].kind # "backup"
        /\ pc[j] = "lock"
    BY <1>2 DEF CheckLock, OnError, Goto, disk, RestoreInv, TypeInv, TypeOK
  <2>2. KeptDirsOK'
    BY <2>1, SameDirs
  <2>3. job[j].kind \in {"backup", "restore"}
    BY <2>1, Underway DEF RestoreInv
  <2>4. JobOK(j)'
    BY <1>1, <2>1, <2>3 DEF JobOK, StageOK, Holding, Restoring, BackupPCs, RestorePCs
  <2> QED BY <2>2, <2>4
<1>3. CASE TouchLock(j)
  <2>1. CASE Raise(j)
    BY <1>3, <2>1, RaiseSafe DEF TouchLock
  <2>2. CASE /\ lock' = TRUE
             /\ Goto(j, IF job[j].kind = "backup" THEN "wait"
                        ELSE IF Server THEN "server" ELSE "list")
             /\ job' = [job EXCEPT ![j].inside = TRUE, ![j].entered = TRUE]
    <3>1. /\ pc[j] = "touch" /\ pc'[j] = (IF job[j].kind = "backup" THEN "wait" ELSE "list")
          /\ job'[j].temp = job[j].temp /\ job'[j].kind = job[j].kind
          /\ job'[j].quiet = job[j].quiet /\ job'[j].before = job[j].before
      BY <1>3, <2>2 DEF TouchLock, Goto, Undisturbed, RestoreInv, TypeInv, TypeOK, Locals
    <3>2. UNCHANGED <<live, parked, now, status>>
      BY <1>3 DEF TouchLock
    <3>3. KeptDirsOK'
      BY <3>1, <3>2, SameDirs
    <3>4. job[j].kind \in {"backup", "restore"}
      BY <3>1, Underway DEF RestoreInv
    <3>5. StageOK(j)'
      BY <1>1, <2>2, <3>1, <3>2, <3>4 DEF StageOK, Restoring, BackupPCs, RestorePCs
    <3>6. Holding(j)' => FilesOK(j)'
      BY <1>1, <3>1, <3>2 DEF StageOK, FilesOK, Holding, Restoring
    <3> QED BY <3>3, <3>5, <3>6 DEF JobOK
  <2> QED BY <1>3, <2>1, <2>2 DEF TouchLock
<1>4. CASE CallFails(j)
  BY <1>1, <1>4, RaiseSafe DEF CallFails, Fault, Undisturbed
<1> QED BY <1>2, <1>3, <1>4

\* A backup goes on: no kept files, and no status that a restore relies on.
LEMMA BackupGoesOn ==
    ASSUME RestoreInv, Undisturbed, NEW j \in Jobs, pc[j] \in BackupPCs, pc'[j] \in BackupPCs,
           job'[j].kind = job[j].kind, job'[j].temp = job[j].temp,
           UNCHANGED <<parked, now>>
    PROVE  KeptDirsOK' /\ JobOK(j)'
<1>1. StageOK(j)
  BY DEF RestoreInv, JobOK
<1>2. KeptDirsOK'
  BY SameDirs
<1>3. ~Restoring(j)' /\ job'[j].temp = NoStamp
  BY <1>1 DEF StageOK, Restoring
<1> QED BY <1>1, <1>2, <1>3 DEF JobOK, StageOK, Holding, BackupPCs, RestorePCs

LEMMA BackupSafe ==
    ASSUME RestoreInv, Undisturbed, NEW j \in Jobs, BackupStep(j)
    PROVE  KeptDirsOK' /\ JobOK(j)'
<1>1. pc[j] \in BackupPCs /\ pc[j] # "idle"
  BY DEF BackupStep, OpenArchive, ArchivePart, CloseArchive, WriteHash, Rotate, UndoBackup,
         BackupPCs
<1>2. /\ ~Restoring(j) /\ job[j].temp = NoStamp /\ job[j].temp \notin Stamps
      /\ job[j] \in Locals
  BY <1>1, Underway, ConstantsOK DEF RestoreInv, JobOK, StageOK, Restoring
<1>3. UNCHANGED <<live, parked, now>>
  BY DEF BackupStep, OpenArchive, ArchivePart, CloseArchive, WriteHash, Rotate, UndoBackup
<1>4. CASE EndJob(j)
  BY <1>2, <1>3, <1>4, EndJobSafe
<1>5. CASE Raise(j) /\ pc[j] \in {"tar", "hash", "rotate"}
  BY <1>2, <1>3, <1>5, RaiseSafe
<1>6. CASE /\ pc'[j] \in BackupPCs /\ job'[j].kind = job[j].kind
           /\ job'[j].temp = job[j].temp
  BY <1>1, <1>3, <1>6, BackupGoesOn
<1>7. pc \in [Jobs -> PCs] /\ job \in [Jobs -> Locals]
  BY DEF RestoreInv, TypeInv, TypeOK
<1>8. CASE OpenArchive(j)
  BY <1>2, <1>6, <1>7, <1>8 DEF OpenArchive, Goto, BackupPCs, Locals
<1>9. CASE ArchivePart(j)
  <2>1. PICK p \in job[j].left :
           \/ job' = [job EXCEPT ![j].left = @ \ {p}] /\ UNCHANGED pc
           \/ Raise(j)
    BY <1>9 DEF ArchivePart
  <2>2. pc[j] = "tar"
    BY <1>9 DEF ArchivePart
  <2> QED BY <1>2, <1>5, <1>6, <1>7, <2>1, <2>2 DEF BackupPCs, Locals
<1>10. CASE CloseArchive(j)
  BY <1>6, <1>7, <1>10 DEF CloseArchive, Goto, BackupPCs
<1>11. CASE WriteHash(j)
  BY <1>5, <1>6, <1>7, <1>11 DEF WriteHash, Goto, BackupPCs
<1>12. CASE Rotate(j)
  BY <1>4, <1>5, <1>12 DEF Rotate
<1>13. CASE UndoBackup(j)
  BY <1>4, <1>13 DEF UndoBackup
<1> QED BY <1>8, <1>9, <1>10, <1>11, <1>12, <1>13 DEF BackupStep

\* A restore goes on with the same directory of kept files.
LEMMA RestoreGoesOn ==
    ASSUME RestoreInv, Undisturbed, NEW j \in Jobs, pc[j] \in RestorePCs,
           pc'[j] \in {"move", "extract", "commit", "wipe", "putback"},
           job'[j].kind = job[j].kind, job'[j].temp = job[j].temp,
           \A t \in Stamps : t = job[j].temp \/ parked'[t] = parked[t],
           UNCHANGED <<now, status>>
    PROVE  KeptDirsOK' /\ StageOK(j)'
<1>1. StageOK(j)
  BY DEF RestoreInv, JobOK
<1>2. KeptDirsOK'
  BY DEF RestoreInv, KeptDirsOK, Undisturbed
<1>3. StageOK(j)'
  BY <1>1 DEF StageOK, Restoring, BackupPCs, RestorePCs
<1> QED BY <1>2, <1>3

\* What is known of a restore before a step.
LEMMA RestoreFacts ==
    ASSUME RestoreInv, NEW j \in Jobs, pc[j] # "idle"
    PROVE  /\ StageOK(j) /\ (Holding(j) => FilesOK(j))
           /\ job[j] \in Locals /\ job \in [Jobs -> Locals] /\ pc \in [Jobs -> PCs]
           /\ live \in Databases /\ parked \in [Stamps -> [db : Databases, lock : BOOLEAN]]
BY DEF RestoreInv, JobOK, TypeInv, TypeOK

LEMMA ListExistingSafe ==
    ASSUME RestoreInv, Undisturbed, NEW j \in Jobs, ListExisting(j)
    PROVE  KeptDirsOK' /\ JobOK(j)'
<1>1. pc[j] = "list" /\ pc'[j] = "move" /\ UNCHANGED <<live, parked, status, now>>
  BY RestoreFacts DEF ListExisting, Goto, disk
<1>2. StageOK(j) /\ (Holding(j) => FilesOK(j))
  BY <1>1, RestoreFacts
<1>3. lock /\ job[j].temp = NoStamp /\ job[j].kind = "restore"
  BY <1>1, <1>2 DEF StageOK, RestorePCs
<1>4. LockFile \in Items(live, lock)
  BY <1>3 DEF Items
<1>5. /\ job'[j].left = Items(live, lock) /\ job'[j].temp = now
      /\ job'[j].kind = job[j].kind /\ job'[j].entered = job[j].entered
      /\ job'[j].quiet = job[j].quiet /\ job'[j].before = job[j].before
  <2>1. job[j] \in Locals /\ job \in [Jobs -> Locals]
    BY <1>1, RestoreFacts
  <2>2. job' = [job EXCEPT ![j].left = Items(live, lock),
                           ![j].temp = IF Items(live, lock) = {} THEN NoStamp ELSE now]
    BY DEF ListExisting
  <2> QED BY <1>4, <2>1, <2>2 DEF Locals
<1>6. now \in Stamps /\ now \in Nat /\ NoStamp \notin Stamps
  BY ConstantsOK DEF RestoreInv, TypeInv, TypeOK, Stamps
<1>7. KeptDirsOK'
  BY <1>1, <1>3, <1>5, <1>6 DEF RestoreInv, KeptDirsOK, Undisturbed
<1>8. parked[now].db = NoDb
  <2>1. ~(now < now)
    BY <1>6
  <2> QED BY <1>3, <1>6, <2>1 DEF RestoreInv, KeptDirsOK, Undisturbed
<1>9. StageOK(j)'
  BY <1>1, <1>2, <1>3, <1>5, <1>6 DEF StageOK, Restoring, BackupPCs, RestorePCs
<1>10. ASSUME Holding(j)' PROVE FilesOK(j)'
  <2>1. live = job[j].before
    BY <1>1, <1>2, <1>5, <1>10 DEF Holding, Restoring, FilesOK
  <2>2. ASSUME NEW p \in Parts
        PROVE  IF p \in job'[j].left THEN live'[p] = job'[j].before[p] /\ live'[p] # Missing
               ELSE live'[p] = Missing /\ parked'[job'[j].temp].db[p] = job'[j].before[p]
    <3>1. p \in Items(live, lock) <=> live[p] # Missing
      BY ConstantsOK DEF Items, Present
    <3>2. parked[now].db[p] = Missing
      BY <1>8 DEF NoDb
    <3> QED BY <1>1, <1>5, <2>1, <3>1, <3>2
  <2> QED BY <1>1, <1>5, <1>6, <2>2 DEF FilesOK, KeptDb
<1> QED BY <1>7, <1>9, <1>10 DEF JobOK

LEMMA MoveItemSafe ==
    ASSUME RestoreInv, Undisturbed, NEW j \in Jobs, MoveItem(j)
    PROVE  KeptDirsOK' /\ JobOK(j)'
<1>1. pc[j] = "move" /\ pc'[j] = "move" /\ UNCHANGED <<status, now>>
  BY RestoreFacts DEF MoveItem
<1>2. /\ StageOK(j) /\ (Holding(j) => FilesOK(j))
      /\ job[j] \in Locals /\ job \in [Jobs -> Locals]
      /\ live \in Databases /\ parked \in [Stamps -> [db : Databases, lock : BOOLEAN]]
  BY <1>1, RestoreFacts
<1>3. PICK item \in job[j].left :
         /\ job' = [job EXCEPT ![j].left = @ \ {item}]
         /\ \/ /\ item \in Items(live, lock)
               /\ parked' = [parked EXCEPT ![job[j].temp] =
                      IF item = LockFile THEN [@ EXCEPT !.lock = TRUE]
                      ELSE [@ EXCEPT !.db[item] = live[item]]]
               /\ live' = [p \in Parts |-> IF p = item THEN Missing ELSE live[p]]
            \/ item \notin Items(live, lock) /\ UNCHANGED <<live, parked>>
  BY DEF MoveItem, Fault, Undisturbed
<1>4. /\ job'[j].left = job[j].left \ {item} /\ job'[j].temp = job[j].temp
      /\ job'[j].kind = job[j].kind /\ job'[j].entered = job[j].entered
      /\ job'[j].quiet = job[j].quiet /\ job'[j].before = job[j].before
  <2>1. job' = [job EXCEPT ![j].left = @ \ {item}]
    BY <1>3
  <2> QED BY <1>2, <2>1 DEF Locals
<1>5. job[j].temp \in Stamps
  BY <1>1, <1>3 DEF RestoreInv, TypeInv, LocalsOK
<1>6. \A t \in Stamps : t = job[j].temp \/ parked'[t] = parked[t]
  BY <1>2, <1>3
<1>7. KeptDirsOK' /\ StageOK(j)'
  BY <1>1, <1>4, <1>6, RestoreGoesOn DEF RestorePCs
<1>8. ASSUME Holding(j)' PROVE FilesOK(j)'
  <2>1. FilesOK(j)
    BY <1>2, <1>4, <1>8 DEF Holding, Restoring
  <2>2. item \in Parts => item # LockFile /\ item \in Items(live, lock)
    <3>1. item \in Parts => live[item] # Missing
      BY <1>1, <2>1 DEF FilesOK
    <3> QED BY <3>1, ConstantsOK DEF Items, Present
  <2>3. ASSUME NEW p \in Parts
        PROVE  /\ p # item => live'[p] = live[p]
                              /\ parked'[job[j].temp].db[p] = parked[job[j].temp].db[p]
               /\ p = item => live'[p] = Missing /\ parked'[job[j].temp].db[p] = live[p]
    <3>1. parked[job[j].temp] \in [db : Databases, lock : BOOLEAN]
      BY <1>2, <1>5
    <3>2. CASE item \notin Items(live, lock) /\ UNCHANGED <<live, parked>>
      BY <2>2, <3>2
    <3>3. CASE /\ item = LockFile
               /\ parked' = [parked EXCEPT ![job[j].temp] = [@ EXCEPT !.lock = TRUE]]
               /\ live' = [q \in Parts |-> IF q = item THEN Missing ELSE live[q]]
      <4>1. parked'[job[j].temp] = [parked[job[j].temp] EXCEPT !.lock = TRUE]
        BY <1>2, <1>5, <3>3
      <4>2. parked'[job[j].temp].db = parked[job[j].temp].db
        BY <3>1, <4>1
      <4> QED BY <3>3, <4>2, ConstantsOK
    <3>4. CASE /\ item # LockFile
               /\ parked' = [parked EXCEPT ![job[j].temp] = [@ EXCEPT !.db[item] = live[item]]]
               /\ live' = [q \in Parts |-> IF q = item THEN Missing ELSE live[q]]
      <4>1. parked'[job[j].temp] = [parked[job[j].temp] EXCEPT !.db[item] = live[item]]
        BY <1>2, <1>5, <3>4
      <4>2. parked'[job[j].temp].db = [parked[job[j].temp].db EXCEPT ![item] = live[item]]
        BY <3>1, <4>1
      <4> QED BY <3>1, <3>4, <4>2 DEF Databases
    <3> QED BY <1>3, <3>2, <3>3, <3>4
  <2> QED BY <1>1, <1>4, <1>5, <2>1, <2>3 DEF FilesOK, KeptDb
<1> QED BY <1>7, <1>8 DEF JobOK

LEMMA OpenBackupSafe ==
    ASSUME RestoreInv, Undisturbed, NEW j \in Jobs, OpenBackup(j)
    PROVE  KeptDirsOK' /\ JobOK(j)'
<1>1. pc[j] = "move" /\ job[j].left = {} /\ UNCHANGED <<live, parked, status, now>>
  BY DEF OpenBackup
<1>2. CASE Raise(j)
  BY <1>1, <1>2, RaiseSafe
<1> DEFINE src == archive[job[j].archive].db
<1>3. CASE /\ job' = [job EXCEPT ![j].source = src, ![j].left = Present(src)]
           /\ Goto(j, "extract")
  <2>1. /\ StageOK(j) /\ (Holding(j) => FilesOK(j))
        /\ job[j] \in Locals /\ job \in [Jobs -> Locals] /\ pc \in [Jobs -> PCs]
        /\ live \in Databases /\ parked \in [Stamps -> [db : Databases, lock : BOOLEAN]]
    BY <1>1, RestoreFacts
  <2>2. pc'[j] = "extract"
    BY <1>3, <2>1 DEF Goto
  <2> HIDE DEF src
  <2>3. /\ job'[j].left = Present(src) /\ job'[j].source = src /\ job'[j].temp = job[j].temp
        /\ job'[j].kind = job[j].kind /\ job'[j].entered = job[j].entered
        /\ job'[j].quiet = job[j].quiet /\ job'[j].before = job[j].before
    BY <1>3, <2>1 DEF Locals
  <2>4. KeptDirsOK' /\ StageOK(j)'
    BY <1>1, <2>2, <2>3, RestoreGoesOn DEF RestorePCs
  <2>5. ASSUME Holding(j)' PROVE FilesOK(j)'
    <3>1. FilesOK(j)
      BY <2>1, <2>3, <2>5 DEF Holding, Restoring
    <3>2. /\ job[j].temp \in Stamps
          /\ \A p \in Parts : live[p] = Missing /\ parked[job[j].temp].db[p] = job[j].before[p]
      BY <1>1, <3>1 DEF FilesOK, KeptDb
    <3>3. parked[job[j].temp].db = job[j].before
      BY <2>1, <3>2 DEF Databases, Locals
    <3>4. \A p \in Parts \ Present(src) : live[p] = src[p]
      BY <3>2 DEF Present
    <3> QED BY <1>1, <2>2, <2>3, <3>2, <3>3, <3>4 DEF FilesOK, KeptDb
  <2> QED BY <2>4, <2>5 DEF JobOK
<1> QED BY <1>2, <1>3 DEF OpenBackup

LEMMA ExtractSafe ==
    ASSUME RestoreInv, Undisturbed, NEW j \in Jobs, ExtractPart(j) \/ Diagnose(j)
    PROVE  KeptDirsOK' /\ JobOK(j)'
<1>1. pc[j] = "extract" /\ UNCHANGED <<parked, status, now>>
  BY DEF ExtractPart, Diagnose, disk
<1>2. /\ StageOK(j) /\ (Holding(j) => FilesOK(j))
      /\ job[j] \in Locals /\ job \in [Jobs -> Locals] /\ pc \in [Jobs -> PCs]
      /\ live \in Databases /\ parked \in [Stamps -> [db : Databases, lock : BOOLEAN]]
  BY <1>1, RestoreFacts
<1>3. CASE ExtractPart(j)
  <2>1. PICK p \in job[j].left : /\ live' = [live EXCEPT ![p] = job[j].source[p]]
                                 /\ job' = [job EXCEPT ![j].left = @ \ {p}]
    BY <1>3 DEF ExtractPart
  <2>2. /\ job'[j].left = job[j].left \ {p} /\ job'[j].source = job[j].source
        /\ job'[j].temp = job[j].temp
        /\ job'[j].kind = job[j].kind /\ job'[j].entered = job[j].entered
        /\ job'[j].quiet = job[j].quiet /\ job'[j].before = job[j].before
    BY <1>2, <2>1 DEF Locals
  <2>3. pc'[j] = "extract"
    BY <1>1, <1>3 DEF ExtractPart
  <2>4. KeptDirsOK' /\ StageOK(j)'
    BY <1>1, <2>2, <2>3, RestoreGoesOn DEF RestorePCs
  <2>5. ASSUME Holding(j)' PROVE FilesOK(j)'
    <3>1. FilesOK(j)
      BY <1>2, <2>2, <2>5 DEF Holding, Restoring
    <3>2. \A q \in Parts \ job'[j].left : live'[q] = job'[j].source[q]
      BY <1>1, <1>2, <2>1, <2>2, <3>1 DEF FilesOK, Databases
    <3> QED BY <1>1, <2>2, <2>3, <3>1, <3>2 DEF FilesOK, KeptDb
  <2> QED BY <2>4, <2>5 DEF JobOK
<1>4. CASE Diagnose(j)
  <2>1. /\ pc'[j] \in {"wipe", "commit"} /\ UNCHANGED <<job, live>> /\ job[j].left = {}
    BY <1>2, <1>4 DEF Diagnose, Goto, disk
  <2>2. KeptDirsOK' /\ StageOK(j)'
    BY <1>1, <2>1, RestoreGoesOn DEF RestorePCs
  <2>3. ASSUME Holding(j)' PROVE FilesOK(j)'
    <3>1. FilesOK(j)
      BY <1>2, <2>1, <2>3 DEF Holding, Restoring
    <3>2. live = job[j].source
      BY <1>1, <1>2, <2>1, <3>1 DEF FilesOK, Databases, Locals
    <3> QED BY <1>1, <2>1, <3>1, <3>2 DEF FilesOK, KeptDb
  <2> QED BY <2>2, <2>3 DEF JobOK
<1> QED BY <1>3, <1>4

\* The end of a restore clears its directory of kept files.
LEMMA EndRestoreSafe ==
    ASSUME RestoreInv, Undisturbed, NEW j \in Jobs, Commit(j) \/ EndRestore(j)
    PROVE  KeptDirsOK' /\ JobOK(j)'
<1>1. /\ pc[j] # "idle" /\ EndJob(j) /\ now' = now
      /\ parked' = IF job[j].temp = NoStamp THEN parked
                   ELSE [parked EXCEPT ![job[j].temp] = NothingParked]
  BY DEF Commit, EndRestore
<1>2. parked \in [Stamps -> [db : Databases, lock : BOOLEAN]]
  BY <1>1, RestoreFacts
<1>3. NothingParked.db = NoDb
  BY DEF NothingParked
<1>4. \A t \in Stamps : parked'[t] = parked[t] \/ parked'[t].db = NoDb
  BY <1>1, <1>2, <1>3
<1>5. job[j].temp \in Stamps => parked'[job[j].temp].db = NoDb
  BY <1>1, <1>2, <1>3, ConstantsOK
<1> QED BY <1>1, <1>4, <1>5, EndJobSafe

LEMMA WipeSafe ==
    ASSUME RestoreInv, Undisturbed, NEW j \in Jobs, Wipe(j)
    PROVE  KeptDirsOK' /\ JobOK(j)'
<1>1. pc[j] = "wipe" /\ live' = NoDb /\ UNCHANGED <<parked, status, now>>
  BY DEF Wipe
<1>2. /\ StageOK(j) /\ (Holding(j) => FilesOK(j))
      /\ job[j] \in Locals /\ job \in [Jobs -> Locals] /\ pc \in [Jobs -> PCs]
  BY <1>1, RestoreFacts
<1> DEFINE items == IF job[j].temp = NoStamp THEN {}
                    ELSE Items(parked[job[j].temp].db, parked[job[j].temp].lock)
<1>3. job' = [job EXCEPT ![j].left = items] /\ pc'[j] = "putback"
  BY <1>2 DEF Wipe, Goto
<1> HIDE DEF items
<1>4. /\ job'[j].left = items /\ job'[j].temp = job[j].temp
      /\ job'[j].kind = job[j].kind /\ job'[j].entered = job[j].entered
      /\ job'[j].quiet = job[j].quiet /\ job'[j].before = job[j].before
  BY <1>2, <1>3 DEF Locals
<1>5. KeptDirsOK' /\ StageOK(j)'
  BY <1>1, <1>3, <1>4, RestoreGoesOn DEF RestorePCs
<1>6. ASSUME Holding(j)' PROVE FilesOK(j)'
  <2>1. job[j].temp \in Stamps /\ parked[job[j].temp].db = job[j].before
    BY <1>1, <1>2, <1>4, <1>6 DEF Holding, Restoring, FilesOK, KeptDb
  <2>2. \A p \in Parts : p \in items <=> job[j].before[p] # Missing
    BY <2>1, ConstantsOK DEF items, Items, Present
  <2>3. \A p \in Parts : live'[p] = Missing
    BY <1>1 DEF NoDb
  <2> QED BY <1>1, <1>3, <1>4, <2>1, <2>2, <2>3 DEF FilesOK, KeptDb
<1> QED BY <1>5, <1>6 DEF JobOK

LEMMA PutBackItemSafe ==
    ASSUME RestoreInv, Undisturbed, NEW j \in Jobs, PutBackItem(j)
    PROVE  KeptDirsOK' /\ JobOK(j)'
<1>1. pc[j] = "putback" /\ pc'[j] = "putback" /\ UNCHANGED <<status, now>>
  BY RestoreFacts DEF PutBackItem
<1>2. /\ StageOK(j) /\ (Holding(j) => FilesOK(j))
      /\ job[j] \in Locals /\ job \in [Jobs -> Locals]
      /\ live \in Databases /\ parked \in [Stamps -> [db : Databases, lock : BOOLEAN]]
  BY <1>1, RestoreFacts
<1>3. PICK item \in job[j].left :
         /\ job' = [job EXCEPT ![j].left = @ \ {item}]
         /\ live' = [p \in Parts |-> IF p = item THEN parked[job[j].temp].db[p] ELSE live[p]]
         /\ parked' = [parked EXCEPT ![job[j].temp] =
                IF item = LockFile THEN [@ EXCEPT !.lock = FALSE]
                ELSE [@ EXCEPT !.db[item] = Missing]]
  BY DEF PutBackItem, Fault, Undisturbed
<1>4. /\ job'[j].left = job[j].left \ {item} /\ job'[j].temp = job[j].temp
      /\ job'[j].kind = job[j].kind /\ job'[j].entered = job[j].entered
      /\ job'[j].quiet = job[j].quiet /\ job'[j].before = job[j].before
  <2>1. job' = [job EXCEPT ![j].left = @ \ {item}]
    BY <1>3
  <2> QED BY <1>2, <2>1 DEF Locals
<1>5. job[j].temp \in Stamps
  BY <1>1, <1>3 DEF RestoreInv, TypeInv, LocalsOK
<1>6. \A t \in Stamps : t = job[j].temp \/ parked'[t] = parked[t]
  BY <1>2, <1>3
<1>7. KeptDirsOK' /\ StageOK(j)'
  BY <1>1, <1>4, <1>6, RestoreGoesOn DEF RestorePCs
<1>8. ASSUME Holding(j)' PROVE FilesOK(j)'
  <2>1. FilesOK(j)
    BY <1>2, <1>4, <1>8 DEF Holding, Restoring
  <2>2. ASSUME NEW p \in Parts
        PROVE  /\ live'[p] = IF p = item THEN parked[job[j].temp].db[p] ELSE live[p]
               /\ p # item => parked'[job[j].temp].db[p] = parked[job[j].temp].db[p]
    <3>1. parked[job[j].temp] \in [db : Databases, lock : BOOLEAN]
      BY <1>2, <1>5
    <3>2. CASE item = LockFile
      <4>1. parked'[job[j].temp] = [parked[job[j].temp] EXCEPT !.lock = FALSE]
        BY <1>2, <1>3, <1>5, <3>2
      <4>2. parked'[job[j].temp].db = parked[job[j].temp].db
        BY <3>1, <4>1
      <4> QED BY <1>3, <4>2
    <3>3. CASE item # LockFile
      <4>1. parked'[job[j].temp] = [parked[job[j].temp] EXCEPT !.db[item] = Missing]
        BY <1>2, <1>3, <1>5, <3>3
      <4>2. parked'[job[j].temp].db = [parked[job[j].temp].db EXCEPT ![item] = Missing]
        BY <3>1, <4>1
      <4> QED BY <1>3, <3>1, <4>2 DEF Databases
    <3> QED BY <3>2, <3>3
  <2> QED BY <1>1, <1>4, <1>5, <2>1, <2>2 DEF FilesOK, KeptDb
<1> QED BY <1>7, <1>8 DEF JobOK

LEMMA RestoreSteps ==
    ASSUME RestoreInv, Undisturbed, NEW j \in Jobs, RestoreStep(j)
    PROVE  KeptDirsOK' /\ JobOK(j)'
<1>1. ~ReleaseServer(j)
  BY DEF ReleaseServer, RestoreInv, JobOK, StageOK
<1>2. ~WipeFails(j)
  BY DEF WipeFails, Fault, Undisturbed
<1> QED BY <1>1, <1>2, ListExistingSafe, MoveItemSafe, OpenBackupSafe, ExtractSafe, WipeSafe,
        PutBackItemSafe, EndRestoreSafe
     DEF RestoreStep

\* A writer makes no promise about a restore that is under way.
LEMMA WriteSafe ==
    ASSUME RestoreInv, Undisturbed, NEW j \in Jobs, Write
    PROVE  KeptDirsOK' /\ JobOK(j)'
<1>1. UNCHANGED <<lock, parked, status, pc, now>>
  BY DEF Write
<1>2. /\ job'[j].kind = job[j].kind /\ job'[j].temp = job[j].temp
      /\ job'[j].entered = job[j].entered
      /\ IF pc[j] = "idle" THEN job'[j] = job[j] ELSE job'[j].quiet = FALSE
  BY DEF Write, RestoreInv, TypeInv, TypeOK, Locals
<1>3. pc[j] = "idle" => ~Restoring(j)'
  BY <1>2, EmptyTypes DEF Restoring, RestoreInv, TypeInv, TypeOK
<1>4. KeptDirsOK'
  BY <1>1, <1>2, SameDirs
<1>5. StageOK(j)
  BY DEF RestoreInv, JobOK
<1>6. StageOK(j)'
  BY <1>1, <1>2, <1>3, <1>5 DEF StageOK, Restoring
<1>7. ~Holding(j)'
  BY <1>2, <1>3 DEF Holding
<1> QED BY <1>4, <1>6, <1>7 DEF JobOK

LEMMA TickSafe ==
    ASSUME RestoreInv, Undisturbed, NEW j \in Jobs, Tick
    PROVE  KeptDirsOK' /\ JobOK(j)'
<1>1. now \in Nat /\ now' = now + 1 /\ UNCHANGED <<live, lock, parked, status, pc, job>>
  BY ConstantsOK DEF Tick, disk, RestoreInv, TypeInv, TypeOK, Stamps
<1>2. KeptDirsOK'
  BY <1>1 DEF RestoreInv, KeptDirsOK, Stamps
<1>3. job[j].temp # NoStamp => job[j].temp \in Nat
  <2>1. job[j].temp \in Stamps \cup {NoStamp}
    BY DEF RestoreInv, TypeInv, TypeOK, Locals
  <2> QED BY <2>1, ConstantsOK DEF Stamps
<1>4. JobOK(j)
  BY DEF RestoreInv
<1>5. StageOK(j)'
  BY <1>1, <1>3, <1>4 DEF JobOK, StageOK, Restoring
<1>6. Holding(j)' => FilesOK(j)'
  BY <1>1, <1>4 DEF JobOK, Holding, Restoring, FilesOK, KeptDb
<1> QED BY <1>2, <1>5, <1>6 DEF JobOK

\* The directory of a restore that dies is of an earlier second.
LEMMA CrashSafe ==
    ASSUME RestoreInv, Undisturbed, NEW j \in Jobs, Crash
    PROVE  KeptDirsOK' /\ JobOK(j)'
<1>1. pc'[j] = "idle" /\ job'[j] = NoLocals
  <2>1. PICK dead \in {{k} : k \in Cli} \cup {Jobs \ Cli} :
           /\ \E k \in dead : pc[k] # "idle"
           /\ pc' = [k \in Jobs |-> IF k \in dead THEN "idle" ELSE pc[k]]
           /\ job' = [k \in Jobs |-> IF k \in dead THEN NoLocals ELSE job[k]]
    BY DEF Crash
  <2>2. dead \subseteq Jobs
    BY ConstantsOK
  <2>3. j \in dead
    BY <2>1, <2>2 DEF Undisturbed
  <2> QED BY <2>1, <2>3
<1>2. now \in Nat /\ now' = now + 1 /\ parked' = parked
  BY ConstantsOK DEF Crash, RestoreInv, TypeInv, TypeOK, Stamps
<1>3. \A t \in Stamps : parked'[t].db # NoDb => t < now'
  <2>1. job[j].temp # NoStamp => job[j].temp <= now
    BY DEF RestoreInv, JobOK, StageOK
  <2>2. ASSUME NEW t \in Stamps, parked'[t].db # NoDb PROVE t < now'
    <3>1. t < now \/ job[j].temp = t
      BY <1>2, <2>2 DEF RestoreInv, KeptDirsOK, Undisturbed
    <3>2. t \in Nat /\ t # NoStamp
      BY ConstantsOK DEF Stamps
    <3> QED BY <1>2, <2>1, <3>1, <3>2
  <2> QED BY <2>2
<1>4. KeptDirsOK'
  BY <1>3 DEF KeptDirsOK
<1>5. JobOK(j)'
  BY <1>1, EmptyTypes DEF JobOK, StageOK, Holding, Restoring, BackupPCs, RestorePCs
<1> QED BY <1>4, <1>5

LEMMA InitSafe == ASSUME Init PROVE RestoreInv
<1>1. TypeInv
  BY InitType
<1>2. KeptDirsOK
  BY DEF Init, KeptDirsOK, NothingParked
<1>3. \A j \in Jobs : JobOK(j)
  BY EmptyTypes DEF Init, JobOK, StageOK, Holding, Restoring, BackupPCs, RestorePCs
<1> QED BY <1>1, <1>2, <1>3 DEF RestoreInv

LEMMA StepSafe == ASSUME RestoreInv, Undisturbed, [Next]_vars PROVE RestoreInv'
<1>1. TypeInv'
  BY StepKeepsType DEF RestoreInv
<1>2. ASSUME NEW j \in Jobs, StartBackup(j) \/ StartRestore(j) \/ JobStep(j)
      PROVE  KeptDirsOK' /\ JobOK(j)'
  BY <1>2, StartSafe, LockSafe, BackupSafe, RestoreSteps DEF JobStep
<1>3. CASE \E j \in Jobs : StartBackup(j) \/ StartRestore(j) \/ JobStep(j)
  <2>1. PICK j \in Jobs : StartBackup(j) \/ StartRestore(j) \/ JobStep(j)
    BY <1>3
  <2>2. KeptDirsOK' /\ JobOK(j)'
    BY <1>2, <2>1
  <2>3. \A k \in Jobs : k = j
    BY DEF Undisturbed
  <2>4. \A k \in Jobs : JobOK(k)'
    BY <2>2, <2>3
  <2> QED BY <1>1, <2>2, <2>4 DEF RestoreInv
<1>4. CASE Write \/ Tick \/ Crash
  <2>1. \A k \in Jobs : KeptDirsOK' /\ JobOK(k)'
    BY <1>4, WriteSafe, TickSafe, CrashSafe
  <2>2. CASE Jobs = {}
    <3>1. now \in Nat /\ now' \in Nat /\ now' >= now /\ parked' = parked
      BY <1>4, ConstantsOK DEF Write, Tick, Crash, disk, RestoreInv, TypeInv, TypeOK, Stamps
    <3>2. KeptDirsOK'
      BY <2>2, <3>1 DEF RestoreInv, KeptDirsOK, Stamps
    <3> QED BY <1>1, <2>2, <3>2 DEF RestoreInv
  <2>3. CASE Jobs # {}
    BY <1>1, <2>1, <2>3 DEF RestoreInv
  <2> QED BY <2>2, <2>3
<1>5. CASE UNCHANGED vars
  BY <1>1, <1>5
     DEF vars, disk, RestoreInv, KeptDirsOK, JobOK, StageOK, Holding, Restoring, FilesOK, KeptDb
<1> QED BY <1>3, <1>4, <1>5 DEF Next

\* A restore that holds the lock while nobody writes is at one of these points.
LEMMA WhereHolding ==
    ASSUME RestoreInv, NEW j \in Jobs, Holding(j)
    PROVE  /\ pc[j] \in {"list", "move", "extract", "commit", "wipe", "putback"}
           /\ StageOK(j) /\ FilesOK(j) /\ status.state = "running"
<1>1. StageOK(j) /\ FilesOK(j) /\ job[j].kind = "restore" /\ pc[j] \in PCs
  BY DEF RestoreInv, JobOK, Holding, Restoring, TypeInv, TypeOK
<1>2. pc[j] # "idle"
  BY <1>1, EmptyTypes DEF RestoreInv, TypeInv, TypeOK
<1>3. pc[j] \notin {"lock", "touch", "server"} \cup BackupPCs
  BY <1>1 DEF StageOK, Holding
<1> QED BY <1>1, <1>2, <1>3 DEF PCs, BackupPCs, StageOK, Restoring

LEMMA OldDbFromInv == ASSUME RestoreInv PROVE OldDbOnDisk
<1> SUFFICES ASSUME NEW j \in Jobs, Holding(j), NEW p \in Parts
             PROVE  \/ live[p] = job[j].before[p]
                    \/ /\ job[j].temp # NoStamp
                       /\ parked[job[j].temp].db[p] = job[j].before[p]
  BY DEF OldDbOnDisk, Holding
<1>1. FilesOK(j) /\ pc[j] \in {"list", "move", "extract", "commit", "wipe", "putback"}
  BY WhereHolding
<1>2. CASE pc[j] = "list"
  BY <1>1, <1>2 DEF FilesOK
<1>3. CASE pc[j] \in {"move", "extract", "commit", "wipe", "putback"}
  BY <1>1, <1>3, ConstantsOK DEF FilesOK, KeptDb
<1> QED BY <1>1, <1>2, <1>3

\* The step in which such a restore ends.
LEMMA EndAllOrNothing ==
    ASSUME RestoreInv, Undisturbed, [Next]_vars, NEW j \in Jobs, Holding(j), Ended(j)
    PROVE  live' = IF status'.state = "completed" THEN job[j].source ELSE job[j].before
<1>1. /\ pc[j] \in {"list", "move", "extract", "commit", "wipe", "putback"}
      /\ StageOK(j) /\ FilesOK(j) /\ status.state = "running"
  BY WhereHolding
<1>2. /\ pc'[j] = "idle" /\ status'.state # "running" /\ status'.state # "idle"
      /\ pc \in [Jobs -> PCs] /\ live \in Databases /\ job[j].before \in Databases
      /\ job[j].kind = "restore"
  BY DEF Ended, RestoreInv, TypeInv, TypeOK, Locals, Holding, Restoring
<1>3. JobStep(j)
  <2>1. ~Write /\ ~Tick /\ ~UNCHANGED vars
    BY <1>1, <1>2 DEF Write, Tick, vars, disk
  <2>2. ~Crash
    BY <1>1, <1>2 DEF Crash, Report
  <2>3. PICK k \in Jobs : StartBackup(k) \/ StartRestore(k) \/ JobStep(k)
    BY <2>1, <2>2 DEF Next
  <2>4. k = j
    BY DEF Undisturbed
  <2> QED BY <1>1, <2>3, <2>4 DEF StartBackup, StartRestore
<1>4. Commit(j) \/ EndRestore(j)
  <2>1. ~Raise(j)
    BY <1>2 DEF Raise, Goto, OnError
  <2>2. ~CheckLock(j) /\ ~TouchLock(j) /\ ~CallFails(j) /\ ~BackupStep(j)
    BY <1>1, <2>1 DEF CheckLock, TouchLock, CallFails, BackupStep, OpenArchive, ArchivePart,
       CloseArchive, WriteHash, Rotate, UndoBackup
  <2>3. ~ReleaseServer(j) /\ ~WipeFails(j)
    BY <1>1 DEF ReleaseServer, WipeFails, Fault, Undisturbed
  <2>4. /\ ~ListExisting(j) /\ ~MoveItem(j) /\ ~OpenBackup(j) /\ ~ExtractPart(j)
        /\ ~Diagnose(j) /\ ~Wipe(j) /\ ~PutBackItem(j)
    BY <1>2, <2>1 DEF ListExisting, MoveItem, OpenBackup, ExtractPart, Diagnose, Wipe,
       PutBackItem, Goto
  <2> QED BY <1>3, <2>2, <2>3, <2>4 DEF JobStep, RestoreStep
<1>5. CASE Commit(j)
  BY <1>1, <1>5 DEF Commit, Report, FilesOK
<1>6. CASE EndRestore(j)
  <2>1. \A p \in Parts : live[p] = job[j].before[p]
    BY <1>1, <1>6 DEF EndRestore, FilesOK
  <2>2. live = job[j].before
    BY <1>2, <2>1 DEF Databases
  <2> QED BY <1>6, <2>2 DEF EndRestore, Report
<1> QED BY <1>4, <1>5, <1>6

-----------------------------------------------------------------------------

\* With one call at a time, no server, and old files that can be listed, moved and
\* put back: until a restore is over, every old file is in its place or among the
\* kept ones, whichever other calls fail (_move_existing_db, _restore_previous_db).
THEOREM RestoreSafe ==
    ASSUME Undisturbed
    PROVE  Spec => []OldDbOnDisk
<1>1. Init => RestoreInv
  BY InitSafe
<1>2. RestoreInv /\ [Next]_vars => RestoreInv'
  BY StepSafe
<1>3. RestoreInv => OldDbOnDisk
  BY OldDbFromInv
<1> QED BY <1>1, <1>2, <1>3, PTL DEF Spec

\* Under the same conditions a restore that reports its success leaves the whole
\* archive, and one that reports a failure the whole old database
\* (_restore_previous_db and _remove_previous_db).
THEOREM RestoreWhole ==
    ASSUME Undisturbed
    PROVE  Spec => RestoreIsAllOrNothing
<1>1. Init => RestoreInv
  BY InitSafe
<1>2. RestoreInv /\ [Next]_vars => RestoreInv'
  BY StepSafe
<1>3. RestoreInv /\ [Next]_vars =>
         [\A j \in Jobs : Restoring(j) /\ job[j].entered /\ job[j].quiet /\ Ended(j)
             => live' = IF status'.state = "completed" THEN job[j].source
                        ELSE job[j].before]_vars
  BY EndAllOrNothing DEF Holding
<1> QED BY <1>1, <1>2, <1>3, PTL DEF Spec, RestoreIsAllOrNothing

-----------------------------------------------------------------------------
(* The archives, with one call at a time and any failure.                  *)

OneCallAtATime == \A j, k \in Jobs : j = k

Backing(j) == job[j].kind = "backup"

KindOK(j) ==
    /\ pc[j] \in BackupPCs => Backing(j)
    /\ pc[j] \in RestorePCs => Restoring(j)

\* An archive is finished at least a second after the one it is named after, so
\* what was there when a backup started is older than the archive it makes.
AgesOK ==
    \A a \in Stamps : Exists(a) =>
       /\ a < archive[a].mtime /\ archive[a].mtime <= now
       /\ \A j \in Jobs : Backing(j) /\ a # job[j].archive => archive[a].mtime <= job[j].archive

\* Only a failure or a crash leaves an archive behind that is of no use.
OthersUsable ==
    faults = 0 =>
       \A a \in Stamps :
          Exists(a) => Usable(a) \/ \E j \in Jobs : Backing(j) /\ job[j].archive = a

\* The archive a backup is at work on.
OwnArchiveOK(j) ==
    LET own == archive[job[j].archive] IN
    Backing(j) =>
       /\ job[j].archive <= now
       /\ pc[j] \in {"lock", "touch", "wait"} => own.state = "none"
       /\ pc[j] = "tar" => own.state = "open"
       /\ pc[j] \in {"hash", "rotate"} => own.state = "closed"
       /\ pc[j] = "rotate" => own.hash = own.db

\* The archive a restore reads.
ReadOK(j) ==
    Restoring(j) =>
       /\ Verified(job[j].archive)
       /\ pc[j] \in {"extract", "commit"} => archive[job[j].archive].state = "closed"

CallOK(j) == KindOK(j) /\ OwnArchiveOK(j) /\ ReadOK(j)

\* A backup that has reported its success still has to rotate.
ReportOK ==
    status.state = "completed" =>
       /\ status.target \in Stamps /\ Usable(status.target)
       /\ \A j \in Jobs : pc[j] # "idle" =>
             Backing(j) /\ pc[j] \in {"rotate", "undo"} /\ status.target = job[j].archive

ArchiveInv ==
    TypeInv /\ AgesOK /\ OthersUsable /\ ReportOK /\ \A j \in Jobs : CallOK(j)

Kept == AgesOK /\ OthersUsable /\ ReportOK /\ \A j \in Jobs : CallOK(j)

LEMMA ArchiveFacts ==
    ASSUME ArchiveInv, NEW j \in Jobs
    PROVE  /\ job \in [Jobs -> Locals] /\ job[j] \in Locals
           /\ pc \in [Jobs -> PCs] /\ archive \in [Stamps -> Archives]
           /\ CallOK(j) /\ faults \in Nat /\ now \in Nat
           /\ pc[j] = "idle" => job[j] = NoLocals
           /\ pc[j] # "idle" => /\ job[j].kind \in {"backup", "restore"}
                                /\ job[j].archive \in Stamps
BY Underway, ConstantsOK DEF ArchiveInv, TypeInv, TypeOK, Stamps

\* What is known of an archive depends on its record only.
LEMMA SameArchive ==
    ASSUME NEW a \in Stamps, archive'[a] = archive[a]
    PROVE  /\ Exists(a)' <=> Exists(a)
           /\ Usable(a)' <=> Usable(a)
           /\ Verified(a)' <=> Verified(a)
BY DEF Exists, Usable, Verified

LEMMA FaultCounts == ASSUME ArchiveInv, NEW call, Fault(call) PROVE faults' # 0
BY ConstantsOK DEF ArchiveInv, TypeInv, TypeOK, Fault

\* A step of a call that leaves the archives alone.
LEMMA CallGoesOn ==
    ASSUME ArchiveInv, OneCallAtATime, NEW j \in Jobs, pc[j] # "idle",
           archive' = archive, now' = now, faults' = 0 => faults = 0,
           status' = status \/ status'.state # "completed",
           job'[j].kind = job[j].kind, job'[j].archive = job[j].archive, KindOK(j)',
           Backing(j) =>
              \/ pc'[j] \in {pc[j], "undo"}
              \/ pc[j] \in {"lock", "touch"} /\ pc'[j] \in {"touch", "wait"},
           Restoring(j) /\ pc'[j] \in {"extract", "commit"} =>
              archive[job[j].archive].state = "closed"
    PROVE  Kept'
<1>1. \A k \in Jobs : k = j
  BY DEF OneCallAtATime
<1>2. /\ CallOK(j) /\ job[j].kind \in {"backup", "restore"} /\ job[j].archive \in Stamps
  BY ArchiveFacts
<1>3. \A a \in Stamps : (Exists(a)' <=> Exists(a)) /\ (Usable(a)' <=> Usable(a))
                        /\ (Verified(a)' <=> Verified(a))
  BY SameArchive
<1>4. AgesOK'
  BY <1>1, <1>3 DEF ArchiveInv, AgesOK, Backing
<1>5. OthersUsable'
  BY <1>1, <1>3 DEF ArchiveInv, OthersUsable, Backing
<1>6. OwnArchiveOK(j)'
  BY <1>2 DEF CallOK, OwnArchiveOK, Backing
<1>7. ReadOK(j)'
  BY <1>2, <1>3 DEF CallOK, ReadOK, Restoring
<1>8. ReportOK'
  <2> SUFFICES ASSUME status'.state = "completed" PROVE ReportOK'
    BY DEF ReportOK
  <2>1. /\ status' = status /\ status.target \in Stamps /\ Usable(status.target)
        /\ Backing(j) /\ pc[j] \in {"rotate", "undo"} /\ status.target = job[j].archive
    BY DEF ArchiveInv, ReportOK
  <2>2. pc'[j] \in {"rotate", "undo"}
    BY <2>1
  <2> QED BY <1>1, <1>3, <2>1, <2>2 DEF ReportOK, Backing
<1> QED BY <1>1, <1>4, <1>5, <1>6, <1>7, <1>8 DEF Kept, CallOK

LEMMA RaiseGoesOn ==
    ASSUME ArchiveInv, OneCallAtATime, NEW j \in Jobs, pc[j] # "idle", Raise(j),
           archive' = archive, now' = now, faults' = 0 => faults = 0, status' = status
    PROVE  Kept'
<1>1. /\ job \in [Jobs -> Locals] /\ job[j] \in Locals /\ pc \in [Jobs -> PCs]
      /\ job[j].kind \in {"backup", "restore"}
  BY ArchiveFacts
<1>2. job'[j].kind = job[j].kind /\ job'[j].archive = job[j].archive
  BY <1>1 DEF Raise, Locals
<1>3. pc'[j] = IF Backing(j) THEN "undo" ELSE "wipe"
  BY <1>1 DEF Raise, Goto, OnError, Backing
<1>4. KindOK(j)'
  BY <1>1, <1>2, <1>3 DEF KindOK, Backing, Restoring, BackupPCs, RestorePCs
<1>5. Restoring(j) => pc'[j] = "wipe"
  BY <1>3 DEF Restoring, Backing
<1> QED BY <1>2, <1>3, <1>4, <1>5, CallGoesOn

LEMMA LocksKeep ==
    ASSUME ArchiveInv, OneCallAtATime, NEW j \in Jobs,
           CheckLock(j) \/ TouchLock(j) \/ CallFails(j)
    PROVE  Kept'
<1>1. /\ job \in [Jobs -> Locals] /\ job[j] \in Locals /\ pc \in [Jobs -> PCs]
      /\ pc[j] # "idle" => job[j].kind \in {"backup", "restore"}
  BY ArchiveFacts
<1>2. CASE CheckLock(j)
  <2>1. pc'[j] \in {OnError(j), "touch"} /\ pc[j] = "lock"
    BY <1>1, <1>2 DEF CheckLock, Goto
  <2>2. KindOK(j)'
    BY <1>1, <1>2, <2>1
       DEF CheckLock, KindOK, OnError, Backing, Restoring, BackupPCs, RestorePCs
  <2>3. /\ Backing(j) => pc'[j] \in {"undo", "touch"}
        /\ Restoring(j) => pc'[j] \in {"wipe", "touch"}
    BY <2>1 DEF OnError, Backing, Restoring
  <2> QED BY <1>2, <2>1, <2>2, <2>3, CallGoesOn DEF CheckLock, disk
<1>3. CASE TouchLock(j)
  <2>1. CASE Raise(j)
    BY <1>3, <2>1, RaiseGoesOn DEF TouchLock
  <2>2. CASE /\ Goto(j, IF job[j].kind = "backup" THEN "wait"
                        ELSE IF Server THEN "server" ELSE "list")
             /\ job' = [job EXCEPT ![j].inside = TRUE, ![j].entered = TRUE]
    <3>1. pc[j] = "touch" /\ pc'[j] = (IF job[j].kind = "backup" THEN "wait"
                                       ELSE IF Server THEN "server" ELSE "list")
      BY <1>1, <1>3, <2>2 DEF TouchLock, Goto
    <3>2. job'[j].kind = job[j].kind /\ job'[j].archive = job[j].archive
      BY <1>1, <2>2 DEF Locals
    <3>3. KindOK(j)'
      BY <1>1, <3>1, <3>2 DEF KindOK, Backing, Restoring, BackupPCs, RestorePCs
    <3>4. pc[j] # "idle" /\ (Backing(j) => pc'[j] = "wait")
          /\ (Restoring(j) => pc'[j] \in {"server", "list"})
      BY <3>1 DEF Backing, Restoring
    <3>5. UNCHANGED <<archive, status, now, faults>>
      BY <1>3 DEF TouchLock
    <3> QED BY <3>1, <3>2, <3>3, <3>4, <3>5, CallGoesOn
  <2> QED BY <1>3, <2>1, <2>2 DEF TouchLock
<1>4. CASE CallFails(j)
  BY <1>4, FaultCounts, RaiseGoesOn DEF CallFails
<1> QED BY <1>2, <1>3, <1>4

\* The steps of a restore before it ends leave the archives as they are.
LEMMA RestoreGoesOnReading ==
    ASSUME ArchiveInv, OneCallAtATime, NEW j \in Jobs, pc[j] \in RestorePCs,
           pc'[j] \in RestorePCs,
           pc'[j] \in {"extract", "commit"} =>
              pc[j] \in {"extract", "commit"} \/ archive[job[j].archive].state = "closed",
           archive' = archive, now' = now, faults' = 0 => faults = 0, status' = status,
           job'[j].kind = job[j].kind, job'[j].archive = job[j].archive
    PROVE  Kept'
<1>1. pc[j] # "idle" /\ CallOK(j) /\ Restoring(j)
  BY ArchiveFacts DEF CallOK, KindOK, RestorePCs
<1>2. KindOK(j)' /\ ~Backing(j)
  BY <1>1 DEF KindOK, Restoring, Backing, BackupPCs, RestorePCs
<1>3. pc'[j] \in {"extract", "commit"} => archive[job[j].archive].state = "closed"
  BY <1>1 DEF CallOK, ReadOK
<1> QED BY <1>1, <1>2, <1>3, CallGoesOn

LEMMA RestoreReadsKeep ==
    ASSUME ArchiveInv, OneCallAtATime, NEW j \in Jobs,
           \/ ReleaseServer(j) \/ ListExisting(j) \/ MoveItem(j) \/ OpenBackup(j)
           \/ ExtractPart(j) \/ Diagnose(j) \/ Wipe(j) \/ PutBackItem(j)
    PROVE  Kept'
<1>1. /\ job \in [Jobs -> Locals] /\ job[j] \in Locals /\ pc \in [Jobs -> PCs]
  BY ArchiveFacts
<1>2. CASE ReleaseServer(j)
  <2>1. pc[j] = "server" /\ pc'[j] = "list" /\ (faults' = 0 => faults = 0)
    BY <1>1, <1>2, FaultCounts DEF ReleaseServer, Goto
  <2> QED BY <1>2, <2>1, RestoreGoesOnReading DEF ReleaseServer, RestorePCs
<1>3. CASE ListExisting(j)
  <2>1. pc[j] = "list" /\ pc'[j] = "move"
    BY <1>1, <1>3 DEF ListExisting, Goto
  <2>2. job'[j].kind = job[j].kind /\ job'[j].archive = job[j].archive
    BY <1>1, <1>3 DEF ListExisting, Locals
  <2> QED BY <1>3, <2>1, <2>2, RestoreGoesOnReading DEF ListExisting, disk, RestorePCs
<1>4. CASE MoveItem(j)
  <2>1. pc[j] = "move" /\ pc'[j] = "move" /\ UNCHANGED <<archive, status, now>>
    BY <1>4 DEF MoveItem
  <2>2. PICK item : /\ job' = [job EXCEPT ![j].left = @ \ {item}]
                    /\ UNCHANGED faults \/ Fault("move")
    BY <1>4 DEF MoveItem
  <2>3. job'[j].kind = job[j].kind /\ job'[j].archive = job[j].archive
    BY <1>1, <2>2 DEF Locals
  <2> QED BY <2>1, <2>2, <2>3, FaultCounts, RestoreGoesOnReading DEF RestorePCs
<1>5. CASE OpenBackup(j)
  <2>1. CASE Raise(j)
    BY <1>5, <2>1, RaiseGoesOn DEF OpenBackup
  <2>2. CASE ~Raise(j)
    <3>1. /\ pc[j] = "move" /\ pc'[j] = "extract"
          /\ archive[job[j].archive].state = "closed"
          /\ UNCHANGED <<archive, status, now, faults>>
      BY <1>1, <1>5, <2>2 DEF OpenBackup, Goto
    <3>2. job'[j].kind = job[j].kind /\ job'[j].archive = job[j].archive
      BY <1>1, <1>5, <2>2 DEF OpenBackup, Locals
    <3> QED BY <3>1, <3>2, RestoreGoesOnReading DEF RestorePCs
  <2> QED BY <2>1, <2>2
<1>6. CASE ExtractPart(j)
  <2>1. pc[j] = "extract" /\ pc' = pc /\ UNCHANGED <<archive, status, now, faults>>
    BY <1>6 DEF ExtractPart
  <2>2. job'[j].kind = job[j].kind /\ job'[j].archive = job[j].archive
    BY <1>1, <1>6 DEF ExtractPart, Locals
  <2> QED BY <2>1, <2>2, RestoreGoesOnReading DEF RestorePCs
<1>7. CASE Diagnose(j)
  <2>1. /\ pc[j] = "extract" /\ pc'[j] \in {"wipe", "commit"}
        /\ UNCHANGED <<archive, status, now, job>> /\ (faults' = 0 => faults = 0)
    BY <1>1, <1>7, FaultCounts DEF Diagnose, Goto, disk
  <2> QED BY <2>1, RestoreGoesOnReading DEF RestorePCs
<1>8. CASE Wipe(j)
  <2>1. pc[j] = "wipe" /\ pc'[j] = "putback" /\ UNCHANGED <<archive, status, now, faults>>
    BY <1>1, <1>8 DEF Wipe, Goto
  <2>2. job'[j].kind = job[j].kind /\ job'[j].archive = job[j].archive
    BY <1>1, <1>8 DEF Wipe, Locals
  <2> QED BY <2>1, <2>2, RestoreGoesOnReading DEF RestorePCs
<1>9. CASE PutBackItem(j)
  <2>1. pc[j] = "putback" /\ pc' = pc /\ UNCHANGED <<archive, status, now>>
    BY <1>9 DEF PutBackItem
  <2>2. PICK item : /\ job' = [job EXCEPT ![j].left = @ \ {item}]
                    /\ UNCHANGED faults \/ Fault("move")
    BY <1>9 DEF PutBackItem
  <2>3. job'[j].kind = job[j].kind /\ job'[j].archive = job[j].archive
    BY <1>1, <2>2 DEF Locals
  <2> QED BY <2>1, <2>2, <2>3, FaultCounts, RestoreGoesOnReading DEF RestorePCs
<1> QED BY <1>2, <1>3, <1>4, <1>5, <1>6, <1>7, <1>8, <1>9

\* A call that ends.  Archives may be deleted, and nothing is reported as
\* completed that is not of use.
LEMMA CallEnds ==
    ASSUME ArchiveInv, OneCallAtATime, NEW j \in Jobs, EndJob(j), now' = now,
           faults' = 0 => faults = 0,
           \A a \in Stamps : archive'[a] = archive[a] \/ ~Exists(a)',
           \A a \in Stamps :
              faults' = 0 /\ Backing(j) /\ a = job[j].archive /\ Exists(a)' => Usable(a)',
           status'.state = "completed" =>
              \E a \in Stamps : status'.target = a /\ Usable(a)'
    PROVE  Kept'
<1>1. \A k \in Jobs : k = j
  BY DEF OneCallAtATime
<1>2. pc'[j] = "idle" /\ job'[j] = NoLocals
  BY ArchiveFacts DEF EndJob, Goto
<1>3. ~Backing(j)' /\ ~Restoring(j)'
  BY <1>2, EmptyTypes DEF Backing, Restoring
<1>4. CallOK(j)'
  BY <1>2, <1>3 DEF CallOK, KindOK, OwnArchiveOK, ReadOK, BackupPCs, RestorePCs
<1>5. \A a \in Stamps : Exists(a)' =>
         archive'[a] = archive[a] /\ Exists(a) /\ (Usable(a)' <=> Usable(a))
  BY SameArchive
<1>6. AgesOK'
  BY <1>1, <1>3, <1>5 DEF ArchiveInv, AgesOK
<1>7. OthersUsable'
  <2> SUFFICES ASSUME faults' = 0, NEW a \in Stamps, Exists(a)' PROVE Usable(a)'
    BY DEF OthersUsable
  <2>1. Usable(a) \/ \E k \in Jobs : Backing(k) /\ job[k].archive = a
    BY <1>5 DEF ArchiveInv, OthersUsable
  <2>2. CASE Usable(a)
    BY <1>5, <2>2
  <2>3. CASE Backing(j) /\ job[j].archive = a
    BY <2>3
  <2> QED BY <1>1, <2>1, <2>2, <2>3
<1>8. ReportOK'
  <2>1. \A k \in Jobs : pc'[k] = "idle"
    BY <1>1, <1>2
  <2> QED BY <2>1 DEF ReportOK, Usable, Verified
<1> QED BY <1>1, <1>4, <1>6, <1>7, <1>8 DEF Kept

LEMMA RestoreEndsKeep ==
    ASSUME ArchiveInv, OneCallAtATime, NEW j \in Jobs,
           Commit(j) \/ WipeFails(j) \/ EndRestore(j)
    PROVE  Kept'
<1>1. /\ job \in [Jobs -> Locals] /\ job[j] \in Locals /\ CallOK(j)
  BY ArchiveFacts
<1>2. pc[j] \in {"commit", "wipe", "putback"} /\ archive' = archive /\ now' = now
      /\ (faults' = 0 => faults = 0)
  BY FaultCounts DEF Commit, WipeFails, EndRestore
<1>3. Restoring(j) /\ ~Backing(j) /\ job[j].archive \in Stamps
  BY <1>1, <1>2, ArchiveFacts DEF CallOK, KindOK, RestorePCs, Restoring, Backing
<1>4. CASE Commit(j)
  <2>1. /\ EndJob(j) /\ status'.target = job[j].archive /\ pc[j] = "commit"
    BY <1>4 DEF Commit, Report
  <2>2. Usable(job[j].archive)
    BY <1>1, <1>3, <2>1 DEF CallOK, ReadOK, Usable
  <2>3. \A a \in Stamps : a = job[j].archive => Usable(a)'
    BY <1>2, <2>2, SameArchive
  <2> QED BY <1>2, <1>3, <2>1, <2>3, CallEnds
<1>5. CASE EndRestore(j)
  <2>1. EndJob(j) /\ status'.state = "failed"
    BY <1>5 DEF EndRestore, Report
  <2> QED BY <1>2, <1>3, <2>1, CallEnds
<1>6. CASE WipeFails(j)
  <2>1. CASE job[j].inside
    <3>1. UNCHANGED <<pc, status>> /\ job' = [job EXCEPT ![j].inside = FALSE] /\ pc[j] = "wipe"
      BY <1>6, <2>1 DEF WipeFails
    <3>2. job'[j].kind = job[j].kind /\ job'[j].archive = job[j].archive
      BY <1>1, <3>1 DEF Locals
    <3> QED BY <1>2, <3>1, <3>2, RestoreGoesOnReading DEF RestorePCs
  <2>2. CASE ~job[j].inside
    <3>1. EndJob(j) /\ status'.state = "failed"
      BY <1>6, <2>2 DEF WipeFails, Report
    <3> QED BY <1>2, <1>3, <3>1, CallEnds
  <2> QED BY <2>1, <2>2
<1> QED BY <1>4, <1>5, <1>6

\* A call that starts finds the archives of earlier seconds only.
LEMMA StartsKeep ==
    ASSUME ArchiveInv, OneCallAtATime, NEW j \in Jobs, StartBackup(j) \/ StartRestore(j)
    PROVE  Kept'
<1>1. \A k \in Jobs : k = j
  BY DEF OneCallAtATime
<1>2. /\ job \in [Jobs -> Locals] /\ pc \in [Jobs -> PCs] /\ job[j] = NoLocals /\ pc[j] = "idle"
      /\ now \in Nat /\ archive \in [Stamps -> Archives]
  BY ArchiveFacts DEF StartBackup, StartRestore
<1>3. ~Backing(j) /\ archive' = archive /\ now' = now /\ faults' = faults
  BY <1>2, EmptyTypes DEF Backing, StartBackup, StartRestore
<1>4. \A a \in Stamps : (Exists(a)' <=> Exists(a)) /\ (Usable(a)' <=> Usable(a))
                        /\ (Verified(a)' <=> Verified(a))
  BY <1>3, SameArchive
<1>5. OthersUsable'
  BY <1>1, <1>3, <1>4 DEF ArchiveInv, OthersUsable
<1>6. CASE StartBackup(j)
  <2>1. /\ job'[j].kind = "backup" /\ job'[j].archive = now /\ pc'[j] = "lock"
        /\ status'.state = "running" /\ now \in Stamps
    BY <1>2, <1>6 DEF StartBackup, Report, Goto, NoLocals, ArchiveInv, TypeInv, TypeOK
  <2>2. ~Exists(now)
    BY <1>2, <2>1 DEF ArchiveInv, AgesOK, Archives, Stamps
  <2>3. archive[now].state = "none"
    BY <2>2 DEF Exists
  <2>4. CallOK(j)'
    BY <1>2, <1>3, <2>1, <2>3
       DEF CallOK, KindOK, OwnArchiveOK, ReadOK, Backing, Restoring, BackupPCs, RestorePCs
  <2>5. AgesOK'
    BY <1>1, <1>3, <1>4, <2>1 DEF ArchiveInv, AgesOK
  <2> QED BY <1>1, <1>5, <2>1, <2>4, <2>5 DEF Kept, ReportOK
<1>7. CASE StartRestore(j)
  <2>1. PICK a \in Stamps :
         \/ /\ Verified(a) /\ Report("running", a)
            /\ job' = [job EXCEPT ![j] = [NoLocals EXCEPT !.kind = "restore",
                                              !.archive = a, !.before = live]]
            /\ Goto(j, "lock")
         \/ Report("failed", NoStamp) /\ UNCHANGED <<pc, job>>
    BY <1>7 DEF StartRestore
  <2>2. status'.state # "completed"
    BY <2>1 DEF Report
  <2>3. CASE UNCHANGED <<pc, job>>
    <3>1. CallOK(j)'
      BY <1>2, <2>3, EmptyTypes
         DEF CallOK, KindOK, OwnArchiveOK, ReadOK, Backing, Restoring, BackupPCs, RestorePCs
    <3>2. AgesOK'
      BY <1>1, <1>3, <1>4, <2>3 DEF ArchiveInv, AgesOK, Backing
    <3> QED BY <1>1, <1>5, <2>2, <3>1, <3>2 DEF Kept, ReportOK
  <2>4. CASE /\ Verified(a) /\ Goto(j, "lock")
             /\ job' = [job EXCEPT ![j] = [NoLocals EXCEPT !.kind = "restore",
                                               !.archive = a, !.before = live]]
    <3>1. job'[j].kind = "restore" /\ job'[j].archive = a /\ pc'[j] = "lock"
      BY <1>2, <2>4 DEF Goto, NoLocals
    <3>2. CallOK(j)'
      BY <1>4, <2>4, <3>1
         DEF CallOK, KindOK, OwnArchiveOK, ReadOK, Backing, Restoring, BackupPCs, RestorePCs
    <3>3. AgesOK'
      BY <1>1, <1>3, <1>4, <3>1 DEF ArchiveInv, AgesOK, Backing
    <3> QED BY <1>1, <1>5, <2>2, <3>2, <3>3 DEF Kept, ReportOK
  <2> QED BY <2>1, <2>3, <2>4
<1> QED BY <1>6, <1>7

\* A step of a backup that changes no archive but its own.
LEMMA BackupWrites ==
    ASSUME ArchiveInv, OneCallAtATime, NEW j \in Jobs, Backing(j),
           pc[j] \in {"wait", "tar", "hash"}, pc'[j] \in BackupPCs, now' = now, faults' = faults,
           job'[j].kind = job[j].kind, job'[j].archive = job[j].archive,
           \A a \in Stamps : a # job[j].archive => archive'[a] = archive[a],
           \A a \in Stamps : a = job[j].archive /\ Exists(a)' =>
              a < archive'[a].mtime /\ archive'[a].mtime <= now,
           OwnArchiveOK(j)', ReportOK'
    PROVE  Kept'
<1>1. \A k \in Jobs : k = j
  BY DEF OneCallAtATime
<1>2. KindOK(j)' /\ ReadOK(j)'
  BY DEF KindOK, ReadOK, Backing, Restoring, BackupPCs, RestorePCs
<1>3. \A a \in Stamps : a # job[j].archive =>
         (Exists(a)' <=> Exists(a)) /\ (Usable(a)' <=> Usable(a))
  BY SameArchive
<1>4. AgesOK'
  BY <1>1, <1>3 DEF ArchiveInv, AgesOK, Backing
<1>5. OthersUsable'
  BY <1>1, <1>3 DEF ArchiveInv, OthersUsable, Backing
<1> QED BY <1>1, <1>2, <1>4, <1>5 DEF Kept, CallOK

LEMMA NothingReported ==
    ASSUME ArchiveInv, NEW j \in Jobs, pc[j] \in {"wait", "tar", "hash"}
    PROVE  status.state # "completed"
BY DEF ArchiveInv, ReportOK

LEMMA BackupWritesKeep ==
    ASSUME ArchiveInv, OneCallAtATime, NEW j \in Jobs,
           OpenArchive(j) \/ ArchivePart(j) \/ CloseArchive(j) \/ WriteHash(j)
    PROVE  Kept'
<1> DEFINE own == job[j].archive
<1>1. pc[j] \in {"wait", "tar", "hash"} /\ now' = now /\ faults' = faults
  BY DEF OpenArchive, ArchivePart, CloseArchive, WriteHash
<1>2. /\ job \in [Jobs -> Locals] /\ job[j] \in Locals /\ pc \in [Jobs -> PCs] /\ pc[j] # "idle"
      /\ archive \in [Stamps -> Archives] /\ CallOK(j) /\ own \in Stamps /\ now \in Nat
  BY <1>1, ArchiveFacts
<1>3. Backing(j) /\ OwnArchiveOK(j) /\ status.state # "completed"
  BY <1>1, <1>2, NothingReported DEF CallOK, KindOK, BackupPCs
<1>4. archive[own] \in Archives /\ own \in Nat
  BY <1>2 DEF Stamps
<1>5. Exists(own) => own < archive[own].mtime /\ archive[own].mtime <= now
  BY <1>2 DEF ArchiveInv, AgesOK
<1>6. CASE OpenArchive(j)
  <2>1. /\ pc'[j] = "tar" /\ status' = status /\ now > own
        /\ job'[j].kind = job[j].kind /\ job'[j].archive = own
    BY <1>2, <1>6 DEF OpenArchive, Goto, Locals
  <2>2. archive' = [archive EXCEPT ![own] =
            [[[archive[own] EXCEPT !.state = "open"] EXCEPT !.db = NoDb] EXCEPT !.mtime = now]]
    BY <1>2, <1>4, <1>6 DEF OpenArchive
  <2>3. archive'[own].state = "open" /\ archive'[own].mtime = now
    BY <1>2, <1>4, <2>2 DEF Archives
  <2>4. \A a \in Stamps : a # own => archive'[a] = archive[a]
    BY <1>2, <2>2
  <2>5. OwnArchiveOK(j)'
    BY <1>1, <1>3, <2>1, <2>3 DEF OwnArchiveOK, Backing
  <2>6. ReportOK' /\ pc'[j] \in BackupPCs
    BY <1>3, <2>1 DEF ReportOK, BackupPCs
  <2> QED BY <1>1, <1>2, <1>3, <2>1, <2>3, <2>4, <2>5, <2>6, BackupWrites
<1>7. CASE ArchivePart(j)
  <2>1. CASE Raise(j)
    <3>1. UNCHANGED <<archive, status, now, faults>>
      <4>1. pc'[j] = "undo" /\ pc[j] = "tar"
        BY <1>2, <1>3, <1>7, <2>1 DEF ArchivePart, Raise, Goto, OnError, Backing
      <4> QED BY <1>7, <4>1 DEF ArchivePart
    <3> QED BY <1>2, <2>1, <3>1, RaiseGoesOn
  <2>2. CASE ~Raise(j)
    <3>1. PICK p \in job[j].left :
             /\ archive' = IF Exists(own) THEN [archive EXCEPT ![own].db[p] = live[p]]
                           ELSE archive
             /\ job' = [job EXCEPT ![j].left = @ \ {p}]
             /\ pc' = pc
      BY <1>7, <2>2 DEF ArchivePart
    <3>2. /\ pc'[j] = "tar" /\ pc[j] = "tar" /\ status' = status
          /\ job'[j].kind = job[j].kind /\ job'[j].archive = own
      BY <1>2, <1>7, <3>1 DEF ArchivePart, Locals
    <3>3. /\ archive'[own].state = archive[own].state
          /\ archive'[own].mtime = archive[own].mtime
      BY <1>2, <1>4, <3>1 DEF Archives
    <3>4. \A a \in Stamps : a # own => archive'[a] = archive[a]
      BY <1>2, <3>1
    <3>5. OwnArchiveOK(j)'
      BY <1>1, <1>3, <3>2, <3>3 DEF OwnArchiveOK, Backing
    <3>6. ReportOK' /\ pc'[j] \in BackupPCs
      BY <1>3, <3>2 DEF ReportOK, BackupPCs
    <3>7. \A a \in Stamps : a = own /\ Exists(a)' =>
             a < archive'[a].mtime /\ archive'[a].mtime <= now
      BY <1>5, <3>3 DEF Exists
    <3> QED BY <1>1, <1>2, <1>3, <3>2, <3>4, <3>5, <3>6, <3>7, BackupWrites
  <2> QED BY <2>1, <2>2
<1>8. CASE CloseArchive(j)
  <2>1. /\ pc'[j] = "hash" /\ pc[j] = "tar" /\ status' = status
        /\ job'[j].kind = job[j].kind /\ job'[j].archive = own
    BY <1>2, <1>8 DEF CloseArchive, Goto
  <2>2. archive[own].state = "open" /\ Exists(own)
    BY <1>3, <2>1 DEF OwnArchiveOK, Exists
  <2>3. archive' = [archive EXCEPT ![own] =
            [[archive[own] EXCEPT !.state = "closed"] EXCEPT !.mtime = now]]
    BY <1>2, <1>4, <1>8, <2>2 DEF CloseArchive
  <2>4. archive'[own].state = "closed" /\ archive'[own].mtime = now
    BY <1>2, <1>4, <2>3 DEF Archives
  <2>5. own < now
    BY <1>2, <1>4, <1>5, <2>2 DEF Archives, Stamps
  <2>6. \A a \in Stamps : a # own => archive'[a] = archive[a]
    BY <1>2, <2>3
  <2>7. OwnArchiveOK(j)'
    BY <1>1, <1>3, <2>1, <2>4 DEF OwnArchiveOK, Backing
  <2>8. ReportOK' /\ pc'[j] \in BackupPCs
    BY <1>3, <2>1 DEF ReportOK, BackupPCs
  <2> QED BY <1>1, <1>2, <1>3, <2>1, <2>4, <2>5, <2>6, <2>7, <2>8, BackupWrites
<1>9. CASE WriteHash(j)
  <2>1. pc[j] = "hash" /\ archive[own].state = "closed" /\ Exists(own)
    BY <1>3, <1>9 DEF WriteHash, OwnArchiveOK, Exists
  <2>2. /\ pc'[j] = "rotate" /\ status'.state = "completed" /\ status'.target = own
        /\ job'[j].kind = job[j].kind /\ job'[j].archive = own
    BY <1>2, <1>9, <2>1 DEF WriteHash, Goto, Report
  <2>3. archive' = [archive EXCEPT ![own] = [archive[own] EXCEPT !.hash = archive[own].db]]
    BY <1>2, <1>4, <1>9, <2>1 DEF WriteHash
  <2>4. /\ archive'[own].state = "closed" /\ archive'[own].hash = archive'[own].db
        /\ archive'[own].mtime = archive[own].mtime
    BY <1>2, <1>4, <2>1, <2>3 DEF Archives
  <2>5. \A a \in Stamps : a # own => archive'[a] = archive[a]
    BY <1>2, <2>3
  <2>6. OwnArchiveOK(j)'
    BY <1>1, <1>3, <2>2, <2>4 DEF OwnArchiveOK, Backing
  <2>7. \A k \in Jobs : k = j
    BY DEF OneCallAtATime
  <2>8. ReportOK' /\ pc'[j] \in BackupPCs
    BY <1>2, <1>3, <2>2, <2>4, <2>7 DEF ReportOK, Usable, Verified, Backing, BackupPCs
  <2> QED BY <1>1, <1>2, <1>3, <1>5, <2>1, <2>2, <2>4, <2>5, <2>6, <2>8, BackupWrites
<1> QED BY <1>6, <1>7, <1>8, <1>9

\* The rotation never chooses the archive of its own backup: it is the newest.  If
\* two archives stay, one of them is of an earlier backup.
LEMMA RotationChoice ==
    ASSUME ArchiveInv, OneCallAtATime, NEW j \in Jobs, pc[j] = "rotate",
           NEW old \in Rotated
    PROVE  /\ job[j].archive \notin old
           /\ Limit >= 2 /\ old # {} =>
                 \E b \in Stamps : Exists(b) /\ b \notin old /\ b # job[j].archive
<1> DEFINE own == job[j].archive
           all == {a \in Stamps : Exists(a)}
<1>1. CallOK(j) /\ own \in Stamps /\ archive \in [Stamps -> Archives]
  BY ArchiveFacts
<1>2. Backing(j) /\ archive[own].state = "closed"
  BY <1>1 DEF CallOK, KindOK, OwnArchiveOK, BackupPCs
<1>3. own \in all /\ own < archive[own].mtime
  BY <1>1, <1>2 DEF Exists, ArchiveInv, AgesOK
<1>4. \A b \in all : b # own => archive[b].mtime <= own
  BY <1>2 DEF ArchiveInv, AgesOK
<1>5. /\ old \subseteq all
      /\ Cardinality(all) <= Limit => old = {}
      /\ Cardinality(all) > Limit => Cardinality(all \ old) = Limit
      /\ \A a \in old, b \in all \ old : archive[a].mtime <= archive[b].mtime
  BY DEF Rotated
<1>6. \A a \in Stamps : a \in Nat /\ archive[a].mtime \in Nat
  BY <1>1 DEF Archives, Stamps
<1>7. old # {} => Cardinality(all \ old) = Limit
  <2>1. IsFiniteSet(all)
    <3>1. IsFiniteSet(Stamps)
      BY FS_Interval, ConstantsOK DEF Stamps
    <3> QED BY <3>1, FS_Subset
  <2>2. Cardinality(all) \in Nat
    BY <2>1, FS_CardinalityType
  <2> QED BY <1>5, <2>2, ConstantsOK
<1>8. old # {} => all \ old # {}
  <2>1. Limit # 0
    BY ConstantsOK
  <2> QED BY <1>7, <2>1, FS_EmptySet
<1>9. own \notin old
  <2> SUFFICES ASSUME own \in old PROVE FALSE
    OBVIOUS
  <2>1. PICK b \in all \ old : TRUE
    BY <1>8
  <2>2. b # own /\ archive[own].mtime <= archive[b].mtime /\ archive[b].mtime <= own
    BY <1>4, <1>5, <2>1
  <2> QED BY <1>1, <1>3, <1>6, <2>2
<1>10. ASSUME Limit >= 2, old # {} PROVE \E b \in all : b \notin old /\ b # own
  <2> SUFFICES ASSUME all \ old \subseteq {own} PROVE FALSE
    OBVIOUS
  <2>1. all \ old = {own}
    BY <1>3, <1>9
  <2>2. Cardinality(all \ old) = 1
    BY <2>1, FS_Singleton
  <2> QED BY <1>7, <1>10, <2>2
<1> QED BY <1>9, <1>10

LEMMA RotateKeeps ==
    ASSUME ArchiveInv, OneCallAtATime, NEW j \in Jobs, Rotate(j)
    PROVE  Kept'
<1> DEFINE own == job[j].archive
<1>1. pc[j] = "rotate" /\ now' = now /\ status' = status
  BY DEF Rotate
<1>2. /\ job \in [Jobs -> Locals] /\ job[j] \in Locals /\ pc \in [Jobs -> PCs]
      /\ CallOK(j) /\ own \in Stamps
  BY <1>1, ArchiveFacts
<1>3. Backing(j) /\ Usable(own)
  BY <1>1, <1>2 DEF CallOK, KindOK, OwnArchiveOK, BackupPCs, Usable, Verified
<1>4. \A k \in Jobs : k = j
  BY DEF OneCallAtATime
<1>5. PICK old \in Rotated :
         \/ archive' = Deleted(old) /\ EndJob(j) /\ UNCHANGED faults
         \/ \E part \in SUBSET old :
               archive' = Deleted(part) /\ Raise(j) /\ Fault("rotate")
  BY DEF Rotate
<1>6. own \notin old
  BY <1>1, RotationChoice
<1>7. status.state = "completed" => status.target = own
  BY <1>1 DEF ArchiveInv, ReportOK
<1>8. CASE archive' = Deleted(old) /\ EndJob(j) /\ UNCHANGED faults
  <2>1. \A a \in Stamps : archive'[a] = archive[a] \/ ~Exists(a)'
    BY <1>8 DEF Deleted, Exists, NoArchive
  <2>2. archive'[own] = archive[own]
    BY <1>2, <1>6, <1>8 DEF Deleted
  <2>3. \A a \in Stamps : a = own => Usable(a)'
    BY <1>3, <2>2, SameArchive
  <2> QED BY <1>1, <1>2, <1>7, <1>8, <2>1, <2>3, CallEnds
<1>9. ASSUME NEW part \in SUBSET old, archive' = Deleted(part), Raise(j), Fault("rotate")
      PROVE  Kept'
  <2>1. \A a \in Stamps : archive'[a] = archive[a] \/ ~Exists(a)'
    BY <1>9 DEF Deleted, Exists, NoArchive
  <2>2. archive'[own] = archive[own]
    BY <1>2, <1>6, <1>9 DEF Deleted
  <2>3. \A a \in Stamps : a = own => Usable(a)'
    BY <1>3, <2>2, SameArchive
  <2>4. /\ pc'[j] = "undo" /\ job'[j].kind = job[j].kind /\ job'[j].archive = own
    BY <1>2, <1>3, <1>9 DEF Raise, Goto, OnError, Backing, Locals
  <2>5. CallOK(j)'
    BY <1>1, <1>2, <1>3, <2>4
       DEF CallOK, KindOK, OwnArchiveOK, ReadOK, Backing, Restoring, BackupPCs, RestorePCs
  <2>6. AgesOK'
    <3>1. \A a \in Stamps : Exists(a)' => archive'[a] = archive[a] /\ Exists(a)
      BY <2>1, SameArchive
    <3> QED BY <1>1, <1>4, <2>4, <3>1 DEF ArchiveInv, AgesOK, Backing
  <2>7. OthersUsable'
    BY <1>9, FaultCounts DEF OthersUsable
  <2>8. ReportOK'
    <3> SUFFICES ASSUME status.state = "completed"
                 PROVE  ReportOK'
      BY <1>1 DEF ReportOK
    <3>1. status'.target = own /\ Backing(j)'
      BY <1>1, <1>3, <1>7, <2>4 DEF Backing
    <3> QED BY <1>2, <1>4, <2>3, <2>4, <3>1 DEF ReportOK, Usable, Verified
  <2> QED BY <1>4, <2>5, <2>6, <2>7, <2>8 DEF Kept
<1> QED BY <1>5, <1>8, <1>9

LEMMA UndoKeeps ==
    ASSUME ArchiveInv, OneCallAtATime, NEW j \in Jobs, UndoBackup(j)
    PROVE  Kept'
<1>1. /\ EndJob(j) /\ archive' = Deleted({job[j].archive}) /\ status'.state = "failed"
      /\ now' = now /\ faults' = faults
  BY DEF UndoBackup, Report
<1>2. \A a \in Stamps : archive'[a] = archive[a] \/ ~Exists(a)'
  BY <1>1 DEF Deleted, Exists, NoArchive
<1>3. \A a \in Stamps : a = job[j].archive => ~Exists(a)'
  BY <1>1 DEF Deleted, Exists, NoArchive
<1> QED BY <1>1, <1>2, <1>3, CallEnds

\* What neither a call nor a crash does.
LEMMA OthersKeep ==
    ASSUME ArchiveInv, Write \/ Tick \/ UNCHANGED vars
    PROVE  Kept'
<1>1. /\ UNCHANGED <<archive, status, pc, faults>> /\ now \in Nat /\ now' \in Nat /\ now' >= now
  BY ConstantsOK DEF Write, Tick, vars, disk, ArchiveInv, TypeInv, TypeOK, Stamps
<1>2. \A j \in Jobs : job'[j].kind = job[j].kind /\ job'[j].archive = job[j].archive
  BY DEF Write, Tick, vars, ArchiveInv, TypeInv, TypeOK, Locals
<1>3. \A a \in Stamps : (Exists(a)' <=> Exists(a)) /\ (Usable(a)' <=> Usable(a))
  BY <1>1, SameArchive
<1>4. \A a \in Stamps : a \in Nat /\ (Exists(a) => archive[a].mtime \in Nat)
  BY DEF Stamps, Archives, ArchiveInv, TypeInv, TypeOK
<1>5. AgesOK'
  BY <1>1, <1>2, <1>3, <1>4 DEF ArchiveInv, AgesOK, Backing
<1>6. OthersUsable'
  BY <1>1, <1>2, <1>3 DEF ArchiveInv, OthersUsable, Backing
<1>7. ReportOK'
  BY <1>1, <1>2 DEF ArchiveInv, ReportOK, Backing, Usable, Verified
<1>8. ASSUME NEW j \in Jobs PROVE CallOK(j)'
  <2>1. CallOK(j) /\ (Backing(j) => job[j].archive \in Nat)
    <3>1. pc[j] = "idle" => ~Backing(j)
      BY ArchiveFacts, EmptyTypes DEF Backing
    <3> QED BY <3>1, ArchiveFacts DEF Stamps
  <2>2. KindOK(j)' /\ ReadOK(j)'
    BY <1>1, <1>2, <2>1 DEF CallOK, KindOK, ReadOK, Backing, Restoring, Verified
  <2>3. OwnArchiveOK(j)'
    BY <1>1, <1>2, <2>1 DEF CallOK, OwnArchiveOK, Backing
  <2> QED BY <2>2, <2>3 DEF CallOK
<1> QED BY <1>5, <1>6, <1>7, <1>8 DEF Kept

LEMMA CrashKeeps ==
    ASSUME ArchiveInv, OneCallAtATime, Crash
    PROVE  Kept'
<1>1. PICK dead \in {{k} : k \in Cli} \cup {Jobs \ Cli} :
         /\ \E k \in dead : pc[k] # "idle"
         /\ pc' = [k \in Jobs |-> IF k \in dead THEN "idle" ELSE pc[k]]
         /\ job' = [k \in Jobs |-> IF k \in dead THEN NoLocals ELSE job[k]]
         /\ \E torn \in SUBSET {job[k].archive : k \in {m \in dead : pc[m] = "hash"}} :
               archive' = [a \in Stamps |-> IF a \in torn /\ Exists(a)
                                            THEN [archive[a] EXCEPT !.hash = Torn]
                                            ELSE archive[a]]
         /\ IF dead \subseteq Cli THEN UNCHANGED status ELSE Report("idle", NoStamp)
  BY DEF Crash
<1>2. dead \subseteq Jobs
  BY <1>1, ConstantsOK
<1>3. PICK j \in dead : pc[j] # "idle"
  BY <1>1
<1>4. \A k \in Jobs : k = j
  BY <1>2 DEF OneCallAtATime
<1>5. pc'[j] = "idle" /\ job'[j] = NoLocals /\ ~Backing(j)' /\ ~Restoring(j)'
  BY <1>1, <1>2, EmptyTypes DEF Backing, Restoring
<1>6. CallOK(j)'
  BY <1>5 DEF CallOK, KindOK, OwnArchiveOK, ReadOK, BackupPCs, RestorePCs
<1>7. /\ faults' # 0 /\ now \in Nat /\ now' = now + 1 /\ archive \in [Stamps -> Archives]
  BY ConstantsOK DEF Crash, ArchiveInv, TypeInv, TypeOK, Stamps
<1>8. \A a \in Stamps : (Exists(a)' <=> Exists(a)) /\ archive'[a].mtime = archive[a].mtime
  BY <1>1, <1>7 DEF Exists, Archives
<1>9. AgesOK'
  <2>1. \A a \in Stamps : archive[a].mtime \in Nat
    BY <1>7 DEF Archives, Stamps
  <2> QED BY <1>4, <1>5, <1>7, <1>8, <2>1 DEF ArchiveInv, AgesOK
<1>10. OthersUsable'
  BY <1>7 DEF OthersUsable
<1>11. ReportOK'
  <2> SUFFICES ASSUME status'.state = "completed" PROVE ReportOK'
    BY DEF ReportOK
  <2>1. status' = status
    BY <1>1 DEF Report
  <2>2. status.target \in Stamps /\ Usable(status.target) /\ pc[j] # "hash"
    BY <1>2, <1>3, <2>1 DEF ArchiveInv, ReportOK
  <2>3. \A k \in dead : pc[k] # "hash"
    BY <1>2, <1>4, <2>2
  <2>4. archive' = archive
    BY <1>1, <1>7, <2>3
  <2> QED BY <1>4, <1>5, <2>1, <2>2, <2>4 DEF ReportOK, Usable, Verified
<1>12. \A k \in Jobs : CallOK(k)'
  BY <1>4, <1>6
<1> QED BY <1>9, <1>10, <1>11, <1>12 DEF Kept

LEMMA ArchivesStart == ASSUME Init PROVE ArchiveInv
<1>1. TypeInv
  BY InitType
<1>2. \A a \in Stamps : ~Exists(a)
  BY DEF Init, Exists, NoArchive
<1>3. AgesOK /\ OthersUsable /\ ReportOK
  BY <1>2 DEF Init, AgesOK, OthersUsable, ReportOK
<1>4. \A j \in Jobs : CallOK(j)
  BY EmptyTypes DEF Init, CallOK, KindOK, OwnArchiveOK, ReadOK, Backing, Restoring,
     BackupPCs, RestorePCs
<1> QED BY <1>1, <1>3, <1>4 DEF ArchiveInv

LEMMA ArchivesStepKeeps == ASSUME ArchiveInv, OneCallAtATime, [Next]_vars PROVE ArchiveInv'
<1>1. TypeInv'
  BY StepKeepsType DEF ArchiveInv
<1>2. ASSUME NEW j \in Jobs, StartBackup(j) \/ StartRestore(j) \/ JobStep(j) PROVE Kept'
  BY <1>2, StartsKeep, LocksKeep, BackupWritesKeep, RotateKeeps, UndoKeeps, RestoreReadsKeep,
     RestoreEndsKeep DEF JobStep, BackupStep, RestoreStep
<1>3. Kept'
  BY <1>2, OthersKeep, CrashKeeps DEF Next
<1> QED BY <1>1, <1>3 DEF ArchiveInv, Kept

\* Only the rotation touches an archive that no backup is at work on.
LEMMA OthersUntouched ==
    ASSUME ArchiveInv, OneCallAtATime, [Next]_vars, \A j \in Jobs : ~Rotate(j),
           NEW a \in Stamps, Exists(a), \A j \in Jobs : Backing(j) => job[j].archive # a
    PROVE  /\ archive'[a] = archive[a]
           /\ \A j \in Jobs : Backing(j)' => job'[j].archive # a
<1>1. /\ job \in [Jobs -> Locals] /\ archive \in [Stamps -> Archives]
      /\ a < archive[a].mtime /\ archive[a].mtime <= now /\ now \in Nat /\ a \in Nat
  BY ConstantsOK DEF ArchiveInv, TypeInv, TypeOK, AgesOK, Stamps
<1>2. a # now
  BY <1>1 DEF Archives, Stamps
<1>3. ASSUME NEW j \in Jobs, StartBackup(j) \/ StartRestore(j) \/ JobStep(j)
      PROVE  /\ archive'[a] = archive[a]
             /\ \A k \in Jobs : Backing(k)' => job'[k].archive # a
  <2>1. \A k \in Jobs : k = j
    BY DEF OneCallAtATime
  <2>2. /\ job[j] \in Locals /\ (Backing(j) => job[j].archive # a) /\ ~Rotate(j)
        /\ CallOK(j) /\ NoLocals.kind = "none"
    BY ArchiveFacts, EmptyTypes
  <2>3. CASE StartBackup(j)
    BY <1>1, <1>2, <2>1, <2>3 DEF StartBackup
  <2>4. CASE StartRestore(j)
    <3>1. archive' = archive /\ (job'[j].kind = "restore" \/ job' = job)
      BY <1>1, <2>4 DEF StartRestore, NoLocals
    <3> QED BY <2>1, <2>2, <3>1 DEF Backing
  <2>5. CASE CheckLock(j) \/ TouchLock(j) \/ CallFails(j)
    BY <1>1, <2>1, <2>2, <2>5
       DEF CheckLock, TouchLock, CallFails, Raise, disk, Backing, Locals
  <2>6. CASE OpenArchive(j) \/ ArchivePart(j) \/ CloseArchive(j) \/ WriteHash(j)
    <3>1. Backing(j)
      BY <2>2, <2>6 DEF CallOK, KindOK, BackupPCs, OpenArchive, ArchivePart, CloseArchive,
         WriteHash
    <3>2. archive'[a] = archive[a]
      BY <1>1, <2>2, <2>6, <3>1 DEF OpenArchive, ArchivePart, CloseArchive, WriteHash
    <3>3. job'[j].archive = job[j].archive
      BY <1>1, <2>2, <2>6 DEF OpenArchive, ArchivePart, CloseArchive, WriteHash, Raise, Locals
    <3> QED BY <2>1, <2>2, <3>1, <3>2, <3>3
  <2>7. CASE UndoBackup(j)
    <3>1. Backing(j) /\ job'[j] = NoLocals /\ archive'[a] = archive[a]
      BY <1>1, <2>2, <2>7 DEF CallOK, KindOK, BackupPCs, UndoBackup, EndJob, Deleted
    <3> QED BY <2>1, <2>2, <3>1 DEF Backing
  <2>8. CASE RestoreStep(j)
    <3>1. archive' = archive
      BY <2>8 DEF RestoreStep, ReleaseServer, ListExisting, MoveItem, OpenBackup, ExtractPart,
         Diagnose, Commit, Wipe, WipeFails, PutBackItem, EndRestore, disk
    <3>2. \/ job'[j] = NoLocals
          \/ job'[j].kind = job[j].kind /\ job'[j].archive = job[j].archive
      <4>1. CASE Commit(j) \/ EndRestore(j)
        BY <1>1, <4>1 DEF Commit, EndRestore, EndJob
      <4>2. CASE WipeFails(j)
        BY <1>1, <2>2, <4>2 DEF WipeFails, EndJob, Locals
      <4>3. CASE \/ ReleaseServer(j) \/ ListExisting(j) \/ MoveItem(j) \/ OpenBackup(j)
                 \/ ExtractPart(j) \/ Diagnose(j) \/ Wipe(j) \/ PutBackItem(j)
        BY <1>1, <2>2, <4>3 DEF ReleaseServer, ListExisting, MoveItem, OpenBackup, ExtractPart,
           Diagnose, Wipe, PutBackItem, Raise, Locals
      <4> QED BY <2>8, <4>1, <4>2, <4>3 DEF RestoreStep
    <3> QED BY <2>1, <2>2, <3>1, <3>2 DEF Backing
  <2> QED BY <1>3, <2>2, <2>3, <2>4, <2>5, <2>6, <2>7, <2>8 DEF JobStep, BackupStep
<1>4. CASE Write \/ Tick \/ UNCHANGED vars
  <2>1. archive' = archive
    BY <1>4 DEF Write, Tick, vars, disk
  <2>2. \A j \in Jobs : job'[j].kind = job[j].kind /\ job'[j].archive = job[j].archive
    BY <1>1, <1>4 DEF Write, Tick, vars, Locals
  <2> QED BY <2>1, <2>2 DEF Backing
<1>5. CASE Crash
  <2>1. PICK dead \in {{k} : k \in Cli} \cup {Jobs \ Cli} :
           /\ job' = [k \in Jobs |-> IF k \in dead THEN NoLocals ELSE job[k]]
           /\ \E torn \in SUBSET {job[k].archive : k \in {m \in dead : pc[m] = "hash"}} :
                 archive' = [b \in Stamps |-> IF b \in torn /\ Exists(b)
                                              THEN [archive[b] EXCEPT !.hash = Torn]
                                              ELSE archive[b]]
    BY <1>5 DEF Crash
  <2>2. dead \subseteq Jobs
    BY <2>1, ConstantsOK
  <2>3. \A k \in dead : pc[k] = "hash" => job[k].archive # a
    BY <2>2, ArchiveFacts DEF CallOK, KindOK, BackupPCs
  <2>4. archive'[a] = archive[a]
    BY <2>1, <2>3
  <2>5. \A k \in Jobs : job'[k] = job[k] \/ job'[k] = NoLocals
    BY <2>1
  <2> QED BY <2>4, <2>5, EmptyTypes DEF Backing
<1> QED BY <1>3, <1>4, <1>5 DEF Next

\* The rotation itself: either the new archive counts from now on, or a second one
\* was kept.
LEMMA RotationLeavesOne ==
    ASSUME ArchiveInv, OneCallAtATime, Limit >= 2, faults' <= 1,
           NEW j \in Jobs, Rotate(j), KeptBackups # {}
    PROVE  KeptBackups' # {}
<1> DEFINE own == job[j].archive
<1>1. pc[j] = "rotate"
  BY DEF Rotate
<1>2. /\ job \in [Jobs -> Locals] /\ job[j] \in Locals
      /\ CallOK(j) /\ own \in Stamps
  BY <1>1, ArchiveFacts
<1>3. Backing(j) /\ Usable(own)
  BY <1>1, <1>2 DEF CallOK, KindOK, OwnArchiveOK, BackupPCs, Usable, Verified
<1>4. \A k \in Jobs : k = j
  BY DEF OneCallAtATime
<1>5. PICK old \in Rotated :
         \/ archive' = Deleted(old) /\ EndJob(j)
         \/ \E part \in SUBSET old :
               old # {} /\ archive' = Deleted(part) /\ Raise(j) /\ Fault("rotate")
  BY DEF Rotate
<1>6. own \notin old
  BY <1>1, RotationChoice
<1>7. CASE archive' = Deleted(old) /\ EndJob(j)
  <2>1. archive'[own] = archive[own]
    BY <1>2, <1>6, <1>7 DEF Deleted
  <2>2. \A a \in Stamps : a = own => Usable(a)'
    BY <1>3, <2>1, SameArchive
  <2>3. job'[j].kind = "none"
    BY <1>2, <1>7, EmptyTypes DEF EndJob
  <2>4. \A a \in Stamps : a = own => a \in KeptBackups'
    BY <1>4, <2>2, <2>3 DEF KeptBackups
  <2> QED BY <1>2, <2>4
<1>8. ASSUME NEW part \in SUBSET old,
             old # {}, archive' = Deleted(part), Raise(j), Fault("rotate")
      PROVE  KeptBackups' # {}
  <2>1. PICK b \in Stamps : Exists(b) /\ b \notin old /\ b # own
    BY <1>1, <1>8, RotationChoice
  <2>2. faults = 0
    BY <1>2, <1>8, ArchiveFacts DEF Fault
  <2>3. Usable(b)
    BY <1>4, <2>1, <2>2 DEF ArchiveInv, OthersUsable
  <2>4. archive'[b] = archive[b]
    BY <1>8, <2>1 DEF Deleted
  <2>5. Usable(b)'
    BY <2>3, <2>4, SameArchive
  <2>6. job'[j].archive = own
    BY <1>2, <1>8 DEF Raise, Locals
  <2>7. b \in KeptBackups'
    BY <1>4, <2>1, <2>5, <2>6 DEF KeptBackups
  <2> QED BY <2>7
<1> QED BY <1>5, <1>7, <1>8

LEMMA OneBackupStays ==
    ASSUME ArchiveInv, OneCallAtATime, [Next]_vars, Limit >= 2, faults' <= 1,
           KeptBackups # {}
    PROVE  KeptBackups' # {}
<1>1. CASE \E j \in Jobs : Rotate(j)
  BY <1>1, RotationLeavesOne
<1>2. CASE \A j \in Jobs : ~Rotate(j)
  <2>1. PICK a \in KeptBackups : TRUE
    OBVIOUS
  <2>2. /\ a \in Stamps /\ Usable(a) /\ Exists(a)
        /\ \A j \in Jobs : Backing(j) => job[j].archive # a
    BY <2>1 DEF KeptBackups, Usable, Exists, Backing
  <2>3. /\ archive'[a] = archive[a]
        /\ \A j \in Jobs : Backing(j)' => job'[j].archive # a
    BY <1>2, <2>2, OthersUntouched
  <2>4. Usable(a)'
    BY <2>2, <2>3, SameArchive
  <2>5. a \in KeptBackups'
    BY <2>2, <2>3, <2>4 DEF KeptBackups, Backing
  <2> QED BY <2>5
<1> QED BY <1>1, <1>2

-----------------------------------------------------------------------------

\* With one call at a time, whatever fails and wherever it is killed: an archive
\* that the status names as completed is there, whole, and accepted by a restore
\* (backup_chromadb, rotate_backups).
THEOREM ReportCorrect ==
    ASSUME OneCallAtATime
    PROVE  Spec => []CompletedIsUsable
<1>1. ArchiveInv => CompletedIsUsable
  BY DEF ArchiveInv, ReportOK, CompletedIsUsable
<1> QED BY <1>1, ArchivesStart, ArchivesStepKeeps, PTL DEF Spec

\* With one call at a time and a rotation that keeps two archives or more, the
\* first failure or crash leaves a backup to restore from (rotate_backups and the
\* except clause of backup_chromadb).
THEOREM BackupsSurvive ==
    ASSUME OneCallAtATime
    PROVE  Spec => UsableBackupRemains
<1>1. ArchiveInv /\ [Next]_vars =>
         [Limit >= 2 /\ faults' <= 1 /\ KeptBackups # {} => KeptBackups' # {}]_vars
  BY OneBackupStays
<1> QED BY <1>1, ArchivesStart, ArchivesStepKeeps, PTL DEF Spec, UsableBackupRemains
=============================================================================
