------------------------- MODULE SyncPipelineProofs -------------------------
(***************************************************************************)
(* Theorems about SyncPipeline for every set of sessions, files, contents  *)
(* and parsers and every bound.  Type correctness holds for any number of  *)
(* sessions; what the index holds is proved for one job at a time; and     *)
(* what a clean run leaves behind (the index mirrors the files, a second   *)
(* run has nothing to do, files in sync are not touched) if besides no two *)
(* files share a name.                                                     *)
(***************************************************************************)
EXTENDS SyncPipeline, FiniteSetTheorems, TLAPS

-----------------------------------------------------------------------------
(* Type correctness.                                                       *)

\* A file that is left to be parsed has an entry in the manifest that will be
\* saved, except while a forced run has listed the files and not hashed them.
LeftAreListed ==
    \A s \in Sessions :
       /\ plan[s].left \subseteq plan[s].files
       /\ pc[s] # "reset" => \A p \in plan[s].left : plan[s].new[p] # NoEntry

TypeInv == TypeOK /\ LeftAreListed

Outcomes == {"none", "completed", "cancelled", "error"}

LEMMA LabelTypes == SettingsParser \in Labels /\ Parsers \subseteq Labels
BY ConstantsOK DEF Labels

\* The records a job starts from and ends with.
LEMMA EmptyRecordTypes ==
    /\ EmptyManifest \in [Paths -> Entries \cup {NoEntry}]
    /\ NothingAsked \in [Paths -> Labels \cup {NoTarget}]
    /\ NoJob \in Jobs
    /\ NoPlan \in Plans
    /\ NoPlan.left = {}
<1>1. EmptyManifest \in [Paths -> Entries \cup {NoEntry}]
  BY DEF EmptyManifest
<1>2. NoJob \in Jobs
  BY LabelTypes DEF NoJob, NothingAsked, Jobs
<1>3. NoPlan \in Plans
  BY <1>1 DEF NoPlan, Plans, PCs
<1>4. NoPlan.left = {}
  BY DEF NoPlan
<1> QED BY <1>1, <1>2, <1>3, <1>4 DEF NothingAsked

\* EndJob keeps the types and leaves no file to parse.
LEMMA EndJobType ==
    ASSUME TypeInv, NEW s \in Sessions, NEW outcome \in Outcomes, NEW clean \in BOOLEAN,
           EndJob(s, outcome, clean)
    PROVE  /\ pc' \in [Sessions -> PCs] /\ job' \in [Sessions -> Jobs]
           /\ plan' \in [Sessions -> Plans]
           /\ LeftAreListed'
<1>1. pc' \in [Sessions -> PCs]
  BY DEF TypeInv, TypeOK, EndJob, PCs
<1>2. [NoJob EXCEPT !.kind = job[s].kind, !.outcome = outcome, !.clean = clean] \in Jobs
  <2>1. job[s].kind \in {"none", "full", "force", "single", "batch", "cli"}
    BY DEF TypeInv, TypeOK, Jobs
  <2> QED BY <2>1, EmptyRecordTypes DEF Jobs, Outcomes
<1>3. job' \in [Sessions -> Jobs]
  BY <1>2, EmptyRecordTypes DEF TypeInv, TypeOK, EndJob
<1>4. plan' \in [Sessions -> Plans]
  BY EmptyRecordTypes DEF TypeInv, TypeOK, EndJob
<1>5. LeftAreListed'
  BY EmptyRecordTypes DEF TypeInv, TypeOK, LeftAreListed, EndJob
<1> QED BY <1>1, <1>3, <1>4, <1>5

\* So does Raise, and the bound on faults holds after it.
LEMMA FaultType == TypeOK /\ Fault => faults' \in 0..MaxFaults
BY ConstantsOK DEF TypeOK, Fault

LEMMA RaiseType ==
    ASSUME TypeInv, NEW s \in Sessions, Raise(s)
    PROVE  /\ pc' \in [Sessions -> PCs] /\ job' \in [Sessions -> Jobs]
           /\ plan' \in [Sessions -> Plans]
           /\ LeftAreListed'
           /\ faults' \in 0..MaxFaults
<1>1. EndJob(s, "error", FALSE) /\ Fault
  BY DEF Raise
<1>2. faults' \in 0..MaxFaults
  BY <1>1, FaultType DEF TypeInv
<1>3. "error" \in Outcomes /\ FALSE \in BOOLEAN
  BY DEF Outcomes
<1> QED BY <1>1, <1>2, <1>3, EndJobType

\* A job that goes on with a well-typed record, plan and program point.
LEMMA StepType ==
    ASSUME TypeInv, NEW s \in Sessions, NEW label \in PCs, NEW j \in Jobs, NEW pl \in Plans,
           pc' = [pc EXCEPT ![s] = label],
           job' = [job EXCEPT ![s] = j], plan' = [plan EXCEPT ![s] = pl],
           pl.left \subseteq pl.files,
           label = "reset" \/ \A p \in pl.left : pl.new[p] # NoEntry
    PROVE  /\ pc' \in [Sessions -> PCs] /\ job' \in [Sessions -> Jobs]
           /\ plan' \in [Sessions -> Plans]
           /\ LeftAreListed'
BY DEF TypeInv, TypeOK, LeftAreListed

\* run_ingestion returning.
LEMMA RunDoneType ==
    ASSUME TypeInv, NEW s \in Sessions, NEW clean \in BOOLEAN, RunDone(s, clean)
    PROVE  /\ pc' \in [Sessions -> PCs] /\ job' \in [Sessions -> Jobs]
           /\ plan' \in [Sessions -> Plans]
           /\ LeftAreListed'
<1>1. CASE EndJob(s, "completed", clean)
  BY <1>1, EndJobType DEF Outcomes
<1>2. CASE /\ Goto(s, "repair")
           /\ job' = [job EXCEPT ![s].nested = FALSE, ![s].asked = NothingAsked,
                                ![s].clean = clean]
           /\ plan' = [plan EXCEPT ![s] = NoPlan]
  <2> DEFINE j == [job[s] EXCEPT !.nested = FALSE, !.asked = NothingAsked, !.clean = clean]
  <2>1. j \in Jobs /\ job' = [job EXCEPT ![s] = j]
    BY <1>2, EmptyRecordTypes DEF TypeInv, TypeOK, Jobs
  <2>2. "repair" \in PCs /\ pc' = [pc EXCEPT ![s] = "repair"]
    BY <1>2 DEF PCs, Goto
  <2> HIDE DEF j
  <2> QED BY <1>2, <2>1, <2>2, EmptyRecordTypes, StepType
<1> QED BY <1>1, <1>2 DEF RunDone

\* Deleting chunks keeps the type of the collection.
LEMMA WithoutType == TypeOK => \A set : Without(set) \in [Sids -> Nat]
BY DEF TypeOK, Without

LEMMA CleanupVectorType ==
    ASSUME TypeInv, NEW s \in Sessions, NEW sids \in SUBSET Sids, NEW rels \in SUBSET Paths,
           NEW names, NEW ret \in PCs, NEW newJob \in Jobs, NEW newPlan \in Plans,
           newPlan.left \subseteq newPlan.files,
           \A p \in newPlan.left : newPlan.new[p] # NoEntry,
           CleanupVector(s, sids, rels, names, ret, newJob, newPlan)
    PROVE  /\ db' \in [Sids -> Nat]
           /\ pc' \in [Sessions -> PCs] /\ job' \in [Sessions -> Jobs]
           /\ plan' \in [Sessions -> Plans]
           /\ LeftAreListed'
           /\ faults' \in 0..MaxFaults
<1> DEFINE gone == GoneIds(sids, names)
           With(ids) == [newPlan EXCEPT !.gone = ids, !.rels = rels, !.ret = ret]
<1>1. gone \in SUBSET Sids
  BY DEF GoneIds
<1>2. \A ids \in SUBSET Sids :
         /\ With(ids) \in Plans
         /\ With(ids).left = newPlan.left /\ With(ids).files = newPlan.files
         /\ With(ids).new = newPlan.new
  BY DEF Plans
<1>3. "cleanfiles" \in PCs
  BY DEF PCs
<1> HIDE DEF gone, With
<1>4. CASE /\ db' = Without(Doomed(gone, rels, names))
           /\ Goto(s, "cleanfiles")
           /\ job' = [job EXCEPT ![s] = newJob]
           /\ plan' = [plan EXCEPT ![s] = With(gone)]
           /\ UNCHANGED faults
  <2>1. db' \in [Sids -> Nat] /\ faults' \in 0..MaxFaults
    BY <1>4, WithoutType DEF TypeInv, TypeOK
  <2>2. /\ With(gone) \in Plans /\ With(gone).left \subseteq With(gone).files
        /\ \A p \in With(gone).left : With(gone).new[p] # NoEntry
    BY <1>1, <1>2
  <2>3. pc' = [pc EXCEPT ![s] = "cleanfiles"]
    BY <1>4 DEF Goto
  <2> QED BY <1>3, <1>4, <2>1, <2>2, <2>3, StepType
<1>5. CASE /\ Fault
           /\ \E set : db' = Without(set)
           /\ Goto(s, "cleanfiles")
           /\ job' = [job EXCEPT ![s] = [newJob EXCEPT !.clean = FALSE]]
           /\ plan' = [plan EXCEPT ![s] = With(sids)]
  <2>1. db' \in [Sids -> Nat] /\ faults' \in 0..MaxFaults
    BY <1>5, WithoutType, FaultType DEF TypeInv
  <2>2. /\ With(sids) \in Plans /\ With(sids).left \subseteq With(sids).files
        /\ \A p \in With(sids).left : With(sids).new[p] # NoEntry
    BY <1>2
  <2>3. pc' = [pc EXCEPT ![s] = "cleanfiles"]
    BY <1>5 DEF Goto
  <2>4. [newJob EXCEPT !.clean = FALSE] \in Jobs
    BY DEF Jobs
  <2> QED BY <1>3, <1>5, <2>1, <2>2, <2>3, <2>4, StepType
<1>6. CASE \E part : db' = Without(part) /\ Raise(s)
  BY <1>6, WithoutType, RaiseType DEF TypeInv
<1> QED BY <1>4, <1>5, <1>6 DEF CleanupVector, gone, With

-----------------------------------------------------------------------------
(* Every action keeps the types.                                           *)

\* The plan of a well-typed state, and its fields.
LEMMA PlanTypes ==
    ASSUME TypeOK, NEW s \in Sessions
    PROVE  /\ job[s] \in Jobs /\ plan[s] \in Plans
           /\ plan[s].files \in SUBSET Paths /\ plan[s].left \in SUBSET Paths
           /\ plan[s].sids \in SUBSET Sids /\ plan[s].rels \in SUBSET Paths
           /\ plan[s].parsed \in SUBSET Sids /\ plan[s].ret \in PCs
           /\ plan[s].old \in [Paths -> Entries \cup {NoEntry}]
           /\ plan[s].new \in [Paths -> Entries \cup {NoEntry}]
BY DEF TypeOK, Plans

LEMMA BeginJobType ==
    ASSUME TypeInv, NEW s \in Sessions, NEW new \in Jobs, BeginJob(s, new)
    PROVE  job' \in [Sessions -> Jobs]
<1>1. [new EXCEPT !.clean = \A u \in Sessions \ {s} : pc[u] = "idle"] \in Jobs
  <2>1. ASSUME NEW clean \in BOOLEAN PROVE [new EXCEPT !.clean = clean] \in Jobs
    BY DEF Jobs
  <2>2. (\A u \in Sessions \ {s} : pc[u] = "idle") \in BOOLEAN
    OBVIOUS
  <2> QED BY <2>1, <2>2
<1>2. \A t \in Sessions : [job[t] EXCEPT !.clean = FALSE] \in Jobs
  BY DEF TypeInv, TypeOK, Jobs
<1> QED BY <1>1, <1>2 DEF BeginJob

LEMMA StartType ==
    ASSUME TypeInv, NEW s \in Sessions,
           StartSync(s) \/ StartCli(s) \/ StartSingleFileSync(s)
           \/ StartMultipleFilesSync(s)
    PROVE  TypeInv'
<1>2. /\ job' \in [Sessions -> Jobs]
      /\ \E label \in {"repair", "scan", "update"} : pc' = [pc EXCEPT ![s] = label]
      /\ UNCHANGED <<stores, plan, bounds>>
  <2>1. CASE StartSync(s)
    <3>1. PICK kind \in {"full", "force"}, parser \in Parsers :
             BeginJob(s, [NoJob EXCEPT !.kind = kind, !.parser = parser])
      BY <2>1 DEF StartSync
    <3>2. [NoJob EXCEPT !.kind = kind, !.parser = parser] \in Jobs
      BY LabelTypes, EmptyRecordTypes DEF Jobs
    <3>3. job' \in [Sessions -> Jobs]
      BY <3>1, <3>2, BeginJobType
    <3> QED BY <2>1, <3>3 DEF StartSync, Goto
  <2>2. CASE StartCli(s)
    <3>1. [NoJob EXCEPT !.kind = "cli"] \in Jobs
      BY EmptyRecordTypes DEF Jobs
    <3>2. job' \in [Sessions -> Jobs]
      BY <2>2, <3>1, BeginJobType DEF StartCli
    <3> QED BY <2>2, <3>2 DEF StartCli, Goto
  <2>3. CASE StartSingleFileSync(s)
    <3>1. PICK p \in Paths, parser \in Labels :
             BeginJob(s, [NoJob EXCEPT !.kind = "single",
                                       !.asked = [NothingAsked EXCEPT ![p] = parser]])
      BY <2>3 DEF StartSingleFileSync
    <3>2. [NoJob EXCEPT !.kind = "single",
                        !.asked = [NothingAsked EXCEPT ![p] = parser]] \in Jobs
      BY EmptyRecordTypes DEF Jobs
    <3>3. job' \in [Sessions -> Jobs]
      BY <3>1, <3>2, BeginJobType
    <3> QED BY <2>3, <3>3 DEF StartSingleFileSync, Goto
  <2>4. CASE StartMultipleFilesSync(s)
    <3>1. PICK asked \in [Paths -> Parsers \cup {NoTarget}] :
             BeginJob(s, [NoJob EXCEPT !.kind = "batch", !.asked = asked])
      BY <2>4 DEF StartMultipleFilesSync
    <3>2. asked \in [Paths -> Labels \cup {NoTarget}]
      BY LabelTypes
    <3>3. [NoJob EXCEPT !.kind = "batch", !.asked = asked] \in Jobs
      BY <3>2, EmptyRecordTypes DEF Jobs
    <3>4. job' \in [Sessions -> Jobs]
      BY <3>1, <3>3, BeginJobType
    <3> QED BY <2>4, <3>4 DEF StartMultipleFilesSync, Goto
  <2> QED BY <2>1, <2>2, <2>3, <2>4
<1>3. pc' \in [Sessions -> PCs] /\ LeftAreListed' 
  <2>1. pc[s] = "idle"
    BY DEF StartSync, StartCli, StartSingleFileSync, StartMultipleFilesSync
  <2> QED BY <1>2, <2>1 DEF TypeInv, TypeOK, PCs, LeftAreListed
<1> QED BY <1>2, <1>3 DEF TypeInv, TypeOK, stores, bounds

LEMMA CancelType ==
    ASSUME TypeInv, NEW s \in Sessions, RequestCancel(s) PROVE TypeInv'
<1>1. [job[s] EXCEPT !.cancel = TRUE] \in Jobs
  BY PlanTypes DEF TypeInv, Jobs
<1>2. faults' \in 0..MaxFaults
  BY FaultType DEF TypeInv, RequestCancel
<1> QED BY <1>1, <1>2 DEF RequestCancel, TypeInv, TypeOK, LeftAreListed, stores

LEMMA DiagnoseType ==
    ASSUME TypeInv, NEW s \in Sessions, Diagnose(s) PROVE TypeInv'
<1>1. job' \in [Sessions -> Jobs] /\ faults' \in 0..MaxFaults
  <2>1. ASSUME NEW g \in SUBSET Paths, NEW d \in SUBSET Paths, NEW m \in SUBSET Paths
        PROVE  [job[s] EXCEPT !.diagnosed = TRUE, !.ghosts = g, !.dups = d,
                              !.mismatches = m] \in Jobs
    BY PlanTypes DEF TypeInv, Jobs
  <2>2. [job[s] EXCEPT !.diagnosed = TRUE, !.clean = FALSE] \in Jobs
    BY PlanTypes DEF TypeInv, Jobs
  <2>3. CASE Fault /\ job' = [job EXCEPT ![s].diagnosed = TRUE, ![s].clean = FALSE]
    BY <2>2, <2>3, FaultType DEF TypeInv, TypeOK
  <2>4. CASE /\ UNCHANGED faults
             /\ \E g, d, m \in SUBSET Paths :
                   job' = [job EXCEPT ![s].diagnosed = TRUE, ![s].ghosts = g,
                                      ![s].dups = d, ![s].mismatches = m]
    <3>1. PICK g \in SUBSET Paths, d \in SUBSET Paths, m \in SUBSET Paths :
             job' = [job EXCEPT ![s].diagnosed = TRUE, ![s].ghosts = g,
                                ![s].dups = d, ![s].mismatches = m]
      BY <2>4
    <3> DEFINE j == [job[s] EXCEPT !.diagnosed = TRUE, !.ghosts = g, !.dups = d,
                                   !.mismatches = m]
    <3>2. job' = [job EXCEPT ![s] = j]
      BY <3>1 DEF TypeInv, TypeOK
    <3>3. j \in Jobs
      BY <2>1
    <3> HIDE DEF j
    <3> QED BY <2>4, <3>2, <3>3 DEF TypeInv, TypeOK
  <2> DEFINE chunked == {p \in Paths : ChunksOf(p) # {}}
             present == {p \in chunked : raw[p] # Absent}
  <2>5. \/ Fault /\ job' = [job EXCEPT ![s].diagnosed = TRUE, ![s].clean = FALSE]
        \/ /\ UNCHANGED faults
           /\ \E pick \in [present -> Labels] :
                 job' = [job EXCEPT ![s].diagnosed = TRUE,
                    ![s].ghosts = chunked \ present,
                    ![s].dups = {p \in present : Cardinality(ParsersOf(p)) > 1},
                    ![s].mismatches = {p \in present : HashOf(p, pick[p]) \notin ChunksOf(p)}]
    BY DEF Diagnose
  <2>6. present \in SUBSET Paths /\ chunked \in SUBSET Paths
    OBVIOUS
  <2> HIDE DEF chunked, present
  <2> QED BY <2>3, <2>4, <2>5, <2>6
<1> QED BY <1>1 DEF Diagnose, TypeInv, TypeOK, LeftAreListed, stores

LEMMA RepairDoneType ==
    ASSUME TypeInv, NEW s \in Sessions, RepairDone(s) PROVE TypeInv'
<1>1. pc[s] = "repair" /\ pc' = [pc EXCEPT ![s] = "scan"] /\ UNCHANGED <<stores, job, plan, bounds>>
  BY DEF RepairDone, Goto
<1> QED BY <1>1 DEF TypeInv, TypeOK, PCs, LeftAreListed, stores, bounds

LEMMA RepairGhostType ==
    ASSUME TypeInv, NEW s \in Sessions, RepairGhost(s) PROVE TypeInv'
<1>1. PICK p \in job[s].ghosts :
         CleanupVector(s, {}, {p}, {}, "repair", [job[s] EXCEPT !.ghosts = @ \ {p}], NoPlan)
  BY DEF RepairGhost
<1>2. p \in Paths /\ [job[s] EXCEPT !.ghosts = @ \ {p}] \in Jobs
  BY PlanTypes DEF TypeInv, Jobs
<1>3. "repair" \in PCs /\ {} \in SUBSET Sids /\ {p} \in SUBSET Paths
  BY <1>2 DEF PCs
<1>4. UNCHANGED <<raw, manifest, json, globalParser, edits>>
  BY DEF RepairGhost
<1> DEFINE j == [job[s] EXCEPT !.ghosts = @ \ {p}]
<1>5. j \in Jobs /\ CleanupVector(s, {}, {p}, {}, "repair", j, NoPlan)
  BY <1>1, <1>2
<1> HIDE DEF j
<1>6. NoPlan.left \subseteq NoPlan.files /\ \A q \in NoPlan.left : NoPlan.new[q] # NoEntry
  BY EmptyRecordTypes
<1>7. /\ db' \in [Sids -> Nat]
      /\ pc' \in [Sessions -> PCs] /\ job' \in [Sessions -> Jobs]
      /\ plan' \in [Sessions -> Plans]
      /\ LeftAreListed' /\ faults' \in 0..MaxFaults
  BY <1>3, <1>5, <1>6, EmptyRecordTypes, CleanupVectorType
<1> QED BY <1>4, <1>7 DEF TypeInv, TypeOK

LEMMA RepairDuplicateType ==
    ASSUME TypeInv, NEW s \in Sessions, RepairDuplicate(s) PROVE TypeInv'
<1>1. PICK p \in job[s].dups :
         CleanupVector(s, {x \in ChunksOf(p) : x.parser # SettingsParser}, {}, {}, "repair",
                       [job[s] EXCEPT !.dups = @ \ {p}], NoPlan)
  BY DEF RepairDuplicate
<1> DEFINE j == [job[s] EXCEPT !.dups = @ \ {p}]
           ids == {x \in ChunksOf(p) : x.parser # SettingsParser}
<1>2. j \in Jobs /\ CleanupVector(s, ids, {}, {}, "repair", j, NoPlan)
  BY <1>1, PlanTypes DEF TypeInv, Jobs
<1>3. "repair" \in PCs /\ ids \in SUBSET Sids /\ {} \in SUBSET Paths
  BY DEF PCs, ChunksOf
<1>4. UNCHANGED <<raw, manifest, json, globalParser, edits>>
  BY DEF RepairDuplicate
<1> HIDE DEF j, ids
<1>5. NoPlan.left \subseteq NoPlan.files /\ \A q \in NoPlan.left : NoPlan.new[q] # NoEntry
  BY EmptyRecordTypes
<1>6. /\ db' \in [Sids -> Nat]
      /\ pc' \in [Sessions -> PCs] /\ job' \in [Sessions -> Jobs]
      /\ plan' \in [Sessions -> Plans]
      /\ LeftAreListed' /\ faults' \in 0..MaxFaults
  BY <1>2, <1>3, <1>5, EmptyRecordTypes, CleanupVectorType
<1> QED BY <1>4, <1>6 DEF TypeInv, TypeOK

\* The files found for a set of names, and the parsers asked for them.
LEMMA FoundFilesType ==
    ASSUME NEW asked \in [Paths -> Labels \cup {NoTarget}],
           NEW found \in FoundFiles({Name[p] : p \in {q \in Paths : asked[q] # NoTarget}})
    PROVE  /\ found \in SUBSET Paths
           /\ \A q \in found : ParserAsked(asked, Name[q]) \in Labels
<1>1. ASSUME NEW q \in found
      PROVE  q \in Paths /\ \E p \in Paths : asked[p] # NoTarget /\ Name[p] = Name[q]
  <2>1. PICK p \in Paths : asked[p] # NoTarget /\ q \in FindRelativePath(Name[p])
    BY DEF FoundFiles
  <2>2. q \in Paths /\ Name[q] = Name[p]
    BY <2>1 DEF FindRelativePath
  <2> QED BY <2>1, <2>2
<1>2. ASSUME NEW q \in found PROVE ParserAsked(asked, Name[q]) \in Labels
  <2> DEFINE r == CHOOSE p \in Paths : asked[p] # NoTarget /\ Name[p] = Name[q]
  <2>1. r \in Paths /\ asked[r] # NoTarget
    BY <1>1
  <2> QED BY <2>1 DEF ParserAsked
<1> QED BY <1>1, <1>2

\* The first part of update_file_parser, for all of its callers.
LEMMA UpdateFileParserType ==
    ASSUME TypeInv, NEW s \in Sessions, NEW asked \in [Paths -> Labels \cup {NoTarget}],
           NEW newJob \in Jobs, UpdateFileParser(s, asked, newJob)
    PROVE  /\ db' \in [Sids -> Nat]
           /\ pc' \in [Sessions -> PCs] /\ job' \in [Sessions -> Jobs]
           /\ plan' \in [Sessions -> Plans]
           /\ LeftAreListed' /\ faults' \in 0..MaxFaults
<1> DEFINE names == {Name[p] : p \in {q \in Paths : asked[q] # NoTarget}}
           ids(found) == {manifest[q].hash : q \in {r \in found : manifest[r] # NoEntry}}
                            \ {NoHash}
           now(found) == [q \in Paths |->
                            IF q \in found THEN ParserAsked(asked, Name[q]) ELSE NoTarget]
           j(found) == [newJob EXCEPT !.asked = now(found)]
           pl == [NoPlan EXCEPT !.old = manifest]
<1>1. PICK found \in FoundFiles(names) :
         \/ CleanupVector(s, ids(found), {}, names, "mark", j(found), pl)
         \/ /\ Goto(s, "mark") /\ job' = [job EXCEPT ![s] = j(found)]
            /\ plan' = [plan EXCEPT ![s] = pl] /\ UNCHANGED <<db, faults>>
  BY DEF UpdateFileParser
<1>2. found \in SUBSET Paths /\ \A q \in found : ParserAsked(asked, Name[q]) \in Labels
  BY <1>1, FoundFilesType
<1>3. j(found) \in Jobs
  <2>1. now(found) \in [Paths -> Labels \cup {NoTarget}]
    BY <1>2
  <2> HIDE DEF now
  <2> QED BY <2>1 DEF Jobs
<1>4. ids(found) \in SUBSET Sids
  BY <1>2 DEF TypeInv, TypeOK, Entries
<1>5. pl \in Plans /\ pl.left = {}
  BY EmptyRecordTypes DEF TypeInv, TypeOK, Plans
<1>6. "mark" \in PCs /\ {} \in SUBSET Paths
  BY DEF PCs
<1> HIDE DEF names, ids, j, pl
<1>7. pl.left \subseteq pl.files /\ \A x \in pl.left : pl.new[x] # NoEntry
  BY <1>5
<1>8. CASE CleanupVector(s, ids(found), {}, names, "mark", j(found), pl)
  BY <1>3, <1>4, <1>5, <1>6, <1>7, <1>8, CleanupVectorType
<1>9. CASE /\ Goto(s, "mark") /\ job' = [job EXCEPT ![s] = j(found)]
           /\ plan' = [plan EXCEPT ![s] = pl] /\ UNCHANGED <<db, faults>>
  <2>1. pc' = [pc EXCEPT ![s] = "mark"] /\ \A p \in pl.left : pl.new[p] # NoEntry
    BY <1>7, <1>9 DEF Goto
  <2>2. /\ pc' \in [Sessions -> PCs] /\ job' \in [Sessions -> Jobs]
        /\ plan' \in [Sessions -> Plans] /\ LeftAreListed'
    BY <1>3, <1>5, <1>6, <1>7, <1>9, <2>1, StepType
  <2> QED BY <1>9, <2>2 DEF TypeInv, TypeOK
<1> QED BY <1>1, <1>8, <1>9

LEMMA RepairMismatchType ==
    ASSUME TypeInv, NEW s \in Sessions, RepairMismatch(s) PROVE TypeInv'
<1>1. PICK p \in job[s].mismatches :
         \/ UpdateFileParser(s, AskedByRepair(s, p),
                             [[job[s] EXCEPT !.mismatches = @ \ {p}] EXCEPT !.nested = TRUE])
         \/ /\ FindRelativePath(Name[p]) = {}
            /\ job' = [job EXCEPT ![s] = [job[s] EXCEPT !.mismatches = @ \ {p}]]
            /\ UNCHANGED <<db, pc, plan, faults>>
  BY DEF RepairMismatch
<1> DEFINE next == [job[s] EXCEPT !.mismatches = @ \ {p}]
           nested == [next EXCEPT !.nested = TRUE]
<1>2. /\ next \in Jobs /\ nested \in Jobs
      /\ AskedByRepair(s, p) \in [Paths -> Labels \cup {NoTarget}]
  BY PlanTypes, EmptyRecordTypes DEF TypeInv, Jobs, AskedByRepair
<1>3. \/ UpdateFileParser(s, AskedByRepair(s, p), nested)
      \/ job' = [job EXCEPT ![s] = next] /\ UNCHANGED <<db, pc, plan, faults>>
  BY <1>1
<1>4. UNCHANGED <<raw, manifest, json, globalParser, edits>>
  BY DEF RepairMismatch
<1> HIDE DEF next, nested
<1>5. CASE UpdateFileParser(s, AskedByRepair(s, p), nested)
  BY <1>2, <1>4, <1>5, UpdateFileParserType DEF TypeInv, TypeOK
<1>6. CASE job' = [job EXCEPT ![s] = next] /\ UNCHANGED <<db, pc, plan, faults>>
  BY <1>2, <1>4, <1>6 DEF TypeInv, TypeOK, LeftAreListed
<1> QED BY <1>3, <1>5, <1>6

LEMMA UpdateAskedFilesType ==
    ASSUME TypeInv, NEW s \in Sessions, UpdateAskedFiles(s) PROVE TypeInv'
<1>1. UNCHANGED <<raw, manifest, json, globalParser, edits>>
  BY DEF UpdateAskedFiles
<1>2. /\ job[s] \in Jobs /\ job[s].clean \in BOOLEAN
      /\ job[s].asked \in [Paths -> Labels \cup {NoTarget}]
  BY PlanTypes DEF TypeInv, Jobs
<1>3. CASE UpdateFileParser(s, job[s].asked, job[s])
  BY <1>1, <1>2, <1>3, UpdateFileParserType DEF TypeInv, TypeOK
<1>4. CASE EndJob(s, "completed", job[s].clean) /\ UNCHANGED <<db, faults>>
  BY <1>1, <1>2, <1>4, EndJobType DEF TypeInv, TypeOK, Outcomes
<1> QED BY <1>3, <1>4 DEF UpdateAskedFiles

LEMMA CleanupFilesType ==
    ASSUME TypeInv, NEW s \in Sessions, CleanupFiles(s) PROVE TypeInv'
<1>1. UNCHANGED <<raw, manifest, db, globalParser, edits>> /\ json' \in SUBSET Sids
  BY DEF CleanupFiles, TypeInv, TypeOK
<1>2. plan[s].ret \in PCs /\ [job[s] EXCEPT !.clean = FALSE] \in Jobs /\ pc[s] = "cleanfiles"
  BY PlanTypes DEF TypeInv, Jobs, CleanupFiles
<1>3. \A p \in plan[s].left : plan[s].new[p] # NoEntry
  BY <1>2 DEF TypeInv, LeftAreListed
<1>4. CASE Goto(s, plan[s].ret) /\ UNCHANGED <<job, plan, faults>>
  BY <1>1, <1>2, <1>3, <1>4 DEF TypeInv, TypeOK, LeftAreListed, Goto
<1>5. CASE /\ Fault /\ Goto(s, plan[s].ret)
           /\ job' = [job EXCEPT ![s].clean = FALSE] /\ UNCHANGED plan
  <2>1. faults' \in 0..MaxFaults
    BY <1>5, FaultType DEF TypeInv
  <2> QED BY <1>1, <1>2, <1>3, <1>5, <2>1 DEF TypeInv, TypeOK, LeftAreListed, Goto
<1>6. CASE Raise(s)
  BY <1>1, <1>6, RaiseType DEF TypeInv, TypeOK
<1> QED BY <1>4, <1>5, <1>6 DEF CleanupFiles

LEMMA MarkType ==
    ASSUME TypeInv, NEW s \in Sessions, MarkForReindex(s) PROVE TypeInv'
<1>1. manifest' \in [Paths -> Entries \cup {NoEntry}]
  <2>1. CASE manifest' = [p \in Paths |->
                 IF p \in Targets(s) THEN [hash |-> NoHash, parser |-> job[s].asked[p]]
                 ELSE plan[s].old[p]]
    <3>1. \A p \in Targets(s) : [hash |-> NoHash, parser |-> job[s].asked[p]] \in Entries
      BY PlanTypes DEF TypeInv, Jobs, Entries, Targets
    <3> QED BY <2>1, <3>1, PlanTypes DEF TypeInv, Plans
  <2>2. CASE UNCHANGED manifest
    BY <2>2 DEF TypeInv, TypeOK
  <2> QED BY <2>1, <2>2 DEF MarkForReindex
<1>2. faults' \in 0..MaxFaults /\ job' \in [Sessions -> Jobs]
  <2>1. [job[s] EXCEPT !.clean = FALSE] \in Jobs
    BY PlanTypes DEF TypeInv, Jobs
  <2> QED BY <2>1, FaultType DEF MarkForReindex, TypeInv, TypeOK
<1>3. pc' \in [Sessions -> PCs] /\ plan' \in [Sessions -> Plans]
  BY EmptyRecordTypes DEF MarkForReindex, Goto, TypeInv, TypeOK, PCs
<1>4. LeftAreListed'
  BY EmptyRecordTypes DEF MarkForReindex, Goto, TypeInv, TypeOK, LeftAreListed
<1> QED BY <1>1, <1>2, <1>3, <1>4 DEF MarkForReindex, TypeInv, TypeOK

\* What calculate_delta returns.
LEMMA HashType ==
    ASSUME TypeOK, NEW p \in Paths, NEW parser \in Labels, raw[p] # Absent
    PROVE  HashOf(p, parser) \in Sids
BY DEF HashOf, TypeOK, Sids

LEMMA DeltaTypes ==
    ASSUME TypeOK, NEW default \in Labels, NEW new, new = NewManifest(default)
    PROVE  /\ new \in [Paths -> Entries \cup {NoEntry}]
           /\ FilesToProcess(new) \in SUBSET Paths
           /\ \A p \in FilesToProcess(new) : new[p] # NoEntry
           /\ SourceIdsToDelete(new) \in SUBSET Sids
           /\ RelPathsToDelete(new) \in SUBSET Paths
<1>1. ASSUME NEW p \in Paths PROVE FileParser(p, default) \in Labels
  BY DEF FileParser, TypeOK, Entries
<1>2. ASSUME NEW p \in Paths, raw[p] # Absent
      PROVE  [hash |-> HashOf(p, FileParser(p, default)),
              parser |-> FileParser(p, default)] \in Entries
  BY <1>1, <1>2, HashType DEF Entries
<1>3. new \in [Paths -> Entries \cup {NoEntry}]
  BY <1>2 DEF NewManifest
<1>4. SourceIdsToDelete(new) \in SUBSET Sids
  BY DEF SourceIdsToDelete, TypeOK, Entries
<1>5. FilesToProcess(new) \in SUBSET Paths /\ RelPathsToDelete(new) \in SUBSET Paths
  BY DEF FilesToProcess, RelPathsToDelete
<1>6. \A p \in FilesToProcess(new) : new[p] # NoEntry
  BY DEF FilesToProcess
<1> QED BY <1>3, <1>4, <1>5, <1>6

LEMMA GlobalParserType ==
    TypeOK => \A s \in Sessions : GlobalParserAfter(s) \in Labels
BY PlanTypes DEF TypeOK, GlobalParserAfter, Jobs

LEMMA ScanType ==
    ASSUME TypeInv, NEW s \in Sessions, Scan(s) PROVE TypeInv'
<1> DEFINE default == IF job[s].kind = "cli" THEN SettingsParser ELSE GlobalParserAfter(s)
           new    == NewManifest(default)
           limited == Targets(s) # {}
           todo   == IF limited THEN FilesToProcess(new) \cap Targets(s)
                     ELSE FilesToProcess(new)
           sids   == IF limited THEN TargetSids(SourceIdsToDelete(new), Targets(s))
                     ELSE SourceIdsToDelete(new)
           rels   == RelPathsToDelete(new)
           final  == IF limited THEN TargetManifest(new, Targets(s)) ELSE new
           pl     == [NoPlan EXCEPT !.files = todo, !.left = todo, !.sids = sids,
                                    !.rels = rels, !.new = final]
<1>1. default \in Labels
  BY GlobalParserType, LabelTypes DEF TypeInv
<1>2. /\ new \in [Paths -> Entries \cup {NoEntry}]
      /\ FilesToProcess(new) \in SUBSET Paths
      /\ \A p \in FilesToProcess(new) : new[p] # NoEntry
      /\ SourceIdsToDelete(new) \in SUBSET Sids
      /\ rels \in SUBSET Paths
  <2> HIDE DEF default
  <2> QED BY <1>1, DeltaTypes DEF TypeInv
<1>3. /\ globalParser' = GlobalParserAfter(s)
      /\ UNCHANGED <<raw, manifest, json, db, bounds>>
      /\ \/ RunDone(s, job[s].clean)
         \/ Goto(s, "cleanup") /\ plan' = [plan EXCEPT ![s] = pl] /\ UNCHANGED job
  BY DEF Scan
<1> HIDE DEF new
<1>4. /\ todo \in SUBSET Paths /\ sids \in SUBSET Sids
      /\ final \in [Paths -> Entries \cup {NoEntry}]
      /\ \A p \in todo : final[p] # NoEntry
  <2>1. TargetManifest(new, Targets(s)) \in [Paths -> Entries \cup {NoEntry}]
    BY <1>2 DEF TargetManifest, TypeInv, TypeOK
  <2>2. \A p \in Targets(s) : TargetManifest(new, Targets(s))[p] = new[p]
    BY DEF TargetManifest, Targets
  <2> QED BY <1>2, <2>1, <2>2 DEF TargetSids
<1> HIDE DEF todo, sids, rels, final
<1>5. pl \in Plans /\ pl.files = todo /\ pl.left = todo /\ pl.new = final
  BY <1>2, <1>4, EmptyRecordTypes DEF Plans
<1> HIDE DEF pl
<1>6. globalParser' \in Labels
  BY <1>3, GlobalParserType DEF TypeInv
<1>7. CASE RunDone(s, job[s].clean)
  <2>1. job[s].clean \in BOOLEAN
    BY PlanTypes DEF TypeInv, Jobs
  <2> QED BY <1>3, <1>6, <1>7, <2>1, RunDoneType DEF TypeInv, TypeOK, bounds
<1>8. CASE Goto(s, "cleanup") /\ plan' = [plan EXCEPT ![s] = pl] /\ UNCHANGED job
  <2>1. "cleanup" \in PCs /\ pc' = [pc EXCEPT ![s] = "cleanup"]
    BY <1>8 DEF Goto, PCs
  <2>2. job[s] \in Jobs /\ job' = [job EXCEPT ![s] = job[s]]
    BY <1>8, PlanTypes DEF TypeInv, TypeOK
  <2>3. /\ pc' \in [Sessions -> PCs] /\ job' \in [Sessions -> Jobs]
        /\ plan' \in [Sessions -> Plans]
        /\ LeftAreListed'
    BY <1>4, <1>5, <1>8, <2>1, <2>2, StepType
  <2> QED BY <1>3, <1>6, <2>3 DEF TypeInv, TypeOK, bounds
<1> QED BY <1>3, <1>7, <1>8

LEMMA ScanForcedType ==
    ASSUME TypeInv, NEW s \in Sessions, ScanForced(s) PROVE TypeInv'
<1>1. globalParser' \in Labels /\ UNCHANGED <<raw, manifest, json, edits>>
  BY GlobalParserType DEF ScanForced, TypeInv
<1> DEFINE files == {p \in Paths : raw[p] # Absent}
           pl == [NoPlan EXCEPT !.files = files, !.left = files]
<1>2. CASE /\ db' = [x \in Sids |-> 0] /\ Goto(s, "reset")
           /\ plan' = [plan EXCEPT ![s] = pl] /\ UNCHANGED <<job, faults>>
  <2>1. db' \in [Sids -> Nat]
    BY <1>2
  <2>2. pl \in Plans /\ pl.left \subseteq pl.files
    BY EmptyRecordTypes DEF Plans
  <2>3. "reset" \in PCs /\ pc' = [pc EXCEPT ![s] = "reset"]
    BY <1>2 DEF PCs, Goto
  <2>4. job[s] \in Jobs /\ job' = [job EXCEPT ![s] = job[s]]
    BY <1>2, PlanTypes DEF TypeInv, TypeOK
  <2> HIDE DEF pl
  <2>5. /\ pc' \in [Sessions -> PCs] /\ job' \in [Sessions -> Jobs]
        /\ plan' \in [Sessions -> Plans]
        /\ LeftAreListed'
    BY <1>2, <2>2, <2>3, <2>4, StepType
  <2> QED BY <1>1, <1>2, <2>1, <2>5 DEF TypeInv, TypeOK
<1>3. CASE Raise(s) /\ UNCHANGED db
  BY <1>1, <1>3, RaiseType DEF TypeInv, TypeOK
<1> QED BY <1>2, <1>3 DEF ScanForced

LEMMA ResetFilesType ==
    ASSUME TypeInv, NEW s \in Sessions, ResetFiles(s) PROVE TypeInv'
<1> DEFINE pl == [plan[s] EXCEPT !.new = [p \in Paths |->
                    IF p \in plan[s].files
                    THEN [hash |-> HashOf(p, globalParser), parser |-> globalParser]
                    ELSE NoEntry]]
<1>1. PICK kept \in SUBSET json, deleted \in BOOLEAN :
         /\ json' = kept
         /\ manifest' = IF deleted THEN EmptyManifest ELSE manifest
         /\ IF kept = {} /\ deleted THEN UNCHANGED faults ELSE Fault
         /\ \/ EndJob(s, "error", FALSE)
            \/ /\ \A p \in plan[s].files : raw[p] # Absent
               /\ Goto(s, IF plan[s].files = {} THEN "savemanifest" ELSE "parse")
               /\ job' = [job EXCEPT ![s].clean = @ /\ kept = {} /\ deleted]
               /\ plan' = [plan EXCEPT ![s] = pl]
  BY DEF ResetFiles, TypeInv, TypeOK
<1>2. /\ UNCHANGED <<raw, db, globalParser, edits>>
      /\ json' \in SUBSET Sids
      /\ manifest' \in [Paths -> Entries \cup {NoEntry}]
      /\ faults' \in 0..MaxFaults
  <2>1. faults' \in 0..MaxFaults
    BY <1>1, FaultType DEF TypeInv, TypeOK
  <2>2. manifest' \in [Paths -> Entries \cup {NoEntry}]
    BY <1>1, EmptyRecordTypes DEF TypeInv, TypeOK
  <2> QED BY <1>1, <2>1, <2>2 DEF ResetFiles, TypeInv, TypeOK
<1>3. CASE EndJob(s, "error", FALSE)
  BY <1>2, <1>3, EndJobType DEF TypeInv, TypeOK, Outcomes
<1>4. CASE /\ \A p \in plan[s].files : raw[p] # Absent
           /\ Goto(s, IF plan[s].files = {} THEN "savemanifest" ELSE "parse")
           /\ job' = [job EXCEPT ![s].clean = @ /\ kept = {} /\ deleted]
           /\ plan' = [plan EXCEPT ![s] = pl]
  <2>1. pl \in Plans /\ pl.files = plan[s].files /\ pl.left = plan[s].left
    <3>1. ASSUME NEW p \in plan[s].files
          PROVE  [hash |-> HashOf(p, globalParser), parser |-> globalParser] \in Entries
      BY <1>4, HashType, PlanTypes DEF TypeInv, TypeOK, Entries
    <3> QED BY <3>1, PlanTypes DEF TypeInv, Plans
  <2>2. [job[s] EXCEPT !.clean = @ /\ kept = {} /\ deleted] \in Jobs
    BY PlanTypes DEF TypeInv, Jobs
  <2>3. plan[s].left \subseteq plan[s].files
    BY DEF TypeInv, LeftAreListed
  <2>4. ASSUME NEW p \in plan[s].files PROVE pl.new[p] # NoEntry
    <3>1. [hash |-> HashOf(p, globalParser), parser |-> globalParser] \in Entries
      BY <1>4, HashType, PlanTypes DEF TypeInv, TypeOK, Entries
    <3> QED BY <3>1, ConstantsOK, PlanTypes DEF TypeInv, Plans
  <2>5. \E label \in {"savemanifest", "parse"} : pc' = [pc EXCEPT ![s] = label]
    BY <1>4 DEF Goto
  <2> DEFINE j == [job[s] EXCEPT !.clean = @ /\ kept = {} /\ deleted]
  <2>6. j \in Jobs /\ job' = [job EXCEPT ![s] = j]
    BY <1>4, <2>2 DEF TypeInv, TypeOK
  <2> HIDE DEF pl, j
  <2>7. /\ pc' \in [Sessions -> PCs] /\ job' \in [Sessions -> Jobs]
        /\ plan' \in [Sessions -> Plans]
        /\ LeftAreListed'
    <3>1. PICK label \in {"savemanifest", "parse"} : pc' = [pc EXCEPT ![s] = label]
      BY <2>5
    <3>2. label \in PCs
      BY DEF PCs
    <3>3. plan' = [plan EXCEPT ![s] = pl] /\ pl.left \subseteq pl.files
      BY <1>4, <2>1, <2>3
    <3>4. pl \in Plans /\ \A p \in pl.left : pl.new[p] # NoEntry
      BY <2>1, <2>3, <2>4
    <3> QED BY <2>6, <3>1, <3>2, <3>3, <3>4, StepType
  <2> QED BY <1>2, <2>7 DEF TypeInv, TypeOK
<1> QED BY <1>1, <1>3, <1>4

LEMMA CleanupDbType ==
    ASSUME TypeInv, NEW s \in Sessions, CleanupDb(s) PROVE TypeInv'
<1> DEFINE names == {Name[p] : p \in {q \in Paths :
                        manifest[q] # NoEntry /\ manifest[q].hash \in plan[s].sids}}
           ret == IF plan[s].files = {} THEN "savemanifest" ELSE "parse"
<1>1. CleanupVector(s, plan[s].sids, plan[s].rels, names, ret, job[s], plan[s])
  BY DEF CleanupDb
<1>2. ret \in PCs
  BY DEF PCs
<1>3. UNCHANGED <<raw, manifest, json, globalParser, edits>> /\ pc[s] = "cleanup"
  BY DEF CleanupDb
<1> HIDE DEF names, ret
<1>4. plan[s].left \subseteq plan[s].files /\ \A p \in plan[s].left : plan[s].new[p] # NoEntry
  BY <1>3 DEF TypeInv, LeftAreListed
<1>5. /\ db' \in [Sids -> Nat]
      /\ pc' \in [Sessions -> PCs] /\ job' \in [Sessions -> Jobs]
      /\ plan' \in [Sessions -> Plans]
      /\ LeftAreListed' /\ faults' \in 0..MaxFaults
  BY <1>1, <1>2, <1>4, PlanTypes, CleanupVectorType DEF TypeInv
<1> QED BY <1>3, <1>5 DEF TypeInv, TypeOK

LEMMA ChunkParserType ==
    ASSUME NEW p \in Paths, NEW parser \in Labels
    PROVE  ChunkParser(p, parser) \in Labels
BY LabelTypes DEF ChunkParser, Labels

LEMMA ParsedType ==
    ASSUME TypeOK, NEW p \in Paths, NEW parser \in Labels, raw[p] # Absent
    PROVE  /\ Parsed(p, parser) \in SUBSET Sids
           /\ \A x \in Parsed(p, parser) : x.path = p
           /\ \A x, y \in Parsed(p, parser) : x = y
<1>1. HashOf(p, ChunkParser(p, parser)) \in Sids
  BY HashType, ChunkParserType
<1>2. HashOf(p, ChunkParser(p, parser)).path = p
  BY DEF HashOf
<1> QED BY <1>1, <1>2 DEF Parsed

LEMMA ParseFileType ==
    ASSUME TypeInv, NEW s \in Sessions, ParseFile(s) PROVE TypeInv'
<1>1. PICK p \in NextToParse(s), skipped \in BOOLEAN :
         LET left   == plan[s].left \ {p}
             parsed == IF skipped THEN plan[s].parsed
                       ELSE plan[s].parsed \cup Parsed(p, plan[s].new[p].parser)
         IN
         /\ raw[p] = Absent => skipped
         /\ IF skipped /\ raw[p] # Absent THEN Fault ELSE UNCHANGED faults
         /\ job' = [job EXCEPT ![s].clean = @ /\ ~skipped]
         /\ plan' = [plan EXCEPT ![s].left = left, ![s].parsed = parsed]
         /\ Goto(s, IF left # {} THEN "parse"
                    ELSE IF parsed # {} THEN "save" ELSE "savemanifest")
  BY DEF ParseFile
<1> DEFINE left   == plan[s].left \ {p}
           parsed == IF skipped THEN plan[s].parsed
                     ELSE plan[s].parsed \cup Parsed(p, plan[s].new[p].parser)
           label  == IF left # {} THEN "parse"
                     ELSE IF parsed # {} THEN "save" ELSE "savemanifest"
           j      == [job[s] EXCEPT !.clean = @ /\ ~skipped]
           pl     == [plan[s] EXCEPT !.left = left, !.parsed = parsed]
<1>2. p \in plan[s].left /\ p \in Paths /\ plan[s].new[p] \in Entries
  <2>1. pc[s] = "parse" /\ p \in plan[s].left
    BY DEF ParseFile, NextToParse
  <2> QED BY <2>1, PlanTypes DEF TypeInv, LeftAreListed
<1>3. parsed \in SUBSET Sids
  <2>1. plan[s].new[p].parser \in Labels
    BY <1>2 DEF Entries
  <2> QED BY <1>1, <1>2, <2>1, ParsedType, PlanTypes DEF TypeInv
<1>4. job' = [job EXCEPT ![s] = j] /\ plan' = [plan EXCEPT ![s] = pl]
      /\ pc' = [pc EXCEPT ![s] = label]
  BY <1>1 DEF Goto, TypeInv, TypeOK
<1>5. j \in Jobs /\ label \in PCs
  BY PlanTypes DEF TypeInv, Jobs, PCs
<1>6. /\ pl \in Plans /\ pl.left = left /\ pl.files = plan[s].files
      /\ pl.new = plan[s].new
  BY <1>3, PlanTypes DEF TypeInv, Plans
<1>7. pc[s] # "reset"
  BY DEF ParseFile
<1>8. /\ pl.left \subseteq pl.files
      /\ \A q \in pl.left : pl.new[q] # NoEntry
  BY <1>6, <1>7 DEF TypeInv, LeftAreListed
<1>9. faults' \in 0..MaxFaults
  BY <1>1, FaultType DEF TypeInv, TypeOK
<1> HIDE DEF left, parsed, label, j, pl
<1>10. /\ pc' \in [Sessions -> PCs] /\ job' \in [Sessions -> Jobs]
       /\ plan' \in [Sessions -> Plans]
       /\ LeftAreListed'
  BY <1>4, <1>5, <1>6, <1>8, StepType
<1> QED BY <1>9, <1>10 DEF ParseFile, TypeInv, TypeOK, stores

LEMMA ParseAbortedType ==
    ASSUME TypeInv, NEW s \in Sessions, ParseAborted(s) PROVE TypeInv'
<1>1. CASE Raise(s)
  BY <1>1, RaiseType DEF ParseAborted, TypeInv, TypeOK, stores
<1>2. CASE \E outcome \in Outcomes : EndJob(s, outcome, FALSE) /\ UNCHANGED faults
  BY <1>2, EndJobType DEF ParseAborted, TypeInv, TypeOK, stores
<1> QED BY <1>1, <1>2 DEF ParseAborted, Outcomes

LEMMA SaveJsonType ==
    ASSUME TypeInv, NEW s \in Sessions, SaveJson(s) PROVE TypeInv'
<1>1. json' \in SUBSET Sids /\ UNCHANGED <<raw, manifest, db, globalParser, edits>>
  BY PlanTypes DEF SaveJson, TypeInv, TypeOK
<1>2. CASE EndJob(s, "cancelled", FALSE) /\ UNCHANGED faults
  BY <1>1, <1>2, EndJobType DEF TypeInv, TypeOK, Outcomes
<1>3. CASE Goto(s, "upsert") /\ UNCHANGED <<job, plan, faults>>
  <2>1. pc[s] # "reset"
    BY DEF SaveJson
  <2> QED BY <1>1, <1>3, <2>1 DEF Goto, PCs, TypeInv, TypeOK, LeftAreListed
<1>4. CASE Raise(s)
  BY <1>1, <1>4, RaiseType DEF TypeInv, TypeOK
<1> QED BY <1>2, <1>3, <1>4 DEF SaveJson

LEMMA UpsertType ==
    ASSUME TypeInv, NEW s \in Sessions, Upsert(s) PROVE TypeInv'
<1>1. db' \in [Sids -> Nat]
  BY DEF Upsert, TypeInv, TypeOK
<1>2. job' \in [Sessions -> Jobs] /\ faults' \in 0..MaxFaults
  <2>1. [job[s] EXCEPT !.clean = FALSE] \in Jobs
    BY PlanTypes DEF TypeInv, Jobs
  <2> QED BY <2>1, FaultType DEF Upsert, TypeInv, TypeOK
<1>3. pc[s] # "reset" /\ pc' = [pc EXCEPT ![s] = "savemanifest"] /\ UNCHANGED plan
  BY DEF Upsert, Goto
<1>4. pc' \in [Sessions -> PCs] /\ LeftAreListed'
  BY <1>3 DEF TypeInv, TypeOK, PCs, LeftAreListed
<1> QED BY <1>1, <1>2, <1>3, <1>4 DEF Upsert, TypeInv, TypeOK

LEMMA SaveManifestType ==
    ASSUME TypeInv, NEW s \in Sessions, SaveManifest(s) PROVE TypeInv'
<1>1. manifest' \in [Paths -> Entries \cup {NoEntry}] /\ faults' \in 0..MaxFaults
  BY PlanTypes, FaultType DEF SaveManifest, TypeInv, TypeOK
<1>2. RunDone(s, job[s].clean) \/ RunDone(s, FALSE)
  BY DEF SaveManifest
<1>3. job[s].clean \in BOOLEAN
  BY PlanTypes DEF TypeInv, Jobs
<1> QED BY <1>1, <1>2, <1>3, RunDoneType DEF SaveManifest, TypeInv, TypeOK

LEMMA EditType == TypeInv /\ Edit => TypeInv'
<1> SUFFICES ASSUME TypeInv, Edit PROVE TypeInv'
  OBVIOUS
<1>1. raw' \in [Paths -> Contents \cup {Absent}]
  BY DEF Edit, TypeInv, TypeOK
<1>2. job' \in [Sessions -> Jobs]
  <2>1. \A s \in Sessions : [job[s] EXCEPT !.clean = FALSE] \in Jobs
    BY DEF TypeInv, TypeOK, Jobs
  <2> QED BY <2>1 DEF Edit
<1>3. edits' \in 0..MaxEdits
  BY ConstantsOK DEF Edit, TypeInv, TypeOK
<1>4. UNCHANGED <<manifest, json, db, globalParser, pc, plan, faults>>
  BY DEF Edit
<1> QED BY <1>1, <1>2, <1>3, <1>4 DEF TypeInv, TypeOK, LeftAreListed

LEMMA CrashType == TypeInv /\ Crash => TypeInv'
<1> SUFFICES ASSUME TypeInv, Crash PROVE TypeInv'
  OBVIOUS
<1>1. faults' \in 0..MaxFaults
  BY FaultType DEF TypeInv, Crash
<1>2. LeftAreListed'
  BY EmptyRecordTypes DEF Crash, LeftAreListed
<1>3. /\ globalParser' \in Labels /\ pc' \in [Sessions -> PCs]
      /\ job' \in [Sessions -> Jobs] /\ plan' \in [Sessions -> Plans]
  BY EmptyRecordTypes, LabelTypes DEF Crash, PCs
<1> QED BY <1>1, <1>2, <1>3 DEF Crash, TypeInv, TypeOK

LEMMA InitType == Init => TypeInv
BY ConstantsOK, LabelTypes, EmptyRecordTypes DEF Init, TypeInv, TypeOK, LeftAreListed, PCs

LEMMA StepKeepsType == TypeInv /\ [Next]_vars => TypeInv'
<1> SUFFICES ASSUME TypeInv, [Next]_vars PROVE TypeInv'
  OBVIOUS
<1>1. ASSUME NEW s \in Sessions,
             \/ StartSync(s) \/ StartSingleFileSync(s) \/ StartMultipleFilesSync(s)
             \/ StartCli(s) \/ RequestCancel(s)
      PROVE  TypeInv'
  BY <1>1, StartType, CancelType
<1>2. ASSUME NEW s \in Sessions, JobStep(s) PROVE TypeInv'
  BY <1>2, DiagnoseType, RepairGhostType, RepairDuplicateType, RepairMismatchType,
     UpdateAskedFilesType, MarkType, ScanType, ScanForcedType, ResetFilesType,
     CleanupDbType, CleanupFilesType, ParseFileType, ParseAbortedType, SaveJsonType,
     UpsertType, SaveManifestType, RepairDoneType
     DEF JobStep
<1>3. CASE Edit \/ Crash
  BY <1>3, EditType, CrashType
<1>4. CASE UNCHANGED vars
  BY <1>4 DEF vars, stores, bounds, TypeInv, TypeOK, LeftAreListed
<1> QED BY <1>1, <1>2, <1>3, <1>4 DEF Next

\* Every reachable state is well typed, and no job parses a file without an
\* entry in the manifest it is going to save.
THEOREM TypeCorrect == Spec => [](TypeOK /\ LeftAreListed)
BY InitType, StepKeepsType, PTL DEF Spec, TypeInv

-----------------------------------------------------------------------------
(* The index, if one job runs at a time.                                   *)

OneJobAtATime == \A s, t \in Sessions : s = t

IndexOK == OneVersionPerFile /\ ChunksHaveParentJson
IndexInv == TypeInv /\ IndexOK /\ StoresFollowPlan

\* Chunks are only deleted, and each that stays has its JSON file.
LEMMA IndexShrinks ==
    ASSUME TypeInv, IndexOK, \A x \in Sids : db'[x] \in {0, db[x]},
           \A x \in Sids : db'[x] > 0 => x \in json'
    PROVE  IndexOK'
<1>1. \A x \in Sids : db[x] \in Nat
  BY DEF TypeInv, TypeOK
<1>2. \A x \in Sids : db'[x] > 0 => db[x] > 0 /\ db'[x] = db[x]
  BY <1>1
<1>3. \A x \in Sids : db'[x] <= 1
  BY <1>1 DEF IndexOK, OneVersionPerFile
<1>4. \A x, y \in Sids : x.path = y.path /\ db'[x] > 0 /\ db'[y] > 0 => x = y
  BY <1>2 DEF IndexOK, OneVersionPerFile
<1>5. OneVersionPerFile'
  BY <1>3, <1>4 DEF OneVersionPerFile
<1>6. ChunksHaveParentJson'
  BY DEF ChunksHaveParentJson
<1> QED BY <1>5, <1>6 DEF IndexOK

\* What one session's plan says is all there is to show.
LEMMA OneSession ==
    ASSUME OneJobAtATime, NEW s \in Sessions, FollowsPlan(s)'
    PROVE  StoresFollowPlan'
BY DEF OneJobAtATime, StoresFollowPlan

\* A job that forgot its plan promises nothing.
LEMMA NoPlanFollowed ==
    ASSUME TypeInv, NEW s \in Sessions, plan' = [plan EXCEPT ![s] = NoPlan],
           pc'[s] # "reset"
    PROVE  FollowsPlan(s)'
<1>1. plan'[s] = NoPlan
  BY DEF TypeInv, TypeOK
<1>2. /\ NoPlan.files = {} /\ NoPlan.left = {} /\ NoPlan.rels = {} /\ NoPlan.gone = {}
      /\ NoPlan.parsed = {} /\ NoPlan.ret = "idle"
  BY DEF NoPlan
<1> QED BY <1>1, <1>2 DEF FollowsPlan, Cleared

LEMMA EndJobFollows ==
    ASSUME TypeInv, NEW s \in Sessions, NEW outcome, NEW clean, EndJob(s, outcome, clean)
    PROVE  FollowsPlan(s)'
<1>1. plan' = [plan EXCEPT ![s] = NoPlan] /\ pc'[s] = "idle"
  BY DEF EndJob, TypeInv, TypeOK
<1> QED BY <1>1, NoPlanFollowed

LEMMA RunDoneFollows ==
    ASSUME TypeInv, NEW s \in Sessions, NEW clean, RunDone(s, clean)
    PROVE  FollowsPlan(s)'
<1>1. plan' = [plan EXCEPT ![s] = NoPlan] /\ pc'[s] \in {"idle", "repair"}
  BY DEF RunDone, EndJob, Goto, TypeInv, TypeOK
<1> QED BY <1>1, NoPlanFollowed

\* Neither does one that keeps it but does not work on the index.
LEMMA QuietFollows ==
    ASSUME TypeInv, NEW s \in Sessions, FollowsPlan(s), plan'[s] = plan[s],
           pc'[s] \in {"idle", "repair", "update", "mark", "scan", "savemanifest"}
    PROVE  FollowsPlan(s)'
BY DEF FollowsPlan, Cleared

\* cleanup_db empties the vector DB of all it was asked to.
LEMMA CleanupVectorFollows ==
    ASSUME IndexInv, NEW s \in Sessions, NEW sids \in SUBSET Sids, NEW rels \in SUBSET Paths,
           NEW names, NEW ret \in {"repair", "mark", "parse", "savemanifest"},
           NEW newJob, NEW newPlan \in Plans,
           newPlan.left \subseteq newPlan.files,
           \A x \in newPlan.parsed : x.path \in newPlan.files \ newPlan.left,
           \A x, y \in newPlan.parsed : x.path = y.path => x = y,
           ret = "parse" => newPlan.files \subseteq rels,
           CleanupVector(s, sids, rels, names, ret, newJob, newPlan),
           json' = json
    PROVE  IndexOK' /\ FollowsPlan(s)'
<1>1. \A set : \A x \in Sids :
         /\ Without(set)[x] \in {0, db[x]}
         /\ x \in set => Without(set)[x] = 0
  BY DEF Without
<1>2. IndexOK'
  <2>1. \A x \in Sids : db'[x] \in {0, db[x]}
    BY <1>1 DEF CleanupVector
  <2>2. \A x \in Sids : db'[x] > 0 => x \in json'
    BY <2>1 DEF IndexInv, IndexOK, ChunksHaveParentJson
  <2> QED BY <2>1, <2>2, IndexShrinks DEF IndexInv
<1>3. ASSUME NEW ids \in SUBSET Sids, NEW byName,
             db' = Without(Doomed(ids, rels, byName)), Goto(s, "cleanfiles"),
             plan' = [plan EXCEPT ![s] = [newPlan EXCEPT !.gone = ids, !.rels = rels,
                                                        !.ret = ret]]
      PROVE  FollowsPlan(s)'
  <2> DEFINE pl == [newPlan EXCEPT !.gone = ids, !.rels = rels, !.ret = ret]
  <2>1. plan'[s] = pl /\ pc'[s] = "cleanfiles"
    BY <1>3 DEF Goto, IndexInv, TypeInv, TypeOK
  <2>2. /\ pl.gone = ids /\ pl.rels = rels /\ pl.ret = ret /\ pl.files = newPlan.files
        /\ pl.left = newPlan.left /\ pl.parsed = newPlan.parsed
    BY DEF Plans
  <2>3. \A x \in Sids : x \in ids \/ x.path \in rels => db'[x] = 0
    BY <1>1, <1>3 DEF Doomed
  <2> HIDE DEF pl
  <2>4. Cleared(rels)' /\ \A x \in ids : db'[x] = 0
    BY <2>3 DEF Cleared
  <2>5. ret = "parse" => Cleared(newPlan.files)'
    BY <2>3 DEF Cleared
  <2> QED BY <2>1, <2>2, <2>4, <2>5 DEF FollowsPlan, Cleared
<1>4. FollowsPlan(s)'
  <2>1. GoneIds(sids, names) \in SUBSET Sids
    BY DEF GoneIds
  <2>2. CASE Raise(s)
    BY <2>2, EndJobFollows DEF Raise, IndexInv
  <2> QED BY <1>3, <2>1, <2>2 DEF CleanupVector
<1> QED BY <1>2, <1>4

-----------------------------------------------------------------------------
(* Every action of a job keeps the index right and follows its plan.       *)

\* A job that works on nothing the index is made of.
LEMMA IndexKept ==
    ASSUME TypeInv, IndexOK, UNCHANGED <<json, db>>
    PROVE  IndexOK'
<1>1. \A x \in Sids : db'[x] \in {0, db[x]}
  OBVIOUS
<1>2. \A x \in Sids : db'[x] > 0 => x \in json'
  BY DEF IndexOK, ChunksHaveParentJson
<1> QED BY <1>1, <1>2, IndexShrinks

LEMMA StartIndex ==
    ASSUME IndexInv, NEW s \in Sessions,
           StartSync(s) \/ StartCli(s) \/ StartSingleFileSync(s)
           \/ StartMultipleFilesSync(s)
    PROVE  IndexOK' /\ FollowsPlan(s)'
<1>1. UNCHANGED <<json, db, plan>> /\ pc'[s] \in {"repair", "scan", "update"}
  BY DEF StartSync, StartCli, StartSingleFileSync, StartMultipleFilesSync, Goto, stores,
     IndexInv, TypeInv, TypeOK
<1>2. FollowsPlan(s)
  BY DEF IndexInv, StoresFollowPlan
<1> QED BY <1>1, <1>2, IndexKept, QuietFollows DEF IndexInv

LEMMA CancelIndex ==
    ASSUME IndexInv, NEW s \in Sessions, RequestCancel(s)
    PROVE  IndexOK' /\ FollowsPlan(s)'
<1>1. UNCHANGED <<json, db, plan, pc>>
  BY DEF RequestCancel, stores
<1>2. FollowsPlan(s)
  BY DEF IndexInv, StoresFollowPlan
<1>3. FollowsPlan(s)'
  BY <1>1, <1>2 DEF FollowsPlan, Cleared
<1> QED BY <1>1, <1>3, IndexKept DEF IndexInv

LEMMA DiagnoseIndex ==
    ASSUME IndexInv, NEW s \in Sessions, Diagnose(s) \/ RepairDone(s)
    PROVE  IndexOK' /\ FollowsPlan(s)'
<1>1. UNCHANGED <<json, db, plan>> /\ pc'[s] \in {"repair", "scan"}
  BY DEF Diagnose, RepairDone, Goto, stores, IndexInv, TypeInv, TypeOK
<1>2. FollowsPlan(s)
  BY DEF IndexInv, StoresFollowPlan
<1> QED BY <1>1, <1>2, IndexKept, QuietFollows DEF IndexInv

\* The empty plan may be handed to cleanup_db.
LEMMA EmptyPlanParsed ==
    /\ NoPlan \in Plans /\ NoPlan.left \subseteq NoPlan.files
    /\ NoPlan.parsed = {}
BY EmptyRecordTypes DEF NoPlan

LEMMA RepairGhostIndex ==
    ASSUME IndexInv, NEW s \in Sessions, RepairGhost(s)
    PROVE  IndexOK' /\ FollowsPlan(s)'
<1>1. PICK p \in job[s].ghosts :
         CleanupVector(s, {}, {p}, {}, "repair", [job[s] EXCEPT !.ghosts = @ \ {p}], NoPlan)
  BY DEF RepairGhost
<1>2. p \in Paths
  BY PlanTypes DEF IndexInv, TypeInv, Jobs
<1>3. json' = json
  BY DEF RepairGhost
<1> QED BY <1>1, <1>2, <1>3, EmptyPlanParsed, CleanupVectorFollows

LEMMA RepairDuplicateIndex ==
    ASSUME IndexInv, NEW s \in Sessions, RepairDuplicate(s)
    PROVE  IndexOK' /\ FollowsPlan(s)'
<1>1. PICK p \in job[s].dups :
         CleanupVector(s, {x \in ChunksOf(p) : x.parser # SettingsParser}, {}, {}, "repair",
                       [job[s] EXCEPT !.dups = @ \ {p}], NoPlan)
  BY DEF RepairDuplicate
<1>2. {x \in ChunksOf(p) : x.parser # SettingsParser} \in SUBSET Sids
  BY DEF ChunksOf
<1>3. json' = json
  BY DEF RepairDuplicate
<1> QED BY <1>1, <1>2, <1>3, EmptyPlanParsed, CleanupVectorFollows

LEMMA UpdateFileParserIndex ==
    ASSUME IndexInv, NEW s \in Sessions, NEW asked \in [Paths -> Labels \cup {NoTarget}],
           NEW newJob, UpdateFileParser(s, asked, newJob), json' = json
    PROVE  IndexOK' /\ FollowsPlan(s)'
<1> DEFINE names == {Name[p] : p \in {q \in Paths : asked[q] # NoTarget}}
           ids(found) == {manifest[q].hash : q \in {r \in found : manifest[r] # NoEntry}}
                            \ {NoHash}
           j(found) == [newJob EXCEPT !.asked = [q \in Paths |->
                          IF q \in found THEN ParserAsked(asked, Name[q]) ELSE NoTarget]]
           pl == [NoPlan EXCEPT !.old = manifest]
<1>1. PICK found \in FoundFiles(names) :
         \/ CleanupVector(s, ids(found), {}, names, "mark", j(found), pl)
         \/ Goto(s, "mark") /\ plan' = [plan EXCEPT ![s] = pl] /\ UNCHANGED db
  BY DEF UpdateFileParser
<1>2. ids(found) \in SUBSET Sids
  <2>1. found \in SUBSET Paths
    BY <1>1, FoundFilesType
  <2> QED BY <2>1 DEF IndexInv, TypeInv, TypeOK, Entries
<1>3. /\ pl \in Plans /\ pl.files = {} /\ pl.left = {} /\ pl.parsed = {} /\ pl.ret = "idle"
  BY EmptyRecordTypes, EmptyPlanParsed DEF IndexInv, TypeInv, TypeOK, Plans, NoPlan
<1> HIDE DEF names, ids, j, pl
<1>4. CASE CleanupVector(s, ids(found), {}, names, "mark", j(found), pl)
  BY <1>2, <1>3, <1>4, CleanupVectorFollows
<1>5. CASE Goto(s, "mark") /\ plan' = [plan EXCEPT ![s] = pl] /\ UNCHANGED db
  <2>1. plan'[s] = pl /\ pc'[s] = "mark"
    BY <1>5 DEF Goto, IndexInv, TypeInv, TypeOK
  <2>2. FollowsPlan(s)'
    BY <1>3, <2>1 DEF FollowsPlan, Cleared
  <2> QED BY <1>5, <2>2, IndexKept DEF IndexInv
<1> QED BY <1>1, <1>4, <1>5

LEMMA RepairMismatchIndex ==
    ASSUME IndexInv, NEW s \in Sessions, RepairMismatch(s)
    PROVE  IndexOK' /\ FollowsPlan(s)'
<1>1. json' = json /\ pc[s] = "repair"
  BY DEF RepairMismatch
<1>2. CASE \E p \in job[s].mismatches : \E j : UpdateFileParser(s, AskedByRepair(s, p), j)
  <2>1. \A p \in job[s].mismatches : AskedByRepair(s, p) \in [Paths -> Labels \cup {NoTarget}]
    BY PlanTypes, EmptyRecordTypes DEF IndexInv, TypeInv, Jobs, AskedByRepair
  <2> QED BY <1>1, <1>2, <2>1, UpdateFileParserIndex
<1>3. CASE UNCHANGED <<db, pc, plan>>
  <2>1. FollowsPlan(s)
    BY DEF IndexInv, StoresFollowPlan
  <2> QED BY <1>1, <1>3, <2>1, IndexKept, QuietFollows DEF IndexInv
<1> QED BY <1>2, <1>3 DEF RepairMismatch

LEMMA UpdateAskedFilesIndex ==
    ASSUME IndexInv, NEW s \in Sessions, UpdateAskedFiles(s)
    PROVE  IndexOK' /\ FollowsPlan(s)'
<1>1. json' = json
  BY DEF UpdateAskedFiles
<1>2. CASE UpdateFileParser(s, job[s].asked, job[s])
  <2>1. job[s].asked \in [Paths -> Labels \cup {NoTarget}]
    BY PlanTypes DEF IndexInv, TypeInv, Jobs
  <2> QED BY <1>1, <1>2, <2>1, UpdateFileParserIndex
<1>3. CASE EndJob(s, "completed", job[s].clean) /\ UNCHANGED db
  BY <1>1, <1>3, IndexKept, EndJobFollows DEF IndexInv
<1> QED BY <1>2, <1>3 DEF UpdateAskedFiles

\* The JSON files that go have no chunks any more.
LEMMA CleanupFilesIndex ==
    ASSUME IndexInv, NEW s \in Sessions, CleanupFiles(s)
    PROVE  IndexOK' /\ FollowsPlan(s)'
<1>1. /\ pc[s] = "cleanfiles" /\ db' = db
      /\ \A x \in json : x \notin plan[s].gone /\ x.path \notin plan[s].rels => x \in json'
  BY DEF CleanupFiles
<1>2. FollowsPlan(s)
  BY DEF IndexInv, StoresFollowPlan
<1>3. IndexOK'
  <2>1. \A x \in Sids : x \in plan[s].gone \/ x.path \in plan[s].rels => db[x] = 0
    BY <1>1, <1>2 DEF FollowsPlan, Cleared
  <2>2. ASSUME NEW x \in Sids, db'[x] > 0 PROVE x \in json'
    <3>1. x \in json
      BY <1>1, <2>2 DEF IndexInv, IndexOK, ChunksHaveParentJson
    <3>2. x \notin plan[s].gone /\ x.path \notin plan[s].rels
      BY <1>1, <2>1, <2>2
    <3> QED BY <1>1, <3>1, <3>2
  <2> QED BY <1>1, <2>2, IndexShrinks DEF IndexInv
<1>4. CASE Goto(s, plan[s].ret) /\ UNCHANGED plan
  <2>1. pc'[s] = plan[s].ret
    BY <1>4 DEF Goto, IndexInv, TypeInv, TypeOK
  <2> QED BY <1>1, <1>2, <1>3, <1>4, <2>1 DEF FollowsPlan, Cleared
<1>5. CASE Raise(s)
  BY <1>3, <1>5, EndJobFollows DEF Raise, IndexInv
<1> QED BY <1>4, <1>5 DEF CleanupFiles

LEMMA MarkIndex ==
    ASSUME IndexInv, NEW s \in Sessions, MarkForReindex(s)
    PROVE  IndexOK' /\ FollowsPlan(s)'
<1>1. UNCHANGED <<json, db>> /\ plan' = [plan EXCEPT ![s] = NoPlan] /\ pc'[s] = "scan"
  BY DEF MarkForReindex, Goto, IndexInv, TypeInv, TypeOK
<1> QED BY <1>1, IndexKept, NoPlanFollowed DEF IndexInv

\* What is to be processed is among the paths to clean up.
LEMMA ScanIndex ==
    ASSUME IndexInv, NEW s \in Sessions, Scan(s)
    PROVE  IndexOK' /\ FollowsPlan(s)'
<1> DEFINE default == IF job[s].kind = "cli" THEN SettingsParser ELSE GlobalParserAfter(s)
           new    == NewManifest(default)
           limited == Targets(s) # {}
           todo   == IF limited THEN FilesToProcess(new) \cap Targets(s)
                     ELSE FilesToProcess(new)
           sids   == IF limited THEN TargetSids(SourceIdsToDelete(new), Targets(s))
                     ELSE SourceIdsToDelete(new)
           rels   == RelPathsToDelete(new)
           final  == IF limited THEN TargetManifest(new, Targets(s)) ELSE new
           pl     == [NoPlan EXCEPT !.files = todo, !.left = todo, !.sids = sids,
                                    !.rels = rels, !.new = final]
<1>1. UNCHANGED <<json, db>>
  BY DEF Scan
<1>2. \/ RunDone(s, job[s].clean)
      \/ Goto(s, "cleanup") /\ plan' = [plan EXCEPT ![s] = pl]
  BY DEF Scan
<1>3. todo \subseteq rels
  BY DEF RelPathsToDelete
<1> HIDE DEF todo, sids, rels, final
<1>4. /\ pl.files = todo /\ pl.left = todo /\ pl.rels = rels /\ pl.parsed = {}
      /\ pl.ret = "idle"
  BY DEF NoPlan
<1> HIDE DEF pl
<1>5. FollowsPlan(s)'
  <2>1. CASE RunDone(s, job[s].clean)
    BY <2>1, RunDoneFollows DEF IndexInv
  <2>2. CASE Goto(s, "cleanup") /\ plan' = [plan EXCEPT ![s] = pl]
    <3>1. plan'[s] = pl /\ pc'[s] = "cleanup"
      BY <2>2 DEF Goto, IndexInv, TypeInv, TypeOK
    <3> QED BY <1>3, <1>4, <3>1 DEF FollowsPlan
  <2> QED BY <1>2, <2>1, <2>2
<1> QED BY <1>1, <1>5, IndexKept DEF IndexInv

\* A forced run starts from an empty collection.
LEMMA ScanForcedIndex ==
    ASSUME IndexInv, NEW s \in Sessions, ScanForced(s)
    PROVE  IndexOK' /\ FollowsPlan(s)'
<1> DEFINE files == {p \in Paths : raw[p] # Absent}
           pl == [NoPlan EXCEPT !.files = files, !.left = files]
<1>1. json' = json
  BY DEF ScanForced
<1>2. CASE /\ db' = [x \in Sids |-> 0] /\ Goto(s, "reset")
           /\ plan' = [plan EXCEPT ![s] = pl]
  <2>1. \A x \in Sids : db'[x] = 0
    BY <1>2
  <2>2. IndexOK'
    <3>1. \A x \in Sids : db'[x] \in {0, db[x]} /\ ~(db'[x] > 0)
      BY <2>1
    <3> QED BY <3>1, IndexShrinks DEF IndexInv
  <2>3. plan'[s] = pl /\ pc'[s] = "reset"
    BY <1>2 DEF Goto, IndexInv, TypeInv, TypeOK
  <2>4. pl.files = files /\ pl.left = files /\ pl.parsed = {} /\ pl.ret = "idle"
    BY DEF NoPlan
  <2> HIDE DEF pl
  <2>5. Cleared(Paths)'
    BY <2>1 DEF Cleared
  <2> QED BY <2>2, <2>3, <2>4, <2>5 DEF FollowsPlan
<1>3. CASE Raise(s) /\ UNCHANGED db
  BY <1>1, <1>3, IndexKept, EndJobFollows DEF Raise, IndexInv
<1> QED BY <1>2, <1>3 DEF ScanForced

\* The collection is still empty when the JSON files are deleted.
LEMMA ResetFilesIndex ==
    ASSUME IndexInv, NEW s \in Sessions, ResetFiles(s)
    PROVE  IndexOK' /\ FollowsPlan(s)'
<1>1. FollowsPlan(s) /\ pc[s] = "reset" /\ db' = db
  BY DEF ResetFiles, IndexInv, StoresFollowPlan
<1>2. \A x \in Sids : db[x] = 0
  BY <1>1 DEF FollowsPlan, Cleared, Sids
<1>3. IndexOK'
  <2>1. \A x \in Sids : db'[x] \in {0, db[x]} /\ ~(db'[x] > 0)
    BY <1>1, <1>2
  <2> QED BY <2>1, IndexShrinks DEF IndexInv
<1>4. CASE EndJob(s, "error", FALSE)
  BY <1>3, <1>4, EndJobFollows DEF IndexInv
<1>5. ASSUME NEW n, NEW label \in {"savemanifest", "parse"},
             Goto(s, label), plan' = [plan EXCEPT ![s].new = n]
      PROVE  FollowsPlan(s)'
  <2>1. pc'[s] = label
    BY <1>5 DEF Goto, IndexInv, TypeInv, TypeOK
  <2>2. /\ plan'[s].files = plan[s].files /\ plan'[s].left = plan[s].left
        /\ plan'[s].parsed = plan[s].parsed /\ plan'[s].ret = plan[s].ret
    BY <1>5, PlanTypes DEF IndexInv, TypeInv, TypeOK, Plans
  <2>3. \A x \in Sids : db'[x] = 0
    BY <1>1, <1>2
  <2> QED BY <1>1, <2>1, <2>2, <2>3 DEF FollowsPlan, Cleared
<1>6. \/ EndJob(s, "error", FALSE)
      \/ /\ Goto(s, IF plan[s].files = {} THEN "savemanifest" ELSE "parse")
         /\ plan' = [plan EXCEPT ![s].new = [p \in Paths |->
                      IF p \in plan[s].files
                      THEN [hash |-> HashOf(p, globalParser), parser |-> globalParser]
                      ELSE NoEntry]]
  BY DEF ResetFiles
<1> QED BY <1>3, <1>4, <1>5, <1>6

LEMMA CleanupDbIndex ==
    ASSUME IndexInv, NEW s \in Sessions, CleanupDb(s)
    PROVE  IndexOK' /\ FollowsPlan(s)'
<1> DEFINE names == {Name[p] : p \in {q \in Paths :
                        manifest[q] # NoEntry /\ manifest[q].hash \in plan[s].sids}}
           ret == IF plan[s].files = {} THEN "savemanifest" ELSE "parse"
<1>1. CleanupVector(s, plan[s].sids, plan[s].rels, names, ret, job[s], plan[s])
  BY DEF CleanupDb
<1>2. pc[s] = "cleanup" /\ json' = json /\ FollowsPlan(s)
  BY DEF CleanupDb, IndexInv, StoresFollowPlan
<1>3. ret \in {"repair", "mark", "parse", "savemanifest"}
  OBVIOUS
<1> HIDE DEF names, ret
<1>4. /\ plan[s] \in Plans /\ plan[s].sids \in SUBSET Sids /\ plan[s].rels \in SUBSET Paths
  BY PlanTypes DEF IndexInv, TypeInv
<1>5. /\ plan[s].left \subseteq plan[s].files /\ plan[s].files \subseteq plan[s].rels
      /\ \A x \in plan[s].parsed : x.path \in plan[s].files \ plan[s].left
      /\ \A x, y \in plan[s].parsed : x.path = y.path => x = y
  BY <1>2 DEF FollowsPlan
<1> DEFINE pl == plan[s]
           j  == job[s]
           ids == plan[s].sids
           rels == plan[s].rels
<1>6. /\ CleanupVector(s, ids, rels, names, ret, j, pl)
      /\ pl \in Plans /\ ids \in SUBSET Sids /\ rels \in SUBSET Paths
      /\ pl.left \subseteq pl.files /\ pl.files \subseteq rels
      /\ \A x \in pl.parsed : x.path \in pl.files \ pl.left
      /\ \A x, y \in pl.parsed : x.path = y.path => x = y
  BY <1>1, <1>4, <1>5
<1> HIDE DEF pl, j, ids, rels
<1> QED BY <1>2, <1>3, <1>6, CleanupVectorFollows

\* Each file is parsed once, so a plan has one version of it.
LEMMA ParseFileIndex ==
    ASSUME IndexInv, NEW s \in Sessions, ParseFile(s)
    PROVE  IndexOK' /\ FollowsPlan(s)'
<1>1. PICK p \in NextToParse(s), skipped \in BOOLEAN :
         LET left   == plan[s].left \ {p}
             parsed == IF skipped THEN plan[s].parsed
                       ELSE plan[s].parsed \cup Parsed(p, plan[s].new[p].parser)
         IN
         /\ raw[p] = Absent => skipped
         /\ plan' = [plan EXCEPT ![s].left = left, ![s].parsed = parsed]
         /\ Goto(s, IF left # {} THEN "parse"
                    ELSE IF parsed # {} THEN "save" ELSE "savemanifest")
  BY DEF ParseFile
<1> DEFINE left   == plan[s].left \ {p}
           parsed == IF skipped THEN plan[s].parsed
                     ELSE plan[s].parsed \cup Parsed(p, plan[s].new[p].parser)
<1>2. FollowsPlan(s) /\ pc[s] = "parse" /\ UNCHANGED <<json, db>>
  BY DEF ParseFile, stores, IndexInv, StoresFollowPlan
<1>3. /\ plan'[s].left = left /\ plan'[s].parsed = parsed /\ plan'[s].files = plan[s].files
      /\ plan'[s].ret = plan[s].ret /\ pc'[s] \in {"parse", "save", "savemanifest"}
  BY <1>1, PlanTypes DEF Goto, IndexInv, TypeInv, TypeOK, Plans
<1>4. p \in plan[s].left /\ p \in Paths /\ plan[s].new[p] \in Entries
  <2>1. p \in plan[s].left
    BY DEF NextToParse
  <2> QED BY <1>2, <2>1, PlanTypes DEF IndexInv, TypeInv, LeftAreListed
<1>5. ~skipped => /\ \A x \in Parsed(p, plan[s].new[p].parser) : x.path = p
                  /\ \A x, y \in Parsed(p, plan[s].new[p].parser) : x = y
  <2>1. plan[s].new[p].parser \in Labels
    BY <1>4 DEF Entries
  <2> QED BY <1>1, <1>4, <2>1, ParsedType DEF IndexInv, TypeInv
<1>6. \A x \in parsed : x.path \in plan[s].files \ left
  BY <1>2, <1>4, <1>5 DEF FollowsPlan
<1>7. \A x, y \in parsed : x.path = y.path => x = y
  BY <1>2, <1>4, <1>5 DEF FollowsPlan
<1>8. \A x \in Sids : x.path \in plan[s].files => db'[x] = 0
  BY <1>2 DEF FollowsPlan, Cleared
<1>9. left \subseteq plan[s].files /\ plan[s].ret \in {"idle", "repair", "mark", "parse", "savemanifest"}
  BY <1>2 DEF FollowsPlan
<1> HIDE DEF left, parsed
<1>10. FollowsPlan(s)'
  BY <1>3, <1>6, <1>7, <1>8, <1>9 DEF FollowsPlan, Cleared
<1> QED BY <1>2, <1>10, IndexKept DEF IndexInv

LEMMA ParseAbortedIndex ==
    ASSUME IndexInv, NEW s \in Sessions, ParseAborted(s)
    PROVE  IndexOK' /\ FollowsPlan(s)'
<1>1. UNCHANGED <<json, db>> /\ \E outcome : EndJob(s, outcome, FALSE)
  BY DEF ParseAborted, Raise, stores
<1> QED BY <1>1, IndexKept, EndJobFollows DEF IndexInv

\* The JSON files are there before a chunk is upserted.
LEMMA SaveJsonIndex ==
    ASSUME IndexInv, NEW s \in Sessions, SaveJson(s)
    PROVE  IndexOK' /\ FollowsPlan(s)'
<1>1. FollowsPlan(s) /\ pc[s] = "save" /\ db' = db /\ json \subseteq json'
  BY DEF SaveJson, IndexInv, StoresFollowPlan
<1>2. IndexOK'
  <2>1. \A x \in Sids : db'[x] \in {0, db[x]}
    BY <1>1
  <2>2. \A x \in Sids : db'[x] > 0 => x \in json'
    BY <1>1 DEF IndexInv, IndexOK, ChunksHaveParentJson
  <2> QED BY <2>1, <2>2, IndexShrinks DEF IndexInv
<1>3. CASE \E outcome : EndJob(s, outcome, FALSE)
  BY <1>2, <1>3, EndJobFollows DEF IndexInv
<1>4. CASE json' = json \cup plan[s].parsed /\ Goto(s, "upsert") /\ UNCHANGED plan
  <2>1. pc'[s] = "upsert"
    BY <1>4 DEF Goto, IndexInv, TypeInv, TypeOK
  <2> QED BY <1>1, <1>2, <1>4, <2>1 DEF FollowsPlan, Cleared
<1> QED BY <1>3, <1>4 DEF SaveJson, Raise

\* The files of the plan have no chunk, so the upsert adds the only one.
LEMMA UpsertIndex ==
    ASSUME IndexInv, NEW s \in Sessions, Upsert(s)
    PROVE  IndexOK' /\ FollowsPlan(s)'
<1>1. FollowsPlan(s) /\ pc[s] = "upsert" /\ UNCHANGED <<json, plan>>
  BY DEF Upsert, IndexInv, StoresFollowPlan
<1>2. pc'[s] = "savemanifest"
  BY DEF Upsert, Goto, IndexInv, TypeInv, TypeOK
<1>3. FollowsPlan(s)'
  BY <1>1, <1>2, QuietFollows DEF IndexInv
<1>4. CASE UNCHANGED db
  BY <1>1, <1>3, <1>4, IndexKept DEF IndexInv
<1>5. CASE db' = [x \in Sids |-> IF x \in plan[s].parsed THEN db[x] + 1 ELSE db[x]]
  <2>1. \A x \in Sids : db[x] \in Nat
    BY DEF IndexInv, TypeInv, TypeOK
  <2>2. \A x \in plan[s].parsed : x.path \in plan[s].files
    BY <1>1 DEF FollowsPlan
  <2>3. \A x \in Sids : x.path \in plan[s].files => db[x] = 0
    BY <1>1 DEF FollowsPlan, Cleared
  <2>4. \A x \in Sids : db'[x] = IF x \in plan[s].parsed THEN 1 ELSE db[x]
    BY <1>5, <2>2, <2>3
  <2>5. OneVersionPerFile'
    <3>1. \A x \in Sids : db'[x] <= 1
      BY <2>4 DEF IndexInv, IndexOK, OneVersionPerFile
    <3>2. ASSUME NEW x \in Sids, NEW y \in Sids, x.path = y.path, db'[x] > 0, db'[y] > 0
          PROVE  x = y
      <4>1. CASE x \in plan[s].parsed /\ y \in plan[s].parsed
        BY <1>1, <3>2, <4>1 DEF FollowsPlan
      <4>2. CASE x \notin plan[s].parsed /\ y \notin plan[s].parsed
        BY <2>4, <3>2, <4>2 DEF IndexInv, IndexOK, OneVersionPerFile
      <4>3. CASE x \in plan[s].parsed /\ y \notin plan[s].parsed
        BY <2>2, <2>3, <2>4, <3>2, <4>3
      <4>4. CASE x \notin plan[s].parsed /\ y \in plan[s].parsed
        BY <2>2, <2>3, <2>4, <3>2, <4>4
      <4> QED BY <4>1, <4>2, <4>3, <4>4
    <3> QED BY <3>1, <3>2 DEF OneVersionPerFile
  <2>6. ChunksHaveParentJson'
    <3>1. plan[s].parsed \subseteq json
      BY <1>1 DEF FollowsPlan
    <3> QED BY <1>1, <2>4, <3>1 DEF IndexInv, IndexOK, ChunksHaveParentJson
  <2> QED BY <1>3, <2>5, <2>6 DEF IndexOK
<1> QED BY <1>4, <1>5 DEF Upsert

LEMMA SaveManifestIndex ==
    ASSUME IndexInv, NEW s \in Sessions, SaveManifest(s)
    PROVE  IndexOK' /\ FollowsPlan(s)'
<1>1. UNCHANGED <<json, db>> /\ \E clean : RunDone(s, clean)
  BY DEF SaveManifest
<1> QED BY <1>1, IndexKept, RunDoneFollows DEF IndexInv

\* A change of the raw files does not touch the index ...
LEMMA EditIndex == IndexInv /\ Edit => IndexOK' /\ StoresFollowPlan'
<1> SUFFICES ASSUME IndexInv, Edit PROVE IndexOK' /\ StoresFollowPlan'
  OBVIOUS
<1>1. UNCHANGED <<json, db, pc, plan>>
  BY DEF Edit
<1>2. StoresFollowPlan'
  BY <1>1 DEF IndexInv, StoresFollowPlan, FollowsPlan, Cleared
<1> QED BY <1>1, <1>2, IndexKept DEF IndexInv

\* ... and neither does a crash, after which no job has a plan.
LEMMA CrashIndex == IndexInv /\ Crash => IndexOK' /\ StoresFollowPlan'
<1> SUFFICES ASSUME IndexInv, Crash PROVE IndexOK' /\ StoresFollowPlan'
  OBVIOUS
<1>1. UNCHANGED <<json, db>> /\ \A s \in Sessions : plan'[s] = NoPlan /\ pc'[s] = "idle"
  BY DEF Crash
<1>2. /\ NoPlan.files = {} /\ NoPlan.left = {} /\ NoPlan.parsed = {} /\ NoPlan.ret = "idle"
  BY DEF NoPlan
<1>3. StoresFollowPlan'
  BY <1>1, <1>2 DEF StoresFollowPlan, FollowsPlan
<1> QED BY <1>1, <1>3, IndexKept DEF IndexInv

LEMMA IndexStarts == Init => IndexInv
<1> SUFFICES ASSUME Init PROVE IndexInv
  OBVIOUS
<1>1. TypeInv
  BY InitType
<1>2. \A x \in Sids : db[x] = 0
  BY DEF Init
<1>3. IndexOK
  BY <1>2 DEF IndexOK, OneVersionPerFile, ChunksHaveParentJson
<1>4. /\ NoPlan.files = {} /\ NoPlan.left = {} /\ NoPlan.parsed = {} /\ NoPlan.ret = "idle"
  BY DEF NoPlan
<1>5. \A s \in Sessions : plan[s] = NoPlan /\ pc[s] = "idle"
  BY DEF Init
<1>6. StoresFollowPlan
  BY <1>4, <1>5 DEF StoresFollowPlan, FollowsPlan
<1> QED BY <1>1, <1>3, <1>6 DEF IndexInv

LEMMA IndexStepKeeps ==
    ASSUME OneJobAtATime PROVE IndexInv /\ [Next]_vars => IndexInv'
<1> SUFFICES ASSUME IndexInv, [Next]_vars PROVE IndexInv'
  OBVIOUS
<1>1. TypeInv'
  BY StepKeepsType DEF IndexInv
<1>2. ASSUME NEW s \in Sessions,
             \/ StartSync(s) \/ StartSingleFileSync(s) \/ StartMultipleFilesSync(s)
             \/ StartCli(s) \/ RequestCancel(s)
      PROVE  IndexOK' /\ StoresFollowPlan'
  BY <1>2, StartIndex, CancelIndex, OneSession
<1>3. ASSUME NEW s \in Sessions, JobStep(s) PROVE IndexOK' /\ StoresFollowPlan'
  <2>1. IndexOK' /\ FollowsPlan(s)'
    BY <1>3, DiagnoseIndex, RepairGhostIndex, RepairDuplicateIndex, RepairMismatchIndex,
       UpdateAskedFilesIndex, MarkIndex, ScanIndex, ScanForcedIndex, ResetFilesIndex,
       CleanupDbIndex, CleanupFilesIndex, ParseFileIndex, ParseAbortedIndex,
       SaveJsonIndex, UpsertIndex, SaveManifestIndex
       DEF JobStep
  <2> QED BY <2>1, OneSession
<1>4. ASSUME Edit \/ Crash PROVE IndexOK' /\ StoresFollowPlan'
  BY <1>4, EditIndex, CrashIndex
<1>5. ASSUME UNCHANGED vars PROVE IndexOK' /\ StoresFollowPlan'
  <2>1. UNCHANGED <<json, db, pc, plan>>
    BY <1>5 DEF vars, stores
  <2>2. StoresFollowPlan'
    BY <2>1 DEF IndexInv, StoresFollowPlan, FollowsPlan, Cleared
  <2> QED BY <2>1, <2>2, IndexKept DEF IndexInv
<1>6. IndexOK' /\ StoresFollowPlan'
  BY <1>2, <1>3, <1>4, <1>5 DEF Next
<1> QED BY <1>1, <1>6 DEF IndexInv

\* If one job runs at a time, the search index always holds at most one version
\* of a file, in one copy, whatever fails, crashes, is cancelled or edited
\* (cleanup_db before upsert_to_db in _process_changes).
THEOREM IndexCorrect ==
    ASSUME OneJobAtATime PROVE Spec => []OneVersionPerFile
<1>1. IndexInv => OneVersionPerFile
  BY DEF IndexInv, IndexOK
<1> QED BY <1>1, IndexStarts, IndexStepKeeps, PTL DEF Spec

\* Everything that can be retrieved has the JSON file its parent text is read from
\* (save_processed_data before upsert_to_db, the vector DB cleaned before the files).
THEOREM ParentTextCorrect ==
    ASSUME OneJobAtATime PROVE Spec => []ChunksHaveParentJson
<1>1. IndexInv => ChunksHaveParentJson
  BY DEF IndexInv, IndexOK
<1> QED BY <1>1, IndexStarts, IndexStepKeeps, PTL DEF Spec

\* What a job cleaned up stays clean until it upserts, one version of a file at most,
\* with its JSON file in place (_process_changes, cleanup_db).
THEOREM PlanFollowed ==
    ASSUME OneJobAtATime PROVE Spec => []StoresFollowPlan
<1>1. IndexInv => StoresFollowPlan
  BY DEF IndexInv
<1> QED BY <1>1, IndexStarts, IndexStepKeeps, PTL DEF Spec

-----------------------------------------------------------------------------
(* What a clean run leaves behind.                                         *)

\* The code looks files up and deletes chunks by the bare file name.
UniqueNames == \A p, q \in Paths : Name[p] = Name[q] => p = q

OwnHashes(m) ==
    \A p \in Paths : m[p] # NoEntry /\ m[p].hash # NoHash =>
       m[p].hash.path = p /\ m[p].hash.parser = m[p].parser

HashesAreOwn ==
    OwnHashes(manifest) /\ \A s \in Sessions : OwnHashes(plan[s].old) /\ OwnHashes(plan[s].new)

Controlled(s) == job[s].kind \in {"full", "force"}
Forced(s) == job[s].kind = "force" /\ ~job[s].nested
Clean(s) == pc[s] # "idle" /\ job[s].clean

Marking(s) == pc[s] = "mark" \/ (pc[s] = "cleanfiles" /\ plan[s].ret = "mark")
Indexing(s) ==
    \/ pc[s] \in {"cleanup", "parse", "save", "upsert", "savemanifest"}
    \/ pc[s] = "cleanfiles" /\ plan[s].ret \in {"parse", "savemanifest"}
LastRun(s) == Controlled(s) /\ ~job[s].nested /\ (Indexing(s) \/ pc[s] \in {"scan", "reset"})

JobShape(s) ==
    /\ job[s].dups = {}
    /\ job[s].nested =>
          Controlled(s) /\ Targets(s) # {} /\ job[s].diagnosed /\ job[s].ghosts = {}
    /\ Controlled(s) /\ ~job[s].nested => Targets(s) = {}
    /\ LastRun(s) => job[s].diagnosed
    /\ pc[s] = "repair" => Controlled(s) /\ ~job[s].nested
    /\ pc[s] = "update" => job[s].kind \in {"single", "batch"}
    /\ pc[s] = "reset" => Forced(s)
    /\ pc[s] = "cleanup" => ~Forced(s)
    /\ Marking(s) => job[s].nested \/ ~Controlled(s)
    /\ pc[s] = "cleanfiles" /\ plan[s].ret = "repair" => Controlled(s) /\ ~job[s].nested
    /\ pc[s] = "cleanfiles" => plan[s].ret # "idle"
    /\ pc[s] = "idle" => plan[s] = NoPlan

Diagnosed(s) ==
    Clean(s) /\ Controlled(s) /\ job[s].diagnosed =>
       /\ \A x \in Sids : db[x] > 0 =>
             (x.content = raw[x.path] <=> x.path \notin job[s].ghosts \cup job[s].mismatches)
       /\ \A p \in job[s].mismatches : raw[p] # Absent
       /\ job[s].nested => Targets(s) \cap job[s].mismatches = {}
       /\ LastRun(s) => job[s].ghosts = {} /\ job[s].mismatches = {}

Spares(p, paths, sids) == p \notin paths /\ \A x \in sids : x.path # p

PlanIsFresh(s) ==
    Clean(s) =>
       /\ Marking(s) => plan[s].old = manifest
       /\ \A x \in plan[s].parsed : x.content = raw[x.path]
       /\ Indexing(s) /\ job[s].nested => plan[s].files \subseteq Targets(s)
       /\ Indexing(s) /\ ~Forced(s) =>
             \A p \in Paths : raw[p] # Absent /\ manifest[p] # NoEntry =>
                \/ plan[s].new[p] = manifest[p]
                \/ plan[s].new[p] = [hash |-> HashOf(p, manifest[p].parser),
                                     parser |-> manifest[p].parser]
       /\ pc[s] = "cleanup" =>
             \A p \in Paths : InSync(p) => Spares(p, plan[s].rels, plan[s].sids)
       /\ pc[s] = "cleanfiles" =>
             \A p \in Paths : InSync(p) => Spares(p, plan[s].rels, plan[s].gone)

Indexable(p) == raw[p] \notin Blank \cup {Absent}
Made(s, p) == HashOf(p, ChunkParser(p, plan[s].new[p].parser))

LastRunIsComplete(s) ==
    Clean(s) /\ LastRun(s) =>
       /\ pc[s] = "reset" => plan[s].files = {p \in Paths : raw[p] # Absent}
       /\ pc[s] \in {"reset", "cleanup", "cleanfiles"} => plan[s].left = plan[s].files
       /\ pc[s] = "cleanfiles" /\ plan[s].ret = "savemanifest" => plan[s].files = {}
       /\ pc[s] \in {"save", "upsert", "savemanifest"} => plan[s].left = {}
       /\ Indexing(s) => \A p \in Paths : raw[p] # Absent =>
             /\ plan[s].new[p] # NoEntry
             /\ plan[s].new[p].hash = HashOf(p, plan[s].new[p].parser)
       /\ Indexing(s) => \A p \in Paths : Indexable(p) /\ p \notin plan[s].files =>
             /\ ChunksOf(p) # {} /\ plan[s].new[p].hash \in json
             /\ pc[s] = "cleanup" => Spares(p, plan[s].rels, plan[s].sids)
             /\ pc[s] = "cleanfiles" => Spares(p, plan[s].rels, plan[s].gone)
       /\ pc[s] \in {"parse", "save", "upsert"} =>
             \A p \in plan[s].files \ plan[s].left : Indexable(p) => Made(s, p) \in plan[s].parsed
       /\ pc[s] = "savemanifest" =>
             \A p \in plan[s].files : Indexable(p) => ChunksOf(p) # {} /\ Made(s, p) \in json

NothingLeft ==
    \A p \in FilesToProcess(NewManifest(globalParser)) : raw[p] \in Blank \/ Kind[p] # "pdf"

SessionInv(s) ==
    /\ JobShape(s) /\ Diagnosed(s) /\ PlanIsFresh(s) /\ LastRunIsComplete(s)
    /\ CleanlySynced(s) => Mirrored /\ NothingLeft

CleanInv == IndexInv /\ HashesAreOwn /\ \A s \in Sessions : SessionInv(s)

-----------------------------------------------------------------------------
(* The hashes of the manifest and of the plans.                            *)

LEMMA NewManifestOwn == \A default : OwnHashes(NewManifest(default))
BY DEF OwnHashes, NewManifest, HashOf

LEMMA TargetManifestOwn ==
    ASSUME OwnHashes(manifest), NEW new \in [Paths -> Entries \cup {NoEntry}],
           OwnHashes(new), NEW targets
    PROVE  OwnHashes(TargetManifest(new, targets))
BY DEF OwnHashes, TargetManifest

LEMMA NoPlanOwn == OwnHashes(NoPlan.old) /\ OwnHashes(NoPlan.new)
BY DEF NoPlan, EmptyManifest, OwnHashes

\* One session's plan changes.
LEMMA PlanOwn ==
    ASSUME TypeInv, HashesAreOwn, OwnHashes(manifest'), NEW s \in Sessions,
           NEW pl, plan' = [plan EXCEPT ![s] = pl], OwnHashes(pl.old), OwnHashes(pl.new)
    PROVE  HashesAreOwn'
BY DEF HashesAreOwn, OwnHashes, TypeInv, TypeOK

\* The steps that keep the manifests of the plan, or forget the plan.
PlanKept(s) ==
    \/ plan' = [plan EXCEPT ![s] = NoPlan]
    \/ \E pl : /\ plan' = [plan EXCEPT ![s] = pl]
               /\ pl.old = plan[s].old /\ pl.new = plan[s].new

LEMMA PlanKeptOwn ==
    ASSUME TypeInv, HashesAreOwn, OwnHashes(manifest'), NEW s \in Sessions, PlanKept(s)
    PROVE  HashesAreOwn'
<1>1. CASE plan' = [plan EXCEPT ![s] = NoPlan]
  BY <1>1, NoPlanOwn, PlanOwn
<1>2. CASE \E pl : /\ plan' = [plan EXCEPT ![s] = pl]
                   /\ pl.old = plan[s].old /\ pl.new = plan[s].new
  <2>1. PICK pl : /\ plan' = [plan EXCEPT ![s] = pl]
                  /\ pl.old = plan[s].old /\ pl.new = plan[s].new
    BY <1>2
  <2>2. OwnHashes(pl.old) /\ OwnHashes(pl.new)
    BY <2>1 DEF HashesAreOwn
  <2> QED BY <2>1, <2>2, PlanOwn
<1> QED BY <1>1, <1>2 DEF PlanKept

LEMMA SamePlanKept ==
    ASSUME TypeInv, NEW s \in Sessions, plan' = plan PROVE PlanKept(s)
BY DEF PlanKept, TypeInv, TypeOK

LEMMA EndJobKept ==
    ASSUME NEW s, NEW outcome, NEW clean, EndJob(s, outcome, clean) \/ RunDone(s, clean)
    PROVE  PlanKept(s)
BY DEF EndJob, RunDone, PlanKept

LEMMA CleanupVectorOwn ==
    ASSUME TypeInv, HashesAreOwn, NEW s \in Sessions, NEW sids, NEW rels, NEW names, NEW ret,
           NEW newJob, NEW newPlan \in Plans, OwnHashes(newPlan.old), OwnHashes(newPlan.new),
           CleanupVector(s, sids, rels, names, ret, newJob, newPlan), manifest' = manifest
    PROVE  HashesAreOwn'
<1>1. OwnHashes(manifest')
  BY DEF HashesAreOwn
<1>2. CASE Raise(s)
  BY <1>1, <1>2, EndJobKept, PlanKeptOwn DEF Raise
<1>3. ASSUME NEW gone,
             plan' = [plan EXCEPT ![s] = [newPlan EXCEPT !.gone = gone, !.rels = rels,
                                                        !.ret = ret]]
      PROVE  HashesAreOwn'
  <2> DEFINE pl == [newPlan EXCEPT !.gone = gone, !.rels = rels, !.ret = ret]
  <2>1. pl.old = newPlan.old /\ pl.new = newPlan.new
    BY DEF Plans
  <2> HIDE DEF pl
  <2>2. plan' = [plan EXCEPT ![s] = pl] /\ OwnHashes(pl.old) /\ OwnHashes(pl.new)
    BY <1>3, <2>1 DEF pl
  <2> QED BY <1>1, <2>2, PlanOwn
<1> QED BY <1>2, <1>3 DEF CleanupVector

LEMMA UpdateFileParserOwn ==
    ASSUME TypeInv, HashesAreOwn, NEW s \in Sessions, NEW asked, NEW newJob,
           UpdateFileParser(s, asked, newJob), manifest' = manifest
    PROVE  HashesAreOwn'
<1> DEFINE pl == [NoPlan EXCEPT !.old = manifest]
<1>1. pl \in Plans /\ pl.old = manifest /\ pl.new = NoPlan.new
  BY EmptyRecordTypes DEF TypeInv, TypeOK, Plans
<1>2. OwnHashes(pl.old) /\ OwnHashes(pl.new) /\ OwnHashes(manifest')
  BY <1>1, NoPlanOwn DEF HashesAreOwn
<1>3. \/ plan' = [plan EXCEPT ![s] = pl]
      \/ \E sids, names, j : CleanupVector(s, sids, {}, names, "mark", j, pl)
  BY DEF UpdateFileParser
<1> HIDE DEF pl
<1> QED BY <1>1, <1>2, <1>3, PlanOwn, CleanupVectorOwn

LEMMA CleanupOwn ==
    ASSUME TypeInv, HashesAreOwn, NEW s \in Sessions,
           \/ RepairGhost(s) \/ RepairDuplicate(s) \/ RepairMismatch(s)
           \/ UpdateAskedFiles(s) \/ CleanupDb(s)
    PROVE  HashesAreOwn'
<1>1. manifest' = manifest /\ OwnHashes(manifest')
  BY DEF RepairGhost, RepairDuplicate, RepairMismatch, UpdateAskedFiles, CleanupDb, HashesAreOwn
<1>2. CASE \E sids, rels, j : CleanupVector(s, sids, rels, {}, "repair", j, NoPlan)
  BY <1>1, <1>2, EmptyRecordTypes, NoPlanOwn, CleanupVectorOwn
<1>3. CASE \E asked, j : UpdateFileParser(s, asked, j)
  BY <1>1, <1>3, UpdateFileParserOwn
<1>4. CASE plan' = plan \/ \E clean : EndJob(s, "completed", clean)
  BY <1>1, <1>4, SamePlanKept, EndJobKept, PlanKeptOwn
<1>5. CASE \E sids, rels, names, ret, j : CleanupVector(s, sids, rels, names, ret, j, plan[s])
  <2>1. plan[s] \in Plans /\ OwnHashes(plan[s].old) /\ OwnHashes(plan[s].new)
    BY PlanTypes DEF TypeInv, HashesAreOwn
  <2> QED BY <1>1, <1>5, <2>1, CleanupVectorOwn
<1>6. CASE RepairGhost(s) \/ RepairDuplicate(s)
  BY <1>2, <1>6 DEF RepairGhost, RepairDuplicate
<1>7. CASE RepairMismatch(s) \/ UpdateAskedFiles(s)
  BY <1>3, <1>4, <1>7 DEF RepairMismatch, UpdateAskedFiles
<1>8. CASE CleanupDb(s)
  BY <1>5, <1>8 DEF CleanupDb
<1> QED BY <1>6, <1>7, <1>8

LEMMA MarkOwn ==
    ASSUME TypeInv, HashesAreOwn, NEW s \in Sessions, MarkForReindex(s)
    PROVE  HashesAreOwn'
<1>1. PlanKept(s)
  BY DEF MarkForReindex, PlanKept
<1>2. \A p \in Paths :
         \/ manifest'[p] = manifest[p] \/ manifest'[p] = plan[s].old[p]
         \/ manifest'[p] = [hash |-> NoHash, parser |-> job[s].asked[p]]
  BY DEF MarkForReindex
<1>3. OwnHashes(manifest) /\ OwnHashes(plan[s].old)
  BY DEF HashesAreOwn
<1>4. OwnHashes(manifest')
  <2> SUFFICES ASSUME NEW p \in Paths, manifest'[p] # NoEntry, manifest'[p].hash # NoHash
               PROVE  manifest'[p].hash.path = p /\ manifest'[p].hash.parser = manifest'[p].parser
    BY DEF OwnHashes
  <2>1. CASE manifest'[p] = manifest[p] \/ manifest'[p] = plan[s].old[p]
    BY <1>3, <2>1 DEF OwnHashes
  <2>2. CASE manifest'[p] = [hash |-> NoHash, parser |-> job[s].asked[p]]
    BY <2>2
  <2> QED BY <1>2, <2>1, <2>2
<1> QED BY <1>1, <1>4, PlanKeptOwn

LEMMA ScanOwn ==
    ASSUME TypeInv, HashesAreOwn, NEW s \in Sessions, Scan(s)
    PROVE  HashesAreOwn'
<1>1. manifest' = manifest /\ OwnHashes(manifest')
  BY DEF Scan, HashesAreOwn
<1>2. CASE RunDone(s, job[s].clean)
  BY <1>1, <1>2, EndJobKept, PlanKeptOwn
<1>3. ASSUME NEW default \in Labels, NEW files, NEW sids, NEW rels, NEW targets, NEW new,
             \/ new = NewManifest(default)
             \/ new = TargetManifest(NewManifest(default), targets),
             plan' = [plan EXCEPT ![s] = [NoPlan EXCEPT !.files = files, !.left = files,
                                     !.sids = sids, !.rels = rels, !.new = new]]
      PROVE  HashesAreOwn'
  <2> DEFINE pl == [NoPlan EXCEPT !.files = files, !.left = files,
                                  !.sids = sids, !.rels = rels, !.new = new]
  <2>1. pl.old = NoPlan.old /\ pl.new = new
    BY EmptyRecordTypes DEF Plans
  <2>2. OwnHashes(new)
    <3>1. OwnHashes(NewManifest(default)) /\ OwnHashes(manifest)
      BY NewManifestOwn DEF HashesAreOwn
    <3>2. NewManifest(default) \in [Paths -> Entries \cup {NoEntry}]
      BY DeltaTypes DEF TypeInv
    <3> QED BY <1>3, <3>1, <3>2, TargetManifestOwn
  <2> HIDE DEF pl
  <2>3. plan' = [plan EXCEPT ![s] = pl] /\ OwnHashes(pl.old) /\ OwnHashes(pl.new)
    BY <1>3, <2>1, <2>2, NoPlanOwn DEF pl
  <2> QED BY <1>1, <2>3, PlanOwn
<1> DEFINE default == IF job[s].kind = "cli" THEN SettingsParser ELSE GlobalParserAfter(s)
           new    == NewManifest(default)
           limited == Targets(s) # {}
           todo   == IF limited THEN FilesToProcess(new) \cap Targets(s)
                     ELSE FilesToProcess(new)
           sids   == IF limited THEN TargetSids(SourceIdsToDelete(new), Targets(s))
                     ELSE SourceIdsToDelete(new)
           final  == IF limited THEN TargetManifest(new, Targets(s)) ELSE new
<1>4. default \in Labels
  BY GlobalParserType, LabelTypes DEF TypeInv
<1>5. \/ RunDone(s, job[s].clean)
      \/ plan' = [plan EXCEPT ![s] = [NoPlan EXCEPT !.files = todo, !.left = todo,
                              !.sids = sids, !.rels = RelPathsToDelete(new), !.new = final]]
  BY DEF Scan
<1>6. final = NewManifest(default) \/ final = TargetManifest(NewManifest(default), Targets(s))
  OBVIOUS
<1> HIDE DEF default, new, todo, sids, final
<1> QED BY <1>2, <1>3, <1>4, <1>5, <1>6

\* What ResetFiles does but for the JSON files, the manifest and the bounds.
LEMMA ResetStep ==
    ASSUME NEW s \in Sessions, ResetFiles(s)
    PROVE  /\ manifest' = manifest \/ manifest' = EmptyManifest
           /\ \/ EndJob(s, "error", FALSE)
              \/ /\ \A p \in plan[s].files : raw[p] # Absent
                 /\ Goto(s, IF plan[s].files = {} THEN "savemanifest" ELSE "parse")
                 /\ plan' = [plan EXCEPT ![s].new = [p \in Paths |->
                        IF p \in plan[s].files
                        THEN [hash |-> HashOf(p, globalParser), parser |-> globalParser]
                        ELSE NoEntry]]
BY DEF ResetFiles

LEMMA ForcedOwn ==
    ASSUME TypeInv, HashesAreOwn, NEW s \in Sessions, ScanForced(s) \/ ResetFiles(s)
    PROVE  HashesAreOwn'
<1>1. OwnHashes(manifest')
  <2>1. manifest' = manifest \/ manifest' = EmptyManifest
    BY ResetStep DEF ScanForced
  <2>2. OwnHashes(manifest) /\ OwnHashes(EmptyManifest)
    BY DEF HashesAreOwn, OwnHashes, EmptyManifest
  <2> QED BY <2>1, <2>2
<1>2. CASE \E outcome, clean : EndJob(s, outcome, clean)
  BY <1>1, <1>2, EndJobKept, PlanKeptOwn
<1>3. ASSUME NEW files, plan' = [plan EXCEPT ![s] = [NoPlan EXCEPT !.files = files,
                                                                  !.left = files]]
      PROVE  HashesAreOwn'
  <2> DEFINE pl == [NoPlan EXCEPT !.files = files, !.left = files]
  <2>1. pl.old = NoPlan.old /\ pl.new = NoPlan.new
    BY DEF NoPlan
  <2> HIDE DEF pl
  <2>2. plan' = [plan EXCEPT ![s] = pl] /\ OwnHashes(pl.old) /\ OwnHashes(pl.new)
    BY <1>3, <2>1, NoPlanOwn DEF pl
  <2> QED BY <1>1, <2>2, PlanOwn
<1>4. ASSUME NEW n, OwnHashes(n), plan' = [plan EXCEPT ![s].new = n]
      PROVE  HashesAreOwn'
  <2> DEFINE pl == [plan[s] EXCEPT !.new = n]
  <2>1. pl.old = plan[s].old /\ pl.new = n
    BY PlanTypes DEF TypeInv, Plans
  <2>2. plan' = [plan EXCEPT ![s] = pl] /\ OwnHashes(plan[s].old)
    BY <1>4 DEF HashesAreOwn, TypeInv, TypeOK
  <2> HIDE DEF pl
  <2> QED BY <1>1, <1>4, <2>1, <2>2, PlanOwn
<1> DEFINE fresh == [p \in Paths |->
                      IF p \in plan[s].files
                      THEN [hash |-> HashOf(p, globalParser), parser |-> globalParser]
                      ELSE NoEntry]
<1>5. OwnHashes(fresh)
  BY DEF OwnHashes, HashOf
<1>6. CASE ScanForced(s)
  BY <1>2, <1>3, <1>6 DEF ScanForced, Raise
<1>7. CASE ResetFiles(s)
  <2>1. EndJob(s, "error", FALSE) \/ plan' = [plan EXCEPT ![s].new = fresh]
    BY <1>7, ResetStep
  <2> HIDE DEF fresh
  <2> QED BY <1>2, <1>4, <1>5, <2>1
<1> QED BY <1>6, <1>7

LEMMA WorkOwn ==
    ASSUME TypeInv, HashesAreOwn, NEW s \in Sessions,
           \/ CleanupFiles(s) \/ ParseFile(s) \/ ParseAborted(s) \/ SaveJson(s)
           \/ Upsert(s) \/ SaveManifest(s) \/ Diagnose(s) \/ RepairDone(s)
    PROVE  HashesAreOwn'
<1>1. OwnHashes(manifest')
  BY DEF CleanupFiles, ParseFile, ParseAborted, SaveJson, Upsert, SaveManifest, Diagnose,
         RepairDone, stores, HashesAreOwn
<1>2. CASE plan' = plan \/ \E outcome, clean : EndJob(s, outcome, clean) \/ RunDone(s, clean)
  BY <1>1, <1>2, SamePlanKept, EndJobKept, PlanKeptOwn
<1>3. CASE ParseFile(s)
  <2>1. PICK left, parsed : plan' = [plan EXCEPT ![s].left = left, ![s].parsed = parsed]
    BY <1>3 DEF ParseFile
  <2> DEFINE pl == [plan[s] EXCEPT !.left = left, !.parsed = parsed]
  <2>2. pl.old = plan[s].old /\ pl.new = plan[s].new
    BY PlanTypes DEF TypeInv, Plans
  <2>3. plan' = [plan EXCEPT ![s] = pl]
    BY <2>1 DEF TypeInv, TypeOK
  <2> HIDE DEF pl
  <2>4. PlanKept(s)
    BY <2>2, <2>3 DEF PlanKept
  <2> QED BY <1>1, <2>4, PlanKeptOwn
<1> QED BY <1>2, <1>3
        DEF CleanupFiles, ParseAborted, SaveJson, Upsert, SaveManifest, Diagnose, RepairDone, Raise

LEMMA OtherOwn ==
    ASSUME TypeInv, HashesAreOwn,
           \/ \E s \in Sessions : \/ StartSync(s) \/ StartSingleFileSync(s)
                                  \/ StartMultipleFilesSync(s) \/ StartCli(s)
                                  \/ RequestCancel(s)
           \/ Edit \/ Crash \/ UNCHANGED vars
    PROVE  HashesAreOwn'
<1>1. manifest' = manifest /\ (plan' = plan \/ \A s \in Sessions : plan'[s] = NoPlan)
  BY DEF StartSync, StartSingleFileSync, StartMultipleFilesSync, StartCli, RequestCancel,
         Edit, Crash, stores, vars
<1> QED BY <1>1, NoPlanOwn DEF HashesAreOwn

\* The hashes in the manifest and in what is to become it are of the files and
\* the parsers they are listed with (calculate_delta, update_manifest).
LEMMA HashesStayOwn == TypeInv /\ HashesAreOwn /\ [Next]_vars => HashesAreOwn'
BY OtherOwn, CleanupOwn, MarkOwn, ScanOwn, ForcedOwn, WorkOwn DEF Next, JobStep

-----------------------------------------------------------------------------
(* How a job ends, and what is left to show while it goes on.              *)

LEMMA NoTargets == \A s : job[s].asked = NothingAsked => Targets(s) = {}
BY DEF Targets, NothingAsked

LEMMA EndJobFacts ==
    ASSUME TypeInv, NEW s \in Sessions, NEW outcome, NEW clean, EndJob(s, outcome, clean)
    PROVE  /\ pc'[s] = "idle" /\ plan'[s] = NoPlan
           /\ ~job'[s].nested /\ job'[s].dups = {} /\ job'[s].asked = NothingAsked
           /\ IF Controlled(s)
              THEN /\ job'[s].kind = job[s].kind
                   /\ job'[s].outcome = outcome /\ job'[s].clean = clean
              ELSE job'[s].kind = "none"
<1>1. pc'[s] = "idle" /\ plan'[s] = NoPlan
  BY DEF EndJob, TypeInv, TypeOK
<1>2. job'[s] = IF Controlled(s)
                THEN [NoJob EXCEPT !.kind = job[s].kind, !.outcome = outcome, !.clean = clean]
                ELSE NoJob
  BY DEF EndJob, TypeInv, TypeOK, Controlled
<1> QED BY <1>1, <1>2 DEF NoJob

LEMMA IdleShape ==
    ASSUME NEW s \in Sessions, pc'[s] = "idle", ~job'[s].nested, job'[s].dups = {},
           job'[s].asked = NothingAsked, plan'[s] = NoPlan
    PROVE  JobShape(s)'
<1>1. Targets(s)' = {}
  BY DEF Targets, NothingAsked
<1> QED BY <1>1 DEF JobShape, LastRun, Marking, Indexing

\* A job that ends otherwise than by a clean completion promises nothing.
LEMMA EndJobInv ==
    ASSUME TypeInv, NEW s \in Sessions, NEW outcome, NEW clean, EndJob(s, outcome, clean),
           outcome # "completed" \/ clean = FALSE \/ ~Controlled(s)
    PROVE  SessionInv(s)'
<1>1. JobShape(s)'
  BY EndJobFacts, IdleShape
<1>2. ~CleanlySynced(s)'
  BY EndJobFacts DEF CleanlySynced, Controlled
<1>3. ~Clean(s)'
  BY EndJobFacts DEF Clean
<1> QED BY <1>1, <1>2, <1>3
        DEF SessionInv, Diagnosed, PlanIsFresh, LastRunIsComplete

\* Neither does one that goes on after a failure.
LEMMA UncleanInv ==
    ASSUME NEW s \in Sessions, job'[s].clean = FALSE, JobShape(s)'
    PROVE  SessionInv(s)'
BY DEF SessionInv, Diagnosed, PlanIsFresh, LastRunIsComplete, Clean, CleanlySynced

\* What is left to show of a job that goes on.
LEMMA RunningInv ==
    ASSUME NEW s \in Sessions, pc'[s] # "idle", JobShape(s)',
           Diagnosed(s)', PlanIsFresh(s)', LastRunIsComplete(s)'
    PROVE  SessionInv(s)'
BY DEF SessionInv, CleanlySynced

LEMMA SessionFacts ==
    ASSUME CleanInv, NEW s \in Sessions
    PROVE  /\ TypeInv /\ TypeOK /\ IndexInv /\ HashesAreOwn
           /\ JobShape(s) /\ Diagnosed(s) /\ PlanIsFresh(s) /\ LastRunIsComplete(s)
           /\ FollowsPlan(s)
           /\ OwnHashes(manifest) /\ OwnHashes(plan[s].old) /\ OwnHashes(plan[s].new)
           /\ job[s] \in Jobs /\ plan[s] \in Plans
           /\ \A x \in Sids : db[x] \in Nat
           /\ \A x, y \in Sids : x.path = y.path /\ db[x] > 0 /\ db[y] > 0 => x = y
BY PlanTypes DEF CleanInv, SessionInv, IndexInv, TypeInv, TypeOK, IndexOK, StoresFollowPlan,
   HashesAreOwn, OneVersionPerFile

\* While the manifest, the raw files and the JSON files stay, no file comes into
\* sync by the deletion of chunks.
LEMMA InSyncShrinks ==
    ASSUME UNCHANGED <<raw, manifest, json>>, \A x \in Sids : db'[x] \in {0, db[x]},
           NEW p \in Paths, InSync(p)', Current(p) \in Sids
    PROVE  InSync(p) /\ db'[Current(p)] = 1 /\ Current(p)' = Current(p)
<1>1. Current(p)' = Current(p)
  BY DEF Current, HashOf, ChunkParser
<1> QED BY <1>1 DEF InSync

LEMMA CurrentType ==
    ASSUME TypeOK, ConstantsOK, NEW p \in Paths, raw[p] # Absent, manifest[p] # NoEntry
    PROVE  Current(p) \in Sids /\ Current(p).path = p /\ Current(p).content = raw[p]
<1>1. manifest[p].parser \in Labels
  BY DEF TypeOK, Entries
<1>2. ChunkParser(p, manifest[p].parser) \in Labels
  BY <1>1, ChunkParserType
<1> QED BY <1>2, HashType DEF Current, HashOf

-----------------------------------------------------------------------------
(* cleanup_db and its callers.                                             *)

Without0(sids, rels, names) ==
    [x \in Sids |-> IF x \in sids \/ x.path \in rels \/ Name[x.path] \in names THEN 0 ELSE db[x]]

\* Either the job ends, or it goes on after a failure, or everything asked for is
\* deleted and the plan knows its source ids.
LEMMA CleanupStep ==
    ASSUME TypeInv, NEW s \in Sessions, NEW sids \in SUBSET Sids, NEW rels \in SUBSET Paths,
           NEW names, NEW ret, NEW newJob \in Jobs, NEW newPlan \in Plans,
           CleanupVector(s, sids, rels, names, ret, newJob, newPlan)
    PROVE  \/ Raise(s)
           \/ /\ pc'[s] = "cleanfiles" /\ plan'[s].ret = ret
              /\ job'[s] = [newJob EXCEPT !.clean = FALSE]
           \/ /\ pc'[s] = "cleanfiles" /\ plan'[s].ret = ret
              /\ job'[s] = newJob
              /\ plan'[s].gone = GoneIds(sids, names) /\ plan'[s].rels = rels
              /\ plan'[s].files = newPlan.files /\ plan'[s].left = newPlan.left
              /\ plan'[s].old = newPlan.old /\ plan'[s].new = newPlan.new
              /\ plan'[s].parsed = newPlan.parsed
              /\ db' = Without0(sids, rels, names)
<1> DEFINE With(ids) == [newPlan EXCEPT !.gone = ids, !.rels = rels, !.ret = ret]
<1>1. \A ids : /\ With(ids).ret = ret /\ With(ids).gone = ids /\ With(ids).rels = rels
               /\ With(ids).files = newPlan.files /\ With(ids).left = newPlan.left
               /\ With(ids).old = newPlan.old /\ With(ids).new = newPlan.new
               /\ With(ids).parsed = newPlan.parsed
  BY DEF Plans
<1>2. CASE /\ db' = Without(Doomed(GoneIds(sids, names), rels, names))
           /\ Goto(s, "cleanfiles")
           /\ job' = [job EXCEPT ![s] = newJob]
           /\ plan' = [plan EXCEPT ![s] = With(GoneIds(sids, names))]
  <2>1. /\ pc'[s] = "cleanfiles" /\ job'[s] = newJob
        /\ plan'[s] = With(GoneIds(sids, names))
    BY <1>2 DEF Goto, TypeInv, TypeOK
  <2>2. db' = Without0(sids, rels, names)
    <3>1. \A x \in Sids : db[x] \in Nat
      BY DEF TypeInv, TypeOK
    <3>2. \A x \in Sids :
             Without(Doomed(GoneIds(sids, names), rels, names))[x]
                = Without0(sids, rels, names)[x]
      BY <3>1 DEF Without, Doomed, GoneIds, Without0
    <3> QED BY <1>2, <3>2 DEF Without, Without0
  <2> HIDE DEF With
  <2> QED BY <1>1, <2>1, <2>2
<1>3. ASSUME Goto(s, "cleanfiles"),
             job' = [job EXCEPT ![s] = [newJob EXCEPT !.clean = FALSE]],
             plan' = [plan EXCEPT ![s] = With(sids)]
      PROVE  /\ pc'[s] = "cleanfiles" /\ plan'[s].ret = ret
             /\ job'[s] = [newJob EXCEPT !.clean = FALSE]
  <2>1. /\ pc'[s] = "cleanfiles" /\ job'[s] = [newJob EXCEPT !.clean = FALSE]
        /\ plan'[s] = With(sids)
    BY <1>3 DEF Goto, TypeInv, TypeOK
  <2> HIDE DEF With
  <2> QED BY <1>1, <2>1
<1> QED BY <1>2, <1>3 DEF CleanupVector

\* Deleting by ids of other files spares what is still in sync after it.
LEMMA CleanupSpares ==
    ASSUME CleanInv, NEW sids \in SUBSET Sids, NEW rels \in SUBSET Paths, NEW names,
           db' = Without0(sids, rels, names), UNCHANGED <<raw, manifest, json>>,
           NEW p \in Paths, InSync(p)'
    PROVE  /\ InSync(p) /\ p \notin rels /\ Name[p] \notin names
           /\ (\A x \in sids : x.path # p) => Spares(p, rels, GoneIds(sids, names))
<1>1. Current(p) \in Sids /\ Current(p).path = p
  BY CurrentType, ConstantsOK DEF InSync, CleanInv, IndexInv, TypeInv
<1>2. \A x \in Sids : db'[x] \in {0, db[x]}
  BY DEF Without0
<1>3. InSync(p) /\ db'[Current(p)] = 1
  BY <1>1, <1>2, InSyncShrinks
<1>4. p \notin rels /\ Name[p] \notin names
  BY <1>1, <1>3 DEF Without0
<1> QED BY <1>3, <1>4 DEF Spares, GoneIds

\* A ghost's chunks go; nothing else is touched.
LEMMA RepairGhostInv ==
    ASSUME CleanInv, NEW s \in Sessions, RepairGhost(s)
    PROVE  SessionInv(s)'
<1>1. PICK p \in job[s].ghosts :
         CleanupVector(s, {}, {p}, {}, "repair", [job[s] EXCEPT !.ghosts = @ \ {p}], NoPlan)
  BY DEF RepairGhost
<1> DEFINE j == [job[s] EXCEPT !.ghosts = @ \ {p}]
<1>2. /\ UNCHANGED <<raw, manifest, json>> /\ pc[s] = "repair" /\ job[s].diagnosed
      /\ Controlled(s) /\ ~job[s].nested
  BY SessionFacts DEF RepairGhost, JobShape
<1>3. /\ p \in Paths /\ j \in Jobs /\ NoPlan \in Plans
      /\ j.kind = job[s].kind /\ j.nested = job[s].nested /\ j.asked = job[s].asked
      /\ j.dups = job[s].dups /\ j.diagnosed = job[s].diagnosed /\ j.clean = job[s].clean
      /\ j.ghosts = job[s].ghosts \ {p} /\ j.mismatches = job[s].mismatches
  BY SessionFacts, EmptyRecordTypes DEF Jobs
<1> HIDE DEF j
<1>4. CleanupVector(s, {}, {p}, {}, "repair", j, NoPlan) /\ {p} \in SUBSET Paths
  BY <1>1, <1>3 DEF j
<1>5. CASE Raise(s)
  BY <1>5, SessionFacts, EndJobInv DEF Raise
<1>6. ASSUME pc'[s] = "cleanfiles", plan'[s].ret = "repair",
             job'[s].kind = job[s].kind, job'[s].nested = job[s].nested,
             job'[s].asked = job[s].asked, job'[s].dups = job[s].dups
      PROVE  JobShape(s)' /\ ~LastRun(s)'
  BY <1>2, <1>6, SessionFacts
     DEF JobShape, Controlled, Forced, Targets, LastRun, Marking, Indexing
<1>7. CASE /\ pc'[s] = "cleanfiles" /\ plan'[s].ret = "repair"
           /\ job'[s] = [j EXCEPT !.clean = FALSE]
  <2>1. /\ job'[s].kind = job[s].kind /\ job'[s].nested = job[s].nested
        /\ job'[s].asked = job[s].asked /\ job'[s].dups = job[s].dups
        /\ job'[s].clean = FALSE
    BY <1>3, <1>7 DEF Jobs
  <2> QED BY <1>6, <1>7, <2>1, UncleanInv
<1>8. CASE /\ pc'[s] = "cleanfiles" /\ plan'[s].ret = "repair" /\ job'[s] = j
           /\ plan'[s].gone = GoneIds({}, {}) /\ plan'[s].rels = {p}
           /\ plan'[s].parsed = NoPlan.parsed
           /\ db' = Without0({}, {p}, {})
  <2>1. JobShape(s)' /\ ~LastRun(s)'
    BY <1>3, <1>6, <1>8
  <2>2. Diagnosed(s)'
    <3> SUFFICES ASSUME Clean(s)', Controlled(s)', job'[s].diagnosed
                 PROVE  /\ \A x \in Sids : db'[x] > 0 =>
                             (x.content = raw'[x.path]
                                <=> x.path \notin job'[s].ghosts \cup job'[s].mismatches)
                        /\ \A q \in job'[s].mismatches : raw'[q] # Absent
                        /\ ~job'[s].nested
      BY <2>1 DEF Diagnosed
    <3>1. Clean(s) /\ Diagnosed(s)
      BY <1>2, <1>3, <1>8, SessionFacts DEF Clean
    <3>2. /\ \A x \in Sids : db[x] > 0 =>
                (x.content = raw[x.path] <=> x.path \notin job[s].ghosts \cup job[s].mismatches)
          /\ \A q \in job[s].mismatches : raw[q] # Absent
      BY <1>2, <3>1 DEF Diagnosed
    <3>3. \A x \in Sids : db'[x] > 0 => x.path # p /\ db'[x] = db[x]
      BY <1>8 DEF Without0
    <3> QED BY <1>2, <1>3, <1>8, <3>2, <3>3
  <2>3. PlanIsFresh(s)'
    <3>1. ~Marking(s)' /\ ~Indexing(s)' /\ plan'[s].parsed = {}
      BY <1>8 DEF Marking, Indexing, NoPlan
    <3>2. \A q \in Paths : InSync(q)' => Spares(q, plan'[s].rels, plan'[s].gone)
      BY <1>2, <1>8, <1>4, CleanupSpares
    <3> QED BY <1>8, <3>1, <3>2 DEF PlanIsFresh, Spares
  <2>4. LastRunIsComplete(s)'
    BY <2>1 DEF LastRunIsComplete
  <2> QED BY <1>8, <2>1, <2>2, <2>3, <2>4, RunningInv
<1> QED BY <1>3, <1>4, <1>5, <1>7, <1>8, CleanupStep, SessionFacts

\* With one version of a file there is one parser, and no duplicates.
LEMMA RepairDuplicateInv ==
    ASSUME CleanInv, NEW s \in Sessions, RepairDuplicate(s)
    PROVE  SessionInv(s)'
BY SessionFacts DEF RepairDuplicate, JobShape

\* With names of their own, the files found are among those asked for.
LEMMA FoundAsked ==
    ASSUME UniqueNames, NEW asked \in [Paths -> Labels \cup {NoTarget}],
           NEW found \in FoundFiles({Name[p] : p \in {q \in Paths : asked[q] # NoTarget}})
    PROVE  found \in SUBSET {q \in Paths : asked[q] # NoTarget}
<1> SUFFICES ASSUME NEW q \in found PROVE q \in Paths /\ asked[q] # NoTarget
  OBVIOUS
<1>1. PICK p \in Paths : asked[p] # NoTarget /\ q \in FindRelativePath(Name[p])
  BY DEF FoundFiles
<1>2. q \in Paths /\ Name[q] = Name[p]
  BY <1>1 DEF FindRelativePath
<1> QED BY <1>1, <1>2 DEF UniqueNames

\* What update_file_parser has done when it goes on to write the manifest.
Updated(s, asked, newJob, found) ==
    /\ found \in SUBSET {q \in Paths : asked[q] # NoTarget} /\ found # {}
    /\ pc'[s] = "mark" \/ (pc'[s] = "cleanfiles" /\ plan'[s].ret = "mark")
    /\ job'[s].kind = newJob.kind /\ job'[s].nested = newJob.nested
    /\ job'[s].diagnosed = newJob.diagnosed /\ job'[s].dups = newJob.dups
    /\ job'[s].ghosts = newJob.ghosts /\ job'[s].mismatches = newJob.mismatches
    /\ Targets(s)' = found
    /\ job'[s].clean = FALSE \/ job'[s].clean = newJob.clean
    /\ job'[s].clean =>
          /\ plan'[s].old = manifest /\ plan'[s].parsed = {}
          /\ \/ /\ pc'[s] = "cleanfiles" /\ plan'[s].rels = {}
                /\ LET hashes == {manifest[q].hash : q \in {r \in found : manifest[r] # NoEntry}}
                                    \ {NoHash}
                       names == {Name[p] : p \in {q \in Paths : asked[q] # NoTarget}}
                   IN /\ plan'[s].gone = GoneIds(hashes, names)
                      /\ db' = Without0(hashes, {}, names)
             \/ pc'[s] = "mark" /\ db' = db /\ newJob.kind = "batch"

LEMMA UpdateStep ==
    ASSUME TypeInv, UniqueNames, NEW s \in Sessions,
           NEW asked \in [Paths -> Labels \cup {NoTarget}], NEW newJob \in Jobs,
           UpdateFileParser(s, asked, newJob)
    PROVE  Raise(s) \/ \E found : Updated(s, asked, newJob, found)
<1> DEFINE names == {Name[p] : p \in {q \in Paths : asked[q] # NoTarget}}
           ids(found) == {manifest[q].hash : q \in {r \in found : manifest[r] # NoEntry}}
                            \ {NoHash}
           now(found) == [q \in Paths |->
                            IF q \in found THEN ParserAsked(asked, Name[q]) ELSE NoTarget]
           j(found) == [newJob EXCEPT !.asked = now(found)]
           pl == [NoPlan EXCEPT !.old = manifest]
<1>1. PICK found \in FoundFiles(names) \ {{}} :
         \/ CleanupVector(s, ids(found), {}, names, "mark", j(found), pl)
         \/ /\ newJob.kind = "batch"
            /\ Goto(s, "mark") /\ job' = [job EXCEPT ![s] = j(found)]
            /\ plan' = [plan EXCEPT ![s] = pl] /\ UNCHANGED <<db, faults>>
  BY DEF UpdateFileParser
<1>2. found \in SUBSET Paths /\ \A q \in found : ParserAsked(asked, Name[q]) \in Labels
  BY <1>1, FoundFilesType
<1>3. now(found) \in [Paths -> Labels \cup {NoTarget}]
  BY <1>2
<1>t. {q \in Paths : now(found)[q] # NoTarget} = found
  BY <1>2, ConstantsOK
<1> HIDE DEF now
<1>4. /\ j(found) \in Jobs
      /\ j(found).kind = newJob.kind /\ j(found).nested = newJob.nested
      /\ j(found).diagnosed = newJob.diagnosed /\ j(found).dups = newJob.dups
      /\ j(found).ghosts = newJob.ghosts /\ j(found).mismatches = newJob.mismatches
      /\ j(found).clean = newJob.clean /\ j(found).asked = now(found)
  BY <1>3 DEF Jobs
<1>5. ids(found) \in SUBSET Sids
  BY <1>2 DEF TypeInv, TypeOK, Entries
<1>6. pl \in Plans /\ pl.old = manifest /\ pl.parsed = {}
  BY EmptyRecordTypes, EmptyPlanParsed DEF TypeInv, TypeOK, Plans
<1>7. found \in SUBSET {q \in Paths : asked[q] # NoTarget} /\ found # {}
  BY <1>1, FoundAsked
<1> DEFINE jf == j(found)
           hashes == ids(found)
<1>8. /\ jf \in Jobs /\ hashes \in SUBSET Sids
      /\ jf.kind = newJob.kind /\ jf.nested = newJob.nested
      /\ jf.diagnosed = newJob.diagnosed /\ jf.dups = newJob.dups
      /\ jf.ghosts = newJob.ghosts /\ jf.mismatches = newJob.mismatches
      /\ jf.clean = newJob.clean /\ jf.asked = now(found)
  BY <1>4, <1>5
<1>9. \/ CleanupVector(s, hashes, {}, names, "mark", jf, pl)
      \/ /\ newJob.kind = "batch"
         /\ Goto(s, "mark") /\ job' = [job EXCEPT ![s] = jf]
         /\ plan' = [plan EXCEPT ![s] = pl] /\ UNCHANGED <<db, faults>>
  BY <1>1
<1> HIDE DEF j, jf, pl
<1>10. CASE CleanupVector(s, hashes, {}, names, "mark", jf, pl)
  <2> HIDE DEF names, ids, hashes
  <2>1. \/ Raise(s)
        \/ /\ pc'[s] = "cleanfiles" /\ plan'[s].ret = "mark"
           /\ job'[s] = [jf EXCEPT !.clean = FALSE]
        \/ /\ pc'[s] = "cleanfiles" /\ plan'[s].ret = "mark" /\ job'[s] = jf
           /\ plan'[s].gone = GoneIds(hashes, names) /\ plan'[s].rels = {}
           /\ plan'[s].old = pl.old /\ plan'[s].parsed = pl.parsed
           /\ db' = Without0(hashes, {}, names)
    BY <1>6, <1>8, <1>10, CleanupStep
  <2>2. CASE /\ pc'[s] = "cleanfiles" /\ plan'[s].ret = "mark"
             /\ job'[s] = [jf EXCEPT !.clean = FALSE]
    <3>1. /\ job'[s].kind = jf.kind /\ job'[s].nested = jf.nested
          /\ job'[s].diagnosed = jf.diagnosed /\ job'[s].dups = jf.dups
          /\ job'[s].ghosts = jf.ghosts /\ job'[s].mismatches = jf.mismatches
          /\ job'[s].clean = FALSE /\ job'[s].asked = jf.asked
      BY <1>8, <2>2 DEF Jobs
    <3>2. Targets(s)' = found
      BY <1>8, <1>t, <3>1 DEF Targets
    <3> QED BY <1>7, <1>8, <2>2, <3>1, <3>2 DEF Updated
  <2>3. CASE /\ pc'[s] = "cleanfiles" /\ plan'[s].ret = "mark" /\ job'[s] = jf
             /\ plan'[s].gone = GoneIds(hashes, names) /\ plan'[s].rels = {}
             /\ plan'[s].old = pl.old /\ plan'[s].parsed = pl.parsed
             /\ db' = Without0(hashes, {}, names)
    <3>1. Targets(s)' = found
      BY <1>8, <1>t, <2>3 DEF Targets
    <3> QED BY <1>6, <1>7, <1>8, <2>3, <3>1 DEF Updated, hashes, ids, names
  <2> QED BY <2>1, <2>2, <2>3
<1>11. CASE /\ newJob.kind = "batch"
            /\ Goto(s, "mark") /\ job' = [job EXCEPT ![s] = jf]
            /\ plan' = [plan EXCEPT ![s] = pl] /\ UNCHANGED <<db, faults>>
  <2>1. pc'[s] = "mark" /\ job'[s] = jf /\ plan'[s] = pl
    BY <1>11 DEF Goto, TypeInv, TypeOK
  <2>2. Targets(s)' = found
    BY <1>8, <1>t, <2>1 DEF Targets
  <2> QED BY <1>6, <1>7, <1>8, <1>11, <2>1, <2>2 DEF Updated
<1> QED BY <1>9, <1>10, <1>11

LEMMA UpdatedPlan ==
    ASSUME CleanInv, UniqueNames, NEW s \in Sessions,
           NEW asked \in [Paths -> Labels \cup {NoTarget}], NEW newJob \in Jobs, NEW found,
           Updated(s, asked, newJob, found), UNCHANGED <<raw, manifest, json>>
    PROVE  PlanIsFresh(s)' /\ Marking(s)' /\ ~LastRun(s)' /\ ~Indexing(s)' /\ pc'[s] # "idle"
<1> DEFINE hashes == {manifest[q].hash : q \in {r \in found : manifest[r] # NoEntry}} \ {NoHash}
           names == {Name[p] : p \in {q \in Paths : asked[q] # NoTarget}}
<1>1. Marking(s)' /\ ~Indexing(s)' /\ ~LastRun(s)' /\ pc'[s] # "idle"
  BY DEF Updated, Marking, Indexing, LastRun
<1>2. hashes \in SUBSET Sids
  BY SessionFacts DEF Updated, TypeOK, Entries
<1>3. \A x \in hashes : x.path \in Paths /\ Name[x.path] \in names
  <2> SUFFICES ASSUME NEW q \in found, manifest[q] # NoEntry, manifest[q].hash # NoHash
               PROVE  /\ manifest[q].hash.path \in Paths
                      /\ Name[manifest[q].hash.path] \in names
    OBVIOUS
  <2>1. q \in Paths /\ asked[q] # NoTarget
    BY DEF Updated
  <2>2. manifest[q].hash.path = q
    BY <2>1, SessionFacts DEF OwnHashes
  <2> QED BY <2>1, <2>2
<1>4. ASSUME job'[s].clean, pc'[s] = "cleanfiles", NEW q \in Paths, InSync(q)'
      PROVE  Spares(q, plan'[s].rels, plan'[s].gone)
  <2>1. /\ plan'[s].rels = {} /\ plan'[s].gone = GoneIds(hashes, names)
        /\ db' = Without0(hashes, {}, names)
    BY <1>4 DEF Updated
  <2> HIDE DEF hashes, names
  <2>2. Name[q] \notin names
    BY <1>2, <1>4, <2>1, CleanupSpares
  <2>3. \A x \in hashes : x.path # q
    BY <1>3, <2>2
  <2> QED BY <1>2, <1>4, <2>1, <2>3, CleanupSpares
<1>5. job'[s].clean => plan'[s].old = manifest' /\ plan'[s].parsed = {}
  BY DEF Updated
<1>6. PlanIsFresh(s)'
  BY <1>1, <1>4, <1>5 DEF PlanIsFresh, Clean, Spares, Marking
<1> QED BY <1>1, <1>6

\* A mismatch is found by its name and its chunks go.
LEMMA RepairMismatchInv ==
    ASSUME CleanInv, UniqueNames, NEW s \in Sessions, RepairMismatch(s)
    PROVE  SessionInv(s)'
<1>1. PICK p \in job[s].mismatches :
         LET next == [job[s] EXCEPT !.mismatches = @ \ {p}] IN
         \/ UpdateFileParser(s, AskedByRepair(s, p), [next EXCEPT !.nested = TRUE])
         \/ /\ FindRelativePath(Name[p]) = {}
            /\ job' = [job EXCEPT ![s] = next]
            /\ UNCHANGED <<db, pc, plan, faults>>
  BY DEF RepairMismatch
<1> DEFINE next == [job[s] EXCEPT !.mismatches = @ \ {p}]
           nested == [next EXCEPT !.nested = TRUE]
           asked == AskedByRepair(s, p)
<1>2. /\ UNCHANGED <<raw, manifest, json>> /\ pc[s] = "repair" /\ job[s].diagnosed
      /\ job[s].ghosts = {} /\ job[s].dups = {}
      /\ Controlled(s) /\ ~job[s].nested /\ Targets(s) = {}
  BY SessionFacts DEF RepairMismatch, JobShape
<1>3. p \in Paths /\ asked \in [Paths -> Labels \cup {NoTarget}]
      /\ {q \in Paths : asked[q] # NoTarget} = {p}
  <2>1. p \in Paths /\ job[s].parser \in Labels
    BY SessionFacts DEF Jobs
  <2> QED BY <2>1, EmptyRecordTypes, ConstantsOK DEF AskedByRepair, NothingAsked
<1>4. /\ next \in Jobs /\ next.kind = job[s].kind /\ next.nested = job[s].nested
      /\ next.asked = job[s].asked /\ next.diagnosed = job[s].diagnosed
      /\ next.dups = job[s].dups /\ next.ghosts = job[s].ghosts
      /\ next.mismatches = job[s].mismatches \ {p} /\ next.clean = job[s].clean
  BY SessionFacts DEF Jobs
<1>5. /\ nested \in Jobs /\ nested.kind = job[s].kind /\ nested.nested
      /\ nested.diagnosed = job[s].diagnosed /\ nested.dups = job[s].dups
      /\ nested.ghosts = job[s].ghosts /\ nested.mismatches = job[s].mismatches \ {p}
      /\ nested.clean = job[s].clean
  BY SessionFacts DEF Jobs
<1>6. \/ UpdateFileParser(s, asked, nested)
      \/ /\ FindRelativePath(Name[p]) = {}
         /\ job' = [job EXCEPT ![s] = next]
         /\ UNCHANGED <<db, pc, plan, faults>>
  BY <1>1
<1> HIDE DEF next, nested, asked
<1>7. CASE Raise(s)
  BY <1>7, SessionFacts, EndJobInv DEF Raise
<1>8. ASSUME NEW found, Updated(s, asked, nested, found)
      PROVE  SessionInv(s)'
  <2>1. PlanIsFresh(s)' /\ Marking(s)' /\ ~LastRun(s)' /\ ~Indexing(s)' /\ pc'[s] # "idle"
    BY <1>2, <1>3, <1>5, <1>8, UpdatedPlan
  <2>2. /\ job'[s].kind = job[s].kind /\ job'[s].nested /\ job'[s].diagnosed
        /\ job'[s].dups = {} /\ job'[s].ghosts = {}
        /\ job'[s].mismatches = job[s].mismatches \ {p}
        /\ Targets(s)' = {p}
        /\ pc'[s] = "mark" \/ (pc'[s] = "cleanfiles" /\ plan'[s].ret = "mark")
    BY <1>2, <1>3, <1>5, <1>8 DEF Updated
  <2>3. JobShape(s)'
    BY <1>2, <2>1, <2>2 DEF JobShape, Controlled, Forced
  <2>4. Diagnosed(s)'
    <3> SUFFICES ASSUME Clean(s)'
                 PROVE  /\ \A x \in Sids : db'[x] > 0 =>
                             (x.content = raw'[x.path]
                                <=> x.path \notin job'[s].ghosts \cup job'[s].mismatches)
                        /\ \A q \in job'[s].mismatches : raw'[q] # Absent
      BY <2>1, <2>2 DEF Diagnosed
    <3>1. Clean(s) /\ Diagnosed(s)
      BY <1>2, <1>5, <1>8, SessionFacts DEF Clean, Updated
    <3>2. /\ \A x \in Sids : db[x] > 0 =>
                (x.content = raw[x.path] <=> x.path \notin job[s].mismatches)
          /\ \A q \in job[s].mismatches : raw[q] # Absent
      BY <1>2, <3>1 DEF Diagnosed
    <3>3. \A x \in Sids : db'[x] > 0 => x.path # p /\ db'[x] = db[x]
      <4>1. nested.kind # "batch"
        BY <1>2, <1>5 DEF Controlled
      <4>2. {Name[q] : q \in {r \in Paths : asked[r] # NoTarget}} = {Name[p]}
        BY <1>3
      <4>3. PICK hashes : db' = Without0(hashes, {}, {Name[p]})
        BY <1>8, <3>1, <4>1, <4>2 DEF Updated, Clean
      <4> QED BY <4>3 DEF Without0
    <3> QED BY <1>2, <2>2, <3>2, <3>3
  <2>5. LastRunIsComplete(s)'
    BY <2>1 DEF LastRunIsComplete
  <2> QED BY <2>1, <2>3, <2>4, <2>5, RunningInv
<1>9. CASE /\ FindRelativePath(Name[p]) = {}
           /\ job' = [job EXCEPT ![s] = next]
           /\ UNCHANGED <<db, pc, plan, faults>>
  <2>1. raw[p] = Absent
    BY <1>3, <1>9 DEF FindRelativePath
  <2>2. ~Clean(s)
    BY <1>2, <2>1, SessionFacts DEF Diagnosed
  <2>3. job'[s] = next /\ pc'[s] = "repair"
    BY <1>2, <1>9, SessionFacts DEF TypeOK
  <2>4. job'[s].clean = FALSE
    BY <1>2, <1>4, <2>2, <2>3, SessionFacts DEF Clean, Jobs
  <2>5. JobShape(s)'
    BY <1>2, <1>4, <2>3, SessionFacts
       DEF JobShape, Controlled, Forced, Targets, LastRun, Marking, Indexing
  <2> QED BY <2>4, <2>5, UncleanInv
<1> QED BY <1>3, <1>5, <1>6, <1>7, <1>8, <1>9, SessionFacts, UpdateStep

\* The files the administrator asked for are found by their names.
LEMMA UpdateAskedFilesInv ==
    ASSUME CleanInv, UniqueNames, NEW s \in Sessions, UpdateAskedFiles(s)
    PROVE  SessionInv(s)'
<1>1. /\ UNCHANGED <<raw, manifest, json>> /\ pc[s] = "update"
      /\ job[s].kind \in {"single", "batch"} /\ ~Controlled(s) /\ ~job[s].nested
  BY SessionFacts DEF UpdateAskedFiles, JobShape, Controlled
<1>2. job[s] \in Jobs /\ job[s].asked \in [Paths -> Labels \cup {NoTarget}]
  BY SessionFacts DEF Jobs
<1>3. CASE Raise(s) \/ EndJob(s, "completed", job[s].clean)
  BY <1>1, <1>3, SessionFacts, EndJobInv DEF Raise
<1>4. ASSUME NEW found, Updated(s, job[s].asked, job[s], found)
      PROVE  SessionInv(s)'
  <2>1. PlanIsFresh(s)' /\ Marking(s)' /\ ~LastRun(s)' /\ ~Indexing(s)' /\ pc'[s] # "idle"
    BY <1>1, <1>2, <1>4, UpdatedPlan
  <2>2. /\ job'[s].kind = job[s].kind /\ ~job'[s].nested /\ job'[s].dups = job[s].dups
        /\ pc'[s] = "mark" \/ (pc'[s] = "cleanfiles" /\ plan'[s].ret = "mark")
    BY <1>1, <1>4 DEF Updated
  <2>3. JobShape(s)'
    BY <1>1, <2>1, <2>2, SessionFacts DEF JobShape, Controlled, Forced
  <2>4. Diagnosed(s)' /\ LastRunIsComplete(s)'
    BY <1>1, <2>1, <2>2 DEF Diagnosed, LastRunIsComplete, Controlled
  <2> QED BY <2>1, <2>3, <2>4, RunningInv
<1> QED BY <1>2, <1>3, <1>4, SessionFacts, UpdateStep DEF UpdateAskedFiles

-----------------------------------------------------------------------------
(* How a job starts, and what happens around it.                           *)

LEMMA BeginShape ==
    ASSUME CleanInv, NEW s \in Sessions, NEW new \in Jobs, BeginJob(s, new), plan' = plan,
           pc[s] = "idle", UNCHANGED <<raw, manifest, json, db>>,
           ~new.nested, ~new.diagnosed, new.dups = {},
           \/ /\ pc'[s] = "repair" /\ new.kind \in {"full", "force"}
              /\ new.asked = NothingAsked
           \/ pc'[s] = "scan" /\ new.kind = "cli"
           \/ pc'[s] = "update" /\ new.kind \in {"single", "batch"}
    PROVE  SessionInv(s)'
<1> DEFINE alone == \A u \in Sessions \ {s} : pc[u] = "idle"
<1>1. job'[s] = [new EXCEPT !.clean = alone]
  BY DEF BeginJob
<1> HIDE DEF alone
<1>2. /\ job'[s].kind = new.kind /\ job'[s].nested = new.nested
      /\ job'[s].asked = new.asked /\ job'[s].dups = new.dups
      /\ job'[s].diagnosed = new.diagnosed
  BY <1>1 DEF Jobs
<1>3. plan'[s] = NoPlan /\ NoPlan.parsed = {} /\ pc'[s] \in {"repair", "scan", "update"}
  BY SessionFacts, EmptyPlanParsed DEF JobShape
<1>4. new.asked = NothingAsked => Targets(s)' = {}
  BY <1>2 DEF Targets, NothingAsked
<1>5. JobShape(s)' /\ ~LastRun(s)' /\ ~Marking(s)' /\ ~Indexing(s)'
  BY <1>2, <1>3, <1>4 DEF JobShape, Controlled, Forced, LastRun, Marking, Indexing
<1>6. Diagnosed(s)' /\ PlanIsFresh(s)' /\ LastRunIsComplete(s)'
  BY <1>2, <1>3, <1>5 DEF Diagnosed, PlanIsFresh, LastRunIsComplete
<1> QED BY <1>3, <1>5, <1>6, RunningInv

LEMMA StartInv ==
    ASSUME CleanInv, NEW s \in Sessions,
           StartSync(s) \/ StartCli(s) \/ StartSingleFileSync(s) \/ StartMultipleFilesSync(s)
    PROVE  SessionInv(s)'
<1>1. /\ plan' = plan /\ pc[s] = "idle" /\ UNCHANGED <<raw, manifest, json, db>>
  BY DEF StartSync, StartCli, StartSingleFileSync, StartMultipleFilesSync, stores
<1>2. CASE StartSync(s)
  <2>1. PICK kind \in {"full", "force"}, parser \in Parsers :
           BeginJob(s, [NoJob EXCEPT !.kind = kind, !.parser = parser])
    BY <1>2 DEF StartSync
  <2> DEFINE j == [NoJob EXCEPT !.kind = kind, !.parser = parser]
  <2>2. /\ j \in Jobs /\ j.kind = kind /\ ~j.nested /\ ~j.diagnosed /\ j.dups = {}
        /\ j.asked = NothingAsked
    BY LabelTypes, EmptyRecordTypes DEF NoJob, Jobs
  <2> HIDE DEF j
  <2>3. pc'[s] = "repair" /\ BeginJob(s, j)
    BY <1>2, <2>1, SessionFacts DEF StartSync, Goto, TypeOK, j
  <2> QED BY <1>1, <2>2, <2>3, BeginShape
<1>3. CASE StartCli(s)
  <2> DEFINE j == [NoJob EXCEPT !.kind = "cli"]
  <2>2. j \in Jobs /\ j.kind = "cli" /\ ~j.nested /\ ~j.diagnosed /\ j.dups = {}
    BY EmptyRecordTypes DEF NoJob, Jobs
  <2> HIDE DEF j
  <2>3. pc'[s] = "scan" /\ BeginJob(s, j)
    BY <1>3, SessionFacts DEF StartCli, Goto, TypeOK, j
  <2> QED BY <1>1, <2>2, <2>3, BeginShape
<1>4. CASE StartSingleFileSync(s) \/ StartMultipleFilesSync(s)
  <2>1. PICK kind \in {"single", "batch"}, asked \in [Paths -> Labels \cup {NoTarget}] :
           BeginJob(s, [NoJob EXCEPT !.kind = kind, !.asked = asked])
    <3>1. CASE StartSingleFileSync(s)
      <4>1. PICK p \in Paths, parser \in Labels :
               BeginJob(s, [NoJob EXCEPT !.kind = "single",
                                         !.asked = [NothingAsked EXCEPT ![p] = parser]])
        BY <3>1 DEF StartSingleFileSync
      <4>2. [NothingAsked EXCEPT ![p] = parser] \in [Paths -> Labels \cup {NoTarget}]
        BY EmptyRecordTypes
      <4> QED BY <4>1, <4>2
    <3>2. CASE StartMultipleFilesSync(s)
      <4>1. PICK asked \in [Paths -> Parsers \cup {NoTarget}] :
               BeginJob(s, [NoJob EXCEPT !.kind = "batch", !.asked = asked])
        BY <3>2 DEF StartMultipleFilesSync
      <4>2. asked \in [Paths -> Labels \cup {NoTarget}]
        BY LabelTypes
      <4> QED BY <4>1, <4>2
    <3> QED BY <1>4, <3>1, <3>2
  <2> DEFINE j == [NoJob EXCEPT !.kind = kind, !.asked = asked]
  <2>2. j \in Jobs /\ j.kind = kind /\ ~j.nested /\ ~j.diagnosed /\ j.dups = {}
    BY EmptyRecordTypes DEF NoJob, Jobs
  <2> HIDE DEF j
  <2>3. pc'[s] = "update" /\ BeginJob(s, j)
    BY <1>4, <2>1, SessionFacts
       DEF StartSingleFileSync, StartMultipleFilesSync, Goto, TypeOK, j
  <2> QED BY <1>1, <2>1, <2>2, <2>3, BeginShape
<1> QED BY <1>2, <1>3, <1>4

\* What the invariant says of a session does not look at the cancel flag.
LEMMA SameSessionInv ==
    ASSUME NEW s \in Sessions, SessionInv(s), UNCHANGED <<stores, pc, plan>>,
           job'[s].kind = job[s].kind, job'[s].nested = job[s].nested,
           job'[s].asked = job[s].asked, job'[s].dups = job[s].dups,
           job'[s].diagnosed = job[s].diagnosed, job'[s].ghosts = job[s].ghosts,
           job'[s].mismatches = job[s].mismatches, job'[s].clean = job[s].clean,
           job'[s].outcome = job[s].outcome
    PROVE  SessionInv(s)'
<1>1. /\ Controlled(s)' = Controlled(s) /\ Forced(s)' = Forced(s) /\ Clean(s)' = Clean(s)
      /\ Marking(s)' = Marking(s) /\ Indexing(s)' = Indexing(s)
      /\ Targets(s)' = Targets(s)
  BY DEF Controlled, Forced, Clean, Marking, Indexing, Targets
<1>2. LastRun(s)' = LastRun(s)
  BY <1>1 DEF LastRun
<1>3. JobShape(s)'
  BY <1>1, <1>2 DEF SessionInv, JobShape
<1>4. Diagnosed(s)'
  BY <1>1, <1>2 DEF SessionInv, Diagnosed, stores
<1>5. \A p : InSync(p)' = InSync(p) /\ ChunksOf(p)' = ChunksOf(p) /\ Made(s, p)' = Made(s, p)
  BY DEF InSync, Current, HashOf, ChunkParser, ChunksOf, Made, stores
<1>6. PlanIsFresh(s)'
  BY <1>1, <1>5 DEF SessionInv, PlanIsFresh, HashOf, Spares, stores
<1>7. LastRunIsComplete(s)'
  BY <1>1, <1>2, <1>5 DEF SessionInv, LastRunIsComplete, HashOf, Spares, Indexable, stores
<1>8. CleanlySynced(s)' => Mirrored' /\ NothingLeft'
  <2>1. CleanlySynced(s)' = CleanlySynced(s)
    BY DEF CleanlySynced
  <2>2. Mirrored' = Mirrored
    BY <1>5 DEF Mirrored, stores
  <2>3. NothingLeft' = NothingLeft
    BY DEF NothingLeft, FilesToProcess, UpToDate, NewManifest, FileParser, HashOf, SourceCount,
       stores
  <2> QED BY <2>1, <2>2, <2>3 DEF SessionInv
<1> QED BY <1>3, <1>4, <1>6, <1>7, <1>8 DEF SessionInv

LEMMA RequestCancelInv ==
    ASSUME CleanInv, NEW s \in Sessions, RequestCancel(s)
    PROVE  SessionInv(s)'
<1> DEFINE j == [job[s] EXCEPT !.cancel = TRUE]
<1>1. /\ j.kind = job[s].kind /\ j.nested = job[s].nested /\ j.asked = job[s].asked
      /\ j.dups = job[s].dups /\ j.diagnosed = job[s].diagnosed /\ j.ghosts = job[s].ghosts
      /\ j.mismatches = job[s].mismatches /\ j.clean = job[s].clean
      /\ j.outcome = job[s].outcome
  BY SessionFacts DEF Jobs
<1>2. job'[s] = j /\ UNCHANGED <<stores, pc, plan>>
  BY SessionFacts DEF RequestCancel, TypeOK
<1> HIDE DEF j
<1> QED BY <1>1, <1>2, SameSessionInv DEF CleanInv

LEMMA EditInv ==
    ASSUME CleanInv, NEW s \in Sessions, Edit
    PROVE  SessionInv(s)'
<1> DEFINE j == [job[s] EXCEPT !.clean = FALSE]
<1>1. /\ j.kind = job[s].kind /\ j.nested = job[s].nested /\ j.asked = job[s].asked
      /\ j.dups = job[s].dups /\ j.diagnosed = job[s].diagnosed /\ j.ghosts = job[s].ghosts
      /\ j.mismatches = job[s].mismatches /\ j.clean = FALSE
  BY SessionFacts DEF Jobs
<1>2. job'[s] = j /\ UNCHANGED <<pc, plan>>
  BY DEF Edit
<1> HIDE DEF j
<1>3. JobShape(s)'
  BY <1>1, <1>2, SessionFacts
     DEF JobShape, Controlled, Forced, Targets, LastRun, Marking, Indexing
<1> QED BY <1>1, <1>2, <1>3, UncleanInv

LEMMA CrashInv ==
    ASSUME NEW s \in Sessions, Crash
    PROVE  SessionInv(s)'
<1>1. pc'[s] = "idle" /\ job'[s] = NoJob /\ plan'[s] = NoPlan
  BY DEF Crash
<1>2. ~NoJob.nested /\ NoJob.dups = {} /\ NoJob.asked = NothingAsked /\ NoJob.clean = FALSE
  BY DEF NoJob
<1> QED BY <1>1, <1>2, IdleShape, UncleanInv

LEMMA StutterInv ==
    ASSUME CleanInv, NEW s \in Sessions, UNCHANGED vars
    PROVE  SessionInv(s)'
<1>1. job'[s] = job[s] /\ UNCHANGED <<stores, pc, plan>>
  BY DEF vars
<1>2. SessionInv(s)
  BY DEF CleanInv
<1> QED BY <1>1, <1>2, SameSessionInv

-----------------------------------------------------------------------------
(* The repair.                                                             *)

\* A file has the chunks of one source id, if any.
LEMMA OneChunkId ==
    ASSUME CleanInv, NEW x \in Sids, db[x] > 0
    PROVE  /\ ChunksOf(x.path) = {x} /\ ParsersOf(x.path) = {x.parser}
           /\ Cardinality(ParsersOf(x.path)) = 1
           /\ HashOf(x.path, x.parser) \in ChunksOf(x.path) <=> x.content = raw[x.path]
<1>1. ChunksOf(x.path) = {x}
  <2>1. \A y, z \in Sids : y.path = z.path /\ db[y] > 0 /\ db[z] > 0 => y = z
    BY DEF CleanInv, IndexInv, IndexOK, OneVersionPerFile
  <2> QED BY <2>1 DEF ChunksOf
<1>2. ParsersOf(x.path) = {x.parser}
  BY <1>1 DEF ParsersOf
<1>3. Cardinality({x.parser}) = 1
  BY FS_Singleton
<1>4. x = [path |-> x.path, content |-> x.content, parser |-> x.parser]
  BY DEF Sids
<1> QED BY <1>1, <1>2, <1>3, <1>4 DEF HashOf

\* What check_database_status finds is what has to be repaired.
LEMMA DiagnoseInv ==
    ASSUME CleanInv, NEW s \in Sessions, Diagnose(s)
    PROVE  SessionInv(s)'
<1> DEFINE chunked == {p \in Paths : ChunksOf(p) # {}}
           present == {p \in chunked : raw[p] # Absent}
<1>1. /\ pc[s] = "repair" /\ UNCHANGED <<stores, pc, plan>>
      /\ Controlled(s) /\ ~job[s].nested /\ Targets(s) = {} /\ job[s].dups = {}
  BY SessionFacts DEF Diagnose, JobShape
<1>2. ASSUME job'[s].kind = job[s].kind, job'[s].nested = job[s].nested,
             job'[s].asked = job[s].asked, job'[s].dups = {}
      PROVE  JobShape(s)' /\ ~LastRun(s)' /\ ~Marking(s)' /\ ~Indexing(s)'
  BY <1>1, <1>2, SessionFacts
     DEF JobShape, Controlled, Forced, Targets, LastRun, Marking, Indexing
<1>3. CASE job' = [job EXCEPT ![s].diagnosed = TRUE, ![s].clean = FALSE]
  <2>1. /\ job'[s].kind = job[s].kind /\ job'[s].nested = job[s].nested
        /\ job'[s].asked = job[s].asked /\ job'[s].dups = job[s].dups
        /\ job'[s].clean = FALSE
    BY <1>3, SessionFacts DEF TypeOK, Jobs
  <2> QED BY <1>1, <1>2, <2>1, UncleanInv
<1>4. ASSUME NEW pick \in [present -> Labels], \A p \in present : pick[p] \in ParsersOf(p),
             job' = [job EXCEPT ![s].diagnosed = TRUE,
                        ![s].ghosts = chunked \ present,
                        ![s].dups = {p \in present : Cardinality(ParsersOf(p)) > 1},
                        ![s].mismatches = {p \in present : HashOf(p, pick[p]) \notin ChunksOf(p)}]
      PROVE  SessionInv(s)'
  <2>1. \A p \in present : \E x \in Sids : db[x] > 0 /\ x.path = p /\ pick[p] = x.parser
    BY <1>4 DEF ParsersOf, ChunksOf
  <2>2. {p \in present : Cardinality(ParsersOf(p)) > 1} = {}
    <3> SUFFICES ASSUME NEW p \in present PROVE ~(Cardinality(ParsersOf(p)) > 1)
      OBVIOUS
    <3>1. PICK x \in Sids : db[x] > 0 /\ x.path = p
      BY <2>1
    <3> QED BY <3>1, OneChunkId
  <2> DEFINE ghosts == chunked \ present
             mismatches == {p \in present : HashOf(p, pick[p]) \notin ChunksOf(p)}
  <2>3. /\ job'[s].kind = job[s].kind /\ job'[s].nested = job[s].nested
        /\ job'[s].asked = job[s].asked /\ job'[s].dups = {}
        /\ job'[s].clean = job[s].clean
        /\ job'[s].ghosts = ghosts /\ job'[s].mismatches = mismatches
    <3> HIDE DEF ghosts, mismatches, present, chunked
    <3>1. job' = [job EXCEPT ![s].diagnosed = TRUE, ![s].ghosts = ghosts, ![s].dups = {},
                             ![s].mismatches = mismatches]
      BY <1>4, <2>2 DEF ghosts, mismatches
    <3> QED BY <3>1, SessionFacts DEF TypeOK, Jobs
  <2>4. \A x \in Sids : db[x] > 0 =>
           (x.content = raw[x.path] <=> x.path \notin ghosts \cup mismatches)
    <3> SUFFICES ASSUME NEW x \in Sids, db[x] > 0
                 PROVE  x.content = raw[x.path] <=> x.path \notin ghosts \cup mismatches
      OBVIOUS
    <3>1. /\ ChunksOf(x.path) = {x} /\ ParsersOf(x.path) = {x.parser}
          /\ HashOf(x.path, x.parser) \in ChunksOf(x.path) <=> x.content = raw[x.path]
      BY OneChunkId
    <3>2. x.path \in Paths /\ x.content \in Contents /\ Absent \notin Contents
      BY ConstantsOK DEF Sids
    <3>3. x.path \in chunked
      BY <3>1, <3>2
    <3>4. CASE raw[x.path] = Absent
      BY <3>2, <3>3, <3>4
    <3>5. CASE raw[x.path] # Absent
      <4>1. x.path \in present /\ pick[x.path] = x.parser
        BY <1>4, <3>1, <3>3, <3>5
      <4> QED BY <3>1, <4>1
    <3> QED BY <3>4, <3>5
  <2>5. \A p \in mismatches : raw[p] # Absent
    OBVIOUS
  <2> HIDE DEF ghosts, mismatches
  <2>6. JobShape(s)' /\ ~LastRun(s)' /\ ~Marking(s)' /\ ~Indexing(s)'
    BY <1>2, <2>3
  <2>7. Diagnosed(s)'
    BY <1>1, <2>3, <2>4, <2>5, <2>6 DEF Diagnosed, stores
  <2>8. PlanIsFresh(s)'
    <3>1. Clean(s)' => Clean(s) /\ \A x \in plan[s].parsed : x.content = raw[x.path]
      BY <1>1, <2>3, SessionFacts DEF Clean, PlanIsFresh
    <3> QED BY <1>1, <2>6, <3>1 DEF PlanIsFresh, stores
  <2> QED BY <1>1, <2>6, <2>7, <2>8, RunningInv DEF LastRunIsComplete
<1> QED BY <1>3, <1>4 DEF Diagnose

LEMMA RepairDoneInv ==
    ASSUME CleanInv, NEW s \in Sessions, RepairDone(s)
    PROVE  SessionInv(s)'
<1>1. /\ pc[s] = "repair" /\ pc'[s] = "scan" /\ job[s].diagnosed
      /\ job[s].ghosts = {} /\ job[s].mismatches = {}
      /\ UNCHANGED <<stores, job, plan>>
      /\ Controlled(s) /\ ~job[s].nested /\ Targets(s) = {}
  BY SessionFacts DEF RepairDone, JobShape, Goto, TypeOK
<1>2. JobShape(s)' /\ ~Marking(s)' /\ ~Indexing(s)'
  BY <1>1, SessionFacts
     DEF JobShape, Controlled, Forced, Targets, LastRun, Marking, Indexing
<1>3. Clean(s)' => Clean(s)
  BY <1>1 DEF Clean
<1>4. Diagnosed(s)'
  BY <1>1, <1>3, SessionFacts DEF Diagnosed, stores
<1>5. PlanIsFresh(s)'
  BY <1>1, <1>2, <1>3, SessionFacts DEF PlanIsFresh, stores
<1>6. LastRunIsComplete(s)'
  BY <1>1, <1>2 DEF LastRunIsComplete
<1> QED BY <1>1, <1>2, <1>4, <1>5, <1>6, RunningInv

-----------------------------------------------------------------------------
(* The steps of a run that keep its plan.                                  *)

LEMMA MarkForReindexInv ==
    ASSUME CleanInv, NEW s \in Sessions, MarkForReindex(s)
    PROVE  SessionInv(s)'
<1>1. /\ pc[s] = "mark" /\ pc'[s] = "scan" /\ plan'[s] = NoPlan
      /\ UNCHANGED <<raw, json, db>> /\ (job[s].nested \/ ~Controlled(s))
  BY SessionFacts DEF MarkForReindex, Goto, TypeOK, JobShape, Marking
<1>2. ASSUME job'[s].kind = job[s].kind, job'[s].nested = job[s].nested,
             job'[s].asked = job[s].asked, job'[s].dups = job[s].dups,
             job'[s].diagnosed = job[s].diagnosed, job'[s].ghosts = job[s].ghosts
      PROVE  JobShape(s)' /\ ~LastRun(s)' /\ ~Marking(s)' /\ ~Indexing(s)'
  BY <1>1, <1>2, SessionFacts
     DEF JobShape, Controlled, Forced, Targets, LastRun, Marking, Indexing
<1>3. CASE job' = [job EXCEPT ![s].clean = FALSE]
  <2>1. /\ job'[s].kind = job[s].kind /\ job'[s].nested = job[s].nested
        /\ job'[s].asked = job[s].asked /\ job'[s].dups = job[s].dups
        /\ job'[s].diagnosed = job[s].diagnosed /\ job'[s].ghosts = job[s].ghosts
        /\ job'[s].clean = FALSE
    BY <1>3, SessionFacts DEF TypeOK, Jobs
  <2> QED BY <1>2, <2>1, UncleanInv
<1>4. CASE job' = job
  <2>1. JobShape(s)' /\ ~LastRun(s)' /\ ~Marking(s)' /\ ~Indexing(s)'
    BY <1>2, <1>4
  <2>2. Diagnosed(s)'
    BY <1>1, <1>4, <2>1, SessionFacts DEF Diagnosed, Clean, Controlled, Targets
  <2>3. PlanIsFresh(s)'
    BY <1>1, <2>1, EmptyPlanParsed DEF PlanIsFresh
  <2> QED BY <1>1, <2>1, <2>2, <2>3, RunningInv DEF LastRunIsComplete
<1> QED BY <1>3, <1>4 DEF MarkForReindex

\* The JSON files of the files that need not be processed stay.
LEMMA CleanupFilesInv ==
    ASSUME CleanInv, NEW s \in Sessions, CleanupFiles(s)
    PROVE  SessionInv(s)'
<1>1. /\ pc[s] = "cleanfiles" /\ UNCHANGED <<raw, manifest, db>>
      /\ plan[s].ret \in {"repair", "mark", "parse", "savemanifest"}
  BY SessionFacts DEF CleanupFiles, JobShape, FollowsPlan
<1>2. ASSUME pc'[s] = plan[s].ret, plan'[s] = plan[s],
             job'[s].kind = job[s].kind, job'[s].nested = job[s].nested,
             job'[s].asked = job[s].asked, job'[s].dups = job[s].dups,
             job'[s].diagnosed = job[s].diagnosed, job'[s].ghosts = job[s].ghosts
      PROVE  /\ JobShape(s)' /\ Controlled(s)' = Controlled(s) /\ Forced(s)' = Forced(s)
             /\ LastRun(s)' = LastRun(s)
             /\ Marking(s)' = Marking(s) /\ Indexing(s)' = Indexing(s)
  <2>1. /\ Controlled(s)' = Controlled(s) /\ Forced(s)' = Forced(s)
        /\ Targets(s)' = Targets(s)
    BY <1>2 DEF Controlled, Forced, Targets
  <2>2. Marking(s)' = Marking(s) /\ Indexing(s)' = Indexing(s)
    BY <1>1, <1>2 DEF Marking, Indexing
  <2>3. LastRun(s)' = LastRun(s)
    BY <1>1, <1>2, <2>1, <2>2 DEF LastRun
  <2> QED BY <1>1, <1>2, <2>1, <2>2, <2>3, SessionFacts DEF JobShape
<1>3. CASE Raise(s)
  BY <1>3, SessionFacts, EndJobInv DEF Raise
<1>4. CASE Goto(s, plan[s].ret) /\ job' = [job EXCEPT ![s].clean = FALSE] /\ plan' = plan
  <2>1. /\ job'[s].kind = job[s].kind /\ job'[s].nested = job[s].nested
        /\ job'[s].asked = job[s].asked /\ job'[s].dups = job[s].dups
        /\ job'[s].diagnosed = job[s].diagnosed /\ job'[s].ghosts = job[s].ghosts
        /\ job'[s].clean = FALSE
    BY <1>4, SessionFacts DEF TypeOK, Jobs
  <2>2. pc'[s] = plan[s].ret
    BY <1>4, SessionFacts DEF Goto, TypeOK
  <2> QED BY <1>2, <1>4, <2>1, <2>2, UncleanInv
<1>5. CASE /\ json' = json \ ({x \in json : x \in plan[s].gone}
                                \cup {x \in json : x.path \in plan[s].rels})
           /\ Goto(s, plan[s].ret) /\ job' = job /\ plan' = plan
  <2>1. pc'[s] = plan[s].ret
    BY <1>5, SessionFacts DEF Goto, TypeOK
  <2>2. /\ JobShape(s)' /\ Controlled(s)' = Controlled(s) /\ Forced(s)' = Forced(s)
        /\ LastRun(s)' = LastRun(s)
        /\ Marking(s)' = Marking(s) /\ Indexing(s)' = Indexing(s)
    BY <1>2, <1>5, <2>1
  <2>3. Clean(s)' => Clean(s)
    BY <1>1, <1>5 DEF Clean
  <2>4. Diagnosed(s)'
    BY <1>1, <1>5, <2>2, <2>3, SessionFacts DEF Diagnosed, Targets
  <2>5. PlanIsFresh(s)'
    BY <1>1, <1>5, <2>1, <2>2, <2>3, SessionFacts DEF PlanIsFresh, Targets, HashOf
  <2>6. LastRunIsComplete(s)'
    <3> SUFFICES ASSUME Clean(s)', LastRun(s)' PROVE LastRunIsComplete(s)'
      BY DEF LastRunIsComplete
    <3>1. Clean(s) /\ LastRun(s) /\ Indexing(s) /\ plan[s].ret \in {"parse", "savemanifest"}
      BY <1>1, <2>2, <2>3 DEF LastRun, Indexing
    <3>2. /\ plan[s].left = plan[s].files
          /\ plan[s].ret = "savemanifest" => plan[s].files = {}
          /\ \A p \in Paths : raw[p] # Absent =>
                /\ plan[s].new[p] # NoEntry
                /\ plan[s].new[p].hash = HashOf(p, plan[s].new[p].parser)
          /\ \A p \in Paths : Indexable(p) /\ p \notin plan[s].files =>
                /\ ChunksOf(p) # {} /\ plan[s].new[p].hash \in json
                /\ Spares(p, plan[s].rels, plan[s].gone)
      BY <1>1, <3>1, SessionFacts DEF LastRunIsComplete
    <3>3. ASSUME NEW p \in Paths, Indexable(p), p \notin plan[s].files
          PROVE  plan[s].new[p].hash \in json'
      <4>1. raw[p] # Absent
        BY <3>3 DEF Indexable
      <4>2. plan[s].new[p].hash = HashOf(p, plan[s].new[p].parser)
        BY <3>2, <4>1
      <4>3. plan[s].new[p].hash.path = p
        BY <4>2 DEF HashOf
      <4> QED BY <1>5, <3>2, <3>3, <4>3 DEF Spares
    <3> QED BY <1>1, <1>5, <2>1, <3>1, <3>2, <3>3
            DEF LastRunIsComplete, Indexable, ChunksOf, HashOf
  <2> QED BY <1>1, <2>1, <2>2, <2>4, <2>5, <2>6, RunningInv
<1> QED BY <1>3, <1>4, <1>5 DEF CleanupFiles

LEMMA ParseAbortedInv ==
    ASSUME CleanInv, NEW s \in Sessions, ParseAborted(s)
    PROVE  SessionInv(s)'
BY SessionFacts, EndJobInv DEF ParseAborted, Raise

LEMMA SaveJsonInv ==
    ASSUME CleanInv, NEW s \in Sessions, SaveJson(s)
    PROVE  SessionInv(s)'
<1>1. CASE Raise(s) \/ EndJob(s, "cancelled", FALSE)
  BY <1>1, SessionFacts, EndJobInv DEF Raise
<1>2. CASE Goto(s, "upsert") /\ UNCHANGED <<job, plan>> /\ json' = json \cup plan[s].parsed
  <2>1. /\ pc[s] = "save" /\ pc'[s] = "upsert" /\ UNCHANGED <<raw, manifest, db>>
    BY <1>2, SessionFacts DEF SaveJson, Goto, TypeOK
  <2>2. /\ Controlled(s)' = Controlled(s) /\ Forced(s)' = Forced(s) /\ Clean(s)' = Clean(s)
        /\ ~Marking(s)' /\ Indexing(s)' /\ Indexing(s) /\ Targets(s)' = Targets(s)
    BY <1>2, <2>1 DEF Controlled, Forced, Clean, Marking, Indexing, Targets
  <2>3. LastRun(s)' = LastRun(s)
    BY <1>2, <2>2 DEF LastRun
  <2>4. JobShape(s)'
    BY <1>2, <2>1, <2>2, <2>3, SessionFacts DEF JobShape
  <2>5. Diagnosed(s)'
    BY <1>2, <2>1, <2>2, <2>3, SessionFacts DEF Diagnosed
  <2>6. PlanIsFresh(s)'
    BY <1>2, <2>1, <2>2, SessionFacts DEF PlanIsFresh, HashOf
  <2>7. LastRunIsComplete(s)'
    BY <1>2, <2>1, <2>2, <2>3, SessionFacts
       DEF LastRunIsComplete, Indexable, ChunksOf, HashOf, Made, ChunkParser
  <2> QED BY <2>1, <2>4, <2>5, <2>6, <2>7, RunningInv
<1> QED BY <1>1, <1>2 DEF SaveJson

\* What is upserted is of the files as they are, and of no file still to repair.
LEMMA UpsertInv ==
    ASSUME CleanInv, NEW s \in Sessions, Upsert(s)
    PROVE  SessionInv(s)'
<1>1. /\ pc[s] = "upsert" /\ pc'[s] = "savemanifest" /\ UNCHANGED <<raw, manifest, json, plan>>
  BY SessionFacts DEF Upsert, Goto, TypeOK
<1>2. ASSUME job'[s].kind = job[s].kind, job'[s].nested = job[s].nested,
             job'[s].asked = job[s].asked, job'[s].dups = job[s].dups,
             job'[s].diagnosed = job[s].diagnosed, job'[s].ghosts = job[s].ghosts
      PROVE  /\ JobShape(s)' /\ Controlled(s)' = Controlled(s) /\ Forced(s)' = Forced(s)
             /\ LastRun(s)' = LastRun(s) /\ ~Marking(s)' /\ Indexing(s)' /\ Indexing(s)
  <2>1. /\ Controlled(s)' = Controlled(s) /\ Forced(s)' = Forced(s)
        /\ Targets(s)' = Targets(s) /\ ~Marking(s)' /\ Indexing(s)' /\ Indexing(s)
    BY <1>1, <1>2 DEF Controlled, Forced, Targets, Marking, Indexing
  <2>2. LastRun(s)' = LastRun(s)
    BY <1>2, <2>1 DEF LastRun
  <2> QED BY <1>1, <1>2, <2>1, <2>2, SessionFacts DEF JobShape
<1>3. CASE job' = [job EXCEPT ![s].clean = FALSE]
  <2>1. /\ job'[s].kind = job[s].kind /\ job'[s].nested = job[s].nested
        /\ job'[s].asked = job[s].asked /\ job'[s].dups = job[s].dups
        /\ job'[s].diagnosed = job[s].diagnosed /\ job'[s].ghosts = job[s].ghosts
        /\ job'[s].clean = FALSE
    BY <1>3, SessionFacts DEF TypeOK, Jobs
  <2> QED BY <1>2, <2>1, UncleanInv
<1>4. CASE /\ db' = [x \in Sids |-> IF x \in plan[s].parsed THEN db[x] + 1 ELSE db[x]]
           /\ job' = job
  <2>1. /\ JobShape(s)' /\ Controlled(s)' = Controlled(s) /\ Forced(s)' = Forced(s)
        /\ LastRun(s)' = LastRun(s) /\ ~Marking(s)' /\ Indexing(s)' /\ Indexing(s)
        /\ Clean(s)' => Clean(s)
    BY <1>1, <1>2, <1>4 DEF Clean
  <2>2. /\ \A x \in Sids : db'[x] > 0 => db[x] > 0 \/ x \in plan[s].parsed
        /\ \A x \in Sids : db[x] > 0 \/ x \in plan[s].parsed => db'[x] > 0
    BY <1>4, SessionFacts
  <2>3. Diagnosed(s)'
    <3> SUFFICES ASSUME Clean(s)', Controlled(s)', job'[s].diagnosed
                 PROVE  /\ \A x \in Sids : db'[x] > 0 =>
                             (x.content = raw'[x.path]
                                <=> x.path \notin job'[s].ghosts \cup job'[s].mismatches)
                        /\ \A p \in job'[s].mismatches : raw'[p] # Absent
                        /\ job'[s].nested => Targets(s)' \cap job'[s].mismatches = {}
                        /\ LastRun(s)' => job'[s].ghosts = {} /\ job'[s].mismatches = {}
      BY DEF Diagnosed
    <3>1. Clean(s) /\ Controlled(s) /\ job[s].diagnosed /\ Targets(s)' = Targets(s)
      BY <1>4, <2>1 DEF Targets
    <3>2. ASSUME NEW x \in plan[s].parsed
          PROVE  x.content = raw[x.path] /\ x.path \notin job[s].ghosts \cup job[s].mismatches
      <4>1. x.content = raw[x.path]
        BY <3>1, SessionFacts DEF PlanIsFresh
      <4>2. x.path \in plan[s].files
        BY SessionFacts DEF FollowsPlan
      <4>3. CASE job[s].nested
        BY <2>1, <3>1, <4>1, <4>2, <4>3, SessionFacts DEF PlanIsFresh, Diagnosed, JobShape
      <4>4. CASE ~job[s].nested
        BY <2>1, <3>1, <4>1, <4>4, SessionFacts DEF Diagnosed, LastRun
      <4> QED BY <4>3, <4>4
    <3>3. /\ \A x \in Sids : db[x] > 0 =>
                (x.content = raw[x.path] <=> x.path \notin job[s].ghosts \cup job[s].mismatches)
          /\ \A p \in job[s].mismatches : raw[p] # Absent
          /\ job[s].nested => Targets(s) \cap job[s].mismatches = {}
          /\ LastRun(s) => job[s].ghosts = {} /\ job[s].mismatches = {}
      BY <3>1, SessionFacts DEF Diagnosed
    <3> QED BY <1>1, <1>4, <2>1, <2>2, <3>1, <3>2, <3>3
  <2>4. PlanIsFresh(s)'
    BY <1>1, <1>4, <2>1, SessionFacts DEF PlanIsFresh, HashOf, Targets
  <2>5. LastRunIsComplete(s)'
    <3> SUFFICES ASSUME Clean(s)', LastRun(s)' PROVE LastRunIsComplete(s)'
      BY DEF LastRunIsComplete
    <3>1. Clean(s) /\ LastRun(s)
      BY <2>1
    <3>2. /\ plan[s].left = {}
          /\ \A p \in Paths : raw[p] # Absent =>
                /\ plan[s].new[p] # NoEntry
                /\ plan[s].new[p].hash = HashOf(p, plan[s].new[p].parser)
          /\ \A p \in Paths : Indexable(p) /\ p \notin plan[s].files =>
                ChunksOf(p) # {} /\ plan[s].new[p].hash \in json
          /\ \A p \in plan[s].files : Indexable(p) => Made(s, p) \in plan[s].parsed
      BY <1>1, <2>1, <3>1, SessionFacts DEF LastRunIsComplete
    <3>3. \A p \in Paths : ChunksOf(p) \subseteq ChunksOf(p)'
      BY <2>2 DEF ChunksOf
    <3>4. ASSUME NEW p \in plan[s].files, Indexable(p)
          PROVE  ChunksOf(p)' # {} /\ Made(s, p) \in json
      <4>1. Made(s, p) \in plan[s].parsed /\ Made(s, p).path = p
        BY <3>2, <3>4 DEF Made, HashOf
      <4>2. Made(s, p) \in Sids /\ Made(s, p) \in json
        BY <1>1, <4>1, SessionFacts, PlanTypes DEF FollowsPlan
      <4> QED BY <2>2, <4>1, <4>2 DEF ChunksOf
    <3>5. \A p : Made(s, p)' = Made(s, p)
      BY <1>1 DEF Made, HashOf, ChunkParser
    <3> QED BY <1>1, <2>1, <3>1, <3>2, <3>3, <3>4, <3>5
            DEF LastRunIsComplete, Indexable, HashOf
  <2> QED BY <1>1, <2>1, <2>3, <2>4, <2>5, RunningInv
<1> QED BY <1>3, <1>4 DEF Upsert

-----------------------------------------------------------------------------
(* How a run ends.                                                         *)

\* A nested run returns to the repair loop; the last run of a clean sync leaves
\* the index as the files are.
LEMMA RunDoneInv ==
    ASSUME CleanInv, NEW s \in Sessions, NEW clean \in BOOLEAN, RunDone(s, clean),
           clean => job[s].clean, pc[s] # "idle", UNCHANGED <<raw, db>>,
           Clean(s) /\ clean /\ Controlled(s) /\ ~job[s].nested => Mirrored' /\ NothingLeft'
    PROVE  SessionInv(s)'
<1>1. CASE ~job[s].nested /\ EndJob(s, "completed", clean)
  <2>1. CASE clean = FALSE \/ ~Controlled(s)
    BY <1>1, <2>1, SessionFacts, EndJobInv
  <2>2. CASE clean /\ Controlled(s)
    <3>1. Mirrored' /\ NothingLeft'
      BY <1>1, <2>2 DEF Clean
    <3>2. JobShape(s)' /\ ~Clean(s)'
      BY <1>1, SessionFacts, EndJobFacts, IdleShape DEF Clean
    <3> QED BY <3>1, <3>2 DEF SessionInv, Diagnosed, PlanIsFresh, LastRunIsComplete
  <2> QED BY <2>1, <2>2
<1>2. CASE /\ job[s].nested /\ Goto(s, "repair")
           /\ job' = [job EXCEPT ![s].nested = FALSE, ![s].asked = NothingAsked,
                                ![s].clean = clean]
           /\ plan' = [plan EXCEPT ![s] = NoPlan]
  <2>1. /\ pc'[s] = "repair" /\ plan'[s] = NoPlan
        /\ job'[s].kind = job[s].kind /\ ~job'[s].nested /\ job'[s].asked = NothingAsked
        /\ job'[s].dups = job[s].dups /\ job'[s].diagnosed = job[s].diagnosed
        /\ job'[s].ghosts = job[s].ghosts /\ job'[s].mismatches = job[s].mismatches
        /\ job'[s].clean = clean
    BY <1>2, SessionFacts DEF Goto, TypeOK, Jobs
  <2>2. Controlled(s) /\ Controlled(s)' /\ Targets(s)' = {}
    <3>1. Controlled(s)
      BY <1>2, SessionFacts DEF JobShape
    <3>2. Targets(s)' = {}
      BY <2>1 DEF Targets, NothingAsked
    <3> QED BY <2>1, <3>1, <3>2 DEF Controlled
  <2>3. JobShape(s)' /\ ~LastRun(s)' /\ ~Marking(s)' /\ ~Indexing(s)'
    BY <2>1, <2>2, SessionFacts DEF JobShape, Forced, LastRun, Marking, Indexing
  <2>4. Clean(s)' => Clean(s)
    BY <2>1 DEF Clean
  <2>5. Diagnosed(s)'
    BY <2>1, <2>2, <2>3, <2>4, SessionFacts DEF Diagnosed
  <2>6. PlanIsFresh(s)'
    BY <2>1, <2>3, EmptyPlanParsed DEF PlanIsFresh
  <2> QED BY <2>1, <2>3, <2>5, <2>6, RunningInv DEF LastRunIsComplete
<1> QED BY <1>1, <1>2 DEF RunDone

\* After the repair every chunk is of the file as it is.
LEMMA LastRunCurrent ==
    ASSUME CleanInv, NEW s \in Sessions, Clean(s), LastRun(s)
    PROVE  \A x \in Sids : db[x] > 0 => x.content = raw[x.path]
<1>1. job[s].diagnosed /\ Controlled(s)
  BY SessionFacts DEF JobShape, LastRun
<1> QED BY <1>1, SessionFacts DEF Diagnosed

LEMMA SaveManifestInv ==
    ASSUME CleanInv, NEW s \in Sessions, SaveManifest(s)
    PROVE  SessionInv(s)'
<1>1. pc[s] = "savemanifest" /\ UNCHANGED <<raw, json, db, globalParser>>
  BY DEF SaveManifest
<1>2. CASE RunDone(s, FALSE)
  BY <1>1, <1>2, RunDoneInv
<1>3. CASE RunDone(s, job[s].clean) /\ manifest' = plan[s].new
  <2>1. job[s].clean \in BOOLEAN
    BY SessionFacts DEF Jobs
  <2>2. ASSUME Clean(s), Controlled(s), ~job[s].nested
        PROVE  Mirrored' /\ NothingLeft'
    <3>1. LastRun(s) /\ Indexing(s)
      BY <1>1, <2>2 DEF LastRun, Indexing
    <3>2. /\ \A p \in Paths : raw[p] # Absent =>
                /\ plan[s].new[p] # NoEntry
                /\ plan[s].new[p].hash = HashOf(p, plan[s].new[p].parser)
          /\ \A p \in Paths : Indexable(p) => ChunksOf(p) # {}
          /\ \A p \in Paths : Indexable(p) =>
                plan[s].new[p].hash \in json \/ Made(s, p) \in json
      BY <1>1, <2>2, <3>1, SessionFacts DEF LastRunIsComplete
    <3>3. Mirrored'
      BY <1>1, <2>2, <3>1, <3>2, LastRunCurrent DEF Mirrored, Indexable, ChunksOf
    <3>4. NothingLeft'
      <4> SUFFICES ASSUME NEW p \in Paths,
                          NewManifest(globalParser)'[p] # NoEntry,
                          ~UpToDate(p, NewManifest(globalParser))',
                          raw[p] \notin Blank, Kind[p] = "pdf"
                   PROVE  FALSE
        BY <1>1 DEF NothingLeft, FilesToProcess
      <4>1. raw[p] # Absent /\ Indexable(p)
        BY <1>1 DEF NewManifest, Indexable
      <4> DEFINE e == plan[s].new[p]
      <4>2. e # NoEntry /\ e.hash = HashOf(p, e.parser) /\ e.hash \in json
        BY <3>2, <4>1 DEF Made, ChunkParser
      <4>3. /\ manifest'[p] = e /\ raw'[p] = raw[p]
            /\ NewManifest(globalParser)'[p] = [hash |-> HashOf(p, e.parser), parser |-> e.parser]
        BY <1>1, <1>3, <4>1, <4>2 DEF NewManifest, FileParser, HashOf
      <4>4. SourceCount(Name[p])'
        BY <1>1, <3>2, <4>1 DEF SourceCount, ChunksOf
      <4> HIDE DEF e
      <4> QED BY <1>1, <4>2, <4>3, <4>4 DEF UpToDate
    <3> QED BY <3>3, <3>4
  <2> QED BY <1>1, <1>3, <2>1, <2>2, RunDoneInv
<1> QED BY <1>2, <1>3 DEF SaveManifest

-----------------------------------------------------------------------------
(* What calculate_delta spares.                                            *)

\* A file that is up to date is neither cleaned up nor processed.
LEMMA UpToDateSpared ==
    ASSUME CleanInv, NEW default, NEW p \in Paths, raw[p] # Absent,
           UpToDate(p, NewManifest(default))
    PROVE  /\ Spares(p, RelPathsToDelete(NewManifest(default)),
                        SourceIdsToDelete(NewManifest(default)))
           /\ NewManifest(default)[p].hash \in json
           /\ UniqueNames => ChunksOf(p) # {}
<1> DEFINE new == NewManifest(default)
<1>1. /\ manifest[p] # NoEntry /\ manifest[p].hash = new[p].hash /\ new[p].hash \in json
      /\ SourceCount(Name[p])
  BY DEF UpToDate
<1>2. new[p] # NoEntry
  <2>1. TypeOK
    BY DEF CleanInv, IndexInv, TypeInv
  <2>2. new[p] = [hash |-> HashOf(p, FileParser(p, default)), parser |-> FileParser(p, default)]
    BY DEF NewManifest
  <2>3. FileParser(p, default) \in Labels
    BY <1>1, <2>1 DEF FileParser, TypeOK, Entries
  <2>4. HashOf(p, FileParser(p, default)) \in Sids
    BY <2>1, <2>3, HashType
  <2>5. [hash |-> HashOf(p, FileParser(p, default)), parser |-> FileParser(p, default)] \in Entries
    BY <2>3, <2>4 DEF Entries
  <2> QED BY <2>2, <2>5, ConstantsOK
<1> HIDE DEF new
<1>3. p \notin RelPathsToDelete(new)
  BY <1>2 DEF RelPathsToDelete, FilesToProcess, new
<1>4. \A x \in SourceIdsToDelete(new) : x.path # p
  <2> SUFFICES ASSUME NEW q \in Paths, manifest[q] # NoEntry, manifest[q].hash # NoHash,
                      new[q] = NoEntry \/ new[q].hash # manifest[q].hash
               PROVE  manifest[q].hash.path # p
    BY DEF SourceIdsToDelete
  <2>1. manifest[q].hash.path = q
    BY DEF CleanInv, HashesAreOwn, OwnHashes
  <2> QED BY <1>1, <1>2, <2>1
<1>5. UniqueNames => ChunksOf(p) # {}
  <2>1. PICK x \in Sids : Name[x.path] = Name[p] /\ db[x] > 0
    BY <1>1 DEF SourceCount
  <2>2. x.path \in Paths
    BY DEF Sids
  <2> QED BY <2>1, <2>2 DEF ChunksOf, UniqueNames
<1> QED BY <1>1, <1>3, <1>4, <1>5 DEF Spares, new

\* So is one that is in sync: its recorded hash is of the parser it is listed with.
LEMMA InSyncUpToDate ==
    ASSUME CleanInv, NEW default, NEW p \in Paths, InSync(p)
    PROVE  UpToDate(p, NewManifest(default))
<1>1. /\ raw[p] # Absent /\ manifest[p] # NoEntry /\ manifest[p].hash = Current(p)
      /\ Current(p) \in json /\ db[Current(p)] = 1
  BY DEF InSync
<1>2. Current(p) \in Sids /\ Current(p).path = p /\ Current(p).content = raw[p]
  BY <1>1, CurrentType, ConstantsOK DEF CleanInv, IndexInv, TypeInv
<1>3. manifest[p].hash.parser = manifest[p].parser
  BY <1>1, <1>2, ConstantsOK DEF CleanInv, HashesAreOwn, OwnHashes
<1>4. Current(p) = HashOf(p, manifest[p].parser)
  BY <1>1, <1>3 DEF Current, HashOf
<1>5. NewManifest(default)[p].hash = Current(p)
  BY <1>1, <1>4 DEF NewManifest, FileParser
<1>6. SourceCount(Name[p])
  BY <1>1, <1>2 DEF SourceCount
<1> QED BY <1>1, <1>5, <1>6 DEF UpToDate

-----------------------------------------------------------------------------
(* run_ingestion, from the plan to the parsed files.                       *)

\* A run that found something to do: its plan covers every file that is not up to
\* date and spares every one that is.
ScanPlan(s, default) ==
    LET new == NewManifest(default)
        limited == Targets(s) # {} IN
    /\ plan'[s].files = IF limited THEN FilesToProcess(new) \cap Targets(s)
                        ELSE FilesToProcess(new)
    /\ plan'[s].left = plan'[s].files
    /\ plan'[s].sids \subseteq SourceIdsToDelete(new)
    /\ plan'[s].rels = RelPathsToDelete(new)
    /\ plan'[s].new = IF limited THEN TargetManifest(new, Targets(s)) ELSE new
    /\ plan'[s].parsed = {}

LEMMA ScanStep ==
    ASSUME CleanInv, NEW s \in Sessions, Scan(s)
    PROVE  \E default \in Labels :
             /\ job[s].kind # "cli" => default = globalParser'
             /\ \/ /\ RunDone(s, job[s].clean)
                   /\ Targets(s) = {} => FilesToProcess(NewManifest(default)) = {}
                \/ /\ pc'[s] = "cleanup" /\ job' = job
                   /\ ScanPlan(s, default)
<1> DEFINE default == IF job[s].kind = "cli" THEN SettingsParser ELSE GlobalParserAfter(s)
           new    == NewManifest(default)
           limited == Targets(s) # {}
           todo   == IF limited THEN FilesToProcess(new) \cap Targets(s)
                     ELSE FilesToProcess(new)
           sids   == IF limited THEN TargetSids(SourceIdsToDelete(new), Targets(s))
                     ELSE SourceIdsToDelete(new)
           final  == IF limited THEN TargetManifest(new, Targets(s)) ELSE new
           rels   == RelPathsToDelete(new)
           pl     == [NoPlan EXCEPT !.files = todo, !.left = todo, !.sids = sids,
                                    !.rels = rels, !.new = final]
<1>1. default \in Labels /\ (job[s].kind # "cli" => default = globalParser')
  BY GlobalParserType, LabelTypes, SessionFacts DEF Scan
<1>2. \/ todo = {} /\ RunDone(s, job[s].clean)
      \/ Goto(s, "cleanup") /\ plan' = [plan EXCEPT ![s] = pl] /\ job' = job
  BY DEF Scan
<1>3. Targets(s) = {} => todo = FilesToProcess(new)
  OBVIOUS
<1>4. sids \subseteq SourceIdsToDelete(new)
  BY DEF TargetSids
<1>5. ASSUME Goto(s, "cleanup"), plan' = [plan EXCEPT ![s] = pl]
      PROVE  pc'[s] = "cleanup" /\ ScanPlan(s, default)
  <2>1. pc'[s] = "cleanup" /\ plan'[s] = pl
    BY <1>5, SessionFacts DEF Goto, TypeOK
  <2>2. /\ pl.files = todo /\ pl.left = todo /\ pl.sids = sids /\ pl.rels = rels
        /\ pl.new = final /\ pl.parsed = {}
    <3> HIDE DEF todo, sids, rels, final
    <3> QED BY DEF NoPlan
  <2>3. /\ plan'[s].files = todo /\ plan'[s].left = todo /\ plan'[s].sids = sids
        /\ plan'[s].rels = rels /\ plan'[s].new = final /\ plan'[s].parsed = {}
    BY <2>1, <2>2
  <2> HIDE DEF pl
  <2> QED BY <1>4, <2>1, <2>3 DEF ScanPlan
<1> HIDE DEF default, new, todo, sids, final, rels, pl
<1> QED BY <1>1, <1>2, <1>3, <1>5 DEF new

\* The source ids and the paths of a plan spare what is up to date.
LEMMA PlanSpares ==
    ASSUME CleanInv, NEW default, NEW p \in Paths, raw[p] # Absent,
           UpToDate(p, NewManifest(default)), NEW rels, NEW sids,
           rels = RelPathsToDelete(NewManifest(default)),
           sids \subseteq SourceIdsToDelete(NewManifest(default))
    PROVE  Spares(p, rels, sids)
BY UpToDateSpared DEF Spares

LEMMA NewEntries ==
    ASSUME CleanInv, NEW default \in Labels, NEW p \in Paths, raw[p] # Absent
    PROVE  LET e == NewManifest(default)[p] IN
           /\ e # NoEntry /\ e.hash = HashOf(p, e.parser)
           /\ manifest[p] # NoEntry => e.parser = manifest[p].parser
<1>1. TypeOK
  BY DEF CleanInv, IndexInv, TypeInv
<1> DEFINE q == FileParser(p, default)
           e == NewManifest(default)[p]
<1>2. q \in Labels /\ (manifest[p] # NoEntry => q = manifest[p].parser)
  BY <1>1 DEF FileParser, TypeOK, Entries
<1>3. HashOf(p, q) \in Sids
  BY <1>1, <1>2, HashType
<1>4. e = [hash |-> HashOf(p, q), parser |-> q]
  BY DEF NewManifest
<1>5. [hash |-> HashOf(p, q), parser |-> q] \in Entries
  BY <1>2, <1>3 DEF Entries
<1> HIDE DEF q, e
<1>6. e # NoEntry /\ e.hash = HashOf(p, e.parser) /\ e.parser = q
  BY <1>4, <1>5, ConstantsOK
<1> QED BY <1>2, <1>6 DEF e

LEMMA ScanInv ==
    ASSUME CleanInv, UniqueNames, NEW s \in Sessions, Scan(s)
    PROVE  SessionInv(s)'
<1>1. /\ pc[s] = "scan" /\ ~Forced(s) /\ UNCHANGED <<raw, manifest, json, db>>
  BY DEF Scan, Forced
<1>2. PICK default \in Labels :
         /\ job[s].kind # "cli" => default = globalParser'
         /\ \/ /\ RunDone(s, job[s].clean)
               /\ Targets(s) = {} => FilesToProcess(NewManifest(default)) = {}
            \/ /\ pc'[s] = "cleanup" /\ job' = job
               /\ ScanPlan(s, default)
  BY ScanStep
<1> DEFINE new == NewManifest(default)
<1>3. \A p \in Paths : raw[p] # Absent /\ p \notin FilesToProcess(new) => UpToDate(p, new)
  BY NewEntries DEF FilesToProcess
<1>4. CASE RunDone(s, job[s].clean) /\ (Targets(s) = {} => FilesToProcess(new) = {})
  <2>1. job[s].clean \in BOOLEAN
    BY SessionFacts DEF Jobs
  <2>2. ASSUME Clean(s), Controlled(s), ~job[s].nested
        PROVE  Mirrored' /\ NothingLeft'
    <3>1. LastRun(s) /\ Targets(s) = {} /\ default = globalParser'
      BY <1>1, <1>2, <2>2, SessionFacts DEF LastRun, JobShape, Controlled
    <3>2. FilesToProcess(new) = {}
      BY <1>4, <3>1
    <3>3. \A p \in Paths : Indexable(p) => ChunksOf(p) # {}
      BY <1>3, <3>2, UpToDateSpared DEF Indexable
    <3>4. Mirrored'
      BY <1>1, <2>2, <3>1, <3>3, LastRunCurrent DEF Mirrored, Indexable, ChunksOf
    <3>5. NewManifest(globalParser)' = new
      BY <1>1, <3>1 DEF NewManifest, FileParser, HashOf
    <3>6. FilesToProcess(NewManifest(globalParser))' = {}
      <4> HIDE DEF new
      <4>1. FilesToProcess(NewManifest(globalParser))' = FilesToProcess(new)
        BY <1>1, <3>5 DEF FilesToProcess, UpToDate, SourceCount
      <4> QED BY <3>2, <4>1
    <3> QED BY <3>4, <3>6 DEF NothingLeft
  <2> QED BY <1>1, <1>4, <2>1, <2>2, RunDoneInv
<1>5. CASE pc'[s] = "cleanup" /\ job' = job /\ ScanPlan(s, default)
  <2>1. /\ Controlled(s)' = Controlled(s) /\ Forced(s)' = Forced(s) /\ Clean(s)' = Clean(s)
        /\ Targets(s)' = Targets(s) /\ ~Marking(s)' /\ Indexing(s)'
    BY <1>1, <1>5 DEF Controlled, Forced, Clean, Targets, Marking, Indexing
  <2>2. LastRun(s)' = LastRun(s)
    BY <1>1, <1>5, <2>1 DEF LastRun
  <2>3. JobShape(s)'
    BY <1>1, <1>5, <2>1, <2>2, SessionFacts DEF JobShape
  <2>4. Diagnosed(s)'
    BY <1>1, <1>5, <2>1, <2>2, SessionFacts DEF Diagnosed
  <2>5. PlanIsFresh(s)'
    <3>1. plan'[s].parsed = {} /\ (Targets(s) # {} => plan'[s].files \subseteq Targets(s))
      BY <1>5 DEF ScanPlan
    <3>2. job[s].nested => Targets(s) # {}
      BY SessionFacts DEF JobShape
    <3>3. ASSUME NEW p \in Paths, raw[p] # Absent, manifest[p] # NoEntry
          PROVE  \/ plan'[s].new[p] = manifest[p]
                 \/ plan'[s].new[p] = [hash |-> HashOf(p, manifest[p].parser),
                                       parser |-> manifest[p].parser]
      <4>1. new[p] = [hash |-> HashOf(p, manifest[p].parser), parser |-> manifest[p].parser]
        BY <3>3 DEF NewManifest, FileParser
      <4>2. plan'[s].new[p] = new[p] \/ plan'[s].new[p] = manifest[p]
        BY <1>5 DEF ScanPlan, TargetManifest
      <4> QED BY <4>1, <4>2
    <3>4. ASSUME NEW p \in Paths, InSync(p)
          PROVE  Spares(p, plan'[s].rels, plan'[s].sids)
      <4>1. raw[p] # Absent /\ UpToDate(p, new)
        BY <3>4, InSyncUpToDate DEF InSync
      <4> QED BY <1>5, <4>1, PlanSpares DEF ScanPlan
    <3>5. \A p : InSync(p)' = InSync(p)
      BY <1>1 DEF InSync, Current, HashOf, ChunkParser
    <3> QED BY <1>1, <1>5, <2>1, <3>1, <3>2, <3>3, <3>4, <3>5
            DEF PlanIsFresh, HashOf, Spares
  <2>6. LastRunIsComplete(s)'
    <3> SUFFICES ASSUME Clean(s)', LastRun(s)' PROVE LastRunIsComplete(s)'
      BY DEF LastRunIsComplete
    <3>1. Targets(s) = {}
      BY <2>2, SessionFacts DEF JobShape, LastRun
    <3>2. /\ plan'[s].files = FilesToProcess(new) /\ plan'[s].left = plan'[s].files
          /\ plan'[s].new = new
      BY <1>5, <3>1 DEF ScanPlan
    <3>3. \A p \in Paths : raw[p] # Absent =>
             new[p] # NoEntry /\ new[p].hash = HashOf(p, new[p].parser)
      BY NewEntries
    <3>4. ASSUME NEW p \in Paths, Indexable(p), p \notin FilesToProcess(new)
          PROVE  /\ ChunksOf(p) # {} /\ new[p].hash \in json
                 /\ Spares(p, plan'[s].rels, plan'[s].sids)
      <4>1. raw[p] # Absent /\ UpToDate(p, new)
        BY <1>3, <3>4 DEF Indexable
      <4> QED BY <1>5, <4>1, PlanSpares, UpToDateSpared DEF ScanPlan
    <3> HIDE DEF new
    <3> QED BY <1>1, <1>5, <3>2, <3>3, <3>4
            DEF LastRunIsComplete, Indexable, ChunksOf, HashOf, Spares
  <2> QED BY <1>5, <2>3, <2>4, <2>5, <2>6, RunningInv
<1> QED BY <1>2, <1>4, <1>5

LEMMA ScanForcedInv ==
    ASSUME CleanInv, NEW s \in Sessions, ScanForced(s)
    PROVE  SessionInv(s)'
<1> DEFINE files == {p \in Paths : raw[p] # Absent}
           pl == [NoPlan EXCEPT !.files = files, !.left = files]
<1>1. pc[s] = "scan" /\ Forced(s) /\ Controlled(s) /\ UNCHANGED <<raw, manifest, json>>
  BY DEF ScanForced, Forced, Controlled
<1>2. CASE Raise(s)
  BY <1>2, SessionFacts, EndJobInv DEF Raise
<1>3. CASE /\ db' = [x \in Sids |-> 0] /\ Goto(s, "reset") /\ job' = job
           /\ plan' = [plan EXCEPT ![s] = pl]
  <2>1. pc'[s] = "reset" /\ plan'[s] = pl
    BY <1>3, SessionFacts DEF Goto, TypeOK
  <2>2. pl.files = files /\ pl.left = files /\ pl.parsed = {}
    BY DEF NoPlan
  <2>3. plan'[s].files = files /\ plan'[s].left = files /\ plan'[s].parsed = {}
    BY <2>1, <2>2
  <2> HIDE DEF pl
  <2>4. /\ Controlled(s)' = Controlled(s) /\ Forced(s)' = Forced(s) /\ Clean(s)' = Clean(s)
        /\ Targets(s)' = Targets(s) /\ ~Marking(s)' /\ ~Indexing(s)'
    BY <1>1, <1>3, <2>1 DEF Controlled, Forced, Clean, Targets, Marking, Indexing
  <2>5. LastRun(s)' /\ LastRun(s)
    BY <1>1, <1>3, <2>1 DEF LastRun, Forced, Controlled
  <2>6. JobShape(s)'
    BY <1>1, <1>3, <2>1, <2>4, <2>5, SessionFacts DEF JobShape
  <2>7. Diagnosed(s)'
    <3>1. \A x \in Sids : ~(db'[x] > 0)
      BY <1>3
    <3>2. Clean(s)' /\ job'[s].diagnosed => job[s].ghosts = {} /\ job[s].mismatches = {}
      BY <1>1, <1>3, <2>4, <2>5, SessionFacts DEF Diagnosed
    <3> QED BY <1>1, <1>3, <2>4, <3>1, <3>2, SessionFacts DEF Diagnosed, Forced
  <2>8. PlanIsFresh(s)'
    BY <2>1, <2>3, <2>4 DEF PlanIsFresh
  <2>9. LastRunIsComplete(s)'
    BY <1>1, <2>1, <2>3, <2>4 DEF LastRunIsComplete
  <2> QED BY <2>1, <2>6, <2>7, <2>8, <2>9, RunningInv
<1> QED BY <1>2, <1>3 DEF ScanForced

\* The files a forced run found are those it lists in the new manifest.
LEMMA ResetFilesInv ==
    ASSUME CleanInv, NEW s \in Sessions, ResetFiles(s)
    PROVE  SessionInv(s)'
<1> DEFINE fresh == [p \in Paths |->
                      IF p \in plan[s].files
                      THEN [hash |-> HashOf(p, globalParser), parser |-> globalParser]
                      ELSE NoEntry]
           label == IF plan[s].files = {} THEN "savemanifest" ELSE "parse"
<1>1. /\ pc[s] = "reset" /\ Forced(s) /\ ~job[s].nested /\ UNCHANGED <<raw, db, globalParser>>
  BY SessionFacts DEF ResetFiles, JobShape, Forced
<1>2. CASE EndJob(s, "error", FALSE)
  BY <1>2, SessionFacts, EndJobInv
<1>3. ASSUME NEW clean, Goto(s, label), job' = [job EXCEPT ![s].clean = clean],
             clean => job[s].clean, plan' = [plan EXCEPT ![s].new = fresh]
      PROVE  SessionInv(s)'
  <2>1. /\ pc'[s] = label /\ job'[s] = [job[s] EXCEPT !.clean = clean]
        /\ plan'[s] = [plan[s] EXCEPT !.new = fresh]
    BY <1>3, SessionFacts DEF Goto, TypeOK
  <2>2. /\ job'[s].kind = job[s].kind /\ job'[s].nested = job[s].nested
        /\ job'[s].asked = job[s].asked /\ job'[s].dups = job[s].dups
        /\ job'[s].diagnosed = job[s].diagnosed /\ job'[s].ghosts = job[s].ghosts
        /\ job'[s].mismatches = job[s].mismatches /\ job'[s].clean = clean
    BY <2>1, SessionFacts DEF Jobs
  <2>3. /\ plan'[s].files = plan[s].files /\ plan'[s].left = plan[s].left
        /\ plan'[s].parsed = plan[s].parsed /\ plan'[s].new = fresh
    <3> HIDE DEF fresh
    <3> QED BY <2>1, SessionFacts DEF Plans
  <2>4. /\ Controlled(s)' = Controlled(s) /\ Forced(s)' = Forced(s)
        /\ Targets(s)' = Targets(s) /\ ~Marking(s)' /\ Indexing(s)' /\ pc'[s] # "idle"
    BY <2>1, <2>2 DEF Controlled, Forced, Targets, Marking, Indexing
  <2>5. LastRun(s)' /\ LastRun(s)
    BY <1>1, <2>2, <2>4 DEF LastRun, Forced, Controlled
  <2>6. Clean(s)' => Clean(s)
    BY <1>1, <1>3, <2>2 DEF Clean
  <2>7. JobShape(s)'
    BY <1>1, <2>1, <2>2, <2>4, <2>5, SessionFacts DEF JobShape
  <2>8. Diagnosed(s)'
    BY <1>1, <2>2, <2>4, <2>5, <2>6, SessionFacts DEF Diagnosed
  <2>9. PlanIsFresh(s)'
    BY <1>1, <2>1, <2>2, <2>3, <2>4, <2>6, SessionFacts DEF PlanIsFresh
  <2>10. LastRunIsComplete(s)'
    <3> SUFFICES ASSUME Clean(s)' PROVE LastRunIsComplete(s)'
      BY DEF LastRunIsComplete
    <3>1. plan[s].files = {p \in Paths : raw[p] # Absent} /\ plan[s].left = plan[s].files
      BY <1>1, <2>5, <2>6, SessionFacts DEF LastRunIsComplete
    <3>2. globalParser \in Labels
      BY SessionFacts DEF TypeOK
    <3>3. \A p \in Paths : raw[p] # Absent =>
             fresh[p] # NoEntry /\ fresh[p].hash = HashOf(p, fresh[p].parser)
      <4> SUFFICES ASSUME NEW p \in Paths, raw[p] # Absent
                   PROVE  fresh[p] # NoEntry /\ fresh[p].hash = HashOf(p, fresh[p].parser)
        OBVIOUS
      <4>1. HashOf(p, globalParser) \in Sids
        BY <3>2, SessionFacts, HashType
      <4>2. [hash |-> HashOf(p, globalParser), parser |-> globalParser] \in Entries
        BY <3>2, <4>1 DEF Entries
      <4>3. fresh[p] = [hash |-> HashOf(p, globalParser), parser |-> globalParser]
        BY <3>1
      <4> HIDE DEF fresh
      <4> QED BY <4>2, <4>3, ConstantsOK
    <3> HIDE DEF fresh
    <3>4. \A p \in Paths : Indexable(p) => p \in plan[s].files
      BY <3>1 DEF Indexable
    <3> QED BY <1>1, <2>1, <2>3, <3>1, <3>3, <3>4
            DEF LastRunIsComplete, Indexable, HashOf
  <2> QED BY <2>4, <2>7, <2>8, <2>9, <2>10, RunningInv
<1>4. CASE ~EndJob(s, "error", FALSE)
  <2>1. PICK kept \in SUBSET json, deleted \in BOOLEAN :
           /\ Goto(s, label)
           /\ job' = [job EXCEPT ![s].clean = @ /\ kept = {} /\ deleted]
           /\ plan' = [plan EXCEPT ![s].new = fresh]
    BY <1>4 DEF ResetFiles
  <2>2. job' = [job EXCEPT ![s].clean = (job[s].clean /\ kept = {} /\ deleted)]
    BY <2>1, SessionFacts DEF TypeOK
  <2> HIDE DEF fresh, label
  <2> QED BY <1>3, <2>1, <2>2
<1> QED BY <1>2, <1>4

\* cleanup_db deletes nothing of a file that need not be processed: the names it
\* adds to the source ids are those of files that changed or went.
LEMMA CleanupDbInv ==
    ASSUME CleanInv, UniqueNames, NEW s \in Sessions, CleanupDb(s)
    PROVE  SessionInv(s)'
<1> DEFINE names == {Name[p] : p \in {q \in Paths :
                        manifest[q] # NoEntry /\ manifest[q].hash \in plan[s].sids}}
           ret == IF plan[s].files = {} THEN "savemanifest" ELSE "parse"
<1>1. /\ pc[s] = "cleanup" /\ UNCHANGED <<raw, manifest, json, globalParser>>
      /\ CleanupVector(s, plan[s].sids, plan[s].rels, names, ret, job[s], plan[s])
  BY DEF CleanupDb
<1>2. plan[s].sids \in SUBSET Sids /\ plan[s].rels \in SUBSET Paths
  BY SessionFacts, PlanTypes
<1>3. ret \in {"parse", "savemanifest"} /\ (ret = "savemanifest" => plan[s].files = {})
  OBVIOUS
<1>4. ASSUME NEW p \in Paths, \A x \in plan[s].sids : x.path # p
      PROVE  Name[p] \notin names
  <2> SUFFICES ASSUME NEW q \in Paths, manifest[q] # NoEntry, manifest[q].hash \in plan[s].sids,
                      Name[q] = Name[p]
               PROVE  FALSE
    OBVIOUS
  <2>1. manifest[q].hash # NoHash
    BY <1>2, ConstantsOK
  <2>2. manifest[q].hash.path = q
    BY <2>1, SessionFacts DEF OwnHashes
  <2> QED BY <1>4, <2>2 DEF UniqueNames
<1> HIDE DEF names, ret
<1>5. CASE Raise(s)
  BY <1>5, SessionFacts, EndJobInv DEF Raise
<1>6. ASSUME pc'[s] = "cleanfiles", plan'[s].ret = ret,
             job'[s].kind = job[s].kind, job'[s].nested = job[s].nested,
             job'[s].asked = job[s].asked, job'[s].dups = job[s].dups,
             job'[s].diagnosed = job[s].diagnosed, job'[s].ghosts = job[s].ghosts
      PROVE  /\ JobShape(s)' /\ Controlled(s)' = Controlled(s) /\ Forced(s)' = Forced(s)
             /\ LastRun(s)' = LastRun(s) /\ Targets(s)' = Targets(s)
             /\ ~Marking(s)' /\ Indexing(s)' /\ Indexing(s)
  <2>1. /\ Controlled(s)' = Controlled(s) /\ Forced(s)' = Forced(s)
        /\ Targets(s)' = Targets(s) /\ ~Marking(s)' /\ Indexing(s)' /\ Indexing(s)
    BY <1>1, <1>3, <1>6 DEF Controlled, Forced, Targets, Marking, Indexing
  <2>2. LastRun(s)' = LastRun(s)
    BY <1>6, <2>1 DEF LastRun
  <2> QED BY <1>1, <1>3, <1>6, <2>1, <2>2, SessionFacts DEF JobShape
<1>7. CASE /\ pc'[s] = "cleanfiles" /\ plan'[s].ret = ret
           /\ job'[s] = [job[s] EXCEPT !.clean = FALSE]
  <2>1. /\ job'[s].kind = job[s].kind /\ job'[s].nested = job[s].nested
        /\ job'[s].asked = job[s].asked /\ job'[s].dups = job[s].dups
        /\ job'[s].diagnosed = job[s].diagnosed /\ job'[s].ghosts = job[s].ghosts
        /\ job'[s].clean = FALSE
    BY <1>7, SessionFacts DEF Jobs
  <2> QED BY <1>6, <1>7, <2>1, UncleanInv
<1>8. CASE /\ pc'[s] = "cleanfiles" /\ plan'[s].ret = ret /\ job'[s] = job[s]
           /\ plan'[s].gone = GoneIds(plan[s].sids, names) /\ plan'[s].rels = plan[s].rels
           /\ plan'[s].files = plan[s].files /\ plan'[s].left = plan[s].left
           /\ plan'[s].old = plan[s].old /\ plan'[s].new = plan[s].new
           /\ plan'[s].parsed = plan[s].parsed
           /\ db' = Without0(plan[s].sids, plan[s].rels, names)
  <2>1. /\ JobShape(s)' /\ Controlled(s)' = Controlled(s) /\ Forced(s)' = Forced(s)
        /\ LastRun(s)' = LastRun(s) /\ Targets(s)' = Targets(s)
        /\ ~Marking(s)' /\ Indexing(s)' /\ Indexing(s)
        /\ Clean(s)' = Clean(s)
    BY <1>1, <1>6, <1>8 DEF Clean
  <2>2. Diagnosed(s)'
    <3>1. \A x \in Sids : db'[x] > 0 => db[x] > 0
      BY <1>8 DEF Without0
    <3> QED BY <1>1, <1>8, <2>1, <3>1, SessionFacts DEF Diagnosed
  <2>3. PlanIsFresh(s)'
    <3> SUFFICES ASSUME Clean(s)' PROVE PlanIsFresh(s)'
      BY DEF PlanIsFresh
    <3>1. ASSUME NEW p \in Paths, InSync(p)'
          PROVE  Spares(p, plan'[s].rels, plan'[s].gone)
      <4>1. InSync(p)
        BY <1>1, <1>2, <1>8, <3>1, CleanupSpares
      <4>2. Spares(p, plan[s].rels, plan[s].sids)
        BY <1>1, <2>1, <4>1, SessionFacts DEF PlanIsFresh
      <4> QED BY <1>1, <1>2, <1>8, <3>1, <4>2, CleanupSpares DEF Spares
    <3> QED BY <1>1, <1>8, <2>1, <3>1, SessionFacts DEF PlanIsFresh, HashOf, Spares
  <2>4. LastRunIsComplete(s)'
    <3> SUFFICES ASSUME Clean(s)', LastRun(s)' PROVE LastRunIsComplete(s)'
      BY DEF LastRunIsComplete
    <3>1. /\ plan[s].left = plan[s].files
          /\ \A p \in Paths : raw[p] # Absent =>
                /\ plan[s].new[p] # NoEntry
                /\ plan[s].new[p].hash = HashOf(p, plan[s].new[p].parser)
          /\ \A p \in Paths : Indexable(p) /\ p \notin plan[s].files =>
                /\ ChunksOf(p) # {} /\ plan[s].new[p].hash \in json
                /\ Spares(p, plan[s].rels, plan[s].sids)
      BY <1>1, <2>1, SessionFacts DEF LastRunIsComplete
    <3>2. ASSUME NEW p \in Paths, Indexable(p), p \notin plan[s].files
          PROVE  /\ ChunksOf(p)' # {}
                 /\ Spares(p, plan[s].rels, GoneIds(plan[s].sids, names))
      <4>1. ChunksOf(p) # {} /\ p \notin plan[s].rels /\ \A x \in plan[s].sids : x.path # p
        BY <3>1, <3>2 DEF Spares
      <4>2. Name[p] \notin names
        BY <1>4, <4>1
      <4>3. PICK x \in Sids : x.path = p /\ db[x] > 0
        BY <4>1 DEF ChunksOf
      <4>4. db'[x] > 0
        BY <1>8, <4>1, <4>2, <4>3 DEF Without0
      <4> QED BY <4>1, <4>2, <4>3, <4>4 DEF ChunksOf, Spares, GoneIds
    <3> QED BY <1>1, <1>3, <1>8, <2>1, <3>1, <3>2
            DEF LastRunIsComplete, Indexable, HashOf, Spares
  <2> QED BY <1>8, <2>1, <2>2, <2>3, <2>4, RunningInv
<1> QED BY <1>1, <1>2, <1>5, <1>7, <1>8, CleanupStep, SessionFacts

\* Every file that is parsed is parsed as it is.
LEMMA ParseFileInv ==
    ASSUME CleanInv, NEW s \in Sessions, ParseFile(s)
    PROVE  SessionInv(s)'
<1>1. PICK p \in NextToParse(s), skipped \in BOOLEAN :
         LET left   == plan[s].left \ {p}
             parsed == IF skipped THEN plan[s].parsed
                       ELSE plan[s].parsed \cup Parsed(p, plan[s].new[p].parser)
         IN
         /\ job' = [job EXCEPT ![s].clean = @ /\ ~skipped]
         /\ plan' = [plan EXCEPT ![s].left = left, ![s].parsed = parsed]
         /\ Goto(s, IF left # {} THEN "parse"
                    ELSE IF parsed # {} THEN "save" ELSE "savemanifest")
  BY DEF ParseFile
<1> DEFINE left == plan[s].left \ {p}
           parsed == IF skipped THEN plan[s].parsed
                     ELSE plan[s].parsed \cup Parsed(p, plan[s].new[p].parser)
           label == IF left # {} THEN "parse"
                    ELSE IF parsed # {} THEN "save" ELSE "savemanifest"
<1>2. pc[s] = "parse" /\ UNCHANGED stores
  BY DEF ParseFile
<1>3. plan' = [plan EXCEPT ![s].left = left, ![s].parsed = parsed] /\ Goto(s, label)
  BY <1>1
<1> HIDE DEF left, parsed
<1>4. /\ pc'[s] = label /\ job'[s] = [job[s] EXCEPT !.clean = job[s].clean /\ ~skipped]
      /\ plan'[s] = [plan[s] EXCEPT !.left = left, !.parsed = parsed]
  BY <1>1, <1>3, SessionFacts DEF Goto, TypeOK
<1>5. /\ job'[s].kind = job[s].kind /\ job'[s].nested = job[s].nested
      /\ job'[s].asked = job[s].asked /\ job'[s].dups = job[s].dups
      /\ job'[s].diagnosed = job[s].diagnosed /\ job'[s].ghosts = job[s].ghosts
      /\ job'[s].mismatches = job[s].mismatches
      /\ job'[s].clean = (job[s].clean /\ ~skipped)
  BY <1>4, SessionFacts DEF Jobs
<1>6. /\ plan'[s].files = plan[s].files /\ plan'[s].left = left /\ plan'[s].parsed = parsed
      /\ plan'[s].new = plan[s].new
  BY <1>4, SessionFacts DEF Plans
<1>7. /\ pc'[s] \in {"parse", "save", "savemanifest"}
      /\ pc'[s] \in {"save", "savemanifest"} => left = {}
      /\ pc'[s] = "savemanifest" => parsed = {}
  BY <1>4
<1> HIDE DEF label
<1>8. /\ Controlled(s)' = Controlled(s) /\ Forced(s)' = Forced(s)
      /\ Targets(s)' = Targets(s) /\ ~Marking(s)' /\ Indexing(s)' /\ Indexing(s)
  BY <1>2, <1>5, <1>7 DEF Controlled, Forced, Targets, Marking, Indexing
<1>9. LastRun(s)' = LastRun(s)
  BY <1>5, <1>8 DEF LastRun
<1>10. JobShape(s)' /\ pc'[s] # "idle"
  BY <1>2, <1>5, <1>7, <1>8, <1>9, SessionFacts DEF JobShape
<1>11. CASE skipped
  BY <1>5, <1>10, <1>11, UncleanInv
<1>12. CASE ~skipped
  <2>1. parsed = plan[s].parsed \cup Parsed(p, plan[s].new[p].parser)
    BY <1>12 DEF parsed
  <2>2. Clean(s)' => Clean(s)
    BY <1>2, <1>5 DEF Clean
  <2>3. Diagnosed(s)'
    BY <1>2, <1>5, <1>8, <1>9, <2>2, SessionFacts DEF Diagnosed, stores
  <2>4. PlanIsFresh(s)'
    <3>1. \A x \in Parsed(p, plan[s].new[p].parser) : x.content = raw[x.path]
      BY DEF Parsed, HashOf
    <3> QED BY <1>2, <1>5, <1>6, <1>7, <1>8, <2>1, <2>2, <3>1, SessionFacts
            DEF PlanIsFresh, HashOf, stores
  <2>5. LastRunIsComplete(s)'
    <3> SUFFICES ASSUME Clean(s)', LastRun(s)' PROVE LastRunIsComplete(s)'
      BY DEF LastRunIsComplete
    <3>1. /\ \A q \in Paths : raw[q] # Absent =>
                /\ plan[s].new[q] # NoEntry
                /\ plan[s].new[q].hash = HashOf(q, plan[s].new[q].parser)
          /\ \A q \in Paths : Indexable(q) /\ q \notin plan[s].files =>
                ChunksOf(q) # {} /\ plan[s].new[q].hash \in json
          /\ \A q \in plan[s].files \ plan[s].left :
                Indexable(q) => Made(s, q) \in plan[s].parsed
      BY <1>2, <1>8, <1>9, <2>2, SessionFacts DEF LastRunIsComplete
    <3>2. ASSUME NEW q \in plan[s].files \ left, Indexable(q)
          PROVE  Made(s, q) \in parsed
      <4>1. CASE q = p
        BY <2>1, <3>2, <4>1 DEF Made, Parsed, Indexable
      <4>2. CASE q # p
        BY <2>1, <3>1, <3>2, <4>2 DEF left
      <4> QED BY <4>1, <4>2
    <3>3. \A q : Made(s, q)' = Made(s, q)
      BY <1>2, <1>6 DEF Made, HashOf, ChunkParser, stores
    <3>4. \A q \in plan[s].files : pc'[s] = "savemanifest" => ~Indexable(q)
      BY <1>7, <3>2
    <3> QED BY <1>2, <1>6, <1>7, <1>8, <3>1, <3>2, <3>3, <3>4
            DEF LastRunIsComplete, Indexable, ChunksOf, HashOf, stores
  <2> QED BY <1>10, <2>3, <2>4, <2>5, RunningInv
<1> QED BY <1>11, <1>12

-----------------------------------------------------------------------------
(* The invariant of clean runs.                                            *)

LEMMA CleanStarts == Init => CleanInv
<1> SUFFICES ASSUME Init PROVE CleanInv
  OBVIOUS
<1>1. IndexInv
  BY IndexStarts
<1>2. HashesAreOwn
  BY NoPlanOwn DEF Init, HashesAreOwn, OwnHashes, EmptyManifest
<1>3. ASSUME NEW s \in Sessions PROVE SessionInv(s)
  <2>1. pc[s] = "idle" /\ job[s] = NoJob /\ plan[s] = NoPlan
    BY DEF Init
  <2>2. ~NoJob.nested /\ NoJob.dups = {} /\ NoJob.asked = NothingAsked /\ NoJob.clean = FALSE
    BY DEF NoJob
  <2>3. Targets(s) = {}
    BY <2>1, <2>2, NoTargets
  <2>4. JobShape(s)
    BY <2>1, <2>2, <2>3 DEF JobShape, LastRun, Marking, Indexing
  <2>5. ~Clean(s) /\ ~CleanlySynced(s)
    BY <2>1, <2>2 DEF Clean, CleanlySynced
  <2> QED BY <2>4, <2>5 DEF SessionInv, Diagnosed, PlanIsFresh, LastRunIsComplete
<1> QED BY <1>1, <1>2, <1>3 DEF CleanInv

LEMMA JobStepInv ==
    ASSUME CleanInv, UniqueNames, NEW s \in Sessions, JobStep(s) PROVE SessionInv(s)'
BY DiagnoseInv, RepairGhostInv, RepairDuplicateInv, RepairMismatchInv, RepairDoneInv,
   UpdateAskedFilesInv, MarkForReindexInv, ScanInv, ScanForcedInv, ResetFilesInv,
   CleanupDbInv, CleanupFilesInv, ParseFileInv, ParseAbortedInv, SaveJsonInv, UpsertInv,
   SaveManifestInv
   DEF JobStep

LEMMA CleanStepKeeps ==
    ASSUME OneJobAtATime, UniqueNames PROVE CleanInv /\ [Next]_vars => CleanInv'
<1> SUFFICES ASSUME CleanInv, [Next]_vars PROVE CleanInv'
  OBVIOUS
<1>1. IndexInv'
  BY IndexStepKeeps DEF CleanInv
<1>2. HashesAreOwn'
  BY HashesStayOwn DEF CleanInv, IndexInv
<1>3. ASSUME NEW s \in Sessions, NEW t \in Sessions,
             \/ StartSync(s) \/ StartSingleFileSync(s) \/ StartMultipleFilesSync(s)
             \/ StartCli(s) \/ RequestCancel(s) \/ JobStep(s)
      PROVE  SessionInv(t)'
  <2>1. SessionInv(s)'
    BY <1>3, StartInv, RequestCancelInv, JobStepInv
  <2> QED BY <2>1 DEF OneJobAtATime
<1>4. ASSUME NEW t \in Sessions, Edit \/ Crash \/ UNCHANGED vars PROVE SessionInv(t)'
  BY <1>4, EditInv, CrashInv, StutterInv
<1>5. \A t \in Sessions : SessionInv(t)'
  BY <1>3, <1>4 DEF Next
<1> QED BY <1>1, <1>2, <1>5 DEF CleanInv

\* After a clean full run everything found is in the files as they are, and every
\* file that has text is found, whatever crashed, failed or was cancelled before it
\* (repair_integrity and calculate_delta).
THEOREM CleanSyncCorrect ==
    ASSUME OneJobAtATime, UniqueNames PROVE Spec => []CleanSyncMirrors
<1>1. CleanInv => CleanSyncMirrors
  BY DEF CleanInv, SessionInv, CleanSyncMirrors
<1> QED BY <1>1, CleanStarts, CleanStepKeeps, PTL DEF Spec

\* In particular every file is found as it is now.
THEOREM CleanSyncComplete ==
    ASSUME OneJobAtATime, UniqueNames PROVE Spec => []CleanSyncFindsCurrent
<1>1. Mirrored => \A p \in Paths : raw[p] \notin Blank \cup {Absent} =>
                     \E x \in ChunksOf(p) : x.content = raw[p]
  BY DEF Mirrored, ChunksOf
<1>2. CleanInv => CleanSyncFindsCurrent
  BY <1>1 DEF CleanInv, SessionInv, CleanSyncFindsCurrent
<1> QED BY <1>2, CleanStarts, CleanStepKeeps, PTL DEF Spec

\* A second run right after it has no PDF to index (calculate_delta).
THEOREM CleanSyncStable ==
    ASSUME OneJobAtATime, UniqueNames PROVE Spec => []CleanSyncIsIdempotent
<1>1. CleanInv => CleanSyncIsIdempotent
  BY DEF CleanInv, SessionInv, CleanSyncIsIdempotent, NothingLeft
<1> QED BY <1>1, CleanStarts, CleanStepKeeps, PTL DEF Spec

-----------------------------------------------------------------------------
(* The files a clean run does not work on.                                 *)

\* A file stays in sync while its raw file, its entry, its chunks and its JSON file do.
LEMMA StaysInSync ==
    ASSUME CleanInv, NEW p \in Paths, InSync(p), raw'[p] = raw[p], manifest'[p] = manifest[p],
           \A x \in Sids : x.path = p /\ db[x] > 0 => db'[x] = db[x],
           \A x \in json : x.path = p /\ x = Current(p) => x \in json'
    PROVE  InSync(p)'
<1>1. Current(p) \in Sids /\ Current(p).path = p
  BY CurrentType, ConstantsOK DEF InSync, CleanInv, IndexInv, TypeInv
<1>2. Current(p)' = Current(p)
  BY DEF Current, HashOf, ChunkParser
<1>3. Current(p) \in json' /\ db'[Current(p)] = 1
  BY <1>1 DEF InSync
<1> QED BY <1>2, <1>3 DEF InSync

\* cleanup_db leaves alone a file that no id, path or name it is given denotes.
LEMMA CleanupKeeps ==
    ASSUME CleanInv, NEW p \in Paths, InSync(p), UNCHANGED <<raw, manifest, json>>,
           NEW s \in Sessions, NEW sids, NEW rels, NEW names, NEW ret, NEW newJob, NEW newPlan,
           CleanupVector(s, sids, rels, names, ret, newJob, newPlan), pc'[s] # "idle",
           p \notin rels, Name[p] \notin names, \A x \in sids : x.path # p
    PROVE  InSync(p)'
<1>1. ~Raise(s)
  BY DEF Raise, EndJob, CleanInv, IndexInv, TypeInv, TypeOK
<1>2. \/ db' = Without(Doomed(GoneIds(sids, names), rels, names))
      \/ \E byName \in {names, {}} : db' = Without(Doomed(sids, rels, byName))
  BY <1>1 DEF CleanupVector
<1>3. ASSUME NEW x \in Sids, x.path = p PROVE db'[x] = db[x]
  <2>1. /\ x \notin Doomed(GoneIds(sids, names), rels, names)
        /\ \A byName \in {names, {}} : x \notin Doomed(sids, rels, byName)
    BY <1>3 DEF Doomed, GoneIds
  <2> QED BY <1>2, <2>1 DEF Without
<1> QED BY <1>3, StaysInSync

\* update_file_parser only looks up the files it is asked for.
LEMMA UpdateKeeps ==
    ASSUME CleanInv, UniqueNames, NEW p \in Paths, InSync(p),
           UNCHANGED <<raw, manifest, json>>, NEW s \in Sessions,
           NEW asked \in [Paths -> Labels \cup {NoTarget}], asked[p] = NoTarget,
           NEW newJob, UpdateFileParser(s, asked, newJob), pc'[s] # "idle"
    PROVE  InSync(p)'
<1> DEFINE names == {Name[q] : q \in {r \in Paths : asked[r] # NoTarget}}
           ids(found) == {manifest[q].hash : q \in {r \in found : manifest[r] # NoEntry}}
                            \ {NoHash}
<1>1. PICK found \in FoundFiles(names) :
         \/ \E j, pl : CleanupVector(s, ids(found), {}, names, "mark", j, pl)
         \/ db' = db
  BY DEF UpdateFileParser
<1>2. Name[p] \notin names
  BY DEF UniqueNames
<1>3. \A x \in ids(found) : x.path # p
  <2> SUFFICES ASSUME NEW q \in found, manifest[q] # NoEntry, manifest[q].hash # NoHash
               PROVE  manifest[q].hash.path # p
    OBVIOUS
  <2>1. q \in Paths /\ asked[q] # NoTarget
    BY <1>1, FoundAsked
  <2>2. manifest[q].hash.path = q
    BY <2>1, SessionFacts DEF OwnHashes
  <2> QED BY <2>1, <2>2
<1> HIDE DEF names, ids
<1>4. CASE \E j, pl : CleanupVector(s, ids(found), {}, names, "mark", j, pl)
  BY <1>2, <1>3, <1>4, CleanupKeeps
<1>5. CASE db' = db
  BY <1>5, StaysInSync
<1> QED BY <1>1, <1>4, <1>5

\* A file in sync is neither a ghost nor a mismatch.
LEMMA InSyncNotBroken ==
    ASSUME CleanInv, NEW p \in Paths, InSync(p), NEW s \in Sessions, Clean(s),
           pc[s] = "repair", job[s].diagnosed
    PROVE  p \notin job[s].ghosts \cup job[s].mismatches
<1>1. /\ Current(p) \in Sids /\ Current(p).path = p /\ Current(p).content = raw[p]
      /\ db[Current(p)] > 0
  BY CurrentType, ConstantsOK DEF InSync, CleanInv, IndexInv, TypeInv
<1>2. Controlled(s)
  BY SessionFacts DEF JobShape
<1> QED BY <1>1, <1>2, SessionFacts DEF Diagnosed

LEMMA RepairKeeps ==
    ASSUME CleanInv, UniqueNames, NEW p \in Paths, InSync(p), NEW s \in Sessions, Clean(s),
           pc'[s] # "idle", RepairGhost(s) \/ RepairDuplicate(s) \/ RepairMismatch(s)
    PROVE  InSync(p)'
<1>1. /\ pc[s] = "repair" /\ job[s].diagnosed /\ UNCHANGED <<raw, manifest, json>>
      /\ p \notin job[s].ghosts \cup job[s].mismatches
  BY InSyncNotBroken DEF RepairGhost, RepairDuplicate, RepairMismatch
<1>2. CASE RepairGhost(s)
  <2>1. PICK g \in job[s].ghosts :
           \E j, pl : CleanupVector(s, {}, {g}, {}, "repair", j, pl)
    BY <1>2 DEF RepairGhost
  <2> QED BY <1>1, <2>1, CleanupKeeps
<1>3. CASE RepairDuplicate(s)
  BY <1>3, SessionFacts DEF RepairDuplicate, JobShape
<1>4. CASE RepairMismatch(s)
  <2>1. PICK m \in job[s].mismatches :
           db' = db \/ \E j : UpdateFileParser(s, AskedByRepair(s, m), j)
    BY <1>4 DEF RepairMismatch
  <2>2. m \in Paths /\ job[s].parser \in Labels
    BY SessionFacts DEF Jobs
  <2>3. /\ AskedByRepair(s, m) \in [Paths -> Labels \cup {NoTarget}]
        /\ AskedByRepair(s, m)[p] = NoTarget
    BY <1>1, <2>2, EmptyRecordTypes DEF AskedByRepair, NothingAsked
  <2> QED BY <1>1, <2>1, <2>3, UpdateKeeps, StaysInSync
<1> QED BY <1>2, <1>3, <1>4

LEMMA IngestKeeps ==
    ASSUME CleanInv, UniqueNames, NEW p \in Paths, InSync(p), NEW s \in Sessions, Clean(s),
           job[s].kind # "force", job[s].asked[p] = NoTarget, pc'[s] # "idle",
           \/ UpdateAskedFiles(s) \/ MarkForReindex(s) \/ CleanupDb(s) \/ CleanupFiles(s)
           \/ SaveJson(s) \/ Upsert(s) \/ SaveManifest(s)
    PROVE  InSync(p)'
<1>1. /\ Current(p) \in Sids /\ Current(p).path = p /\ db[Current(p)] = 1
      /\ raw[p] # Absent /\ manifest[p] # NoEntry
  BY CurrentType, ConstantsOK DEF InSync, CleanInv, IndexInv, TypeInv
<1>2. ~EndJob(s, "error", FALSE)
  BY SessionFacts DEF EndJob, TypeOK
<1>3. CASE UpdateAskedFiles(s)
  <2>1. job[s].asked \in [Paths -> Labels \cup {NoTarget}]
    BY SessionFacts DEF Jobs
  <2>2. UpdateFileParser(s, job[s].asked, job[s]) \/ db' = db
    BY <1>3 DEF UpdateAskedFiles
  <2>3. UNCHANGED <<raw, manifest, json>>
    BY <1>3 DEF UpdateAskedFiles
  <2> QED BY <2>1, <2>2, <2>3, UpdateKeeps, StaysInSync
<1>4. CASE MarkForReindex(s)
  <2>1. plan[s].old = manifest
    BY <1>4, SessionFacts DEF MarkForReindex, PlanIsFresh, Marking
  <2>2. manifest'[p] = manifest[p] /\ UNCHANGED <<raw, json, db>>
    BY <1>4, <2>1 DEF MarkForReindex, Targets
  <2> QED BY <2>2, StaysInSync
<1>5. CASE CleanupDb(s)
  <2> DEFINE names == {Name[q] : q \in {r \in Paths :
                          manifest[r] # NoEntry /\ manifest[r].hash \in plan[s].sids}}
  <2>1. /\ pc[s] = "cleanup" /\ UNCHANGED <<raw, manifest, json>>
        /\ \E ret, j, pl : CleanupVector(s, plan[s].sids, plan[s].rels, names, ret, j, pl)
    BY <1>5 DEF CleanupDb
  <2>2. p \notin plan[s].rels /\ \A x \in plan[s].sids : x.path # p
    BY <2>1, SessionFacts DEF PlanIsFresh, Spares
  <2>3. Name[p] \notin names
    <3> SUFFICES ASSUME NEW q \in Paths, manifest[q] # NoEntry,
                        manifest[q].hash \in plan[s].sids, Name[q] = Name[p]
                 PROVE  FALSE
      OBVIOUS
    <3>1. manifest[q].hash # NoHash
      BY SessionFacts, PlanTypes, ConstantsOK
    <3>2. manifest[q].hash.path = q
      BY <3>1, SessionFacts DEF OwnHashes
    <3> QED BY <2>2, <3>2 DEF UniqueNames
  <2> HIDE DEF names
  <2> QED BY <2>1, <2>2, <2>3, CleanupKeeps
<1>6. CASE CleanupFiles(s)
  <2>1. pc[s] = "cleanfiles" /\ UNCHANGED <<raw, manifest, db>>
    BY <1>6 DEF CleanupFiles
  <2>2. p \notin plan[s].rels /\ \A x \in plan[s].gone : x.path # p
    BY <2>1, SessionFacts DEF PlanIsFresh, Spares
  <2>3. \A x \in json : x \notin plan[s].gone /\ x.path \notin plan[s].rels => x \in json'
    BY <1>6 DEF CleanupFiles
  <2> QED BY <2>1, <2>2, <2>3, StaysInSync
<1>7. CASE SaveJson(s)
  <2>1. UNCHANGED <<raw, manifest, db>> /\ json \subseteq json'
    BY <1>7 DEF SaveJson
  <2> QED BY <2>1, StaysInSync
<1>8. CASE Upsert(s)
  <2>1. UNCHANGED <<raw, manifest, json>> /\ pc[s] = "upsert"
    BY <1>8 DEF Upsert
  <2>2. \A x \in plan[s].parsed : x.path # p
    BY <1>1, <2>1, SessionFacts DEF FollowsPlan, Cleared
  <2>3. \A x \in Sids : x.path = p => db'[x] = db[x]
    BY <1>8, <2>2 DEF Upsert
  <2> QED BY <2>1, <2>3, StaysInSync
<1>9. CASE SaveManifest(s)
  <2>1. UNCHANGED <<raw, json, db>> /\ pc[s] = "savemanifest"
    BY <1>9 DEF SaveManifest
  <2>2. CASE manifest' = manifest
    BY <2>1, <2>2, StaysInSync
  <2>3. CASE manifest' = plan[s].new
    <3>1. manifest[p].hash = Current(p) /\ manifest[p].hash.parser = manifest[p].parser
      BY <1>1, SessionFacts, ConstantsOK DEF InSync, OwnHashes
    <3>2. Current(p) = HashOf(p, manifest[p].parser)
      BY <3>1 DEF Current, HashOf
    <3>3. \/ plan[s].new[p] = manifest[p]
          \/ plan[s].new[p] = [hash |-> HashOf(p, manifest[p].parser),
                               parser |-> manifest[p].parser]
      BY <1>1, <2>1, SessionFacts DEF PlanIsFresh, Indexing, Forced
    <3>4. plan[s].new[p] = manifest[p]
      <4>1. plan[s].new[p].hash = manifest[p].hash /\ plan[s].new[p].parser = manifest[p].parser
        BY <3>1, <3>2, <3>3
      <4>2. manifest[p] \in Entries /\ plan[s].new[p] \in Entries \cup {NoEntry}
        BY <1>1, SessionFacts, PlanTypes DEF TypeOK
      <4> QED BY <3>1, <3>2, <3>3, <4>1, <4>2 DEF Entries
    <3> QED BY <2>1, <2>3, <3>4, StaysInSync
  <2> QED BY <1>9, <2>2, <2>3 DEF SaveManifest
<1> QED BY <1>3, <1>4, <1>5, <1>6, <1>7, <1>8, <1>9

\* A file that is indexed as it is on disk stays searchable while a run that sees no
\* failure works on the others (cleanup_db, update_file_parser, _process_changes).
THEOREM HealthyFilesCorrect ==
    ASSUME OneJobAtATime, UniqueNames PROVE Spec => HealthyFilesUndisturbed
<1> DEFINE Undisturbed ==
      \A p \in Paths, s \in Sessions :
          InSync(p) /\ pc[s] # "idle" /\ pc'[s] # "idle" /\ job[s].clean /\ raw'[p] = raw[p]
          /\ job[s].kind # "force" /\ job[s].asked[p] = NoTarget
          => InSync(p)'
<1>1. CleanInv /\ [Next]_vars => Undisturbed
  <2> SUFFICES ASSUME CleanInv, [Next]_vars, NEW p \in Paths, NEW s \in Sessions,
                      InSync(p), pc[s] # "idle", pc'[s] # "idle", job[s].clean,
                      raw'[p] = raw[p], job[s].kind # "force", job[s].asked[p] = NoTarget
               PROVE  InSync(p)'
    OBVIOUS
  <2>1. Clean(s)
    BY DEF Clean
  <2>2. ASSUME UNCHANGED <<manifest, json, db>> PROVE InSync(p)'
    BY <2>2, StaysInSync
  <2>3. ASSUME JobStep(s) PROVE InSync(p)'
    <3>1. CASE \/ RepairGhost(s) \/ RepairDuplicate(s) \/ RepairMismatch(s)
      BY <2>1, <3>1, RepairKeeps
    <3>2. CASE \/ UpdateAskedFiles(s) \/ MarkForReindex(s) \/ CleanupDb(s) \/ CleanupFiles(s)
               \/ SaveJson(s) \/ Upsert(s) \/ SaveManifest(s)
      BY <2>1, <3>2, IngestKeeps
    <3>3. CASE ScanForced(s) \/ ResetFiles(s)
      BY <3>3, SessionFacts DEF ScanForced, ResetFiles, JobShape, Forced
    <3>4. CASE Diagnose(s) \/ RepairDone(s) \/ Scan(s) \/ ParseFile(s) \/ ParseAborted(s)
      BY <2>2, <3>4 DEF Diagnose, RepairDone, Scan, ParseFile, ParseAborted, stores
    <3> QED BY <2>3, <3>1, <3>2, <3>3, <3>4 DEF JobStep
  <2>4. ASSUME NEW t \in Sessions,
               \/ StartSync(t) \/ StartSingleFileSync(t) \/ StartMultipleFilesSync(t)
               \/ StartCli(t) \/ RequestCancel(t)
        PROVE  InSync(p)'
    BY <2>2, <2>4 DEF StartSync, StartSingleFileSync, StartMultipleFilesSync, StartCli,
       RequestCancel, stores
  <2>5. ASSUME Edit \/ Crash \/ UNCHANGED vars PROVE InSync(p)'
    BY <2>2, <2>5 DEF Edit, Crash, vars, stores
  <2>6. \A t \in Sessions : t = s
    BY DEF OneJobAtATime
  <2> QED BY <2>3, <2>4, <2>5, <2>6 DEF Next
<1> QED BY <1>1, CleanStarts, CleanStepKeeps, PTL DEF Spec, HealthyFilesUndisturbed

=============================================================================
