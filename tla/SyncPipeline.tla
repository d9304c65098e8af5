---------------------------- MODULE SyncPipeline ----------------------------
(***************************************************************************)
(* Document synchronisation: SyncController starts a job, the job first    *)
(* repairs what the health check reports and then lets the orchestrator    *)
(* ingest what changed under data/raw.  A job is a thread; its steps are   *)
(* the points where it reads or writes a store shared with other threads:  *)
(* the raw files, manifest.json, the processed JSON files and ChromaDB.    *)
(*                                                                         *)
(* A source id is the hash of (relative path, content, parser); here it is *)
(* that record.  A chunk of ChromaDB is known by its source id only, and   *)
(* db[x] counts how many times the chunks of x were upserted: chunk ids    *)
(* are fresh uuids, so a second upsert adds a second copy.                 *)
(***************************************************************************)
EXTENDS Naturals, FiniteSets

CONSTANTS
    Sessions,        \* Streamlit sessions (and the CLI), each running one job at a time
    JobKinds,        \* the jobs that are started
    Paths,           \* relative paths under data/raw
    Contents,        \* what a raw file may contain
    Blank,           \* the contents a parser extracts nothing from
    Parsers,         \* what the administrator may select: manual, docling
    SettingsParser,  \* settings.PARSER_TYPE
    Kind,            \* Kind[p]: "pdf", "md" or "hwp"
    Name,            \* Name[p]: the file name without its directories
    Absent, NoEntry, NoHash, NoTarget,
    MaxEdits,        \* bound: changes of raw files
    MaxFaults        \* bound: failing calls, crashes and cancel requests

\* The parser recorded for a file that is not a PDF is a fixed label (admin.py).
Labels == Parsers \cup {SettingsParser, "markdown", "hwp"}
Sids == [path : Paths, content : Contents, parser : Labels]
Entries == [hash : Sids \cup {NoHash}, parser : Labels]

ASSUME ConstantsOK ==
    /\ JobKinds \subseteq {"full", "force", "single", "batch", "cli"}
    /\ SettingsParser \in Parsers
    /\ Blank \subseteq Contents
    /\ Kind \in [Paths -> {"pdf", "md", "hwp"}]
    /\ \A p, q \in Paths : Name[p] = Name[q] => Kind[p] = Kind[q]
    /\ Absent \notin Contents /\ NoEntry \notin Entries
    /\ NoHash \notin Sids /\ NoTarget \notin Labels
    /\ MaxEdits \in Nat /\ MaxFaults \in Nat

VARIABLES
    raw,           \* data/raw: path -> content
    manifest,      \* manifest.json: path -> entry
    json,          \* processed/<source id>.json: the ids that have a file
    db,            \* ChromaDB: source id -> copies of its chunks
    globalParser,  \* PipelineOrchestrator().parser_type (a singleton)
    pc, job, plan, \* per session: program point, job, run_ingestion's locals
    edits, faults  \* how much of the bounds is used

stores == <<raw, manifest, json, db, globalParser>>
bounds == <<edits, faults>>
vars == <<stores, pc, job, plan, bounds>>

PCs == {"idle", "repair", "update", "cleanfiles", "mark", "scan", "reset",
            "cleanup", "parse", "save", "upsert", "savemanifest"}

\* asked: the parsers asked for the files a run is limited to; of a run that
\* is not limited, none.
Jobs == [kind : {"none", "full", "force", "single", "batch", "cli"}, parser : Labels,
         asked : [Paths -> Labels \cup {NoTarget}], nested : BOOLEAN, diagnosed : BOOLEAN,
         ghosts : SUBSET Paths, dups : SUBSET Paths, mismatches : SUBSET Paths,
         cancel : BOOLEAN, clean : BOOLEAN,
         outcome : {"none", "completed", "cancelled", "error"}]

Plans == [files : SUBSET Paths, left : SUBSET Paths, sids : SUBSET Sids,
          rels : SUBSET Paths, old : [Paths -> Entries \cup {NoEntry}],
          new : [Paths -> Entries \cup {NoEntry}], gone : SUBSET Sids,
          ret : PCs, parsed : SUBSET Sids]

EmptyManifest == [p \in Paths |-> NoEntry]

NothingAsked == [p \in Paths |-> NoTarget]

NoJob == [kind |-> "none", parser |-> SettingsParser, asked |-> NothingAsked,
          nested |-> FALSE, diagnosed |-> FALSE, ghosts |-> {}, dups |-> {},
          mismatches |-> {}, cancel |-> FALSE, clean |-> FALSE, outcome |-> "none"]

NoPlan == [files |-> {}, left |-> {}, sids |-> {}, rels |-> {},
           old |-> EmptyManifest, new |-> EmptyManifest, gone |-> {},
           ret |-> "idle", parsed |-> {}]

TypeOK ==
    /\ raw \in [Paths -> Contents \cup {Absent}]
    /\ manifest \in [Paths -> Entries \cup {NoEntry}]
    /\ json \in SUBSET Sids
    /\ db \in [Sids -> Nat]
    /\ globalParser \in Labels
    /\ pc \in [Sessions -> PCs]
    /\ job \in [Sessions -> Jobs]
    /\ plan \in [Sessions -> Plans]
    /\ edits \in 0..MaxEdits /\ faults \in 0..MaxFaults

Init ==
    /\ raw = [p \in Paths |-> Absent]
    /\ manifest = EmptyManifest
    /\ json = {}
    /\ db = [x \in Sids |-> 0]
    /\ globalParser = SettingsParser
    /\ pc = [s \in Sessions |-> "idle"]
    /\ job = [s \in Sessions |-> NoJob]
    /\ plan = [s \in Sessions |-> NoPlan]
    /\ edits = 0 /\ faults = 0

-----------------------------------------------------------------------------
(* What the code reads from the stores.                                    *)

\* generate_file_hash of the file as it is now.
HashOf(p, parser) == [path |-> p, content |-> raw[p], parser |-> parser]

\* Mutant: every file has the parser of the settings in its source id.
ChunkParserOfSettings(p, parser) == IF Kind[p] = "hwp" THEN "hwp" ELSE SettingsParser

\* The parser whose name goes into the source id of the chunks: only PDFs
\* honour the parser of the manifest.
ChunkParser(p, parser) ==
    CASE Kind[p] = "pdf" -> parser
      [] Kind[p] = "md"  -> SettingsParser
      [] OTHER           -> "hwp"

\* The source ids of what parsing and chunking the file yields.
Parsed(p, parser) ==
    IF raw[p] \in Blank THEN {} ELSE {HashOf(p, ChunkParser(p, parser))}

ChunksOf(p) == {x \in Sids : x.path = p /\ db[x] > 0}
SourceCount(name) == \E x \in Sids : Name[x.path] = name /\ db[x] > 0

\* calculate_delta: the entries of the new manifest and the three lists.
FileParser(p, default) == IF manifest[p] = NoEntry THEN default ELSE manifest[p].parser
NewManifest(default) ==
    [p \in Paths |->
        IF raw[p] = Absent THEN NoEntry
        ELSE [hash |-> HashOf(p, FileParser(p, default)), parser |-> FileParser(p, default)]]

\* Mutant: the chunks and the JSON file are not looked for.
UpToDateByHash(p, new) == manifest[p] # NoEntry /\ manifest[p].hash = new[p].hash

UpToDate(p, new) ==
    /\ manifest[p] # NoEntry
    /\ manifest[p].hash = new[p].hash
    /\ new[p].hash \in json
    /\ SourceCount(Name[p])

FilesToProcess(new) == {p \in Paths : new[p] # NoEntry /\ ~UpToDate(p, new)}

SourceIdsToDelete(new) ==
    {manifest[p].hash : p \in {q \in Paths :
        /\ manifest[q] # NoEntry
        /\ new[q] = NoEntry \/ new[q].hash # manifest[q].hash}} \ {NoHash}

\* Mutant: the files to process are not cleaned up by their path.
RelPathsOfVanished(new) == {p \in Paths : manifest[p] # NoEntry /\ new[p] = NoEntry}

\* Mutant: every listed file is cleaned up, whether it is processed or not.
RelPathsOfListed(new) == {p \in Paths : manifest[p] # NoEntry} \cup FilesToProcess(new)

RelPathsToDelete(new) ==
    {p \in Paths : manifest[p] # NoEntry /\ new[p] = NoEntry} \cup FilesToProcess(new)

\* _apply_target_filter: the relative paths to delete are not filtered.
Targets(s) == {p \in Paths : job[s].asked[p] # NoTarget}
TargetSids(sids, targets) ==
    {x \in sids : \E p \in Paths, q \in targets :
        manifest[p] # NoEntry /\ manifest[p].hash = x /\ Name[p] = Name[q]}
TargetManifest(new, targets) ==
    [p \in Paths |-> IF p \in targets \/ new[p] = NoEntry THEN new[p] ELSE manifest[p]]

-----------------------------------------------------------------------------
(* How a job ends.                                                         *)

\* Only a background job keeps its outcome, in its SyncJobState.
EndJob(s, outcome, clean) ==
    /\ pc' = [pc EXCEPT ![s] = "idle"]
    /\ job' = [job EXCEPT ![s] = IF job[s].kind \in {"full", "force"}
                  THEN [NoJob EXCEPT !.kind = job[s].kind, !.outcome = outcome, !.clean = clean]
                  ELSE NoJob]
    /\ plan' = [plan EXCEPT ![s] = NoPlan]

Goto(s, label) == pc' = [pc EXCEPT ![s] = label]

\* run_ingestion returns: to the repair loop if it was called by it.
RunDone(s, clean) ==
    \/ /\ ~job[s].nested
       /\ EndJob(s, "completed", clean)
    \/ /\ job[s].nested
       /\ Goto(s, "repair")
       /\ job' = [job EXCEPT ![s].nested = FALSE, ![s].asked = NothingAsked,
                            ![s].clean = clean]
       /\ plan' = [plan EXCEPT ![s] = NoPlan]

\* One failing call more.
Fault == faults < MaxFaults /\ faults' = faults + 1

\* A call of the job raises: run() catches it and calls fail().
Raise(s) == Fault /\ EndJob(s, "error", FALSE)

Cancellable(s) == job[s].kind \in {"full", "force"} /\ ~job[s].nested

-----------------------------------------------------------------------------
(* IngestionPipeline.cleanup_db: first the vector DB, then the files.  The *)
(* source ids of every chunk with one of the file names are added to the   *)
(* ids to delete.                                                          *)

GoneIds(sids, names) ==
    sids \cup {x \in Sids : db[x] > 0 /\ Name[x.path] \in names}

Doomed(gone, rels, names) ==
    {x \in Sids : x \in gone \/ x.path \in rels \/ Name[x.path] \in names}

Without(doomed) == [x \in Sids |-> IF x \in doomed THEN 0 ELSE db[x]]

\* ret is where the caller continues; newJob and newPlan are its locals.
CleanupVector(s, sids, rels, names, ret, newJob, newPlan) ==
    LET gone == GoneIds(sids, names) IN
    \/ /\ db' = Without(Doomed(gone, rels, names))
       /\ Goto(s, "cleanfiles")
       /\ job' = [job EXCEPT ![s] = newJob]
       /\ plan' = [plan EXCEPT ![s] = [newPlan EXCEPT !.gone = gone,
                                      !.rels = rels, !.ret = ret]]
       /\ UNCHANGED faults
    \/ \* the ids of the names cannot be read: logged, and only sids are known;
       \* so is the delete by name if it fails too
       /\ names # {} /\ Fault
       /\ \E byName \in {names, {}} : db' = Without(Doomed(sids, rels, byName))
       /\ Goto(s, "cleanfiles")
       /\ job' = [job EXCEPT ![s] = [newJob EXCEPT !.clean = FALSE]]
       /\ plan' = [plan EXCEPT ![s] = [newPlan EXCEPT !.gone = sids,
                                      !.rels = rels, !.ret = ret]]
    \/ \* a delete raises after some of the others
       \E part \in SUBSET (Doomed(gone, rels, names) \cap {x \in Sids : db[x] > 0}) :
          /\ db' = Without(part)
          /\ Raise(s)

\* A file that cannot be deleted raises if it is deleted by its source id; if
\* by its relative path, it is logged and left there.
CleanupFiles(s) ==
    LET byId == {x \in json : x \in plan[s].gone}
        byPath == {x \in json : x.path \in plan[s].rels}
    IN
    /\ pc[s] = "cleanfiles"
    /\ \/ /\ json' = json \ (byId \cup byPath)
          /\ Goto(s, plan[s].ret)
          /\ UNCHANGED <<job, plan, faults>>
       \/ \E kept \in SUBSET (byPath \ byId) \ {{}} :
             /\ Fault
             /\ json' = json \ ((byId \cup byPath) \ kept)
             /\ Goto(s, plan[s].ret)
             /\ job' = [job EXCEPT ![s].clean = FALSE]
             /\ UNCHANGED plan
       \/ \E part \in SUBSET byId :
             /\ byId # {}
             /\ json' = json \ part
             /\ Raise(s)
    /\ UNCHANGED <<raw, manifest, db, globalParser, edits>>

-----------------------------------------------------------------------------
(* SyncController.trigger_sync_background and trigger_single_file_sync.    *)

\* clean is history: no call of the job failed, no file changed and no other job
\* ran while it did.
BeginJob(s, new) ==
    job' = [t \in Sessions |->
              IF t = s THEN [new EXCEPT !.clean = \A u \in Sessions \ {s} : pc[u] = "idle"]
              ELSE [job[t] EXCEPT !.clean = FALSE]]

\* A running job is returned instead of a new one.  No button asks for a forced
\* run; it is a parameter of the controller.
StartSync(s) ==
    /\ pc[s] = "idle"
    /\ \E kind \in JobKinds \cap {"full", "force"}, parser \in Parsers :
          BeginJob(s, [NoJob EXCEPT !.kind = kind, !.parser = parser])
    /\ Goto(s, "repair")
    /\ UNCHANGED <<stores, plan, bounds>>

\* main.py: run_ingestion at once, in a process with an orchestrator of its own.
StartCli(s) ==
    /\ pc[s] = "idle" /\ "cli" \in JobKinds
    /\ BeginJob(s, [NoJob EXCEPT !.kind = "cli"])
    /\ Goto(s, "scan")
    /\ UNCHANGED <<stores, plan, bounds>>

\* The administrator re-indexes a listed file; a file that is not a PDF has
\* a fixed label in place of a parser.
StartSingleFileSync(s) ==
    /\ pc[s] = "idle" /\ "single" \in JobKinds
    /\ \E p \in Paths, parser \in Labels :
          /\ raw[p] # Absent
          /\ CASE Kind[p] = "pdf" -> parser \in Parsers
               [] Kind[p] = "md"  -> parser = "markdown"
               [] OTHER           -> parser = "hwp"
          /\ BeginJob(s, [NoJob EXCEPT !.kind = "single",
                                       !.asked = [NothingAsked EXCEPT ![p] = parser]])
    /\ Goto(s, "update")
    /\ UNCHANGED <<stores, plan, bounds>>

\* The administrator confirms the parsers selected for several PDFs, which the
\* dialog keeps by file name.
StartMultipleFilesSync(s) ==
    /\ pc[s] = "idle" /\ "batch" \in JobKinds
    /\ \E asked \in [Paths -> Parsers \cup {NoTarget}] \ {NothingAsked} :
          LET listed == {p \in Paths : asked[p] # NoTarget} IN
          /\ \A p \in listed : Kind[p] = "pdf" /\ raw[p] # Absent
          /\ \A p, q \in listed : Name[p] = Name[q] => p = q
          /\ BeginJob(s, [NoJob EXCEPT !.kind = "batch", !.asked = asked])
    /\ Goto(s, "update")
    /\ UNCHANGED <<stores, plan, bounds>>

\* SyncJobState.request_cancel.
RequestCancel(s) ==
    /\ pc[s] # "idle"
    /\ job[s].kind \in {"full", "force"}
    /\ ~job[s].cancel
    /\ Fault
    /\ job' = [job EXCEPT ![s].cancel = TRUE]
    /\ UNCHANGED <<stores, pc, plan, edits>>

-----------------------------------------------------------------------------
(* check_database_status and repair_integrity.                             *)

ParsersOf(p) == {x.parser : x \in ChunksOf(p)}

\* The parser used to recompute the hash is an arbitrary one of those found.
\* A check that fails reports nothing.
Diagnose(s) ==
    LET chunked == {p \in Paths : ChunksOf(p) # {}}
        present == {p \in chunked : raw[p] # Absent}
        differs(p, parser) == HashOf(p, parser) \notin ChunksOf(p)
    IN
    /\ pc[s] = "repair" /\ ~job[s].diagnosed
    /\ \/ /\ \E pick \in [present -> Labels] :
                /\ \A p \in present : pick[p] \in ParsersOf(p)
                /\ job' = [job EXCEPT ![s].diagnosed = TRUE,
                       ![s].ghosts = chunked \ present,
                       ![s].dups = {p \in present : Cardinality(ParsersOf(p)) > 1},
                       ![s].mismatches = {p \in present : differs(p, pick[p])}]
          /\ UNCHANGED faults
       \/ /\ Fault
          /\ job' = [job EXCEPT ![s].diagnosed = TRUE, ![s].clean = FALSE]
    /\ UNCHANGED <<stores, pc, plan, edits>>

RepairGhost(s) ==
    /\ pc[s] = "repair" /\ job[s].diagnosed
    /\ \E p \in job[s].ghosts :
          CleanupVector(s, {}, {p}, {}, "repair",
                        [job[s] EXCEPT !.ghosts = @ \ {p}], NoPlan)
    /\ UNCHANGED <<raw, manifest, json, globalParser, edits>>

RepairDuplicate(s) ==
    /\ pc[s] = "repair" /\ job[s].diagnosed /\ job[s].ghosts = {}
    /\ \E p \in job[s].dups :
          CleanupVector(s, {x \in ChunksOf(p) : x.parser # SettingsParser}, {}, {}, "repair",
                        [job[s] EXCEPT !.dups = @ \ {p}], NoPlan)
    /\ UNCHANGED <<raw, manifest, json, globalParser, edits>>

\* A file is looked up by its name: an entry of the manifest with that name is
\* preferred to a scanned file.  FoundFiles: one file for each name that has any.
FindRelativePath(name) ==
    LET listed == {p \in Paths : manifest[p] # NoEntry /\ Name[p] = name} IN
    IF listed # {} THEN listed ELSE {p \in Paths : raw[p] # Absent /\ Name[p] = name}

FoundFiles(names) ==
    {found \in SUBSET UNION {FindRelativePath(name) : name \in names} :
        /\ \A p, q \in found : Name[p] = Name[q] => p = q
        /\ \A name \in names :
              FindRelativePath(name) # {} => \E p \in found : Name[p] = name}

ParserAsked(asked, name) ==
    asked[CHOOSE p \in Paths : asked[p] # NoTarget /\ Name[p] = name]

\* update_file_parser and update_multiple_file_parsers up to their cleanup, which
\* the second one leaves out when no file found has a recorded hash.
UpdateFileParser(s, asked, newJob) ==
    LET names == {Name[p] : p \in {q \in Paths : asked[q] # NoTarget}} IN
    \E found \in FoundFiles(names) \ {{}} :
       LET hashes == {manifest[q].hash : q \in {r \in found : manifest[r] # NoEntry}}
                        \ {NoHash}
           nextJob == [newJob EXCEPT !.asked = [q \in Paths |->
                          IF q \in found THEN ParserAsked(asked, Name[q]) ELSE NoTarget]]
           nextPlan == [NoPlan EXCEPT !.old = manifest]
       IN
       \/ /\ newJob.kind # "batch" \/ hashes # {}
          /\ CleanupVector(s, hashes, {}, names, "mark", nextJob, nextPlan)
       \/ /\ newJob.kind = "batch" /\ hashes = {}
          /\ Goto(s, "mark")
          /\ job' = [job EXCEPT ![s] = nextJob]
          /\ plan' = [plan EXCEPT ![s] = nextPlan]
          /\ UNCHANGED <<db, faults>>

\* The repair asks for the parser of its job.
AskedByRepair(s, p) == [NothingAsked EXCEPT ![p] = job[s].parser]

\* Mutant: a mismatch stays on the list until a new diagnosis clears it.
RepairMismatchAgain(s) ==
    /\ pc[s] = "repair" /\ job[s].diagnosed
    /\ job[s].ghosts = {} /\ job[s].dups = {}
    /\ \E p \in job[s].mismatches :
          UpdateFileParser(s, AskedByRepair(s, p), [job[s] EXCEPT !.nested = TRUE])
    /\ UNCHANGED <<raw, manifest, json, globalParser, edits>>

RepairMismatch(s) ==
    /\ pc[s] = "repair" /\ job[s].diagnosed
    /\ job[s].ghosts = {} /\ job[s].dups = {}
    /\ \E p \in job[s].mismatches :
          LET next == [job[s] EXCEPT !.mismatches = @ \ {p}] IN
          \/ UpdateFileParser(s, AskedByRepair(s, p), [next EXCEPT !.nested = TRUE])
          \/ /\ FindRelativePath(Name[p]) = {}
             /\ job' = [job EXCEPT ![s] = next]
             /\ UNCHANGED <<db, pc, plan, faults>>
    /\ UNCHANGED <<raw, manifest, json, globalParser, edits>>

RepairDone(s) ==
    /\ pc[s] = "repair" /\ job[s].diagnosed
    /\ job[s].ghosts = {} /\ job[s].dups = {} /\ job[s].mismatches = {}
    /\ Goto(s, "scan")
    /\ UNCHANGED <<stores, job, plan, bounds>>

UpdateAskedFiles(s) ==
    /\ pc[s] = "update"
    /\ \/ UpdateFileParser(s, job[s].asked, job[s])
       \/ /\ \A p \in Targets(s) : FindRelativePath(Name[p]) = {}
          /\ EndJob(s, "completed", job[s].clean)
          /\ UNCHANGED <<db, faults>>
    /\ UNCHANGED <<raw, manifest, json, globalParser, edits>>

\* Mutant: the entry is replaced by an empty hash.
MarkWithoutParser(s) ==
    /\ pc[s] = "mark"
    /\ manifest' = [p \in Paths |-> IF p \in Targets(s) THEN NoHash ELSE plan[s].old[p]]
    /\ Goto(s, "scan")
    /\ plan' = [plan EXCEPT ![s] = NoPlan]
    /\ UNCHANGED <<raw, json, db, globalParser, job, bounds>>

\* The entries of the files are written without a hash, in the manifest as it was
\* when update_file_parser loaded it.  save_manifest swallows its errors.
MarkForReindex(s) ==
    /\ pc[s] = "mark"
    /\ \/ /\ manifest' = [p \in Paths |->
                IF p \in Targets(s) THEN [hash |-> NoHash, parser |-> job[s].asked[p]]
                ELSE plan[s].old[p]]
          /\ UNCHANGED <<job, faults>>
       \/ /\ Fault
          /\ job' = [job EXCEPT ![s].clean = FALSE]
          /\ UNCHANGED manifest
    /\ Goto(s, "scan")
    /\ plan' = [plan EXCEPT ![s] = NoPlan]
    /\ UNCHANGED <<raw, json, db, globalParser, edits>>

-----------------------------------------------------------------------------
(* PipelineOrchestrator.run_ingestion: plan, clean up, parse, save, upsert *)
(* and save the manifest.                                                  *)

\* _update_parser_if_changed: only the controller's runs are given a parser.
GlobalParserAfter(s) == IF Cancellable(s) THEN job[s].parser ELSE globalParser

Scan(s) ==
    LET new    == NewManifest(IF job[s].kind = "cli" THEN SettingsParser
                              ELSE GlobalParserAfter(s))
        limited == Targets(s) # {}
        todo   == IF limited THEN FilesToProcess(new) \cap Targets(s)
                  ELSE FilesToProcess(new)
        sids   == IF limited THEN TargetSids(SourceIdsToDelete(new), Targets(s))
                  ELSE SourceIdsToDelete(new)
        rels   == RelPathsToDelete(new)
    IN
    /\ pc[s] = "scan"
    /\ job[s].kind # "force" \/ job[s].nested
    /\ globalParser' = GlobalParserAfter(s)
    /\ \/ /\ todo = {} /\ sids = {}
          /\ RunDone(s, job[s].clean)
       \/ /\ todo # {} \/ sids # {}
          /\ Goto(s, "cleanup")
          /\ plan' = [plan EXCEPT ![s] = [NoPlan EXCEPT
                        !.files = todo, !.left = todo, !.sids = sids, !.rels = rels,
                        !.new = IF limited THEN TargetManifest(new, Targets(s))
                                ELSE new]]
          /\ UNCHANGED job
    /\ UNCHANGED <<raw, manifest, json, db, bounds>>

\* A forced run empties the collection first ...
ScanForced(s) ==
    /\ pc[s] = "scan"
    /\ job[s].kind = "force" /\ ~job[s].nested
    /\ globalParser' = GlobalParserAfter(s)
    /\ \/ /\ db' = [x \in Sids |-> 0]
          /\ Goto(s, "reset")
          /\ LET files == {p \in Paths : raw[p] # Absent} IN
             plan' = [plan EXCEPT ![s] = [NoPlan EXCEPT !.files = files, !.left = files]]
          /\ UNCHANGED <<job, faults>>
       \/ /\ Raise(s)
          /\ UNCHANGED db
    /\ UNCHANGED <<raw, manifest, json, edits>>

\* ... then every JSON file, the manifest among them; a file that cannot be
\* deleted is logged.  Then the files found before are hashed.
ResetFiles(s) ==
    /\ pc[s] = "reset"
    /\ \E kept \in SUBSET json, deleted \in BOOLEAN :
          /\ json' = kept
          /\ manifest' = IF deleted THEN EmptyManifest ELSE manifest
          /\ IF kept = {} /\ deleted THEN UNCHANGED faults ELSE Fault
          /\ \/ /\ \E p \in plan[s].files : raw[p] = Absent
                /\ EndJob(s, "error", FALSE)
             \/ /\ \A p \in plan[s].files : raw[p] # Absent
                /\ Goto(s, IF plan[s].files = {} THEN "savemanifest" ELSE "parse")
                /\ job' = [job EXCEPT ![s].clean = @ /\ kept = {} /\ deleted]
                /\ plan' = [plan EXCEPT ![s].new = [p \in Paths |->
                      IF p \in plan[s].files
                      THEN [hash |-> HashOf(p, globalParser), parser |-> globalParser]
                      ELSE NoEntry]]
    /\ UNCHANGED <<raw, db, globalParser, edits>>

\* _cleanup_db adds the names the manifest on disk gives to the source ids.
CleanupDb(s) ==
    LET names == {Name[p] : p \in {q \in Paths :
                    manifest[q] # NoEntry /\ manifest[q].hash \in plan[s].sids}}
    IN
    /\ pc[s] = "cleanup"
    /\ CleanupVector(s, plan[s].sids, plan[s].rels, names,
                     IF plan[s].files = {} THEN "savemanifest" ELSE "parse",
                     job[s], plan[s])
    /\ UNCHANGED <<raw, manifest, json, globalParser, edits>>

\* Files that are not PDFs are parsed first, in a process pool; PDFs one by one.
NextToParse(s) ==
    LET pooled == {p \in plan[s].left : Kind[p] # "pdf"} IN
    IF pooled = {} THEN plan[s].left ELSE pooled

\* A file that fails among several is logged and left out.
ParseFile(s) ==
    /\ pc[s] = "parse"
    /\ ~(Cancellable(s) /\ job[s].cancel)
    /\ \E p \in NextToParse(s), skipped \in BOOLEAN :
          LET left   == plan[s].left \ {p}
              parsed == IF skipped THEN plan[s].parsed
                        ELSE plan[s].parsed \cup Parsed(p, plan[s].new[p].parser)
          IN
          /\ raw[p] = Absent => skipped
          /\ skipped => Cardinality(plan[s].files) > 1
          /\ IF skipped /\ raw[p] # Absent THEN Fault ELSE UNCHANGED faults
          /\ job' = [job EXCEPT ![s].clean = @ /\ ~skipped]
          /\ plan' = [plan EXCEPT ![s].left = left, ![s].parsed = parsed]
          /\ Goto(s, IF left # {} THEN "parse"
                     ELSE IF parsed # {} THEN "save" ELSE "savemanifest")
    /\ UNCHANGED <<stores, edits>>

\* A single file that fails, and a broken process pool, end the job; so does a
\* cancel request when a file was parsed.
ParseAborted(s) ==
    /\ pc[s] = "parse"
    /\ \/ /\ Cancellable(s) /\ job[s].cancel
          /\ EndJob(s, "cancelled", FALSE)
          /\ UNCHANGED faults
       \/ \E p \in NextToParse(s) :
             /\ Cardinality(plan[s].files) = 1 \/ Kind[p] # "pdf"
             /\ Raise(s)
       \/ \E p \in NextToParse(s) :
             /\ Cardinality(plan[s].files) = 1 /\ raw[p] = Absent
             /\ EndJob(s, "error", FALSE)
             /\ UNCHANGED faults
    /\ UNCHANGED <<stores, edits>>

\* Mutant: a JSON file that cannot be written is logged, as a failed upsert is.
SaveJsonLogged(s) ==
    /\ pc[s] = "save"
    /\ \E part \in SUBSET plan[s].parsed :
          /\ json' = json \cup part
          /\ IF part = plan[s].parsed THEN UNCHANGED faults ELSE Fault
    /\ Goto(s, "upsert")
    /\ UNCHANGED <<raw, manifest, db, globalParser, job, plan, edits>>

\* The progress callback that follows the JSON files is the last to see a
\* cancel request.
SaveJson(s) ==
    /\ pc[s] = "save"
    /\ \/ /\ json' = json \cup plan[s].parsed
          /\ IF Cancellable(s) /\ job[s].cancel
             THEN EndJob(s, "cancelled", FALSE)
             ELSE Goto(s, "upsert") /\ UNCHANGED <<job, plan>>
          /\ UNCHANGED faults
       \/ \E part \in SUBSET plan[s].parsed :
             /\ json' = json \cup part
             /\ Raise(s)
    /\ UNCHANGED <<raw, manifest, db, globalParser, edits>>

\* upsert_documents logs its errors and returns.
Upsert(s) ==
    /\ pc[s] = "upsert"
    /\ \/ /\ db' = [x \in Sids |-> IF x \in plan[s].parsed THEN db[x] + 1 ELSE db[x]]
          /\ UNCHANGED <<job, faults>>
       \/ /\ Fault
          /\ job' = [job EXCEPT ![s].clean = FALSE]
          /\ UNCHANGED db
    /\ Goto(s, "savemanifest")
    /\ UNCHANGED <<raw, manifest, json, globalParser, plan, edits>>

\* save_manifest too; the old file is left as it was.
SaveManifest(s) ==
    /\ pc[s] = "savemanifest"
    /\ \/ /\ manifest' = plan[s].new
          /\ RunDone(s, job[s].clean)
          /\ UNCHANGED faults
       \/ /\ Fault
          /\ RunDone(s, FALSE)
          /\ UNCHANGED manifest
    /\ UNCHANGED <<raw, json, db, globalParser, edits>>

-----------------------------------------------------------------------------
(* The environment.                                                        *)

\* A file is uploaded, replaced or deleted: no job that runs saw all of it.
Edit ==
    /\ edits < MaxEdits
    /\ \E p \in Paths, c \in Contents \cup {Absent} :
          /\ raw[p] # c
          /\ raw' = [raw EXCEPT ![p] = c]
    /\ edits' = edits + 1
    /\ job' = [s \in Sessions |-> [job[s] EXCEPT !.clean = FALSE]]
    /\ UNCHANGED <<manifest, json, db, globalParser, pc, plan, faults>>

\* The process dies and is started again; the jobs are daemon threads.
Crash ==
    /\ Fault
    /\ globalParser' = SettingsParser
    /\ pc' = [s \in Sessions |-> "idle"]
    /\ job' = [s \in Sessions |-> NoJob]
    /\ plan' = [s \in Sessions |-> NoPlan]
    /\ UNCHANGED <<raw, manifest, json, db, edits>>

JobStep(s) ==
    \/ Diagnose(s) \/ RepairGhost(s) \/ RepairDuplicate(s) \/ RepairMismatch(s)
    \/ RepairDone(s) \/ UpdateAskedFiles(s) \/ MarkForReindex(s)
    \/ Scan(s) \/ ScanForced(s) \/ ResetFiles(s) \/ CleanupDb(s) \/ CleanupFiles(s)
    \/ ParseFile(s) \/ ParseAborted(s) \/ SaveJson(s) \/ Upsert(s) \/ SaveManifest(s)

Next ==
    \/ \E s \in Sessions :
          \/ StartSync(s) \/ StartSingleFileSync(s) \/ StartMultipleFilesSync(s)
          \/ StartCli(s) \/ RequestCancel(s) \/ JobStep(s)
    \/ Edit
    \/ Crash

Spec == Init /\ [][Next]_vars

\* A job is a thread of its own: the scheduler lets it go on.
FairSpec == Spec /\ \A s \in Sessions : WF_vars(JobStep(s))

-----------------------------------------------------------------------------
(* Correctness.                                                            *)

Current(p) == HashOf(p, ChunkParser(p, manifest[p].parser))

\* The search index holds one version of a file, once: no sequence of edits,
\* failures, crashes and retries leaves the chunks of two versions, or two
\* copies of the same chunks, for a question to retrieve (cleanup_db before
\* upsert_to_db, in _process_changes).
OneVersionPerFile ==
    /\ \A x \in Sids : db[x] <= 1
    /\ \A x, y \in Sids : x.path = y.path /\ db[x] > 0 /\ db[y] > 0 => x = y

\* Whatever can be retrieved has the JSON file its parent text is read from:
\* save_processed_data comes before upsert_to_db, and the vector DB is cleaned
\* before the JSON files.
ChunksHaveParentJson == \A x \in Sids : db[x] > 0 => x \in json

Cleared(set) == \A x \in Sids : x.path \in set => db[x] = 0

FollowsPlan(s) ==
    /\ pc[s] = "cleanup" => plan[s].files \subseteq plan[s].rels
    /\ pc[s] = "cleanfiles" =>
          /\ Cleared(plan[s].rels) /\ \A x \in plan[s].gone : db[x] = 0
          /\ plan[s].ret = "parse" => Cleared(plan[s].files)
    /\ pc[s] = "reset" => Cleared(Paths)
    /\ pc[s] \in {"parse", "save", "upsert"} => Cleared(plan[s].files)
    /\ pc[s] = "upsert" => plan[s].parsed \subseteq json
    /\ plan[s].left \subseteq plan[s].files
    /\ \A x \in plan[s].parsed : x.path \in plan[s].files \ plan[s].left
    /\ \A x, y \in plan[s].parsed : x.path = y.path => x = y
    /\ plan[s].ret \in {"idle", "repair", "mark", "parse", "savemanifest"}

\* With one session: what a job cleaned up stays clean until it upserts, and it
\* upserts at most one version of a file, with its JSON file in place.  This is
\* what the two properties above rest on (_process_changes, cleanup_db).
StoresFollowPlan == \A s \in Sessions : FollowsPlan(s)

\* After a full run that ran alone and in which nothing failed or changed, every
\* file can be found and what is found is in the files as they are, whatever
\* crashed, failed, was cancelled or interleaved with another session before it
\* (repair_integrity and calculate_delta together).
Mirrored ==
    /\ \A p \in Paths : raw[p] \notin Blank \cup {Absent} => ChunksOf(p) # {}
    /\ \A x \in Sids : db[x] > 0 => x.content = raw[x.path]

CleanlySynced(s) ==
    /\ pc[s] = "idle" /\ job[s].kind \in {"full", "force"}
    /\ job[s].outcome = "completed" /\ job[s].clean

CleanSyncMirrors == \A s \in Sessions : CleanlySynced(s) => Mirrored

\* The part of it that overlapping jobs of two sessions cannot break: after a
\* clean run every file is found as it is now, among other versions perhaps.
CleanSyncFindsCurrent ==
    \A s \in Sessions : CleanlySynced(s) =>
       \A p \in Paths : raw[p] \notin Blank \cup {Absent} =>
          \E x \in ChunksOf(p) : x.content = raw[p]

\* A second full run right after it has nothing to do: no PDF that it can index is
\* indexed again.  (An HWP file always is: its chunks have the label "hwp" in
\* their source id, strategies.py 168, the manifest has the recorded parser's.)
CleanSyncIsIdempotent ==
    \A s \in Sessions : CleanlySynced(s) =>
       \A p \in FilesToProcess(NewManifest(globalParser)) :
          raw[p] \in Blank \/ Kind[p] # "pdf"

InSync(p) ==
    /\ raw[p] # Absent /\ manifest[p] # NoEntry
    /\ manifest[p].hash = Current(p)
    /\ Current(p) \in json /\ db[Current(p)] = 1

\* A file that is indexed as it is on disk stays searchable while a full run, or one
\* of chosen files, that sees no edit works on the other files.
HealthyFilesUndisturbed ==
    [][\A p \in Paths, s \in Sessions :
          InSync(p) /\ pc[s] # "idle" /\ pc'[s] # "idle" /\ job[s].clean /\ raw'[p] = raw[p]
          /\ job[s].kind # "force" /\ job[s].asked[p] = NoTarget
          => InSync(p)']_vars

\* The re-indexing of chosen files leaves the chunks of every other file alone.
SingleSyncTouchesOnlyTarget ==
    [][\A s \in Sessions, x \in Sids :
          job[s].kind \in {"single", "batch"} /\ pc[s] # "idle" /\ x.path \notin Targets(s)
          => db'[x] = db[x]]_vars

\* A JSON file that no file on disk accounts for is gone after a clean full run.
NoOrphanJson ==
    \A s \in Sessions : CleanlySynced(s) => \A x \in json : raw[x.path] # Absent

\* Every sync ends: completed, cancelled or with an error.
JobTerminates == \A s \in Sessions : pc[s] # "idle" ~> pc[s] = "idle"

=============================================================================
