# A verification project for context-rag-chatbot

TLA+ models of the parts of the chatbot that keep state and can go wrong in ways
a unit test hardly reaches, the TLC runs that check them, and theorems that the
TLAPS proof system checks for every value of the constants.

## 1. The system

The program is a retrieval-augmented chatbot over a directory of documents. A
Streamlit app (`src/src/app.py`) answers questions; a FastAPI service
(`src/src/api/main.py`) runs backups; ChromaDB, Ollama and Redis are services of
their own.

| part | state | operations | talks to |
|---|---|---|---|
| Sync controller (`controllers/sync_controller.py`) | one `SyncJobState` per browser session | start a background job, cancel it, re-index one file or several | health check, orchestrator |
| Orchestrator (`pipeline/orchestrator.py`) | singleton; its parser | `run_ingestion`, `update_file_parser` and its batch form | ingestion, manifest, semantic cache, BM25 |
| Ingestion and manifest (`pipeline/ingestion.py`, `manifest_manager.py`) | `manifest.json`, `processed/<id>.json` | scan, delta, clean up, parse, save, upsert | storage, ChromaDB |
| Health check (`utils/health_check.py`) | none of its own | compare files with chunks, repair | ChromaDB, orchestrator |
| Vector database manager (`vector_db/chroma_manager.py`) | the collections and their tags; a client with retry and self-healing | open, check settings, upsert, delete, count, reset | ChromaDB |
| Backup and restore (`vector_db/backup_manager.py`) | lock file, archives, hash files, status file | back up, rotate, restore, diagnose | the files of ChromaDB |
| BM25 index (`vector_db/bm25_*.py`) | three index files, corpus and manifest; the corpus in memory | incremental build, builds that overlap | `processed/*.json` |
| RAG chain and semantic cache (`core/chains.py`, `cache.py`) | cached answers, cached parent JSON, one queue and thread per answer | stream an answer with keepalive | retriever, reranker, model |
| Reranker (`core/reranker.py`) | busy flag, device, model, one worker thread | rerank with a timeout, fall back, recover | threads, external services |
| Stream responder and session (`ui/stream_responder.py`, `app.py`) | the conversation, the steps drawn so far, flags | ask, stream, stop, save | chain, Redis |
| Redis history (`utils/redis_session.py`) | a copy of the conversation | save, load, delete | Redis |
| Model adapters (`models/`) | loaded clients; a table of downloads | pull, generate, embed | Ollama, Gemini, Claude |
| Parsing and chunking (`processing/`, `data/`) | none | text and tables out of a file | PyMuPDF, Docling |
| Administration dialog (`ui/dialogs/admin.py`) | session flags | upload, delete, start, cancel, back up | controller, API |

What is hard in it: jobs of several browser sessions share one orchestrator and its
stores; every multi-store update can stop in the middle (a crash, a failing call, a
cancel), and most errors are logged and passed over; the identity of a chunk depends on
a parser name that three places choose differently; answers and caches outlive the data
they were made from; locks and flags are checked and set in two steps, and some stores
have none; a timed-out thread goes on; a click replaces the running script wherever it
is. `PROJECT.json` lists each of these at its line under `hazards`.

What makes each part correct, in a sentence: the index holds one version of each
file, its parents can be read, and a clean sync makes it equal to the files
(sync); a backup can be restored and a failed restore leaves the old database
(backup); the index never vouches for what was not written (BM25); the index was
made with the settings it is searched with (opening); an answer arrives whole or
as a failure, and only whole ones are cached (chain); one rerank at a time, and a
late one changes nothing (reranker); what is drawn of a conversation is what its
generator gave (session); one download at a time, and it is retried until the
model is there (pull).

## 2. How the project is laid out

Each module models one component and stands alone; where two components share
state, the module of the one models the steps of the other as far as the shared
state goes.

| module | component | abstracts from the others |
|---|---|---|
| `SyncPipeline` | controller, health check, orchestrator, ingestion, manifest and the stores | |
| `BackupRestore` | backup and restore | the ingestion is `Write` |
| `Reranker` | reranker | the chain is a caller |
| `AnswerStream`, `TokenFeed` | RAG chain, semantic cache; what a stream promises | a sync of one document is four steps |
| `Bm25Index` | BM25 index | sync jobs are `SaveJson` and `DeleteJson` |
| `ChromaStart` | opening of the two collections and the check of the settings | a sync is five steps, an answer is `CacheAdd` |
| `ChatSession` | page and stream responder | the chain is a generator that gives, ends or raises |
| `ModelPull` | download of the model and the pages that wait for it | the server is external |

`MC<module>` gives the constants of its instances, `<module>Proofs` holds
theorems and proofs.

The steps of a sync that `AnswerStream`, `Bm25Index` and `ChromaStart` contain are
those of `SyncPipeline` in its order (flush, clean up, save the JSON files, upsert,
rebuild), each with the effect on the state at hand.

Left for later: the copy of the conversation in Redis in `ChatSession`, and an
abstract document index that `SyncPipeline` refines.

## 3. The modules

### 3.1 `SyncPipeline`

A *session* runs one job at a time in a thread of its own: a full or a forced sync from
the administration dialog, the re-indexing of one file or of several PDFs with parsers
selected for each, or the command line. `pc[s]` is the point the thread has reached; a
step ends where the thread next reads or writes something another thread can write.

| variable | in the code |
|---|---|
| `raw` | the files under `data/raw` |
| `manifest` | `manifest.json` |
| `json` | the files `processed/<source id>.json` |
| `db` | the ChromaDB collection: copies of the chunks of each source id |
| `globalParser` | `parser_type` of the orchestrator singleton |
| `job[s]` | `SyncJobState`, the lists of `check_database_status`, history flags |
| `plan[s]` | the locals of `run_ingestion` and `_process_changes` |

The actions in the order of a full sync: `StartSync`; `Diagnose`
(`check_database_status`); `RepairGhost`, `RepairDuplicate` and, with a nested ingestion
for each file, `RepairMismatch` (`repair_integrity`); `RepairDone`; `Scan` or
`ScanForced` (with `ResetFiles`) for the plan; `CleanupDb` and `CleanupFiles`;
`ParseFile` and `ParseAborted`; `SaveJson`, `Upsert`, `SaveManifest`. A run limited to
chosen files (`StartSingleFileSync`, `StartMultipleFilesSync`; `job[s].asked` has the
parser asked for each) goes through `UpdateAskedFiles` and `MarkForReindex` first: the
files are looked up by name (`FoundFiles`), cleaned up, which the batch form leaves out
if none of them has a recorded hash, and written to the manifest without a hash. The
batch may ask for any parser, the recorded one too: the page it is confirmed on can be
older than the manifest. `RequestCancel`, `Edit` and `Crash` may come at any moment.
Each write that can fail has the outcome the code gives it: some are logged and passed
over, some end the job.

A source id is in the code the first twelve hex digits of an MD5 of the path, the
SHA-256 of the content, the parser and the document type, and here the record of path,
content and parser: two records differ when their ids do, and the type follows from the
file. Chunks are known by source id, because all reads and deletions are by source id,
path or file name. `job[s].clean` is history: the run saw no edit, failure, cancel or
other job.

Left out: a failing `get_source_count` or scan; JSON files torn by a crash; the
pickled parser cache; a missing Docling installation; the Repair button of the
administration dialog (`admin.py`, 419 to 422), which repairs what an earlier diagnosis
reported, in the thread of the page and without a job; functions without a caller
(`trigger_sync` makes the calls of the background sync without a cancel).

### 3.2 `BackupRestore`

A *job* is a call of `backup_chromadb` or `restore_chromadb`: a background task of the
API, or (`Cli`) a process of its own. `live` is the database directory, a few files each
known by the write it is from; `lock` says whether the lock file is among them, which
matters because a restore moves and puts back the whole directory. `parked[t]` is the
directory with the files a restore at second `t` moved aside, `archive[t]` the archive
named after second `t` with its hash file, `status` the status file. The actions follow
the two functions line by line: `CheckLock` and `TouchLock` are the two halves of
`_operation_lock`, `Raise` its way out by an exception; `OpenArchive`, `ArchivePart`,
`CloseArchive`, `WriteHash`, `Rotate`, `UndoBackup` the backup; `ReleaseServer`,
`ListExisting`, `MoveItem`, `OpenBackup`, `ExtractPart`, `Diagnose`, `Commit`, `Wipe`,
`WipeFails`, `PutBackItem`, `EndRestore` the restore. `CallFails` is a call that raises,
the listing of the live directory in `_move_existing_db` among them, `Write` the
ingestion, which ignores the lock, `Crash` the end of a command or of the API with all
its tasks. `before`, `source` and `quiet` are history for the properties.

Left out: files that are still open after they were moved or unlinked (what is
written to them later); two backups with one name writing the same file at once
(the model merges them, the code may garble them); the unsafe-path check of the
archive's members; directories that do not exist; a status file that cannot be
written (logged); a lock file that cannot be deleted; calls that only ask whether a file
is there and raise.

### 3.3 `Reranker`

A *caller* is a script thread in `rerank_with_timeout`; the one thread of
`_rerank_executor` is `worker`.

| variable | in the code |
|---|---|
| `busy`, `queue`, `running`, `done` | `_rerank_busy`, the jobs of the executor, finished futures |
| `limited` | callers that found `RERANKER_TIMEOUT_ENABLED` set |
| `device`, `model`, `used` | `CrossEncoderReranker.device`, the device of `_model`, of the model a call predicts with |
| `gpuFailed`, `lock` | `_gpu_failure_time`, `_singleton_lock` |
| `eager` | the thread of `eager_load_background` |

`CheckBusy` and `SetBusy` are the two halves of the guard, `Submit` and
`AddCallback` the two of the submission: a callback added to a finished future runs
at once, in the caller. `GiveUp` is the timeout, after which the job goes on as
`Abandoned`. The worker takes a job, tries the recovery, loads and predicts
(`TryRecovery`, `UseLoaded`, `StartLoad`, `Loaded`, `Predicted`), falls back after a
failure (`FallBackToCpu`), or hangs. `Finish` resolves the future, `ClearBusy` is
the callback. `settings` is the choice of the factory and the device; with an external
service the worker makes one call. The switch of the time limit can be turned by
any session at any moment, so each request chooses.

Left out: which documents come back; the timer of the recovery interval (it has
passed or not); `reset_instance`, which only tests call.

### 3.4 `AnswerStream` and `TokenFeed`

A *stream* is one call of `RAGPipeline.stream`: `pc[s]` says at which `yield` the
generator is suspended or that it waits for the queue.

| variable | in the code |
|---|---|
| `docs`, `skipped`, `uses` | the documents (their version), `reranker_skipped`, whether the cache is used |
| `llm`, `producer`, `chunkQ`, `exc` | the model's answer, the thread `llm-stream-producer`, `chunk_q`, `producer_exc` |
| `sent`, `got`, `feed` | tokens put into the queue and taken from it; whether the reader was told the end |
| `cache` | the collection of the semantic cache, each entry with the stream it is from |
| `index`, `paths`, `json`, `lru` | version of the document in the index, path of the JSON file of each version, what is in it, what `_load_source_json` remembers |
| `sync` | where `_process_changes` is |

`Ask`, `CacheHit`, `CacheMiss`, `Search`, `Resolve`, `Rerank` are the stages up to the
documents; `Refuse` and `StartProducer` the two ways on; `Pull`, `YieldChunk`,
`Keepalive`, `EndFeed` the loop of `_stream_with_keepalive`; `Store` the insertion
into the cache; `Close` the end of the generator by `GeneratorExit` at any `yield`.
`Produce`, `ModelEnds`, `ModelFails`, `PutSentinel` are the producer thread; the
model may hang. All streams ask the same question, the case in which they meet in
the cache. One document stands for the index: a sync
replaces it by the next version, whose JSON file is at a new path (another content or
parser makes another source id) or at that of an earlier version, when content and parser
are again those of an earlier indexing.

`TokenFeed` is what a stream promises: tokens arrive in order and once, and the reader
is told that the answer is complete, or has failed, only after the last of them.
`FeedSpec` is `TokenFeed` with `source` mapped to `llm`; a model that hangs is one that
is still open.

### 3.5 `Bm25Index`

`disk` is the five files of the cache, written in place in the order `CacheFiles` and read
in the order `LoadFiles`; each is absent, torn, or of a corpus (the manifest: of hashes).
A *builder* is a thread or process in `build_or_load`: `Begin` lists the JSON files,
`LoadFile` takes one file of the cache after the other, all of them or none in the end,
`HashFiles` takes the hashes, `UseCache` finds nothing to do, `UpdateCorpus` reads the texts
and computes the new corpus, `OpenFile` and `WriteFile` write one file after the other,
`Break` is a crash or a write that raises. Every save of a JSON file is a new version, since
parents get random ids; `Blank` versions are not JSON or have no token. `served` is what
answers questions.

Builds overlap. Neither `build_or_load` nor `_rebuild_bm25` (`orchestrator.py`, 131 to 140)
takes a lock; the guard against a second job is per browser session (`sync_controller.py`,
91 to 93); a command line is another process; and the application, which builds when it
starts, builds again after a job, because `app.py` (line 332) hands the jobs
`initialize_rag_system.clear` to call at their end (`sync_controller.py`, 115 to 117, 174, 202
and 228). So `Begin` has no guard but that the builder rests. Where two builds have one file
open at once, what is left of it is the one write, the other, or bytes of both: `Mixed` stands
for a mix that does not parse, and `Mixes` gives the ones that do.

### 3.6 `ChromaStart`

Four *openers* construct a `ChromaDBManager`: the page and the ingestion pipeline the
index, the chain and the orchestrator the cache. `Connect` and `ConnectFails` are the
attempts of `_initialize_client_with_retry`, the latter with the removal of a local
database; `Reset`, `Clear` and `Tag` are the steps of `_check_config_and_auto_reset`,
each of which may fail and is then passed over; `Stop` ends the process at any point and
`Start` begins it with other settings. A setting stands for embedding model and chunk
sizes; an entry of a collection, and a JSON file, is the setting it was made with.
`trouble` is history: a call of the check failed, or a collection was lost under the
running application.

External, from how the code uses it: `get_or_create_collection` on an existing
collection keeps its tag, and `modify` replaces it.

### 3.7 `ChatSession`

One browser session. External, from how Streamlit runs a script: a click starts a
new run in a thread of its own, and the thread of the old one dies at its next
touch of `st`. Each action therefore ends where the next touch is; a run
replaced inside the generator stays in it until it gives a step
(`ReplacedReturns`), and `next()` on a generator another thread is in raises.
`messages`, `generating`, `stop`, `iter` and `steps` are the items of
`st.session_state`; `gens` the generators; `pc`, `trigger`, `it`, `how` the current
run. `Input` to `Stopping` are the page (lines 488 to 541 of `app.py`), `Pull` to
`After` are `consume_stream`, `EndGeneration`, `AppendAnswer` and `ClearIter` are
`finalize_stream` and the rerun behind it.

### 3.8 `ModelPull`

`page[p]` follows a page from the readiness check through the fragment that runs once a
second: `StartPull`, `CheckModel`, `ShowStatus`. `current` is the record in
`OllamaPullStatus._instances`, by the thread it was made for; a thread writes to its own
record (`info`) even after it was replaced. `LooksFirst`, `Connect`, `Line`, `LastLine`,
`Fails`, `CutOff` and `Finish` are `_run_pull` over `pull_model_progress`. The server
is up or down and gets the model at some point of a download; `installed` may hold
a sibling with another tag, which passes for a model named without one.

## 4. The runs

Passing:

| run | instance | question |
|---|---|---|
| `SyncPdf` | one session, every kind of job, two PDFs, two contents, two parsers, 3 edits, 2 faults | do the stores stay consistent and does a clean run repair everything |
| `SyncMixed` | a Markdown file, a PDF and an HWP file, a content with nothing to extract, 2 edits, 1 fault, fair | does a clean run repair everything where the parser labels differ by kind; does every job end |
| `SyncPair` | two sessions, full and single-file jobs, one PDF, 2 edits, two parsers | what of it survives overlapping jobs |
| `BackupSeq` | one job at a time, two files, `Limit` 2, 4 seconds, 1 write, 2 faults | is a restore all or nothing, is the old database always on disk, is what is reported usable |
| `BackupPair` | a task and a command at a time, a server, every failure, 1 fault, fair | does every operation end |
| `Rerank` | two callers, two jobs in the queue, all settings, fair | does the flag come off, is the model where it should be, is every request answered |
| `Answer` | two streams, one token, one sync, fair | does the stream keep its promise, does it ever go silent, are only whole answers cached |
| `Bm25` | two files, four versions one of them blank, one builder that builds again and again | is a corpus taken for current right, is one version served |
| `Chroma` | one document, two settings, 2 attempts, 3 starts, every failure, fair | was the index made with the settings of the page; does opening end |
| `Chat` | three questions, two steps each, three other clicks, one turn of history, fair | whose steps are drawn, is a question answered once, does a generation end |
| `Pull` | two pages, two threads, a tagged name, two faults, one click, fair | one download, honest success, ready in the end |

`SyncPdf` checks, besides types: `OneVersionPerFile` (never two versions or two
copies to retrieve; the batch that skips its cleanup rests on the ingestion after it
for this), `ChunksHaveParentJson`, `StoresFollowPlan` (what was cleaned
up stays clean until the upsert), `CleanSyncMirrors` (after a full run in which
nothing went wrong the index is exactly the files, whatever happened before it),
`CleanSyncIsIdempotent` (a second run has nothing to do) and the action property
`HealthyFilesUndisturbed` (a file that is in order is not touched by a run for
another). `SyncPair` checks `CleanSyncFindsCurrent`, the part of `CleanSyncMirrors`
that two overlapping sessions cannot break.

`BackupSeq` checks `RestoreIsAllOrNothing` (a restore that got the lock ends with the
whole archive if it reports success, with the whole old database if it reports a
failure), `OldDbOnDisk` (a crash at any step of a restore loses nothing an operator
could not put back), `CompletedIsUsable` and `UsableBackupRemains` (one failure never
costs the last backup).

`Rerank` checks `BusyHasOwner` (a set flag has a job that will clear it),
`ModelOnDevice`, `CpuHasReturn` (the CPU stands in for the GPU only with the failure on
record) and, as liveness, `Answered` and `BusyClears`. `Answer` checks the refinement
`FeedSpec`, `CachedAnswersWhole`, `NeverSilent` and `ProducerEnds`. `Bm25` checks
`CurrentCorpusIsExact` (a build that ends while the files are those it hashed returns
their texts, each once, whatever earlier builds left half done) and `ServedOneVersion`
for builds one after the other. The first the code keeps for no others; that builds
which overlap keep the second as well is proved, and `Bm25Overlap.cfg`, a further
configuration that passes (6,028,374 states), checks it for the application's build and
a job's. `Chroma` checks `IndexFollowsSettings` and `SetupEnds`; `Chat` `StepsOfStream`,
`OneAnswerEach` and `GenerationEnds`; `Pull` `OneDownload`, `SuccessIsReal` and
`PagesGetReady`.

`RestoreRefused` is violated: a restore that is refused because a backup holds the
lock deletes the live database (`FailedRestoreKeepsDb`).

**Stated and not satisfied.** The modules state further properties that a comment, a
docstring or a test of the repository claims, or that one would expect, and the code
does not keep. `tlc -config <configuration> MC<module>` shows the behaviour; for those
without a configuration, put the property into the place of the others in `Chroma.cfg`
or `Chat.cfg`.

| property | module | configuration | what happens |
|---|---|---|---|
| `SingleSyncTouchesOnlyTarget` | `SyncPipeline` | `SingleSyncReach.cfg` | re-indexing one file deletes the chunks of all others that changed |
| `NoOrphanJson` | `SyncPipeline` | `OrphanJson.cfg` | a JSON file written before a crash is never removed once its file is deleted |
| `CleanSyncMirrors`, two sessions | `SyncPipeline` | `TwoSyncs.cfg` | the guard against a second job is per browser session; overlapping jobs leave an outdated version for good |
| `CleanSyncMirrors`, two files of one name | `SyncPipeline` | `SharedName.cfg` | deletion by base name reaches another directory |
| `OldDbOnDisk`, a listing that fails | `BackupRestore` | `ListFails.cfg` | `_move_existing_db` raises before it kept anything, and the `except` branch empties the live database with nothing to put back |
| `OneOperationAtATime` | `BackupRestore` | `LockRace.cfg` | the loser of the race for the lock deletes it |
| `ArchivesConsistent` | `BackupRestore` | `TornArchive.cfg` | a backup of files that change is reported as completed |
| `NothingQueuedBehind` | `Reranker` | `RerankQueue.cfg` | two requests pass the guard together and one waits behind the other |
| `ServedIsCurrent` | `AnswerStream` | `StaleAnswer.cfg` | an answer begun before a sync is cached after its flush and served from then on |
| `ParentsFound` | `AnswerStream` | `LostParents.cfg` | the chain's cache of JSON files is never invalidated (`invalidate_source_json_cache` has no caller), so that chunks of a document that was indexed again under its path do not find their parents |
| `IndexMatchesCorpus` | `Bm25Index` | `Bm25Torn.cfg` | a build that broke after the index files leaves them beside the corpus of an earlier build, and both are loaded |
| `CurrentCorpusIsExact`, two builds at once | `Bm25Index` | `OldUnderNew.cfg` | one build writes its old corpus over the newer one of another, whose manifest comes last: the next build takes the old corpus for current |
| `ServedOneVersion`, a mix of two writes that parses | `Bm25Index` | `MixedWrites.cfg` | two builds write the corpus at once, and what is left has a text of either |
| `CacheFollowsSettings` | `ChromaStart` | | a cache that a flush or an insertion makes again has no tag, and the next start takes a collection without one for its own |
| `ChunksHaveJson` | `ChromaStart` | | the check of the cache removes the JSON files of the index too |
| `AnswersHaveNoGaps` | `ChatSession` | | a step given to a run that was replaced is lost, and the answer is kept as a success without it |
| `AnswersFollowQuestion` | `ChatSession` | | a click between two steps of `finalize_stream` leaves the answer behind another question |

Seen on the way: an HWP file is indexed again by every sync (its
chunks carry another label than the manifest); a restore that is rolled back
after an exception puts the lock file back too, so that the next restore is refused;
a restore with a server configured resets it and empties the database before it is
moved aside; a file that cannot be moved aside is lost; a rotation that fails deletes
the new backup although it was reported as completed; a cached answer does not
depend on the conversation it was given in.

**Bounds.** Every unbounded count has one, a constant `Max...` (`Limit` for the
archives) in the guards, so the specifications themselves are finite given their
constants. `SyncPipeline` and `BackupRestore`: two files are enough for what one does to
another; two contents and two parsers for an old and a new version (in `SyncPdf` the two
files and the two contents are interchangeable, and declared symmetric: all properties
there are safety); three edits for an upload, a change and a deletion around a failure;
two faults for a failure during the recovery from one. In `BackupSeq` four seconds leave
room for three backups with `Limit` 2, that is for a rotation after a crash.
`BackupPair` has one second, one file and one fault: it is about how two jobs block each
other, and a job that waits for a lock would be found there. `Rerank`: two callers pass
the guard together and one of them may come back while its abandoned job still runs,
which fills the queue of two; nothing bounds how often they ask. `Answer`: one token
tells a whole answer from an empty one and a lost from a doubled one, two streams are
the one that fills the cache and the one that reads it, one sync changes the document
between any two of their steps; the proofs cover longer answers. `Bm25`: four versions
are a first build of both files, a change and a change during the next build; one of
them is blank; one builder, because the property does not outlive two. `Bm25Overlap`:
two builders can be at any two of their steps, two versions are what one must not be
served together of one file; what one file does to another is in `Bm25`, and the theorem
is for any number of either. `Chroma`: three starts are the settings, others, and the
first again after a stop in the middle of the second; one document, since none reads
another; two attempts for the wipe between them. `Chat`: three questions with one turn
of history for a trim after which an old run still writes, three clicks to replace a
run, its replacement and to stop. `Pull`: two faults for an outage during the retry
after one, two threads because more than one is never alive, which is `OneDownload`; the
mutant that starts a second one finds it.

**Fairness.** `SyncPipeline`: weak fairness of the steps of each session, since
each job has a thread of its own and no step waits for another session; nothing
is assumed of edits, cancels or crashes. `BackupRestore`: weak fairness of each
job, for the same reason, and of the clock, which a backup waits for. A cancel
in the code is a flag that is polled, so it needs no fairness. `Reranker`: weak
fairness of each caller, whose waiting ends by the result or the timeout, and of the
start-up thread; strong fairness of the worker, because it takes a lock that the
start-up thread takes again and again with every new session; a prediction may hang,
and the properties say what then remains. `AnswerStream`: weak fairness of the wait for
the queue, which has a timeout, and of the producer while its model has not hung;
that the page asks for the next token is not assumed. `ChromaStart`: weak fairness of
the attempts of each opener, which are a loop, and of the thread of the sync; loading
a page or stopping the process is not assumed. `ChatSession`: weak fairness of the
script's thread and of replaced ones, whose generator always gives, ends or raises
(that it is never silent is what `AnswerStream` shows); clicks are not assumed.
`ModelPull`: weak fairness of the pages, whose fragment has a timer, and of the threads, whose
requests have timeouts; of the server, that it comes up again and that a download
on a server that stays up comes to its end. Without this no page could ever be ready.

**Deadlock** is checked in the runs of `SyncPipeline` and `BackupRestore`, where
someone can always act. In the others the system rests rightly: every bounded question,
click, version or start may be used up and every thread idle.

## 5. What is proved

Every theorem is for every value of the constants under the named assumptions of
its module, which say no more than that bounds are numbers, that the sets the code
lists or counts are finite, and that the model values that stand for nothing differ
from the others. Where a theorem needs more, the condition is an operator named in
its `ASSUME`, and the text below says which configuration shows that it cannot be
dropped. TLC checked each inductive invariant on the constants of a run before it
was proved.

**`SyncPipelineProofs`**, for every set of sessions, files, contents and parsers,
every kind of each file, and every bound.

`TypeCorrect`: `Spec => [](TypeOK /\ LeftAreListed)`, for any number of concurrent
jobs. `TypeOK` alone is not inductive: `ParseFile` and `SaveJson` look up the entry
of a file in the manifest to be saved, so the invariant adds `LeftAreListed`: a
file that is left to parse is listed in the plan and, once it was hashed, has an
entry there. There is one lemma for each action.

`IndexCorrect`, `ParentTextCorrect` and `PlanFollowed`: with one job at a time
(`OneJobAtATime`, any two sessions are the same) `OneVersionPerFile`,
`ChunksHaveParentJson` and `StoresFollowPlan` always
hold, through any sequence of edits, failures, cancels and crashes. The
inductive invariant is `TypeInv /\ IndexOK /\ StoresFollowPlan`: that an upsert adds no
second version is only known because the files of the plan were cleared before and
nothing was added since, which is what `StoresFollowPlan` says at each program
point. `TwoSyncs.cfg` shows what two sessions do.

`CleanSyncCorrect`, `CleanSyncComplete`, `CleanSyncStable` and `HealthyFilesCorrect`:
if besides no two files share a name (`UniqueNames`; `SharedName.cfg` shows why),
`CleanSyncMirrors`, `CleanSyncFindsCurrent`, `CleanSyncIsIdempotent` and
`HealthyFilesUndisturbed` hold. What came before the clean run may be anything: a
crash between any two stores, failures, cancels, edits. So the invariant `CleanInv`
cannot say what the stores look like when the run begins; it says, for a run that is
clean so far, what each of its steps has settled and what is left to do.
`HashesAreOwn` says that a recorded hash is of the file it stands at and of the
parser recorded beside it, so that an equal hash means an unchanged file. For each
session `SessionInv` has four parts besides the shape of the job. `Diagnosed`: once the
status is known, chunks are of the content their file has unless the file is on the list of
ghosts or mismatches, and the lists are empty when the last ingestion begins.
`PlanIsFresh`: what was parsed is what the file says, a recorded entry is carried over or
hashed anew, and neither cleanup reaches a file that is in sync. `LastRunIsComplete`: in the
last ingestion a file with text is either in the plan, and then left to parse, parsed or
already indexed, or it has its chunks and its JSON file. From these follows the last,
that a clean run ends with `Mirrored` stores and a manifest by which nothing is left to do.

**`BackupRestoreProofs`**, for every set of jobs and files, every rotation limit and
every bound.

`BackupTypeCorrect`: `Spec => [](TypeOK /\ LocalsOK)`, for any number of concurrent
calls, any failure and with or without a server. `LocalsOK` is the strengthening:
a call under way names an archive, and one with files to move has a directory to
move them to.

`RestoreSafe` and `RestoreWhole`: `OldDbOnDisk` and `RestoreIsAllOrNothing` under
`Undisturbed`: one call at a time, no server, and none of `list`, `move` and `wipe`
fails. The inductive invariant `RestoreInv` has, besides types, two parts. `JobOK` says
for each program point where the old and the new files are: in `move` an item is in its
place or among the kept ones, in `extract` and `commit` the kept files are the old
database, in `putback` an item is back or still kept. `KeptDirsOK` says that a directory
of kept files that is not empty is of an earlier second or of the restore under way.
Without it the induction fails: a restore could move its files into a directory that
still has those of an earlier one, which died, and put both back; only that a crash and
the start after it take a second rules this out. The assumption cannot be dropped:
`ListFails.cfg` shows a listing that fails lose the database, a server empties the
database before it is moved, a file that `move` passes over is lost, and `LockRace.cfg`
shows what two calls do to the lock.

`ReportCorrect` and `BackupsSurvive`: `CompletedIsUsable` and `UsableBackupRemains`
with one call at a time (`OneCallAtATime`), any failure and with or without a server.
The invariant is `ArchiveInv`. `AgesOK` orders the archives by the second they are named
after, the one being written being the newest, so that a rotation removes it last.
`OthersUsable` says that before the first failure every archive that exists is accepted
by a restore, except the one a backup is writing. `ReportOK` ties the status to the
archive it names, and `CallOK` says for each step of a backup or a restore how much of its
archive is written. A rotation that succeeds leaves the archive just
reported; one that fails is the first failure, so that of the two newest
archives, which it does not touch, the other is good too.

**`Bm25IndexProofs`**, for every finite set of files, every set of builders and every number
of saves. Three invariants, the later ones on top of the first.

`IndexTypeCorrect` (`TypeInv`) and `ServedCorrect` (`ServedOneVersion`) are for builders that
overlap in any way. `SoundInv` says that no corpus, on disk, loaded, being made or served, has
two texts of one file: kept texts are of files that are not read now, and a file is read once.
`ServedCorrect` assumes `MixesAreNoticed`, that a file with parts of two writes does not
parse; `MixedWrites.cfg` shows that this is needed.

`CorpusCorrect` is `Spec /\ []TakeTurns => []CurrentCorpusIsExact`: as long as no two
builds overlap, whichever process they are in. `OldUnderNew.cfg` shows that without
`TakeTurns` it is false. The builder trusts five files written in place, so `BuildInv`
must say what any mixture of them is worth. `Follows(corpus, h)` does: if the hash `h`
has of a file is still that of the file, then the text `corpus` has of it is the present
one. It is kept by saves and deletions, because a version never comes back (`Known`: no
hash and no text is of a version to come), and the corpus on disk follows the manifest
on disk at every moment (`DiskOK`), since the manifest is written last and its hashes
were taken before the texts were read. With the manifest first (the mutant
`ManifestFirst`) this is what breaks. `LoadedOK`, `Made` and `WritingOK` carry it
through a build, whose files stay still while it has them loaded. Lemmas say what the
list operations return: `SelectedFacts` (elements at some places), `WithoutFacts` (a
corpus without some files), `WithTokensFacts` (the texts read in any order),
`JoinFacts`.

`RerankerProofs`: `RerankerTypeCorrect`, `FlagHasOwner`, `ModelFollowsDevice` and
`CpuCanReturn`, for any number of callers. `BusyHasOwner` is not inductive: when a
caller adds its callback to a job that is not finished the flag stays set, and what
owns it then is that job. `JobKept` says that the job of a caller that waits is in the
queue or with the worker, `WorkerHasJob` that the worker has one exactly while it is at
one. The device theorems rest on `LockOK`: whoever loads holds the lock, which is
what keeps the start-up thread from loading on a device the worker is leaving.

`AnswerStreamProofs`: `AnswerTypeCorrect`, `CacheHoldsWholeAnswers` and
`AnswerImplementsFeed`, which is `Spec => FeedSpec`. All rest on `StreamInv`, of three
parts for each stream: the state of the producer follows from the model's answer
(`ModelInv`), the queue holds exactly the tokens the page has not got, in order, with the
sentinel behind them once the thread is gone (`QueueInv`), and a generator that is past
the stream has every token of a model that ended (`PcInv`). The last theorem shows step
by step that each action is a step of `TokenFeed` or leaves its variables unchanged.

`ChromaStartProofs`: `ChromaTypeCorrect` and `IndexKeepsSettings`. The invariant says
that the entries are of the setting of the tag (`TagInv`), what the page's own opener has
reached (`AppInv`) and that other openers and syncs are at work only once the page is up
(`OpenInv`), which is why the pipeline finds the tag of its own settings and resets nothing.

`ChatSessionProofs`: `ChatTypeCorrect`, `StepsBelongToStream` and `NoDoubleAnswer`. A
run that consumes a stream pulls from the generator in the session (`RunHasStream`), and
what is kept was given before what a run holds (`StepsGiven`). `OneAnswerEach` needs a
count, `AnswersDue`: the answers that are stored, and one more if a
generation is on or its answer is about to be stored, are at most as many as the questions; it
is kept because a run that consumes a stream generates and one that stores has ended
the generation (`RunGenerates`), wherever a click replaced it.

`ModelPullProofs`: `PullTypeCorrect`, `OnlyOneDownload` and `SuccessMeansModel`, the first
with `RecordKept`: a page that is about to show a status has started a download.

Every invariant and action property of a passing run is stated by a theorem, under the
conditions named with it. Only model-checked are the liveness properties
(`JobTerminates`, `OperationEnds`, `Answered`, `BusyClears`, `NeverSilent`,
`ProducerEnds`, `SetupEnds`, `GenerationEnds`, `PagesGetReady`), which need `ENABLED`, outside of
what TLAPS does here; and what remains of a property when its theorem's condition
does not hold: `SyncPair` checks `CleanSyncFindsCurrent` with two overlapping
sessions, and `BackupPair` has two overlapping calls.

## 6. What is not modelled

- Retrieval: rank fusion and deduplication are pure functions of scores.
- The copy of the conversation in Redis and the button that deletes it: listed as a
  hazard, since a second thread can take the history for empty.
- Parsers and chunking: text heuristics over third-party libraries.
- The adapters of Gemini and Claude, embedding and generation: thin clients.
- Evaluation scripts, configuration, logging, metrics, rendering and deployment: no
  state of the kind these models are about.
- In the modelled components: a failing `get_source_count` or scan, JSON files torn by
  a crash, the pickled parser cache, what each section 3 entry lists as left out, and
  functions without a caller.
