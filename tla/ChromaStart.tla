---------------------------- MODULE ChromaStart ----------------------------
(***************************************************************************)
(* The two ChromaDB collections of the application over several runs of it *)
(* with different settings: src/vector_db/chroma_manager.py, which opens   *)
(* them, compares the settings a collection is tagged with to its own,     *)
(* clears what was made with others, and wipes a local database it cannot  *)
(* open; and what puts entries into them, a sync and the semantic cache.   *)
(*                                                                         *)
(* A setting stands for the embedding model and the two chunk sizes.  The  *)
(* collection "index" holds documents, "cache" answered questions; an      *)
(* entry is the setting it was cut and embedded with.                      *)
(***************************************************************************)
EXTENDS Naturals

CONSTANTS
    Items,      \* documents, and questions
    Configs,    \* settings
    Failing,    \* calls that may fail: "reset", "unlink", "modify"
    Flaky,      \* openers that may meet a database they cannot open
    Nothing,    \* no setting, no entry, no collection
    MaxRetries, \* max_retries
    MaxStarts,  \* bound on the starts of the application
    MaxTurns    \* bound on the turns of the cache switch

ASSUME ConstantsAssumption ==
    /\ Nothing \notin Configs
    /\ MaxRetries \in Nat \ {0} /\ MaxStarts \in Nat /\ MaxTurns \in Nat

\* The objects that open a collection: those of app.py and of the ingestion
\* pipeline the index, those of the chain and of the orchestrator the cache.
Openers == {"app", "pipeline", "chain", "orchestrator"}
CollectionOf(o) == IF o \in {"chain", "orchestrator"} THEN "cache" ELSE "index"

VARIABLES
    coll,     \* the collections: tag and entries, or Nothing
    json,     \* the processed JSON file of each document: its setting
    config,   \* settings of the running application, Nothing if it is down
    pc,       \* where each opener is
    attempt,  \* number of its attempt
    job,      \* the sync: what it is about to do, and for which documents
    enabled,  \* SEMANTIC_CACHE_ENABLED, which a switch of the page changes
    server,   \* whether CHROMA_SERVER_HOST is set
    trouble,  \* whether a call of the check failed, or an open index was lost
    starts, turns

vars == <<coll, json, config, pc, attempt, job, enabled, server, trouble, starts, turns>>
bounds == <<starts, turns>>

Entries == [Items -> Configs \cup {Nothing}]
NoEntries == [i \in Items |-> Nothing]
Fresh == [tag |-> Nothing, entries |-> NoEntries]
Collections == [tag : Configs \cup {Nothing}, entries : Entries]
NoJob == [at |-> "idle", todo |-> {}]

ASSUME NothingAssumption == Nothing \notin Collections

TypeOK ==
    /\ coll \in [{"index", "cache"} -> {Nothing} \cup Collections]
    /\ json \in Entries
    /\ config \in Configs \cup {Nothing}
    /\ pc \in [Openers -> {"closed", "connect", "reset", "clear", "tag", "open", "failed"}]
    /\ attempt \in [Openers -> 1..MaxRetries]
    /\ job \in [at : {"idle", "flush", "cleanup", "save", "upsert"}, todo : SUBSET Items]
    /\ enabled \in BOOLEAN /\ server \in BOOLEAN /\ trouble \in BOOLEAN
    /\ starts \in 0..MaxStarts /\ turns \in 0..MaxTurns

Init ==
    /\ coll = [c \in {"index", "cache"} |-> Nothing]
    /\ json = NoEntries
    /\ config = Nothing
    /\ pc = [o \in Openers |-> "closed"]
    /\ attempt = [o \in Openers |-> 1]
    /\ job = NoJob
    /\ enabled = FALSE /\ server \in BOOLEAN /\ trouble = FALSE
    /\ starts = 0 /\ turns = 0

\* _get_valid_collection: one that is gone is made again, without a tag.
Valid(c) == IF coll[c] = Nothing THEN Fresh ELSE coll[c]
WithEntries(c, f) == [coll EXCEPT ![c] = [Valid(c) EXCEPT !.entries = f]]

Fails(call) == call \in Failing

-----------------------------------------------------------------------------
(* The process.                                                            *)

Start ==
    /\ config = Nothing /\ starts < MaxStarts
    /\ starts' = starts + 1
    /\ config' \in Configs
    /\ enabled' \in BOOLEAN
    /\ pc' = [pc EXCEPT !["app"] = "connect"]
    /\ UNCHANGED <<coll, json, attempt, job, server, trouble, turns>>

\* A stop for new settings or a crash, at any point.
Stop ==
    /\ config # Nothing
    /\ config' = Nothing
    /\ pc' = [o \in Openers |-> "closed"]
    /\ attempt' = [o \in Openers |-> 1]
    /\ job' = NoJob
    /\ UNCHANGED <<coll, json, enabled, server, trouble, bounds>>

TurnSwitch ==
    /\ pc["app"] = "open" /\ turns < MaxTurns
    /\ turns' = turns + 1
    /\ enabled' = ~enabled
    /\ UNCHANGED <<coll, json, config, pc, attempt, job, server, trouble, starts>>

-----------------------------------------------------------------------------
(* _initialize_client_with_retry and _check_config_and_auto_reset.         *)

Goto(o, l) == pc' = [pc EXCEPT ![o] = l]

\* A page that could not be set up is set up again when it is loaded again; the
\* pipeline opens the index for the first job, as a health check does, and the
\* chain the cache for the first question that may use it.
Open(o) ==
    /\ \/ o = "app" /\ pc[o] = "failed"
       \/ o = "pipeline" /\ pc[o] = "closed" /\ pc["app"] = "open"
       \/ o = "chain" /\ pc[o] = "closed" /\ pc["app"] = "open" /\ enabled
       \/ o = "orchestrator" /\ pc[o] = "closed" /\ job.at = "flush"
    /\ Goto(o, "connect")
    /\ UNCHANGED <<coll, json, config, attempt, job, enabled, server, trouble, bounds>>

NeedsReset(c) == Valid(c).tag \notin {Nothing, config}

Connect(o) ==
    /\ pc[o] = "connect"
    /\ coll' = [coll EXCEPT ![CollectionOf(o)] = Valid(CollectionOf(o))]
    /\ Goto(o, IF NeedsReset(CollectionOf(o)) THEN "reset" ELSE "tag")
    /\ attempt' = [attempt EXCEPT ![o] = 1]
    /\ UNCHANGED <<json, config, job, enabled, server, trouble, bounds>>

\* Mutant of Abandoned: the job is not given up.
AbandonedNever(o) == job

\* What is left of a job whose cache cannot be opened: nothing.
Abandoned(o) == IF o = "orchestrator" THEN NoJob ELSE job

\* Mutant of ConnectFails: one attempt more.
ConnectFailsOnceMore(o) ==
    /\ pc[o] = "connect" /\ o \in Flaky
    /\ attempt[o] <= MaxRetries
    /\ attempt' = [attempt EXCEPT ![o] = @ + 1]
    /\ UNCHANGED <<coll, json, config, pc, job, enabled, server, trouble, bounds>>

\* The database cannot be opened or the collection cannot be created.  A local
\* database is deleted as a whole, if that works, before the next attempt.
ConnectFails(o) ==
    /\ pc[o] = "connect" /\ o \in Flaky
    /\ IF attempt[o] < MaxRetries
       THEN /\ attempt' = [attempt EXCEPT ![o] = @ + 1]
            /\ \/ coll' = [c \in DOMAIN coll |-> Nothing] /\ ~server
               \/ UNCHANGED coll /\ (server \/ Fails("unlink"))
            /\ trouble' = (trouble \/ (o # "app" /\ ~server))
            /\ UNCHANGED <<pc, job>>
       ELSE /\ Goto(o, IF o = "app" THEN "failed" ELSE "closed")
            /\ job' = Abandoned(o)
            /\ attempt' = [attempt EXCEPT ![o] = 1]
            /\ UNCHANGED <<coll, trouble>>
    /\ UNCHANGED <<json, config, enabled, server, bounds>>

\* Mutant of Reset: the collection is tagged before its entries are deleted.
ResetTagged(o) ==
    /\ pc[o] = "reset"
    /\ IF Valid(CollectionOf(o)).tag # config
       THEN /\ coll' = [coll EXCEPT ![CollectionOf(o)] = [Valid(CollectionOf(o)) EXCEPT !.tag = config]]
            /\ UNCHANGED pc
       ELSE /\ coll' = WithEntries(CollectionOf(o), NoEntries)
            /\ Goto(o, "clear")
    /\ UNCHANGED <<json, config, attempt, job, enabled, server, trouble, bounds>>

\* The check reads the tag once; what fails in it is logged and passed over.
Reset(o) ==
    /\ pc[o] = "reset"
    /\ \/ /\ coll' = WithEntries(CollectionOf(o), NoEntries)
          /\ Goto(o, "clear")
          /\ UNCHANGED trouble
       \/ /\ Fails("reset")
          /\ Goto(o, "open")
          /\ trouble' = TRUE
          /\ UNCHANGED coll
    /\ UNCHANGED <<json, config, attempt, job, enabled, server, bounds>>

\* _clear_processed_and_cache_files, whichever collection was reset; a file
\* that cannot be removed stays.
Clear(o) ==
    /\ pc[o] = "clear"
    /\ \E left \in IF Fails("unlink") THEN SUBSET Items ELSE {{}} :
          json' = [i \in Items |-> IF i \in left THEN json[i] ELSE Nothing]
    /\ Goto(o, "tag")
    /\ UNCHANGED <<coll, config, attempt, job, enabled, server, trouble, bounds>>

Tag(o) ==
    /\ pc[o] = "tag"
    /\ \/ /\ coll' = IF coll[CollectionOf(o)] = Nothing THEN coll
                     ELSE [coll EXCEPT ![CollectionOf(o)].tag = config]
          /\ UNCHANGED trouble
       \/ /\ Fails("modify")
          /\ trouble' = TRUE
          /\ UNCHANGED coll
    /\ Goto(o, "open")
    /\ UNCHANGED <<json, config, attempt, job, enabled, server, bounds>>

-----------------------------------------------------------------------------
(* A sync: _process_changes.                                               *)

\* Documents that changed, and those calculate_delta finds no JSON file or no
\* chunk of.
Missing == {i \in Items : json[i] = Nothing \/ Valid("index").entries[i] = Nothing}

SyncStart ==
    /\ pc["pipeline"] = "open" /\ job.at = "idle"
    /\ \E changed \in SUBSET Items :
          /\ changed \cup Missing # {}
          /\ job' = [at |-> IF enabled THEN "flush" ELSE "cleanup", todo |-> changed \cup Missing]
    /\ UNCHANGED <<coll, json, config, pc, attempt, enabled, server, trouble, bounds>>

\* SemanticCache.flush: the collection is deleted and made again, without a tag.
SyncFlush ==
    /\ job.at = "flush" /\ pc["orchestrator"] = "open"
    /\ coll' = [coll EXCEPT !["cache"] = Fresh]
    /\ job' = [job EXCEPT !.at = "cleanup"]
    /\ UNCHANGED <<json, config, pc, attempt, enabled, server, trouble, bounds>>

SyncCleanup ==
    /\ job.at = "cleanup"
    /\ coll' = WithEntries("index",
                  [i \in Items |-> IF i \in job.todo THEN Nothing ELSE Valid("index").entries[i]])
    /\ json' = [i \in Items |-> IF i \in job.todo THEN Nothing ELSE json[i]]
    /\ job' = [job EXCEPT !.at = "save"]
    /\ UNCHANGED <<config, pc, attempt, enabled, server, trouble, bounds>>

SyncSave ==
    /\ job.at = "save"
    /\ json' = [i \in Items |-> IF i \in job.todo THEN config ELSE json[i]]
    /\ job' = [job EXCEPT !.at = "upsert"]
    /\ UNCHANGED <<coll, config, pc, attempt, enabled, server, trouble, bounds>>

SyncUpsert ==
    /\ job.at = "upsert"
    /\ coll' = WithEntries("index",
                  [i \in Items |-> IF i \in job.todo THEN config ELSE Valid("index").entries[i]])
    /\ job' = NoJob
    /\ UNCHANGED <<json, config, pc, attempt, enabled, server, trouble, bounds>>

-----------------------------------------------------------------------------
\* An answer the chain adds to the cache; a stream asks for the switch only at
\* its beginning, which may be long ago (chains.py, line 375).
CacheAdd(i) ==
    /\ pc["chain"] = "open"
    /\ coll' = WithEntries("cache", [Valid("cache").entries EXCEPT ![i] = config])
    /\ UNCHANGED <<json, config, pc, attempt, job, enabled, server, trouble, bounds>>

\* A restore resets the server (backup_manager.py, line 232).
ServerReset ==
    /\ server /\ coll # [c \in DOMAIN coll |-> Nothing]
    /\ coll' = [c \in DOMAIN coll |-> Nothing]
    /\ trouble' = TRUE
    /\ UNCHANGED <<json, config, pc, attempt, job, enabled, server, bounds>>

OpenStep(o) == Open(o) \/ Connect(o) \/ ConnectFails(o) \/ Reset(o) \/ Clear(o) \/ Tag(o)
Sync == SyncStart \/ SyncFlush \/ SyncCleanup \/ SyncSave \/ SyncUpsert

Next ==
    \/ Start \/ Stop \/ TurnSwitch \/ ServerReset \/ Sync
    \/ \E o \in Openers : OpenStep(o)
    \/ \E i \in Items : CacheAdd(i)

Spec == Init /\ [][Next]_vars

\* The threads of the process run; nothing makes a user load a page or start
\* a sync, and the process may be stopped.
FairSpec ==
    /\ Spec
    /\ \A o \in Openers : WF_vars(Connect(o) \/ ConnectFails(o) \/ Reset(o) \/ Clear(o) \/ Tag(o))
    /\ WF_vars(Open("orchestrator") \/ SyncFlush \/ SyncCleanup \/ SyncSave \/ SyncUpsert)

-----------------------------------------------------------------------------
(* Properties.                                                             *)

Made(c) == {Valid(c).entries[i] : i \in Items} \ {Nothing}

\* However often the database cannot be opened, the page is set up or says that
\* it cannot be, and a sync that waits for its cache ends (max_retries, line 61).
SetupEnds ==
    /\ pc["app"] = "connect" ~> pc["app"] \in {"open", "closed", "failed"}
    /\ job.at # "idle" ~> job.at = "idle"

\* Once the page is up, every chunk in the index was cut and embedded with the
\* settings questions are embedded with now, wherever an earlier run stopped
\* between the reset, the removal of files and the tag: unless a call of the
\* check itself failed or the index was lost under the running application.
IndexFollowsSettings == pc["app"] = "open" /\ ~trouble => Made("index") \subseteq {config}

\* The same of the questions in the cache, once the chain has opened it: a
\* change of the model is detected (docstring of _check_config_and_auto_reset).
CacheFollowsSettings == pc["chain"] = "open" => Made("cache") \subseteq {config}

\* Between two syncs every chunk has its parents in a JSON file made with the
\* same settings.
ChunksHaveJson ==
    pc["app"] = "open" /\ job.at = "idle" =>
       \A i \in Items : Valid("index").entries[i] \in {Nothing, json[i]}
=============================================================================
