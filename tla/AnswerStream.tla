---------------------------- MODULE AnswerStream ----------------------------
(***************************************************************************)
(* RAGPipeline.stream of src/core/chains.py: what happens between a        *)
(* question and the last token of its answer, for several sessions that    *)
(* ask the same question, while a sync job replaces the document it is     *)
(* about.                                                                  *)
(*                                                                         *)
(* Each stream is a generator the page pulls: it looks into the semantic   *)
(* cache, searches, reads the parents of the chunks through an LRU cache,  *)
(* reranks, lets a thread of its own read the language model into a queue, *)
(* and puts a complete answer into the semantic cache.  One document       *)
(* stands for the index: each sync gives it the next version, whose JSON   *)
(* file has a path the document had before if it is indexed again with a   *)
(* content and a parser it had before.                                     *)
(***************************************************************************)
EXTENDS Naturals, Sequences

CONSTANTS
    Streams,    \* questions, each with a generator of its own
    Failing,    \* which calls may fail: "lookup", "search", "store"
    Sentinel,   \* _STREAM_SENTINEL
    NotCached,  \* a path _load_source_json was not called for
    MaxTokens,  \* bound on the tokens of an answer
    MaxSyncs    \* bound on the sync jobs that change the document

ASSUME BoundsAssumption == MaxTokens \in Nat /\ MaxSyncs \in Nat
ASSUME SentinelAssumption == Sentinel \notin Nat
ASSUME NotCachedAssumption == NotCached \notin Nat

VARIABLES
    pc,        \* where each generator is suspended or blocked
    docs,      \* version of the documents it works with, 0 for none
    skipped,   \* reranker_skipped
    uses,      \* whether it found the cache switched on
    llm,       \* the model's answer: silent, open, ended, failed or hung
    producer,  \* thread llm-stream-producer
    chunkQ,    \* chunk_q
    exc,       \* producer_exc is not empty
    sent,      \* how many tokens the model has sent into the queue
    got,       \* how many of them the page has
    feed,      \* the generator _stream_with_keepalive; stop is set unless "open"
    cache,     \* the collection of the semantic cache
    index,     \* version of the document in the vector database, 0 for none
    paths,     \* path of the JSON file of each version so far
    json,      \* version in the JSON file of each path, 0 if there is none
    lru,       \* what _load_source_json remembers of each path
    sync       \* where the sync job is

modelVars == <<llm, producer, chunkQ, exc, sent>>
readVars == <<got, feed>>
askVars == <<docs, skipped, uses>>
storeVars == <<cache, index, paths, json, lru, sync>>
vars == <<pc, askVars, modelVars, readVars, storeVars>>

Versions == 1..(MaxSyncs + 1)
Paths == Versions
Entries == [from : Streams, docs : Versions \cup {0}, tokens : 0..MaxTokens]
PCs == {"new", "lookup", "search", "resolve", "rerank", "generate", "waiting",
        "yielded", "cite", "done", "failed", "closed"}

\* The generator is suspended at a yield, so that the page can close it.
Suspended == {"lookup", "search", "rerank", "generate", "yielded", "cite"}

TypeOK ==
    /\ pc \in [Streams -> PCs]
    /\ skipped \in [Streams -> BOOLEAN] /\ uses \in [Streams -> BOOLEAN]
    /\ docs \in [Streams -> Versions \cup {0}]
    /\ exc \in [Streams -> BOOLEAN]
    /\ llm \in [Streams -> {"silent", "open", "ended", "failed", "hung"}]
    /\ producer \in [Streams -> {"off", "running", "closing", "gone"}]
    /\ chunkQ \in [Streams -> Seq((1..MaxTokens) \cup {Sentinel})]
    /\ sent \in [Streams -> 0..MaxTokens] /\ got \in [Streams -> 0..MaxTokens]
    /\ feed \in [Streams -> {"open", "complete", "failed", "closed"}]
    /\ cache \in SUBSET Entries
    /\ index \in Versions \cup {0}
    /\ paths \in Seq(Paths) /\ Len(paths) \in Versions
    /\ json \in [Paths -> Versions \cup {0}]
    /\ lru \in [Paths -> Versions \cup {0, NotCached}]
    /\ sync \in {"idle", "flushed", "cleaned", "saved"}

Init ==
    /\ pc = [s \in Streams |-> "new"]
    /\ skipped = [s \in Streams |-> FALSE] /\ uses = [s \in Streams |-> FALSE]
    /\ docs = [s \in Streams |-> 0]
    /\ llm = [s \in Streams |-> "silent"] /\ producer = [s \in Streams |-> "off"]
    /\ chunkQ = [s \in Streams |-> <<>>] /\ exc = [s \in Streams |-> FALSE]
    /\ sent = [s \in Streams |-> 0] /\ got = [s \in Streams |-> 0]
    /\ feed = [s \in Streams |-> "open"]
    /\ cache = {}
    /\ index = 1 /\ paths = <<1>>
    /\ json = [p \in Paths |-> IF p = 1 THEN 1 ELSE 0]
    /\ lru = [p \in Paths |-> NotCached] /\ sync = "idle"

Goto(s, where) == pc' = [pc EXCEPT ![s] = where]

-----------------------------------------------------------------------------
(* From the question to the documents.                                     *)

\* The switch of the page, which any session may turn, counts at this moment.
Ask(s) ==
    /\ pc[s] = "new"
    /\ \E enabled \in BOOLEAN : uses' = [uses EXCEPT ![s] = enabled]
    /\ Goto(s, "lookup")
    /\ UNCHANGED <<docs, skipped, modelVars, readVars, storeVars>>

\* SemanticCache.get: an error counts as a miss.
CacheHit(s) ==
    /\ pc[s] = "lookup" /\ uses[s]
    /\ \E e \in cache : docs' = [docs EXCEPT ![s] = e.docs]
    /\ uses' = [uses EXCEPT ![s] = FALSE]
    /\ Goto(s, "done")
    /\ UNCHANGED <<skipped, modelVars, readVars, storeVars>>

CacheMiss(s) ==
    /\ pc[s] = "lookup"
    /\ ~uses[s] \/ cache = {} \/ "lookup" \in Failing
    /\ Goto(s, "search")
    /\ UNCHANGED <<askVars, modelVars, readVars, storeVars>>

\* A search that fails returns no documents, as one that finds none.
Search(s) ==
    /\ pc[s] = "search"
    /\ \E v \in {index} \cup (IF "search" \in Failing THEN {0} ELSE {}) :
          docs' = [docs EXCEPT ![s] = v]
    /\ Goto(s, "resolve")
    /\ UNCHANGED <<skipped, uses, modelVars, readVars, storeVars>>

\* _load_source_json: the file is read once for each path.
LoadSourceJson(p) == IF lru[p] = NotCached THEN json[p] ELSE lru[p]

\* _resolve_parent_documents.  Which text a chunk gets is read off lru: parents
\* have new random ids at every parse, so that the list remembered for the path
\* has the parents of a chunk only if it is of the same version.
Resolve(s) ==
    /\ pc[s] = "resolve"
    /\ lru' = [p \in Paths |-> IF docs[s] # 0 /\ p = paths[docs[s]]
                               THEN LoadSourceJson(p) ELSE lru[p]]
    /\ Goto(s, "rerank")
    /\ UNCHANGED <<askVars, modelVars, readVars, cache, index, paths, json, sync>>

\* The reranker may be skipped; it or the emergency filter may drop everything.
Rerank(s) ==
    /\ pc[s] = "rerank"
    /\ \E skip \in IF docs[s] = 0 THEN {FALSE} ELSE BOOLEAN :
          skipped' = [skipped EXCEPT ![s] = skip]
    /\ \E kept \in {0, docs[s]} : docs' = [docs EXCEPT ![s] = kept]
    /\ Goto(s, "generate")
    /\ UNCHANGED <<uses, modelVars, readVars, storeVars>>

-----------------------------------------------------------------------------
(* From the documents to the answer: _stream_generation and                *)
(* _stream_with_keepalive.                                                 *)

\* Without documents the answer is a refusal and the model is not asked.
Refuse(s) ==
    /\ pc[s] = "generate" /\ docs[s] = 0
    /\ feed' = [feed EXCEPT ![s] = "complete"]
    /\ Goto(s, "cite")
    /\ UNCHANGED <<askVars, modelVars, got, storeVars>>

StartProducer(s) ==
    /\ pc[s] = "generate" /\ docs[s] # 0
    /\ llm' = [llm EXCEPT ![s] = "open"]
    /\ producer' = [producer EXCEPT ![s] = "running"]
    /\ Goto(s, "waiting")
    /\ UNCHANGED <<askVars, chunkQ, exc, sent, got, feed, storeVars>>

Pull(s) ==
    /\ pc[s] = "yielded"
    /\ Goto(s, "waiting")
    /\ UNCHANGED <<askVars, modelVars, readVars, storeVars>>

\* Mutant: the sentinel is taken for a chunk.
YieldAnything(s) ==
    /\ pc[s] = "waiting" /\ chunkQ[s] # <<>>
    /\ chunkQ' = [chunkQ EXCEPT ![s] = Tail(@)]
    /\ got' = [got EXCEPT ![s] = @ + 1]
    /\ Goto(s, "yielded")
    /\ UNCHANGED <<askVars, llm, producer, exc, sent, feed, storeVars>>


YieldChunk(s) ==
    /\ pc[s] = "waiting" /\ chunkQ[s] # <<>> /\ Head(chunkQ[s]) # Sentinel
    /\ chunkQ' = [chunkQ EXCEPT ![s] = Tail(@)]
    /\ got' = [got EXCEPT ![s] = @ + 1]
    /\ Goto(s, "yielded")
    /\ UNCHANGED <<askVars, llm, producer, exc, sent, feed, storeVars>>

\* Mutant: the get has no timeout.
KeepaliveNever(s) ==
    /\ pc[s] = "waiting" /\ FALSE
    /\ Goto(s, "yielded")
    /\ UNCHANGED <<askVars, modelVars, readVars, storeVars>>

\* Twenty seconds without a chunk: an empty one keeps the connection.
Keepalive(s) ==
    /\ pc[s] = "waiting" /\ chunkQ[s] = <<>>
    /\ Goto(s, "yielded")
    /\ UNCHANGED <<askVars, modelVars, readVars, storeVars>>

EndFeed(s) ==
    /\ pc[s] = "waiting" /\ chunkQ[s] # <<>> /\ Head(chunkQ[s]) = Sentinel
    /\ chunkQ' = [chunkQ EXCEPT ![s] = Tail(@)]
    /\ feed' = [feed EXCEPT ![s] = IF exc[s] THEN "failed" ELSE "complete"]
    /\ IF exc[s]
       THEN /\ Goto(s, "failed")
            /\ docs' = [docs EXCEPT ![s] = 0] /\ skipped' = [skipped EXCEPT ![s] = FALSE]
            /\ uses' = [uses EXCEPT ![s] = FALSE]
       ELSE Goto(s, "cite") /\ UNCHANGED askVars
    /\ UNCHANGED <<llm, producer, exc, sent, got, storeVars>>

\* Mutant: answers from documents the reranker did not see are stored too.
StoresUnranked(s) == uses[s]

\* What is stored once the answer is complete: a refusal as any other.
Stores(s) == uses[s] /\ ~skipped[s]

Store(s) ==
    /\ pc[s] = "cite"
    /\ \/ /\ Stores(s)
          /\ cache' = cache \cup {[from |-> s, docs |-> docs[s], tokens |-> got[s]]}
       \/ /\ ~Stores(s) \/ "store" \in Failing
          /\ UNCHANGED cache
    /\ uses' = [uses EXCEPT ![s] = FALSE] /\ docs' = [docs EXCEPT ![s] = 0]
    /\ Goto(s, "done")
    /\ UNCHANGED <<skipped, modelVars, readVars, index, paths, json, lru, sync>>

\* The page goes away: GeneratorExit at the yield.
Close(s) ==
    /\ pc[s] \in Suspended
    /\ feed' = [feed EXCEPT ![s] = IF @ = "open" THEN "closed" ELSE @]
    /\ docs' = [docs EXCEPT ![s] = 0]
    /\ skipped' = [skipped EXCEPT ![s] = FALSE]
    /\ uses' = [uses EXCEPT ![s] = FALSE]
    /\ Goto(s, "closed")
    /\ UNCHANGED <<modelVars, got, storeVars>>

-----------------------------------------------------------------------------
(* The producer thread; what the model does is external.                   *)

\* A chunk that comes after the stop is dropped and ends the loop.
Produce(s) ==
    /\ producer[s] = "running" /\ llm[s] = "open"
    /\ \/ /\ feed[s] = "open" /\ sent[s] < MaxTokens
          /\ sent' = [sent EXCEPT ![s] = @ + 1]
          /\ chunkQ' = [chunkQ EXCEPT ![s] = Append(@, sent[s] + 1)]
          /\ UNCHANGED producer
       \/ /\ feed[s] # "open"
          /\ producer' = [producer EXCEPT ![s] = "closing"]
          /\ UNCHANGED <<sent, chunkQ>>
    /\ UNCHANGED <<pc, askVars, llm, exc, readVars, storeVars>>

ModelEnds(s) ==
    /\ producer[s] = "running" /\ llm[s] = "open"
    /\ llm' = [llm EXCEPT ![s] = "ended"]
    /\ producer' = [producer EXCEPT ![s] = "closing"]
    /\ UNCHANGED <<pc, askVars, chunkQ, exc, sent, readVars, storeVars>>

\* Mutant: the exception ends the thread and is not kept.
ModelFailsUnseen(s) ==
    /\ producer[s] = "running" /\ llm[s] = "open"
    /\ llm' = [llm EXCEPT ![s] = "failed"]
    /\ producer' = [producer EXCEPT ![s] = "closing"]
    /\ UNCHANGED <<pc, askVars, chunkQ, exc, sent, readVars, storeVars>>


ModelFails(s) ==
    /\ producer[s] = "running" /\ llm[s] = "open"
    /\ llm' = [llm EXCEPT ![s] = "failed"]
    /\ exc' = [exc EXCEPT ![s] = TRUE]
    /\ producer' = [producer EXCEPT ![s] = "closing"]
    /\ UNCHANGED <<pc, askVars, chunkQ, sent, readVars, storeVars>>

ModelHangs(s) ==
    /\ producer[s] = "running" /\ llm[s] = "open"
    /\ llm' = [llm EXCEPT ![s] = "hung"]
    /\ UNCHANGED <<pc, askVars, producer, chunkQ, exc, sent, readVars, storeVars>>

\* Mutant: a queue of bounded length.
PutSentinelBounded(s) ==
    /\ producer[s] = "closing" /\ chunkQ[s] = <<>>
    /\ chunkQ' = [chunkQ EXCEPT ![s] = Append(@, Sentinel)]
    /\ producer' = [producer EXCEPT ![s] = "gone"]
    /\ UNCHANGED <<pc, askVars, llm, exc, sent, readVars, storeVars>>


PutSentinel(s) ==
    /\ producer[s] = "closing"
    /\ chunkQ' = [chunkQ EXCEPT ![s] = Append(@, Sentinel)]
    /\ producer' = [producer EXCEPT ![s] = "gone"]
    /\ UNCHANGED <<pc, askVars, llm, exc, sent, readVars, storeVars>>

-----------------------------------------------------------------------------
(* The sync job of PipelineOrchestrator._process_changes, as far as a      *)
(* question can see it.                                                    *)

\* A cache that is switched off, or whose flush fails, keeps what it has.
SyncFlush ==
    /\ sync = "idle" /\ Len(paths) <= MaxSyncs
    /\ cache' \in {{}, cache}
    /\ sync' = "flushed"
    /\ UNCHANGED <<pc, askVars, modelVars, readVars, index, paths, json, lru>>

SyncCleanup ==
    /\ sync = "flushed"
    /\ index' = 0
    /\ json' = [json EXCEPT ![paths[Len(paths)]] = 0]
    /\ sync' = "cleaned"
    /\ UNCHANGED <<pc, askVars, modelVars, readVars, cache, paths, lru>>

\* The path is the source id, a hash of file, content and parser: what is indexed
\* again as it is or as it was, by a forced sync for one, gets the path it had then.
SyncSave ==
    /\ sync = "cleaned"
    /\ \E p \in {paths[v] : v \in DOMAIN paths} \cup {Len(paths) + 1} :
          /\ paths' = Append(paths, p)
          /\ json' = [json EXCEPT ![p] = Len(paths) + 1]
    /\ sync' = "saved"
    /\ UNCHANGED <<pc, askVars, modelVars, readVars, cache, index, lru>>

SyncUpsert ==
    /\ sync = "saved"
    /\ index' = Len(paths)
    /\ sync' = "idle"
    /\ UNCHANGED <<pc, askVars, modelVars, readVars, cache, paths, json, lru>>

-----------------------------------------------------------------------------
FetchStep(s) == Ask(s) \/ CacheHit(s) \/ CacheMiss(s) \/ Search(s) \/ Resolve(s) \/ Rerank(s)
WaitStep(s) == YieldChunk(s) \/ Keepalive(s) \/ EndFeed(s)
ReadStep(s) ==
    \/ FetchStep(s) \/ Refuse(s) \/ StartProducer(s) \/ Pull(s) \/ WaitStep(s)
    \/ Store(s)
ProducerStep(s) == Produce(s) \/ ModelEnds(s) \/ ModelFails(s) \/ PutSentinel(s)
SyncStep == SyncFlush \/ SyncCleanup \/ SyncSave \/ SyncUpsert

Next ==
    \/ \E s \in Streams : ReadStep(s) \/ Close(s) \/ ProducerStep(s) \/ ModelHangs(s)
    \/ SyncStep

Spec == Init /\ [][Next]_vars

\* The get on the queue times out, and a model that has not hung goes on.
\* That the page pulls the next step is not assumed.
FairSpec ==
    /\ Spec
    /\ \A s \in Streams : WF_vars(WaitStep(s)) /\ WF_vars(ProducerStep(s))

-----------------------------------------------------------------------------
(* Properties.                                                             *)

\* The stream implements the promise of TokenFeed: queue, sentinel and
\* exception of the producer thread neither lose, double nor reorder a
\* token, and no end of the queue is taken for the end of the answer.
Feed == INSTANCE TokenFeed WITH
           source <- [s \in Streams |-> IF llm[s] = "hung" THEN "open" ELSE llm[s]]
FeedSpec == Feed!Spec

\* What is in the semantic cache is a whole answer of a model that ended
\* normally, from reranked documents: never the beginning of one that was
\* closed or failed, or one with the reranker skipped (stream, lines 413
\* to 428).
CachedAnswersWhole ==
    \A e \in cache :
       /\ feed[e.from] = "complete" /\ ~skipped[e.from]
       /\ e.tokens = sent[e.from] /\ llm[e.from] \in {"silent", "ended"}

\* A page that waits for a chunk hears of the stream again, even if the
\* model hangs (_stream_with_keepalive, lines 341 to 346).
NeverSilent == \A s \in Streams : []<>(pc[s] # "waiting")

\* The thread of an answer nobody reads any more ends, unless its model
\* hangs (_stream_with_keepalive, lines 332 to 338 and 355): what is read no
\* more is never read again, so that this need only hold again and again.
ProducerEnds ==
    \A s \in Streams :
       []<>(feed[s] # "open" => producer[s] \notin {"running", "closing"} \/ llm[s] = "hung")

\* An answer from the cache is of the documents as they are now, when no
\* sync is at work: it is flushed when data changes (orchestrator.py,
\* lines 57 and 155).
ServedIsCurrent ==
    [][\A s \in Streams : pc[s] = "lookup" /\ pc'[s] = "done" /\ sync = "idle" =>
          docs'[s] \in {0, index}]_vars

\* Chunks of the document as it is now are answered from with the text of
\* their parents: the LRU cache is invalidated when indexing renews the
\* JSON (chains.py, line 45).
ParentsFound ==
    [][\A s \in Streams :
          /\ pc[s] = "resolve" /\ pc'[s] = "rerank"
          /\ sync = "idle" /\ docs[s] = index /\ docs[s] # 0
          => lru'[paths[docs[s]]] = docs[s]]_vars
=============================================================================
