------------------------- MODULE AnswerStreamProofs -------------------------
(***************************************************************************)
(* Theorems about AnswerStream for any streams and bounds: type            *)
(* correctness, that only whole answers are cached, and that the stream    *)
(* implements TokenFeed.  All three rest on one inductive invariant: what  *)
(* is in the queue are the tokens the page has not got yet, in order, and  *)
(* the sentinel behind them once the producer thread is gone.              *)
(***************************************************************************)
EXTENDS AnswerStream, TLAPS

\* How the state of the producer thread follows from the model's answer.
ModelInv(s) ==
    /\ exc[s] <=> llm[s] = "failed"
    /\ producer[s] = "off" <=> llm[s] = "silent"
    /\ producer[s] = "running" => llm[s] \in {"open", "hung"}
    /\ producer[s] \in {"closing", "gone"} /\ feed[s] = "open" => llm[s] \in {"ended", "failed"}

\* A queue q with the tokens after the g-th up to the n-th, and behind them
\* the sentinel if it is closed.
Holds(q, g, n, closed) ==
    /\ Len(q) = (n - g) + (IF closed THEN 1 ELSE 0)
    /\ \A i \in 1..(n - g) : q[i] = g + i
    /\ closed => q[n - g + 1] = Sentinel

QueueInv(s) ==
    /\ got[s] <= sent[s]
    /\ llm[s] = "silent" => sent[s] = 0
    /\ feed[s] = "open" => Holds(chunkQ[s], got[s], sent[s], producer[s] = "gone")

\* Where the generator is, and what of the feed that implies.
PcInv(s) ==
    /\ pc[s] \in {"new", "lookup", "search", "resolve", "rerank", "generate"} =>
          feed[s] = "open" /\ llm[s] = "silent"
    /\ pc[s] \in {"waiting", "yielded"} => feed[s] = "open" /\ llm[s] # "silent"
    /\ pc[s] = "cite" => feed[s] = "complete"
    /\ feed[s] = "complete" =>
          /\ got[s] = sent[s] /\ llm[s] \in {"silent", "ended"}
          /\ producer[s] \in {"off", "gone"}

StreamInv == \A s \in Streams : ModelInv(s) /\ QueueInv(s) /\ PcInv(s)

SyncInv == sync \in {"flushed", "cleaned"} => Len(paths) <= MaxSyncs

-----------------------------------------------------------------------------
(* The streams: each action touches one of them.                           *)

\* What an action of one stream leaves of another.
Untouched(t) ==
    /\ pc'[t] = pc[t] /\ llm'[t] = llm[t] /\ producer'[t] = producer[t]
    /\ chunkQ'[t] = chunkQ[t] /\ exc'[t] = exc[t] /\ sent'[t] = sent[t]
    /\ got'[t] = got[t] /\ feed'[t] = feed[t]

LEMMA OthersKept ==
    ASSUME StreamInv, NEW s \in Streams,
           \A t \in Streams \ {s} : Untouched(t),
           ModelInv(s)', QueueInv(s)', PcInv(s)'
    PROVE  StreamInv'
<1> SUFFICES ASSUME NEW t \in Streams, t # s
             PROVE  ModelInv(t)' /\ QueueInv(t)' /\ PcInv(t)'
  BY DEF StreamInv
<1>1. Untouched(t) /\ ModelInv(t) /\ QueueInv(t) /\ PcInv(t)
  BY DEF StreamInv
<1>2. ModelInv(t)'
  BY <1>1 DEF Untouched, ModelInv
<1>3. QueueInv(t)'
  BY <1>1 DEF Untouched, QueueInv
<1>4. PcInv(t)'
  BY <1>1 DEF Untouched, PcInv
<1>5. QED
  BY <1>2, <1>3, <1>4

\* What the three operations on the queue do to what it holds.
LEMMA HeadHolds ==
    ASSUME NEW S, NEW q \in Seq(S), NEW g \in Nat, NEW n \in Nat, g <= n,
           NEW closed \in BOOLEAN, Holds(q, g, n, closed), q # <<>>
    PROVE  /\ Head(q) # Sentinel => g < n
           /\ Head(q) = Sentinel => g = n /\ closed
<1>1. Head(q) = q[1] /\ Len(q) >= 1
  OBVIOUS
<1>2. CASE g < n
  <2>1. q[1] = g + 1
    BY <1>2 DEF Holds
  <2>2. q[1] # Sentinel
    BY <2>1, SentinelAssumption
  <2>3. QED
    BY <1>1, <1>2, <2>2
<1>3. CASE g = n
  BY <1>1, <1>3 DEF Holds
<1>4. QED
  BY <1>2, <1>3

LEMMA TailHolds ==
    ASSUME NEW S, NEW q \in Seq(S), NEW g \in Nat, NEW n \in Nat, g < n,
           NEW closed \in BOOLEAN, Holds(q, g, n, closed)
    PROVE  Holds(Tail(q), g + 1, n, closed)
<1>1. /\ q # <<>> /\ Len(Tail(q)) = Len(q) - 1
      /\ \A i \in 1..(Len(q) - 1) : Tail(q)[i] = q[i + 1]
  BY DEF Holds
<1>2. Len(Tail(q)) = (n - (g + 1)) + (IF closed THEN 1 ELSE 0)
  BY <1>1 DEF Holds
<1>3. ASSUME NEW i \in 1..(n - (g + 1))
      PROVE  Tail(q)[i] = (g + 1) + i
  <2>1. i \in 1..(Len(q) - 1) /\ i + 1 \in 1..(n - g)
    BY DEF Holds
  <2>2. q[i + 1] = g + (i + 1)
    BY <2>1 DEF Holds
  <2>3. QED
    BY <1>1, <2>1, <2>2
<1>4. closed => Tail(q)[n - (g + 1) + 1] = Sentinel
  <2>1. n - (g + 1) + 1 = n - g
    OBVIOUS
  <2>2. closed => n - g \in 1..(Len(q) - 1)
    BY DEF Holds
  <2>3. QED
    BY <1>1, <2>1, <2>2 DEF Holds
<1>5. QED
  BY <1>2, <1>3, <1>4 DEF Holds

\* An element put behind the queue leaves those before it where they were.
LEMMA AppendKeeps ==
    ASSUME NEW S, NEW q \in Seq(S), NEW e
    PROVE  /\ Len(Append(q, e)) = Len(q) + 1
           /\ \A i \in 1..Len(q) : Append(q, e)[i] = q[i]
           /\ Append(q, e)[Len(q) + 1] = e
OBVIOUS

LEMMA AppendHolds ==
    ASSUME NEW S, NEW q \in Seq(S), NEW g \in Nat, NEW n \in Nat, g <= n,
           Holds(q, g, n, FALSE)
    PROVE  /\ Holds(Append(q, n + 1), g, n + 1, FALSE)
           /\ Holds(Append(q, Sentinel), g, n, TRUE)
<1>1. Len(q) = n - g
  BY DEF Holds
<1>2. \A i \in 1..(n - g) : Append(q, n + 1)[i] = g + i
  BY <1>1, AppendKeeps DEF Holds
<1>3. Append(q, n + 1)[n - g + 1] = g + (n - g + 1)
  BY <1>1, AppendKeeps
<1>4. \A i \in 1..(n + 1 - g) : Append(q, n + 1)[i] = g + i
  BY <1>2, <1>3
<1>5. Len(Append(q, n + 1)) = n + 1 - g
  BY <1>1, AppendKeeps
<1>6. Holds(Append(q, n + 1), g, n + 1, FALSE)
  BY <1>4, <1>5 DEF Holds
<1>7. Holds(Append(q, Sentinel), g, n, TRUE)
  BY <1>1, AppendKeeps DEF Holds
<1>8. QED
  BY <1>6, <1>7

LEMMA FetchStream ==
    ASSUME TypeOK, StreamInv, NEW s \in Streams, FetchStep(s)
    PROVE  StreamInv'
<1>1. ModelInv(s) /\ QueueInv(s) /\ PcInv(s)
  BY DEF StreamInv
<1>2. /\ UNCHANGED <<modelVars, readVars>>
      /\ \E where \in PCs : pc' = [pc EXCEPT ![s] = where]
                            /\ where \in {"lookup", "done", "search", "resolve", "rerank", "generate"}
      /\ pc[s] \in {"new", "lookup", "search", "resolve", "rerank"}
  BY DEF FetchStep, Ask, CacheHit, CacheMiss, Search, Resolve, Rerank, Goto, PCs
<1>3. \A t \in Streams \ {s} : Untouched(t)
  BY <1>2 DEF TypeOK, Untouched, modelVars, readVars
<1>4. ModelInv(s)' /\ QueueInv(s)'
  BY <1>1, <1>2 DEF ModelInv, QueueInv, modelVars, readVars
<1>5. PcInv(s)'
  BY <1>1, <1>2 DEF PcInv, TypeOK, modelVars, readVars
<1>6. QED
  BY <1>3, <1>4, <1>5, OthersKept

LEMMA AnswerStreamStep ==
    ASSUME TypeOK, StreamInv, NEW s \in Streams,
           Refuse(s) \/ StartProducer(s) \/ Pull(s) \/ Keepalive(s) \/ Store(s) \/ Close(s)
    PROVE  StreamInv'
<1>1. ModelInv(s) /\ QueueInv(s) /\ PcInv(s)
  BY DEF StreamInv
<1>2. sent[s] \in Nat /\ got[s] \in Nat
  BY DEF TypeOK
<1> USE DEF TypeOK, Goto, modelVars, readVars
<1>3. CASE Refuse(s)
  <2>1. ModelInv(s)' /\ QueueInv(s)' /\ PcInv(s)'
    BY <1>1, <1>2, <1>3 DEF Refuse, ModelInv, QueueInv, PcInv
  <2>2. \A t \in Streams \ {s} : Untouched(t)
    BY <1>3 DEF Refuse, Untouched
  <2>3. QED
    BY <2>1, <2>2, OthersKept
<1>4. CASE StartProducer(s)
  <2>1. ModelInv(s)' /\ QueueInv(s)' /\ PcInv(s)'
    BY <1>1, <1>2, <1>4 DEF StartProducer, ModelInv, QueueInv, PcInv
  <2>2. \A t \in Streams \ {s} : Untouched(t)
    BY <1>4 DEF StartProducer, Untouched
  <2>3. QED
    BY <2>1, <2>2, OthersKept
<1>5. CASE Pull(s) \/ Keepalive(s) \/ Store(s)
  <2>1. ModelInv(s)' /\ QueueInv(s)'
    BY <1>1, <1>5 DEF Pull, Keepalive, Store, ModelInv, QueueInv
  <2>2. PcInv(s)'
    BY <1>1, <1>5 DEF Pull, Keepalive, Store, PcInv
  <2>3. \A t \in Streams \ {s} : Untouched(t)
    BY <1>5 DEF Pull, Keepalive, Store, Untouched
  <2>4. QED
    BY <2>1, <2>2, <2>3, OthersKept
<1>6. CASE Close(s)
  <2>1. ModelInv(s)' /\ QueueInv(s)' /\ PcInv(s)'
    BY <1>1, <1>2, <1>6 DEF Close, ModelInv, QueueInv, PcInv
  <2>2. \A t \in Streams \ {s} : Untouched(t)
    BY <1>6 DEF Close, Untouched
  <2>3. QED
    BY <2>1, <2>2, OthersKept
<1>7. QED
  BY <1>3, <1>4, <1>5, <1>6

LEMMA YieldChunkStream ==
    ASSUME TypeOK, StreamInv, NEW s \in Streams, YieldChunk(s)
    PROVE  StreamInv' /\ feed[s] = "open" /\ got[s] < sent[s]
<1>1. ModelInv(s) /\ QueueInv(s) /\ PcInv(s)
  BY DEF StreamInv
<1>2. feed[s] = "open"
  BY <1>1 DEF PcInv, YieldChunk
<1>3. /\ sent[s] \in Nat /\ got[s] \in Nat /\ (producer[s] = "gone") \in BOOLEAN
      /\ chunkQ[s] \in Seq((1..MaxTokens) \cup {Sentinel}) /\ chunkQ[s] # <<>>
      /\ chunkQ'[s] = Tail(chunkQ[s]) /\ got'[s] = got[s] + 1
      /\ sent' = sent /\ feed' = feed /\ producer' = producer /\ llm' = llm
  BY DEF TypeOK, YieldChunk
<1>4. got[s] < sent[s]
  BY <1>1, <1>2, <1>3, HeadHolds DEF YieldChunk, QueueInv
<1>5. Holds(Tail(chunkQ[s]), got[s] + 1, sent[s], producer[s] = "gone")
  BY <1>1, <1>2, <1>3, <1>4, TailHolds DEF QueueInv
<1>6. QueueInv(s)'
  BY <1>1, <1>3, <1>4, <1>5 DEF QueueInv
<1>7. ModelInv(s)' /\ PcInv(s)'
  BY <1>1, <1>2 DEF ModelInv, PcInv, YieldChunk, TypeOK, Goto
<1>8. \A t \in Streams \ {s} : Untouched(t)
  BY DEF YieldChunk, TypeOK, Untouched, Goto
<1>9. QED
  BY <1>2, <1>4, <1>6, <1>7, <1>8, OthersKept

LEMMA EndFeedStream ==
    ASSUME TypeOK, StreamInv, NEW s \in Streams, EndFeed(s)
    PROVE  /\ StreamInv' /\ feed[s] = "open" /\ got[s] = sent[s]
           /\ llm[s] = IF exc[s] THEN "failed" ELSE "ended"
<1>1. ModelInv(s) /\ QueueInv(s) /\ PcInv(s)
  BY DEF StreamInv
<1>2. feed[s] = "open"
  BY <1>1 DEF PcInv, EndFeed
<1>3. /\ sent[s] \in Nat /\ got[s] \in Nat /\ (producer[s] = "gone") \in BOOLEAN
      /\ chunkQ[s] \in Seq((1..MaxTokens) \cup {Sentinel}) /\ chunkQ[s] # <<>>
  BY DEF TypeOK, EndFeed
<1>4. got[s] = sent[s] /\ producer[s] = "gone"
  BY <1>1, <1>2, <1>3, HeadHolds DEF EndFeed, QueueInv
<1>5. llm[s] = IF exc[s] THEN "failed" ELSE "ended"
  BY <1>1, <1>2, <1>4 DEF ModelInv
<1>6. ModelInv(s)' /\ QueueInv(s)' /\ PcInv(s)'
  BY <1>1, <1>2, <1>4, <1>5 DEF EndFeed, TypeOK, Goto, ModelInv, QueueInv, PcInv
<1>7. \A t \in Streams \ {s} : Untouched(t)
  BY DEF EndFeed, TypeOK, Untouched, Goto
<1>8. QED
  BY <1>2, <1>4, <1>5, <1>6, <1>7, OthersKept

LEMMA ProducerStream ==
    ASSUME TypeOK, StreamInv, NEW s \in Streams, ProducerStep(s) \/ ModelHangs(s)
    PROVE  StreamInv'
<1>1. ModelInv(s) /\ QueueInv(s) /\ PcInv(s)
  BY DEF StreamInv
<1>2. /\ sent[s] \in Nat /\ got[s] \in Nat /\ got[s] <= sent[s]
      /\ chunkQ[s] \in Seq((1..MaxTokens) \cup {Sentinel})
  BY <1>1 DEF TypeOK, QueueInv
<1>3. CASE Produce(s) /\ feed[s] = "open"
  <2>1. /\ sent'[s] = sent[s] + 1 /\ got' = got /\ feed' = feed
        /\ chunkQ'[s] = Append(chunkQ[s], sent[s] + 1)
        /\ producer' = producer /\ producer[s] = "running" /\ llm[s] = "open"
        /\ llm' = llm /\ exc' = exc /\ pc' = pc
    BY <1>3 DEF Produce, TypeOK, readVars
  <2>2. Holds(Append(chunkQ[s], sent[s] + 1), got[s], sent[s] + 1, FALSE)
    BY <1>1, <1>2, <1>3, <2>1, AppendHolds DEF QueueInv
  <2>3. QueueInv(s)'
    <3>1. Holds(chunkQ'[s], got'[s], sent'[s], producer'[s] = "gone")
      BY <2>1, <2>2 DEF Holds
    <3>2. QED
      BY <1>2, <2>1, <3>1 DEF QueueInv
  <2>4. ModelInv(s)' /\ PcInv(s)'
    BY <1>1, <1>3, <2>1 DEF ModelInv, PcInv
  <2>5. \A t \in Streams \ {s} : Untouched(t)
    BY <1>3 DEF Produce, TypeOK, Untouched, readVars
  <2>6. QED
    BY <2>3, <2>4, <2>5, OthersKept
<1>4. CASE PutSentinel(s)
  <2>1. /\ chunkQ'[s] = Append(chunkQ[s], Sentinel) /\ producer'[s] = "gone"
        /\ producer[s] = "closing"
        /\ sent' = sent /\ got' = got /\ feed' = feed
        /\ llm' = llm /\ exc' = exc /\ pc' = pc
    BY <1>4 DEF PutSentinel, TypeOK, readVars
  <2>2. feed[s] = "open" => Holds(Append(chunkQ[s], Sentinel), got[s], sent[s], TRUE)
    BY <1>1, <1>2, <2>1, AppendHolds DEF QueueInv
  <2>3. QueueInv(s)'
    BY <1>1, <2>1, <2>2 DEF QueueInv
  <2>4. ModelInv(s)' /\ PcInv(s)'
    BY <1>1, <2>1 DEF ModelInv, PcInv
  <2>5. \A t \in Streams \ {s} : Untouched(t)
    BY <1>4 DEF PutSentinel, TypeOK, Untouched, readVars
  <2>6. QED
    BY <2>3, <2>4, <2>5, OthersKept
<1>5. CASE Produce(s) /\ feed[s] # "open"
  <2>1. ModelInv(s)' /\ QueueInv(s)' /\ PcInv(s)'
    BY <1>1, <1>5 DEF Produce, TypeOK, readVars, ModelInv, QueueInv, PcInv
  <2>2. \A t \in Streams \ {s} : Untouched(t)
    BY <1>5 DEF Produce, TypeOK, Untouched, readVars
  <2>3. QED
    BY <2>1, <2>2, OthersKept
<1>6. CASE ModelEnds(s) \/ ModelFails(s) \/ ModelHangs(s)
  <2>1. /\ producer[s] = "running" /\ llm[s] = "open"
        /\ sent' = sent /\ got' = got /\ feed' = feed /\ chunkQ' = chunkQ /\ pc' = pc
        /\ producer'[s] # "gone" /\ llm'[s] # "silent"
    BY <1>6 DEF ModelEnds, ModelFails, ModelHangs, TypeOK, readVars
  <2>2. QueueInv(s)'
    <3>1. feed[s] = "open" =>
             Holds(chunkQ[s], got[s], sent[s], FALSE)
      BY <1>1, <2>1 DEF QueueInv
    <3>2. feed'[s] = "open" =>
             Holds(chunkQ'[s], got'[s], sent'[s], producer'[s] = "gone")
      BY <2>1, <3>1 DEF Holds
    <3>3. QED
      BY <1>1, <2>1, <3>2 DEF QueueInv
  <2>3. PcInv(s)'
    BY <1>1, <2>1 DEF PcInv
  <2>4. ModelInv(s)'
    BY <1>1, <1>6 DEF ModelInv, ModelEnds, ModelFails, ModelHangs, TypeOK, readVars
  <2>5. \A t \in Streams \ {s} : Untouched(t)
    BY <1>6 DEF ModelEnds, ModelFails, ModelHangs, TypeOK, Untouched, readVars
  <2>6. QED
    BY <2>2, <2>3, <2>4, <2>5, OthersKept
<1>7. QED
  BY <1>3, <1>4, <1>5, <1>6 DEF ProducerStep

LEMMA StreamStep ==
    ASSUME TypeOK, StreamInv, [Next]_vars
    PROVE  StreamInv'
<1>1. CASE UNCHANGED <<pc, modelVars, readVars>>
  BY <1>1 DEF StreamInv, ModelInv, QueueInv, PcInv, modelVars, readVars
<1>2. CASE UNCHANGED vars \/ SyncStep
  BY <1>1, <1>2 DEF vars, SyncStep, SyncFlush, SyncCleanup, SyncSave, SyncUpsert
<1>3. ASSUME NEW s \in Streams, ReadStep(s) \/ Close(s) \/ ProducerStep(s) \/ ModelHangs(s)
      PROVE  StreamInv'
  BY <1>3, FetchStream, AnswerStreamStep, YieldChunkStream, EndFeedStream, ProducerStream
  DEF ReadStep, WaitStep
<1>4. QED
  BY <1>2, <1>3 DEF Next

LEMMA InitStream == Init => StreamInv
<1> SUFFICES ASSUME Init, NEW s \in Streams
             PROVE  ModelInv(s) /\ QueueInv(s) /\ PcInv(s)
  BY DEF StreamInv
<1>1. ModelInv(s) /\ PcInv(s)
  BY DEF Init, ModelInv, PcInv
<1>2. Holds(<<>>, 0, 0, FALSE)
  BY DEF Holds
<1>3. QueueInv(s)
  BY <1>2 DEF Init, QueueInv, Holds
<1>4. QED
  BY <1>1, <1>3

-----------------------------------------------------------------------------
(* Type correctness.  That the count of the tokens the page has stays in   *)
(* its range follows from the queue.                                       *)

LEMMA InitType == Init => TypeOK
<1> SUFFICES ASSUME Init PROVE TypeOK
  OBVIOUS
<1>1. 1 \in Versions /\ 0 \in 0..MaxTokens
  BY BoundsAssumption DEF Versions
<1>2. paths \in Seq(Paths) /\ Len(paths) \in Versions
  BY <1>1 DEF Init, Paths
<1>3. chunkQ \in [Streams -> Seq((1..MaxTokens) \cup {Sentinel})]
  BY DEF Init
<1>4. QED
  BY <1>1, <1>2, <1>3 DEF Init, TypeOK, PCs

LEMMA FetchType ==
    ASSUME TypeOK, NEW s \in Streams, FetchStep(s)
    PROVE  TypeOK'
<1> USE DEF TypeOK, PCs, Goto, askVars, modelVars, readVars, storeVars
<1>1. CASE Ask(s) \/ CacheMiss(s)
  BY <1>1 DEF Ask, CacheMiss
<1>2. CASE CacheHit(s)
  <2>1. docs' \in [Streams -> Versions \cup {0}]
    BY <1>2 DEF CacheHit, Entries
  <2>2. QED
    BY <1>2, <2>1 DEF CacheHit
<1>3. CASE Search(s)
  BY <1>3 DEF Search
<1>4. CASE Resolve(s)
  BY <1>4 DEF Resolve, LoadSourceJson
<1>5. CASE Rerank(s)
  <2>1. docs' \in [Streams -> Versions \cup {0}]
    BY <1>5 DEF Rerank
  <2>2. skipped' \in [Streams -> BOOLEAN]
    <3>1. PICK skip \in BOOLEAN : skipped' = [skipped EXCEPT ![s] = skip]
      BY <1>5 DEF Rerank
    <3>2. QED
      BY <3>1
  <2>3. QED
    BY <1>5, <2>1, <2>2 DEF Rerank
<1>6. QED
  BY <1>1, <1>2, <1>3, <1>4, <1>5 DEF FetchStep

LEMMA AnswerType ==
    ASSUME TypeOK, NEW s \in Streams,
           Refuse(s) \/ StartProducer(s) \/ Pull(s) \/ Keepalive(s) \/ Store(s) \/ Close(s)
    PROVE  TypeOK'
<1> USE DEF TypeOK, PCs, Goto, askVars, modelVars, readVars, storeVars
<1>1. CASE Refuse(s)
  BY <1>1 DEF Refuse
<1>2. CASE StartProducer(s)
  BY <1>2 DEF StartProducer
<1>3. CASE Pull(s) \/ Keepalive(s)
  BY <1>3 DEF Pull, Keepalive
<1>4. CASE Store(s)
  <2>1. [from |-> s, docs |-> docs[s], tokens |-> got[s]] \in Entries
    BY DEF Entries
  <2>2. cache' \in SUBSET Entries
    BY <1>4, <2>1 DEF Store
  <2>3. QED
    BY <1>4, <2>2 DEF Store
<1>5. CASE Close(s)
  BY <1>5 DEF Close
<1>6. QED
  BY <1>1, <1>2, <1>3, <1>4, <1>5

LEMMA QueueType ==
    ASSUME TypeOK, StreamInv, NEW s \in Streams,
           YieldChunk(s) \/ EndFeed(s) \/ ProducerStep(s) \/ ModelHangs(s)
    PROVE  TypeOK'
<1> USE DEF TypeOK, PCs, Goto, askVars, modelVars, readVars, storeVars
<1> DEFINE Q == Seq((1..MaxTokens) \cup {Sentinel})
<1>1. CASE YieldChunk(s)
  <2>1. got[s] + 1 \in 0..MaxTokens
    BY <1>1, YieldChunkStream, BoundsAssumption
  <2>2. chunkQ[s] \in Q /\ chunkQ[s] # <<>>
    BY <1>1 DEF YieldChunk
  <2>3. Tail(chunkQ[s]) \in Q
    BY <2>2
  <2>4. QED
    BY <1>1, <2>1, <2>3 DEF YieldChunk
<1>2. CASE EndFeed(s)
  <2>1. chunkQ[s] \in Q /\ chunkQ[s] # <<>>
    BY <1>2 DEF EndFeed
  <2>2. Tail(chunkQ[s]) \in Q
    BY <2>1
  <2>3. QED
    BY <1>2, <2>2 DEF EndFeed
<1>3. CASE Produce(s)
  <2>1. sent[s] < MaxTokens => Append(chunkQ[s], sent[s] + 1) \in Q /\ sent[s] + 1 \in 0..MaxTokens
    BY BoundsAssumption
  <2>2. CASE feed[s] = "open" /\ sent[s] < MaxTokens
    <3>1. chunkQ' \in [Streams -> Q]
      BY <1>3, <2>1, <2>2 DEF Produce
    <3>2. sent' \in [Streams -> 0..MaxTokens]
      BY <1>3, <2>1, <2>2 DEF Produce
    <3>3. QED
      BY <1>3, <2>2, <3>1, <3>2 DEF Produce
  <2>3. CASE feed[s] # "open"
    BY <1>3, <2>3 DEF Produce
  <2>4. QED
    BY <1>3, <2>2, <2>3 DEF Produce
<1>4. CASE ModelEnds(s)
  BY <1>4 DEF ModelEnds
<1>5. CASE ModelFails(s)
  BY <1>5 DEF ModelFails
<1>6. CASE ModelHangs(s)
  BY <1>6 DEF ModelHangs
<1>7. CASE PutSentinel(s)
  <2>1. Append(chunkQ[s], Sentinel) \in Q
    OBVIOUS
  <2>2. QED
    BY <1>7, <2>1 DEF PutSentinel
<1>8. QED
  BY <1>1, <1>2, <1>3, <1>4, <1>5, <1>6, <1>7 DEF ProducerStep

LEMMA SyncTypeStep ==
    ASSUME TypeOK, SyncInv, SyncStep
    PROVE  TypeOK' /\ SyncInv'
<1> USE DEF TypeOK, askVars, modelVars, readVars
<1>1. CASE SyncFlush
  BY <1>1 DEF SyncFlush, SyncInv
<1>2. CASE SyncCleanup
  BY <1>2 DEF SyncCleanup, SyncInv
<1>3. CASE SyncSave
  <2>1. PICK p \in {paths[v] : v \in DOMAIN paths} \cup {Len(paths) + 1} :
              paths' = Append(paths, p) /\ json' = [json EXCEPT ![p] = Len(paths) + 1]
    BY <1>3 DEF SyncSave
  <2>2. Len(paths) + 1 \in Versions /\ p \in Paths
    <3>1. Len(paths) + 1 \in Versions
      BY <1>3, BoundsAssumption DEF SyncSave, SyncInv, Versions
    <3>2. \A v \in DOMAIN paths : paths[v] \in Paths
      OBVIOUS
    <3> QED BY <2>1, <3>1, <3>2 DEF Paths
  <2>3. paths' \in Seq(Paths) /\ Len(paths') \in Versions
    BY <2>1, <2>2 DEF Paths
  <2>4. json' \in [Paths -> Versions \cup {0}]
    BY <2>1, <2>2 DEF Paths
  <2>5. QED
    BY <1>3, <2>3, <2>4 DEF SyncSave, SyncInv
<1>4. CASE SyncUpsert
  BY <1>4 DEF SyncUpsert, SyncInv
<1>5. QED
  BY <1>1, <1>2, <1>3, <1>4 DEF SyncStep

LEMMA TypeStep ==
    ASSUME TypeOK, StreamInv, SyncInv, [Next]_vars
    PROVE  TypeOK' /\ SyncInv'
<1>1. CASE UNCHANGED vars
  BY <1>1 DEF vars, askVars, modelVars, readVars, storeVars, TypeOK, SyncInv
<1>2. ASSUME NEW s \in Streams, ReadStep(s) \/ Close(s) \/ ProducerStep(s) \/ ModelHangs(s)
      PROVE  TypeOK'
  BY <1>2, FetchType, AnswerType, QueueType DEF ReadStep, WaitStep
<1>3. ASSUME NEW s \in Streams, ReadStep(s) \/ Close(s) \/ ProducerStep(s) \/ ModelHangs(s)
      PROVE  UNCHANGED <<paths, sync>>
  BY <1>3 DEF ReadStep, WaitStep, FetchStep, ProducerStep, Ask, CacheHit, CacheMiss, Search,
     Resolve, Rerank, Refuse, StartProducer, Pull, YieldChunk, Keepalive, EndFeed, Store,
     Close, Produce, ModelEnds, ModelFails, ModelHangs, PutSentinel, storeVars
<1>4. QED
  BY <1>1, <1>2, <1>3, SyncTypeStep DEF Next, SyncInv

\* Every variable has its type in every reachable state.
THEOREM AnswerTypeCorrect == Spec => []TypeOK
<1>1. Init => TypeOK /\ StreamInv /\ SyncInv
  BY InitType, InitStream DEF Init, SyncInv
<1>2. TypeOK /\ StreamInv /\ SyncInv /\ [Next]_vars => (TypeOK /\ StreamInv /\ SyncInv)'
  BY TypeStep, StreamStep
<1>3. QED
  BY <1>1, <1>2, PTL DEF Spec

-----------------------------------------------------------------------------
(* Only whole answers are cached: a stream whose feed is complete changes  *)
(* nothing an entry speaks of any more.                                    *)

LEMMA CompleteKept ==
    ASSUME TypeOK, StreamInv, NEW s \in Streams, NEW t \in Streams,
           ReadStep(s) \/ Close(s) \/ ProducerStep(s) \/ ModelHangs(s),
           feed[t] = "complete", ~skipped[t]
    PROVE  /\ feed'[t] = "complete" /\ ~skipped'[t]
           /\ sent'[t] = sent[t] /\ llm'[t] = llm[t]
<1>1. /\ pc[t] \notin {"new", "lookup", "search", "resolve", "rerank", "generate",
                       "waiting", "yielded"}
      /\ producer[t] \in {"off", "gone"}
  BY DEF StreamInv, PcInv
<1> USE DEF TypeOK, Goto, askVars, modelVars, readVars
<1>2. CASE FetchStep(s)
  BY <1>1, <1>2 DEF FetchStep, Ask, CacheHit, CacheMiss, Search, Resolve, Rerank
<1>3. CASE Refuse(s) \/ StartProducer(s)
  BY <1>1, <1>3 DEF Refuse, StartProducer
<1>4. CASE Pull(s) \/ WaitStep(s) \/ Store(s)
  BY <1>1, <1>4 DEF Pull, WaitStep, YieldChunk, Keepalive, EndFeed, Store
<1>5. CASE Close(s)
  BY <1>1, <1>5 DEF Close
<1>6. CASE ProducerStep(s) \/ ModelHangs(s)
  BY <1>1, <1>6
  DEF ProducerStep, Produce, ModelEnds, ModelFails, PutSentinel, ModelHangs
<1>7. QED
  BY <1>2, <1>3, <1>4, <1>5, <1>6 DEF ReadStep

LEMMA CacheGrowth ==
    ASSUME NEW s \in Streams,
           ReadStep(s) \/ Close(s) \/ ProducerStep(s) \/ ModelHangs(s),
           NEW e \in cache', e \notin cache
    PROVE  /\ pc[s] = "cite" /\ ~skipped[s] /\ e.from = s /\ e.tokens = got[s]
           /\ UNCHANGED <<skipped, modelVars, readVars>>
<1>1. CASE Store(s)
  BY <1>1 DEF Store, Stores, askVars
<1>2. CASE ~Store(s)
  BY <1>2 DEF ReadStep, WaitStep, FetchStep, ProducerStep, Ask, CacheHit, CacheMiss, Search,
     Resolve, Rerank, Refuse, StartProducer, Pull, YieldChunk, Keepalive, EndFeed,
     Close, Produce, ModelEnds, ModelFails, ModelHangs, PutSentinel, storeVars
<1>3. QED
  BY <1>1, <1>2

LEMMA CachedStep ==
    ASSUME TypeOK, StreamInv, CachedAnswersWhole, [Next]_vars
    PROVE  CachedAnswersWhole'
<1>1. CASE UNCHANGED vars
  BY <1>1 DEF vars, askVars, modelVars, readVars, storeVars, CachedAnswersWhole
<1>2. CASE SyncStep
  BY <1>2 DEF SyncStep, SyncFlush, SyncCleanup, SyncSave, SyncUpsert, askVars, modelVars,
     readVars, CachedAnswersWhole
<1>3. ASSUME NEW s \in Streams,
             ReadStep(s) \/ Close(s) \/ ProducerStep(s) \/ ModelHangs(s),
             NEW e \in cache'
      PROVE  /\ feed'[e.from] = "complete" /\ ~skipped'[e.from]
             /\ e.tokens = sent'[e.from] /\ llm'[e.from] \in {"silent", "ended"}
  <2>1. CASE e \in cache
    <3>1. /\ feed[e.from] = "complete" /\ ~skipped[e.from] /\ e.tokens = sent[e.from]
          /\ llm[e.from] \in {"silent", "ended"} /\ e.from \in Streams
      BY <2>1 DEF CachedAnswersWhole, TypeOK, Entries
    <3>2. QED
      BY <1>3, <3>1, CompleteKept
  <2>2. CASE e \notin cache
    <3>1. /\ pc[s] = "cite" /\ ~skipped[s] /\ e.from = s /\ e.tokens = got[s]
          /\ UNCHANGED <<skipped, modelVars, readVars>>
      BY <1>3, <2>2, CacheGrowth
    <3>2. feed[s] = "complete" /\ got[s] = sent[s] /\ llm[s] \in {"silent", "ended"}
      BY <3>1 DEF StreamInv, PcInv
    <3>3. QED
      BY <3>1, <3>2 DEF modelVars, readVars
  <2>3. QED
    BY <2>1, <2>2
<1>4. QED
  BY <1>1, <1>2, <1>3 DEF Next, CachedAnswersWhole

\* Whatever is in the semantic cache is a whole answer of a model that ended
\* normally, from documents the reranker has seen.
THEOREM CacheHoldsWholeAnswers == Spec => []CachedAnswersWhole
<1> DEFINE Inv == TypeOK /\ StreamInv /\ SyncInv /\ CachedAnswersWhole
<1>1. Init => Inv
  BY InitType, InitStream DEF Init, SyncInv, CachedAnswersWhole
<1>2. Inv /\ [Next]_vars => Inv'
  BY TypeStep, StreamStep, CachedStep
<1>3. QED
  BY <1>1, <1>2, PTL DEF Spec

-----------------------------------------------------------------------------
(* Refinement: every step of a stream is one of TokenFeed, or changes      *)
(* nothing TokenFeed sees.                                                 *)

Source == [t \in Streams |-> IF llm[t] = "hung" THEN "open" ELSE llm[t]]

LEMMA InitFeed == Init => Feed!Init
BY DEF Init, Feed!Init

LEMMA ReadRefines ==
    ASSUME TypeOK, StreamInv, NEW s \in Streams, ReadStep(s) \/ Close(s)
    PROVE  [Feed!Next]_Feed!feedVars
<1>1. ModelInv(s) /\ QueueInv(s) /\ PcInv(s)
  BY DEF StreamInv
<1> USE DEF TypeOK, Feed!feedVars
<1>2. CASE FetchStep(s) \/ Pull(s) \/ Keepalive(s) \/ Store(s)
  BY <1>2 DEF FetchStep, Ask, CacheHit, CacheMiss, Search, Resolve, Rerank, Pull,
     Keepalive, Store, modelVars, readVars
<1>3. CASE Refuse(s)
  <2>1. feed[s] = "open" /\ llm[s] = "silent" /\ sent[s] = 0 /\ got[s] = 0
    BY <1>1, <1>3 DEF Refuse, PcInv, QueueInv
  <2>2. Feed!Complete(s)
    BY <1>3, <2>1 DEF Refuse, Feed!Complete, modelVars
  <2>3. QED
    BY <2>2 DEF Feed!Next
<1>4. CASE StartProducer(s)
  <2>1. feed[s] = "open" /\ llm[s] = "silent"
    BY <1>1, <1>4 DEF StartProducer, PcInv
  <2>2. Source' = [Source EXCEPT ![s] = "open"]
    BY <1>4, <2>1 DEF StartProducer, Source
  <2>3. Feed!Open(s)
    BY <1>4, <2>1, <2>2 DEF StartProducer, Feed!Open, Source
  <2>4. QED
    BY <2>3 DEF Feed!Next
<1>5. CASE YieldChunk(s)
  <2>1. feed[s] = "open" /\ got[s] < sent[s]
    BY <1>5, YieldChunkStream
  <2>2. Feed!Deliver(s)
    BY <1>5, <2>1 DEF YieldChunk, Feed!Deliver
  <2>3. QED
    BY <2>2 DEF Feed!Next
<1>6. CASE EndFeed(s)
  <2>1. feed[s] = "open" /\ got[s] = sent[s] /\ llm[s] = IF exc[s] THEN "failed" ELSE "ended"
    BY <1>6, EndFeedStream
  <2>2. Feed!Complete(s) \/ Feed!Fail(s)
    BY <1>6, <2>1 DEF EndFeed, Feed!Complete, Feed!Fail
  <2>3. QED
    BY <2>2 DEF Feed!Next
<1>7. CASE Close(s)
  <2>1. CASE feed[s] = "open"
    <3>1. Feed!Close(s)
      BY <1>7, <2>1 DEF Close, Feed!Close, modelVars
    <3>2. QED
      BY <3>1 DEF Feed!Next
  <2>2. CASE feed[s] # "open"
    BY <1>7, <2>2 DEF Close, modelVars
  <2>3. QED
    BY <2>1, <2>2
<1>8. QED
  BY <1>2, <1>3, <1>4, <1>5, <1>6, <1>7 DEF ReadStep, WaitStep

LEMMA ProducerRefines ==
    ASSUME TypeOK, NEW s \in Streams, ProducerStep(s) \/ ModelHangs(s)
    PROVE  [Feed!Next]_Feed!feedVars
<1> USE DEF TypeOK, readVars
<1>1. CASE Produce(s) /\ feed[s] = "open"
  <2>1. Feed!Send(s)
    BY <1>1 DEF Produce, Feed!Send
  <2>2. QED
    BY <2>1 DEF Feed!Next
<1>2. CASE ModelEnds(s) \/ ModelFails(s)
  <2>1. PICK how \in {"ended", "failed"} : llm' = [llm EXCEPT ![s] = how]
    BY <1>2 DEF ModelEnds, ModelFails
  <2>2. Source' = [Source EXCEPT ![s] = how]
    BY <2>1 DEF Source
  <2>3. Feed!EndSource(s)
    BY <1>2, <2>2 DEF ModelEnds, ModelFails, Feed!EndSource, Source
  <2>4. QED
    BY <2>3 DEF Feed!Next
<1>3. CASE ModelHangs(s)
  <2>1. Source' = Source
    BY <1>3 DEF ModelHangs, Source
  <2>2. QED
    BY <1>3, <2>1 DEF ModelHangs, Source, Feed!feedVars
<1>4. CASE (Produce(s) /\ feed[s] # "open") \/ PutSentinel(s)
  BY <1>4 DEF Produce, PutSentinel, Feed!feedVars
<1>5. QED
  BY <1>1, <1>2, <1>3, <1>4 DEF ProducerStep

\* What the page gets is what the model sent, in order and once, and the end
\* it is told of is the end the model came to.
THEOREM AnswerImplementsFeed == Spec => FeedSpec
<1>1. Init => TypeOK /\ StreamInv /\ SyncInv
  BY InitType, InitStream DEF Init, SyncInv
<1>2. TypeOK /\ StreamInv /\ SyncInv /\ [Next]_vars => (TypeOK /\ StreamInv /\ SyncInv)'
  BY TypeStep, StreamStep
<1>3. TypeOK /\ StreamInv /\ [Next]_vars => [Feed!Next]_Feed!feedVars
  <2>1. UNCHANGED vars \/ SyncStep => UNCHANGED Feed!feedVars
    BY DEF vars, SyncStep, SyncFlush, SyncCleanup, SyncSave, SyncUpsert, modelVars,
       readVars, Feed!feedVars
  <2>2. QED
    BY <2>1, ReadRefines, ProducerRefines DEF Next
<1>4. QED
  BY <1>1, <1>2, <1>3, InitFeed, PTL DEF Spec, FeedSpec, Feed!Spec
=============================================================================
