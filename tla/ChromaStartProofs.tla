------------------------- MODULE ChromaStartProofs -------------------------
(***************************************************************************)
(* Theorems about ChromaStart for any settings, documents and numbers of   *)
(* starts: type correctness, and that the index follows the settings.      *)
(***************************************************************************)
EXTENDS ChromaStart, TLAPS

-----------------------------------------------------------------------------
(* Type correctness.                                                       *)

LEMMA Names ==
    ASSUME NEW o \in Openers
    PROVE  CollectionOf(o) \in {"index", "cache"}
BY DEF CollectionOf

LEMMA EmptyTypes == NoEntries \in Entries /\ Fresh \in Collections /\ Nothing \notin Collections
BY NothingAssumption DEF NoEntries, Entries, Fresh, Collections

\* What Valid gives is always a collection.
LEMMA ValidType ==
    ASSUME TypeOK, NEW c \in {"index", "cache"}
    PROVE  Valid(c) \in Collections /\ Valid(c) # Nothing
BY EmptyTypes DEF TypeOK, Valid

LEMMA WithEntriesType ==
    ASSUME TypeOK, NEW c \in {"index", "cache"}, NEW f \in Entries
    PROVE  WithEntries(c, f) \in [{"index", "cache"} -> {Nothing} \cup Collections]
<1>1. [Valid(c) EXCEPT !.entries = f] \in Collections
  BY ValidType DEF Collections
<1>2. QED
  BY <1>1 DEF WithEntries, TypeOK

LEMMA InitType == Init => TypeOK
<1> SUFFICES ASSUME Init PROVE TypeOK
  OBVIOUS
<1>1. attempt \in [Openers -> 1..MaxRetries]
  BY ConstantsAssumption DEF Init
<1>2. job \in [at : {"idle", "flush", "cleanup", "save", "upsert"}, todo : SUBSET Items]
  BY DEF Init, NoJob
<1>3. coll \in [{"index", "cache"} -> {Nothing} \cup Collections]
  BY DEF Init
<1>4. starts \in 0..MaxStarts /\ turns \in 0..MaxTurns
  BY ConstantsAssumption DEF Init
<1>5. QED
  BY <1>1, <1>2, <1>3, <1>4, EmptyTypes DEF Init, TypeOK

LEMMA ProcessType ==
    ASSUME TypeOK, Start \/ Stop \/ TurnSwitch \/ ServerReset
    PROVE  TypeOK'
<1> USE ConstantsAssumption DEF TypeOK, bounds
<1>1. CASE Start
  <2>1. starts' \in 0..MaxStarts
    BY <1>1 DEF Start
  <2>2. pc' \in [Openers -> {"closed", "connect", "reset", "clear", "tag", "open", "failed"}]
    BY <1>1 DEF Start
  <2>3. QED
    BY <1>1, <2>1, <2>2 DEF Start
<1>2. CASE Stop
  BY <1>2 DEF Stop, NoJob
<1>3. CASE TurnSwitch
  BY <1>3 DEF TurnSwitch
<1>4. CASE ServerReset
  BY <1>4 DEF ServerReset
<1>5. QED
  BY <1>1, <1>2, <1>3, <1>4

LEMMA OpenStepType ==
    ASSUME TypeOK, NEW o \in Openers, OpenStep(o)
    PROVE  TypeOK'
<1> USE ConstantsAssumption DEF TypeOK, bounds, Goto
<1>1. CASE Open(o)
  BY <1>1 DEF Open
<1>2. CASE Connect(o)
  <2>1. Valid(CollectionOf(o)) \in Collections
    BY Names, ValidType
  <2>2. coll' \in [{"index", "cache"} -> {Nothing} \cup Collections]
    BY <1>2, <2>1 DEF Connect
  <2>3. attempt' \in [Openers -> 1..MaxRetries]
    BY <1>2 DEF Connect
  <2>4. pc' \in [Openers -> {"closed", "connect", "reset", "clear", "tag", "open", "failed"}]
    BY <1>2 DEF Connect
  <2>5. QED
    BY <1>2, <2>2, <2>3, <2>4 DEF Connect
<1>3. CASE ConnectFails(o)
  <2>1. CASE attempt[o] < MaxRetries
    <3>1. attempt' \in [Openers -> 1..MaxRetries]
      BY <1>3, <2>1 DEF ConnectFails
    <3>2. coll' \in [{"index", "cache"} -> {Nothing} \cup Collections]
      BY <1>3, <2>1 DEF ConnectFails
    <3>3. trouble' \in BOOLEAN
      BY <1>3, <2>1 DEF ConnectFails
    <3>4. QED
      BY <1>3, <2>1, <3>1, <3>2, <3>3 DEF ConnectFails
  <2>2. CASE ~(attempt[o] < MaxRetries)
    BY <1>3, <2>2 DEF ConnectFails, Abandoned, NoJob
  <2>3. QED
    BY <2>1, <2>2
<1>4. CASE Reset(o)
  <2>1. WithEntries(CollectionOf(o), NoEntries) \in [{"index", "cache"} -> {Nothing} \cup Collections]
    BY Names, EmptyTypes, WithEntriesType
  <2>2. QED
    BY <1>4, <2>1 DEF Reset
<1>5. CASE Clear(o)
  <2>1. json' \in Entries
    BY <1>5 DEF Clear, Entries
  <2>2. QED
    BY <1>5, <2>1 DEF Clear
<1>6. CASE Tag(o)
  <2>1. coll[CollectionOf(o)] # Nothing =>
           [coll EXCEPT ![CollectionOf(o)].tag = config] \in
              [{"index", "cache"} -> {Nothing} \cup Collections]
    BY Names DEF Collections
  <2>2. QED
    BY <1>6, <2>1 DEF Tag
<1>7. QED
  BY <1>1, <1>2, <1>3, <1>4, <1>5, <1>6 DEF OpenStep

LEMMA IndexEntries == TypeOK => Valid("index").entries \in Entries
BY ValidType DEF Collections

LEMMA SyncType ==
    ASSUME TypeOK, Sync
    PROVE  TypeOK'
<1> USE DEF TypeOK, bounds
<1>1. CASE SyncStart
  <2>1. Missing \in SUBSET Items
    BY DEF Missing
  <2>2. QED
    BY <1>1, <2>1 DEF SyncStart
<1>2. CASE SyncFlush
  BY <1>2, EmptyTypes DEF SyncFlush
<1>3. CASE SyncCleanup
  <2>1. /\ [i \in Items |-> IF i \in job.todo THEN Nothing ELSE Valid("index").entries[i]] \in Entries
        /\ json' \in Entries
    BY <1>3, IndexEntries DEF SyncCleanup, Entries
  <2>2. QED
    BY <1>3, <2>1, WithEntriesType DEF SyncCleanup
<1>4. CASE SyncSave
  <2>1. json' \in Entries
    BY <1>4 DEF SyncSave, Entries
  <2>2. QED
    BY <1>4, <2>1 DEF SyncSave
<1>5. CASE SyncUpsert
  <2>1. [i \in Items |-> IF i \in job.todo THEN config ELSE Valid("index").entries[i]] \in Entries
    BY IndexEntries DEF Entries
  <2>2. QED
    BY <1>5, <2>1, WithEntriesType DEF SyncUpsert, NoJob
<1>6. QED
  BY <1>1, <1>2, <1>3, <1>4, <1>5 DEF Sync

LEMMA CacheAddType ==
    ASSUME TypeOK, NEW i \in Items, CacheAdd(i)
    PROVE  TypeOK'
<1>1. [Valid("cache").entries EXCEPT ![i] = config] \in Entries
  BY ValidType DEF TypeOK, Entries, Collections
<1>2. QED
  BY <1>1, WithEntriesType DEF TypeOK, CacheAdd, bounds

\* What the program holds always has the shape the module says.
THEOREM ChromaTypeCorrect == Spec => []TypeOK
<1>1. Init => TypeOK
  BY InitType
<1>2. TypeOK /\ [Next]_vars => TypeOK'
  <2> SUFFICES ASSUME TypeOK, [Next]_vars PROVE TypeOK'
    OBVIOUS
  <2>1. CASE Start \/ Stop \/ TurnSwitch \/ ServerReset
    BY <2>1, ProcessType
  <2>2. CASE Sync
    BY <2>2, SyncType
  <2>3. CASE \E o \in Openers : OpenStep(o)
    BY <2>3, OpenStepType
  <2>4. CASE \E i \in Items : CacheAdd(i)
    BY <2>4, CacheAddType
  <2>5. CASE UNCHANGED vars
    BY <2>5 DEF TypeOK, vars
  <2>6. QED
    BY <2>1, <2>2, <2>3, <2>4, <2>5 DEF Next
<1>3. QED
  BY <1>1, <1>2, PTL DEF Spec

-----------------------------------------------------------------------------
(* The index follows the settings.  While no call of the check failed and  *)
(* no open index was lost, its entries are of the setting of its tag; the  *)
(* application is past its own check with the tag of its settings.         *)

TagInv ==
    ~trouble => /\ Made("index") \subseteq {Valid("index").tag}
                /\ pc["app"] \in {"reset", "clear", "tag", "open"} => coll["index"] # Nothing

AppInv ==
    ~trouble => /\ pc["app"] = "clear" => Made("index") = {}
                /\ pc["app"] = "tag" => Made("index") \subseteq {config}
                /\ pc["app"] = "open" => Valid("index").tag = config
                /\ pc["pipeline"] \notin {"reset", "clear"}

OpenInv ==
    /\ \A o \in Openers : pc[o] # "closed" => o = "app" \/ pc["app"] = "open"
    /\ job.at # "idle" => pc["app"] = "open"
    /\ config = Nothing => \A o \in Openers : pc[o] = "closed"

IInv == TypeOK /\ TagInv /\ AppInv /\ OpenInv

LEMMA InitIInv == Init => IInv
<1> SUFFICES ASSUME Init PROVE IInv
  OBVIOUS
<1>1. Made("index") = {}
  BY DEF Init, Made, Valid, Fresh, NoEntries
<1>2. QED
  BY <1>1, InitType DEF Init, IInv, TagInv, AppInv, OpenInv, Openers, NoJob

\* What each kind of write does to what is said of the index.
LEMMA IndexKept ==
    ASSUME coll'["index"] = coll["index"]
    PROVE  Made("index")' = Made("index") /\ Valid("index")' = Valid("index")
BY DEF Made, Valid

LEMMA IndexEmptied ==
    ASSUME coll'["index"] = Nothing
    PROVE  Made("index")' = {}
BY DEF Made, Valid, Fresh, NoEntries

LEMMA IndexWritten ==
    ASSUME TypeOK, NEW f \in Entries, coll' = WithEntries("index", f)
    PROVE  /\ Made("index")' = {f[i] : i \in Items} \ {Nothing}
           /\ Valid("index")'.tag = Valid("index").tag
           /\ coll'["index"] # Nothing
<1>1. coll'["index"] = [Valid("index") EXCEPT !.entries = f]
  BY DEF WithEntries, TypeOK
<1>2. coll'["index"] \in Collections /\ coll'["index"].tag = Valid("index").tag
      /\ coll'["index"].entries = f
  BY <1>1, ValidType DEF Collections
<1>3. coll'["index"] # Nothing
  BY <1>2, EmptyTypes
<1>4. QED
  BY <1>2, <1>3 DEF Made, Valid

LEMMA CacheWritten ==
    ASSUME TypeOK, NEW f, coll' = WithEntries("cache", f)
    PROVE  coll'["index"] = coll["index"]
BY DEF WithEntries, TypeOK

LEMMA ProcessIInv ==
    ASSUME IInv, Start \/ Stop \/ TurnSwitch \/ ServerReset
    PROVE  TagInv' /\ AppInv' /\ OpenInv'
<1>1. CASE Start
  <2>1. \A o \in Openers : pc[o] = "closed"
    BY <1>1 DEF Start, IInv, OpenInv
  <2>2. pc' = [pc EXCEPT !["app"] = "connect"] /\ config' # Nothing /\ job.at = "idle"
    BY <1>1, <2>1, ConstantsAssumption DEF Start, IInv, OpenInv, Openers
  <2>3. OpenInv'
    BY <1>1, <2>1, <2>2 DEF Start, IInv, TypeOK, OpenInv, Openers
  <2>4. TagInv' /\ AppInv'
    BY <1>1, <2>1, <2>2, IndexKept DEF Start, IInv, TypeOK, TagInv, AppInv, Openers
  <2>5. QED
    BY <2>3, <2>4
<1>2. CASE Stop
  BY <1>2, IndexKept DEF Stop, IInv, TypeOK, TagInv, AppInv, OpenInv, Openers, NoJob
<1>3. CASE TurnSwitch
  BY <1>3, IndexKept DEF TurnSwitch, IInv, TagInv, AppInv, OpenInv
<1>4. CASE ServerReset
  BY <1>4 DEF ServerReset, IInv, TagInv, AppInv, OpenInv
<1>5. QED
  BY <1>1, <1>2, <1>3, <1>4

LEMMA OpenStepOpenInv ==
    ASSUME IInv, NEW o \in Openers, OpenStep(o)
    PROVE  OpenInv'
<1>0. config # Nothing /\ config' = config
  BY DEF OpenStep, Open, Connect, ConnectFails, Reset, Clear, Tag, IInv, OpenInv, Openers
<1> USE <1>0
<1>1. CASE Open(o)
  BY <1>1 DEF Open, Goto, IInv, TypeOK, OpenInv, Openers
<1>2. CASE Connect(o)
  BY <1>2 DEF Connect, Goto, IInv, TypeOK, OpenInv, Openers
<1>3. CASE ConnectFails(o)
  <2>1. pc' = [pc EXCEPT ![o] = IF o = "app" THEN "failed" ELSE "closed"] \/ pc' = pc
    BY <1>3 DEF ConnectFails, Goto
  <2>2. job'.at # "idle" => job.at # "idle"
    BY <1>3 DEF ConnectFails, Abandoned, NoJob
  <2>3. pc[o] = "connect"
    BY <1>3 DEF ConnectFails
  <2>4. CASE o = "app"
    <3>1. \A p \in Openers : p # "app" => pc[p] = "closed"
      BY <2>3, <2>4 DEF IInv, OpenInv
    <3>2. QED
      BY <2>1, <2>2, <2>3, <2>4, <3>1 DEF IInv, OpenInv, TypeOK, Openers
  <2>5. CASE o # "app"
    BY <2>1, <2>2, <2>3, <2>5 DEF IInv, OpenInv, TypeOK, Openers
  <2>6. QED
    BY <2>4, <2>5
<1>4. CASE Reset(o)
  BY <1>4 DEF Reset, Goto, IInv, TypeOK, OpenInv, Openers
<1>5. CASE Clear(o)
  BY <1>5 DEF Clear, Goto, IInv, TypeOK, OpenInv, Openers
<1>6. CASE Tag(o)
  BY <1>6 DEF Tag, Goto, IInv, TypeOK, OpenInv, Openers
<1>7. QED
  BY <1>1, <1>2, <1>3, <1>4, <1>5, <1>6 DEF OpenStep

\* The cache is opened without the index being touched.
LEMMA CacheOpenStep ==
    ASSUME IInv, NEW o \in Openers, CollectionOf(o) = "cache", OpenStep(o), ~trouble'
    PROVE  /\ coll'["index"] = coll["index"] /\ config' = config /\ ~trouble
           /\ pc'["app"] = pc["app"] /\ pc'["pipeline"] = pc["pipeline"]
<1>1. o # "app" /\ o # "pipeline"
  BY DEF CollectionOf
<1>2. pc'["app"] = pc["app"] /\ pc'["pipeline"] = pc["pipeline"]
  BY <1>1 DEF OpenStep, Open, Connect, ConnectFails, Reset, Clear, Tag, Goto, IInv, TypeOK, Openers
<1>3. CASE Open(o)
  BY <1>2, <1>3 DEF Open
<1>4. CASE Connect(o)
  BY <1>2, <1>4 DEF Connect, IInv, TypeOK
<1>5. CASE ConnectFails(o)
  BY <1>1, <1>2, <1>5 DEF ConnectFails, IInv, TypeOK
<1>6. CASE Reset(o)
  BY <1>2, <1>6, CacheWritten DEF Reset, IInv
<1>7. CASE Clear(o)
  BY <1>2, <1>7 DEF Clear
<1>8. CASE Tag(o)
  BY <1>2, <1>8 DEF Tag, IInv, TypeOK
<1>9. QED
  BY <1>3, <1>4, <1>5, <1>6, <1>7, <1>8 DEF OpenStep

\* The application opens the index while everything else is closed.
LEMMA AppOpenStep ==
    ASSUME IInv, OpenStep("app")
    PROVE  TagInv' /\ AppInv'
<1> SUFFICES ASSUME ~trouble' PROVE TagInv' /\ AppInv'
  BY DEF TagInv, AppInv
<1> USE DEF Goto, CollectionOf
<1>0. /\ "app" \in Openers /\ "pipeline" \in Openers
      /\ pc["app"] # "open" => pc["pipeline"] = "closed"
  BY DEF IInv, OpenInv, Openers
<1>1. CASE Open("app")
  BY <1>0, <1>1, IndexKept DEF Open, IInv, TypeOK, TagInv, AppInv
<1>2. CASE Connect("app")
  <2>1. coll'["index"] = Valid("index") /\ coll'["index"] # Nothing
    BY <1>2, ValidType DEF Connect, IInv, TypeOK
  <2>2. Valid("index")' = Valid("index") /\ Made("index")' = Made("index")
    BY <2>1 DEF Valid, Made
  <2>3. pc'["app"] = IF NeedsReset("index") THEN "reset" ELSE "tag"
    BY <1>0, <1>2 DEF Connect, IInv, TypeOK
  <2>4. ~trouble /\ config' = config /\ pc'["pipeline"] = "closed"
    BY <1>0, <1>2 DEF Connect, IInv, TypeOK
  <2>5. ~NeedsReset("index") => Made("index") \subseteq {config}
    BY <2>4 DEF NeedsReset, Made, IInv, TagInv
  <2>6. QED
    BY <2>1, <2>2, <2>3, <2>4, <2>5 DEF IInv, TagInv, AppInv
<1>3. CASE ConnectFails("app")
  <2>1. ~trouble /\ config' = config /\ pc'["pipeline"] = "closed" /\ pc'["app"] \in {"connect", "failed"}
    BY <1>0, <1>3 DEF ConnectFails, IInv, TypeOK
  <2>2. coll' = coll \/ coll'["index"] = Nothing
    BY <1>3 DEF ConnectFails, IInv, TypeOK
  <2>3. QED
    BY <2>1, <2>2, IndexKept, IndexEmptied DEF IInv, TagInv, AppInv
<1>4. CASE Reset("app")
  <2>1. /\ ~trouble /\ config' = config /\ coll' = WithEntries("index", NoEntries)
        /\ pc'["pipeline"] = "closed" /\ pc'["app"] = "clear"
    BY <1>0, <1>4 DEF Reset, IInv, TypeOK
  <2>2. Made("index")' = {} /\ coll'["index"] # Nothing
    BY <2>1, EmptyTypes, IndexWritten DEF IInv, NoEntries
  <2>3. QED
    BY <2>1, <2>2 DEF TagInv, AppInv
<1>5. CASE Clear("app")
  <2>1. /\ ~trouble /\ config' = config /\ coll' = coll
        /\ pc'["pipeline"] = "closed" /\ pc["app"] = "clear" /\ pc'["app"] = "tag"
    BY <1>0, <1>5 DEF Clear, IInv, TypeOK
  <2>2. QED
    BY <2>1, IndexKept DEF IInv, TagInv, AppInv
<1>6. CASE Tag("app")
  <2>1. /\ ~trouble /\ config' = config /\ pc["app"] = "tag" /\ coll["index"] # Nothing
        /\ pc'["pipeline"] = "closed" /\ pc'["app"] = "open"
    BY <1>0, <1>6 DEF Tag, IInv, TypeOK, TagInv
  <2>2. coll'["index"] = [coll["index"] EXCEPT !.tag = config]
    BY <1>6, <2>1 DEF Tag, IInv, TypeOK
  <2>3. coll'["index"] \in Collections /\ coll'["index"].tag = config
        /\ coll'["index"].entries = coll["index"].entries
    BY <2>1, <2>2 DEF Collections, IInv, TypeOK
  <2>4. Valid("index")'.tag = config /\ Made("index")' = Made("index") /\ coll'["index"] # Nothing
    BY <2>1, <2>3, EmptyTypes DEF Valid, Made
  <2>5. QED
    BY <2>1, <2>4 DEF IInv, TagInv, AppInv
<1>7. QED
  BY <1>1, <1>2, <1>3, <1>4, <1>5, <1>6 DEF OpenStep

\* The pipeline finds the tag of the running application.
LEMMA PipelineOpenStep ==
    ASSUME IInv, OpenStep("pipeline")
    PROVE  TagInv' /\ AppInv'
<1> SUFFICES ASSUME ~trouble' PROVE TagInv' /\ AppInv'
  BY DEF TagInv, AppInv
<1> USE DEF Goto, CollectionOf
<1>0. "app" \in Openers /\ "pipeline" \in Openers
  BY DEF Openers
<1>1. ~trouble /\ config' = config /\ pc'["app"] = pc["app"]
  BY <1>0 DEF OpenStep, Open, Connect, ConnectFails, Reset, Clear, Tag, IInv, TypeOK
<1>2. pc["pipeline"] \notin {"reset", "clear"}
  BY <1>1 DEF IInv, AppInv
<1>3. pc["app"] = "open"
  BY <1>0 DEF OpenStep, Open, Connect, ConnectFails, Reset, Clear, Tag, IInv, OpenInv
<1>4. Valid("index") = coll["index"] /\ coll["index"] # Nothing /\ Valid("index").tag = config
      /\ Made("index") \subseteq {config}
  BY <1>1, <1>3 DEF IInv, TagInv, AppInv, Valid
<1>5. CASE Open("pipeline") \/ ConnectFails("pipeline")
  <2>1. coll' = coll
    BY <1>1, <1>5 DEF Open, ConnectFails
  <2>2. pc'["pipeline"] \notin {"reset", "clear"}
    BY <1>0, <1>2, <1>5 DEF Open, ConnectFails, IInv, TypeOK
  <2>3. QED
    BY <1>1, <1>3, <1>4, <2>1, <2>2, IndexKept DEF TagInv, AppInv
<1>6. CASE Connect("pipeline")
  <2>1. coll'["index"] = coll["index"]
    BY <1>4, <1>6 DEF Connect, IInv, TypeOK
  <2>2. pc'["pipeline"] = "tag"
    BY <1>0, <1>4, <1>6 DEF Connect, NeedsReset, IInv, TypeOK
  <2>3. QED
    BY <1>1, <1>3, <1>4, <2>1, <2>2, IndexKept DEF TagInv, AppInv
<1>7. CASE Tag("pipeline")
  <2>1. coll'["index"] = [coll["index"] EXCEPT !.tag = config]
    BY <1>1, <1>4, <1>7 DEF Tag, IInv, TypeOK
  <2>2. coll'["index"] = coll["index"]
    BY <1>4, <2>1 DEF Collections, IInv, TypeOK
  <2>3. pc'["pipeline"] = "open"
    BY <1>0, <1>7 DEF Tag, IInv, TypeOK
  <2>4. QED
    BY <1>1, <1>3, <1>4, <2>2, <2>3, IndexKept DEF TagInv, AppInv
<1>8. CASE Reset("pipeline") \/ Clear("pipeline")
  BY <1>2, <1>8 DEF Reset, Clear
<1>9. QED
  BY <1>5, <1>6, <1>7, <1>8 DEF OpenStep

LEMMA OpenStepIInv ==
    ASSUME IInv, NEW o \in Openers, OpenStep(o)
    PROVE  TagInv' /\ AppInv' /\ OpenInv'
<1>1. CASE CollectionOf(o) = "cache"
  <2>1. TagInv' /\ AppInv'
    BY <1>1, CacheOpenStep, IndexKept DEF IInv, TagInv, AppInv
  <2>2. QED
    BY <2>1, OpenStepOpenInv
<1>2. CASE CollectionOf(o) # "cache"
  BY <1>2, AppOpenStep, PipelineOpenStep, OpenStepOpenInv DEF CollectionOf, Openers
<1>3. QED
  BY <1>1, <1>2

LEMMA SyncIInv ==
    ASSUME IInv, Sync
    PROVE  TagInv' /\ AppInv' /\ OpenInv'
<1>0. OpenInv'
  BY DEF Sync, SyncStart, SyncFlush, SyncCleanup, SyncSave, SyncUpsert, NoJob, IInv, OpenInv, TypeOK, Openers
<1> SUFFICES ASSUME ~trouble' PROVE TagInv' /\ AppInv'
  BY <1>0 DEF TagInv, AppInv
<1>1. ~trouble /\ config' = config /\ pc' = pc
  BY DEF Sync, SyncStart, SyncFlush, SyncCleanup, SyncSave, SyncUpsert
<1>2. pc["app"] = "open"
  BY DEF Sync, SyncStart, SyncFlush, SyncCleanup, SyncSave, SyncUpsert, IInv, OpenInv, Openers
<1>3. Valid("index").tag = config /\ Made("index") \subseteq {config}
      /\ coll["index"] # Nothing /\ pc["pipeline"] \notin {"reset", "clear"}
  BY <1>1, <1>2 DEF IInv, TagInv, AppInv
<1>4. CASE SyncStart \/ SyncSave \/ SyncFlush
  <2>1. coll'["index"] = coll["index"]
    BY <1>4 DEF SyncStart, SyncSave, SyncFlush, IInv, TypeOK
  <2>2. QED
    BY <1>1, <1>2, <1>3, <2>1, IndexKept DEF TagInv, AppInv
<1>5. CASE SyncCleanup
  <2> DEFINE f == [i \in Items |-> IF i \in job.todo THEN Nothing ELSE Valid("index").entries[i]]
  <2>1. f \in Entries /\ coll' = WithEntries("index", f)
    BY <1>5, IndexEntries DEF SyncCleanup, Entries, IInv
  <2>2. {f[i] : i \in Items} \ {Nothing} \subseteq {config}
    BY <1>3 DEF Made
  <2> HIDE DEF f
  <2>3. QED
    BY <1>1, <1>2, <1>3, <2>1, <2>2, IndexWritten DEF IInv, TagInv, AppInv
<1>6. CASE SyncUpsert
  <2> DEFINE f == [i \in Items |-> IF i \in job.todo THEN config ELSE Valid("index").entries[i]]
  <2>1. f \in Entries /\ coll' = WithEntries("index", f)
    BY <1>6, IndexEntries DEF SyncUpsert, Entries, IInv, TypeOK
  <2>2. {f[i] : i \in Items} \ {Nothing} \subseteq {config}
    BY <1>3 DEF Made
  <2> HIDE DEF f
  <2>3. QED
    BY <1>1, <1>2, <1>3, <2>1, <2>2, IndexWritten DEF IInv, TagInv, AppInv
<1>7. QED
  BY <1>4, <1>5, <1>6 DEF Sync

LEMMA CacheAddIInv ==
    ASSUME IInv, NEW i \in Items, CacheAdd(i)
    PROVE  TagInv' /\ AppInv' /\ OpenInv'
<1>1. coll'["index"] = coll["index"]
  BY CacheWritten DEF CacheAdd, IInv
<1>2. QED
  BY <1>1, IndexKept DEF CacheAdd, IInv, TagInv, AppInv, OpenInv

\* A question is compared with chunks of its own model and chunk sizes.
THEOREM IndexKeepsSettings == Spec => []IndexFollowsSettings
<1>1. Init => IInv
  BY InitIInv
<1>2. IInv /\ [Next]_vars => IInv'
  <2> SUFFICES ASSUME IInv, [Next]_vars PROVE TypeOK' /\ TagInv' /\ AppInv' /\ OpenInv'
    BY DEF IInv
  <2>0. TypeOK
    BY DEF IInv
  <2>1. CASE Start \/ Stop \/ TurnSwitch \/ ServerReset
    BY <2>0, <2>1, ProcessType, ProcessIInv
  <2>2. CASE Sync
    BY <2>0, <2>2, SyncType, SyncIInv
  <2>3. CASE \E o \in Openers : OpenStep(o)
    BY <2>0, <2>3, OpenStepType, OpenStepIInv
  <2>4. CASE \E i \in Items : CacheAdd(i)
    BY <2>0, <2>4, CacheAddType, CacheAddIInv
  <2>5. CASE UNCHANGED vars
    BY <2>5, IndexKept DEF IInv, TypeOK, TagInv, AppInv, OpenInv, vars
  <2>6. QED
    BY <2>1, <2>2, <2>3, <2>4, <2>5 DEF Next
<1>3. IInv => IndexFollowsSettings
  BY DEF IInv, TagInv, AppInv, IndexFollowsSettings
<1>4. QED
  BY <1>1, <1>2, <1>3, PTL DEF Spec
=============================================================================
