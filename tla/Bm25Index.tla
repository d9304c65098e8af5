----------------------------- MODULE Bm25Index -----------------------------
(***************************************************************************)
(* The keyword index of src/vector_db: BM25Builder.build_or_load compares  *)
(* the JSON files of processed/ with a cache of five files and brings the  *)
(* cache up to date, one file after the other, in place.  The application  *)
(* runs it when it starts and when a sync job has cleared its RAG system,  *)
(* and answers questions from the result; each sync job runs it at its     *)
(* end, for the files.  Nothing keeps two builds apart: jobs of two        *)
(* browser sessions, the application and a command line may overlap.       *)
(*                                                                         *)
(* A text is a version: every save of a JSON file gives it new random      *)
(* parent ids, and with them a content and a hash it never had.            *)
(***************************************************************************)
EXTENDS Naturals, Sequences, SequencesExt, FiniteSets

CONSTANTS
    Sids,        \* names of the JSON files
    Builders,    \* threads and processes that run build_or_load
    App,         \* the builder whose result serves the questions
    Blank,       \* versions that are not JSON or have no token
    Absent,      \* a file that does not exist
    Torn,        \* a file of which only a part is written
    Mixed,       \* a file that two builds had open at once, and that does not parse
    Mixes,       \* for each file what it may hold when such a mix does parse
    Nothing,     \* the result [], None
    MaxVersion   \* bound on the saves of JSON files

ASSUME ConstantsAssumption ==
    /\ IsFiniteSet(Sids) /\ App \in Builders
    /\ MaxVersion \in Nat /\ Blank \subseteq 1..MaxVersion

Versions == 0..MaxVersion
Docs == [sid : Sids, version : 1..MaxVersion]
Corpora == Seq(Docs)
Hashes == [Sids -> Versions]
Written(f) == IF f = "manifest" THEN Hashes ELSE Corpora

IndexFiles == {"tf", "arrays", "vocab"}

\* Mutant of CacheFiles: the manifest is written first.
ManifestFirst == <<"manifest", "tf", "arrays", "vocab", "corpus">>

\* The order BM25PlusIndex.save and _build_and_save_index write them in.
CacheFiles == <<"tf", "arrays", "vocab", "corpus", "manifest">>
Steps == DOMAIN CacheFiles

\* The order _load_existing_cache and BM25PlusIndex.load read them in.
LoadFiles == <<"corpus", "manifest", "tf", "arrays", "vocab">>

ASSUME MixesAssumption == \A f \in ToSet(CacheFiles) : Mixes[f] \subseteq Written(f)

VARIABLES
    json,    \* version in the JSON file of each source, 0 if there is none
    last,    \* number of versions so far
    disk,    \* the five files of the cache, by name
    pc,      \* where each build is
    at,      \* the place of the file it loads in LoadFiles, or writes in CacheFiles
    files,   \* the JSON files it found
    cache,   \* what it loaded of the cache
    hashes,  \* current_hashes: the versions it saw
    result,  \* what it returns, or is writing
    served   \* corpus and index of the BM25Manager that answers questions

localVars == <<pc, at, files, cache, hashes, result>>
vars == <<json, last, disk, localVars, served>>

\* No cache, or one that cannot be loaded.
NoCache == [f \in ToSet(CacheFiles) |-> IF f = "manifest" THEN [s \in Sids |-> 0] ELSE <<>>]

Places == {"idle", "listed", "loaded", "hashed", "next", "open", "done"}
Unreadable == {Absent, Torn, Mixed}

TypeOK ==
    /\ json \in Hashes /\ last \in Versions
    /\ \A f \in ToSet(CacheFiles) :
          disk[f] \in Unreadable \/ disk[f] \in Written(f)
    /\ pc \in [Builders -> Places]
    /\ at \in [Builders -> Steps]
    /\ files \in [Builders -> SUBSET Sids]
    /\ \A b \in Builders, f \in ToSet(CacheFiles) : cache[b][f] \in Written(f)
    /\ hashes \in [Builders -> Hashes]

Init ==
    /\ json = [s \in Sids |-> 0] /\ last = 0
    /\ disk = [f \in ToSet(CacheFiles) |-> Absent]
    /\ pc = [b \in Builders |-> "idle"] /\ at = [b \in Builders |-> 1]
    /\ files = [b \in Builders |-> {}] /\ cache = [b \in Builders |-> NoCache]
    /\ hashes = [b \in Builders |-> [s \in Sids |-> 0]]
    /\ result = [b \in Builders |-> Nothing]
    /\ served = Nothing

Resting(b) == pc[b] \in {"idle", "done"}

-----------------------------------------------------------------------------
(* What sync jobs do to the JSON files, at any moment.                     *)

SaveJson(s) ==
    /\ last < MaxVersion
    /\ last' = last + 1
    /\ json' = [json EXCEPT ![s] = last + 1]
    /\ UNCHANGED <<disk, localVars, served>>

DeleteJson(s) ==
    /\ json[s] # 0
    /\ json' = [json EXCEPT ![s] = 0]
    /\ UNCHANGED <<last, disk, localVars, served>>

-----------------------------------------------------------------------------
(* build_or_load.                                                          *)

\* The end of a build, with its locals; the application serves its own result.
Returns(b, r) ==
    /\ pc' = [pc EXCEPT ![b] = "done"]
    /\ at' = [at EXCEPT ![b] = 1]
    /\ files' = [files EXCEPT ![b] = {}]
    /\ cache' = [cache EXCEPT ![b] = NoCache]
    /\ result' = [result EXCEPT ![b] = r]
    /\ served' = IF b = App THEN r ELSE served

\* _get_all_json_files, at any moment of the other builds: no lock is taken.
Begin(b) ==
    /\ Resting(b)
    /\ LET found == {s \in Sids : json[s] # 0} IN
       IF found = {}
       THEN Returns(b, Nothing)
       ELSE /\ pc' = [pc EXCEPT ![b] = "listed"]
            /\ files' = [files EXCEPT ![b] = found]
            /\ result' = [result EXCEPT ![b] = Nothing]
            /\ UNCHANGED <<at, cache, served>>
    /\ hashes' = [hashes EXCEPT ![b] = [s \in Sids |-> 0]]
    /\ UNCHANGED <<json, last, disk>>

\* _load_existing_cache: all five files or nothing, and first of all the corpus
\* and the manifest have to exist.
LoadFile(b) ==
    /\ pc[b] = "listed"
    /\ LET f == LoadFiles[at[b]]
           missing == \/ disk[f] \in Unreadable
                      \/ at[b] = 1 /\ disk["manifest"] = Absent
           atEnd == at[b] = Len(LoadFiles) IN
       /\ cache' = [cache EXCEPT ![b] = IF missing THEN NoCache ELSE [@ EXCEPT ![f] = disk[f]]]
       /\ pc' = [pc EXCEPT ![b] = IF missing \/ atEnd THEN "loaded" ELSE @]
       /\ at' = [at EXCEPT ![b] = IF missing \/ atEnd THEN 1 ELSE @ + 1]
    /\ UNCHANGED <<json, last, disk, files, hashes, result, served>>

\* The first part of _detect_changes; a file that is gone ends the build.
HashFiles(b) ==
    /\ pc[b] = "loaded"
    /\ hashes' = [hashes EXCEPT ![b] = [s \in Sids |-> IF s \in files[b] THEN json[s] ELSE 0]]
    /\ IF \E s \in files[b] : json[s] = 0
       THEN Returns(b, Nothing)
       ELSE /\ pc' = [pc EXCEPT ![b] = "hashed"]
            /\ UNCHANGED <<at, files, cache, result, served>>
    /\ UNCHANGED <<json, last, disk>>

SidsOf(corpus) == {d.sid : d \in ToSet(corpus)}

\* modified_sids and deleted_sids.
Modified(b) ==
    IF cache[b]["corpus"] = <<>> THEN files[b]
    ELSE {s \in files[b] : \/ hashes[b][s] # cache[b]["manifest"][s]
                           \/ s \notin SidsOf(cache[b]["corpus"])}
Deleted(b) == SidsOf(cache[b]["corpus"]) \ files[b]

UseCache(b) ==
    /\ pc[b] = "hashed"
    /\ Modified(b) = {} /\ Deleted(b) = {} /\ cache[b]["corpus"] # <<>>
    /\ Returns(b, [corpus |-> cache[b]["corpus"], index |-> [f \in IndexFiles |-> cache[b][f]]])
    /\ UNCHANGED <<json, last, disk, hashes>>

InOrder(places) ==
    CHOOSE f \in [1..Cardinality(places) -> places] :
       \A m, n \in DOMAIN f : m < n => f[m] < f[n]

\* The elements of a list at some of its places, in their order.
Selected(list, places) == [n \in 1..Cardinality(places) |-> list[InOrder(places)[n]]]

Without(corpus, gone) ==
    Selected(corpus, {i \in DOMAIN corpus : corpus[i].sid \notin gone})

\* Mutant of Kept: only the texts of deleted files are removed.
KeptModified(b) == Without(cache[b]["corpus"], Deleted(b))

\* _update_corpus: what is kept, and behind it what is read now.
Kept(b) == Without(cache[b]["corpus"], Modified(b) \cup Deleted(b))

\* A text without a token drops out when the index is built.
WithTokens(order) ==
    LET texts == [i \in DOMAIN order |-> [sid |-> order[i], version |-> json[order[i]]]] IN
    Selected(texts, {i \in DOMAIN texts : texts[i].version \notin Blank})

\* The rest of build_or_load up to the first write; an index is of a corpus.
UpdateCorpus(b) ==
    /\ pc[b] = "hashed"
    /\ Modified(b) # {} \/ Deleted(b) # {} \/ cache[b]["corpus"] = <<>>
    /\ IF \E s \in Modified(b) : json[s] = 0
       THEN Returns(b, Nothing)
       ELSE \E order \in SetToSeqs(Modified(b)) :
               LET corpus == Kept(b) \o WithTokens(order) IN
               IF corpus = <<>>
               THEN Returns(b, Nothing)
               ELSE /\ result' = [result EXCEPT ![b] =
                         [corpus |-> corpus, index |-> [f \in IndexFiles |-> corpus]]]
                    /\ pc' = [pc EXCEPT ![b] = "next"]
                    /\ files' = [files EXCEPT ![b] = {}]
                    /\ cache' = [cache EXCEPT ![b] = NoCache]
                    /\ UNCHANGED <<at, served>>
    /\ UNCHANGED <<json, last, disk, hashes>>

HasOpen(b, f) == pc[b] = "open" /\ CacheFiles[at[b]] = f

\* open(..., "w") empties the file, for another build that has it open as well.
OpenFile(b) ==
    /\ pc[b] = "next"
    /\ LET f == CacheFiles[at[b]] IN
          disk' = [disk EXCEPT ![f] =
                      IF \E c \in Builders : HasOpen(c, f) THEN Mixed ELSE Torn]
    /\ pc' = [pc EXCEPT ![b] = "open"]
    /\ UNCHANGED <<json, last, at, files, cache, hashes, result, served>>

\* What a file may hold once a build has written what to it: where another
\* build had it open meanwhile, the bytes of both may be mixed.
Left(f, what) ==
    IF disk[f] = Torn THEN {what}
    ELSE {what, Mixed} \cup Mixes[f]

\* A file is closed, and the next one follows.
Closes(b, f, what) ==
    /\ \E left \in Left(f, what) : disk' = [disk EXCEPT ![f] = left]
    /\ IF at[b] = Len(CacheFiles)
       THEN Returns(b, result[b])
       ELSE /\ pc' = [pc EXCEPT ![b] = "next"]
            /\ at' = [at EXCEPT ![b] = @ + 1]
            /\ UNCHANGED <<files, cache, result, served>>
    /\ UNCHANGED <<json, last, hashes>>

\* The manifest gets the hashes that were seen before the texts were read.
WriteFile(b) ==
    /\ pc[b] = "open"
    /\ LET f == CacheFiles[at[b]] IN
          Closes(b, f, IF f = "manifest" THEN hashes[b] ELSE result[b].corpus)

\* The process dies, or a write raises and the build returns [], None.
Break(b) ==
    /\ ~Resting(b)
    /\ Returns(b, Nothing)
    /\ UNCHANGED <<json, last, disk, hashes>>

-----------------------------------------------------------------------------
Build(b) ==
    \/ Begin(b) \/ LoadFile(b) \/ HashFiles(b) \/ UseCache(b) \/ UpdateCorpus(b)
    \/ OpenFile(b) \/ WriteFile(b)

Next ==
    \/ \E s \in Sids : SaveJson(s) \/ DeleteJson(s)
    \/ \E b \in Builders : Build(b) \/ Break(b)

Spec == Init /\ [][Next]_vars

-----------------------------------------------------------------------------
(* Properties.                                                             *)

\* A build that ends while the JSON files are still those it hashed returns
\* their texts and no other, each once: whichever of the five files earlier
\* builds wrote before they broke, and whatever was saved or deleted since, a
\* corpus that is taken for current is (build_or_load, lines 157 to 173).  It
\* takes that no two builds overlap: OldUnderNew.cfg shows what they do else.
CurrentCorpusIsExact ==
    \A b \in Builders :
       pc[b] = "done" /\ result[b] # Nothing /\ hashes[b] = json =>
          /\ ToSet(result[b].corpus) =
                {d \in Docs : d.version = json[d.sid] /\ d.version \notin Blank}
          /\ IsInjective(result[b].corpus)

\* No question is answered from two versions of one file, however the files
\* changed while a build read them and whichever builds overlapped, unless two
\* builds write the corpus at once and the mix parses (MixedWrites.cfg):
\* _update_corpus, lines 104 to 118.
ServedOneVersion ==
    served # Nothing =>
       \A d, e \in ToSet(served.corpus) : d.sid = e.sid => d = e

\* An index that is loaded again answers as the one that was saved: it is of
\* the corpus it is returned with (test_cache_roundtrip).
IndexMatchesCorpus ==
    \A b \in Builders :
       pc[b] = "done" /\ result[b] # Nothing =>
          \A f \in IndexFiles : result[b].index[f] = result[b].corpus
=============================================================================
