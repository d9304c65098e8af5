--------------------------- MODULE Bm25IndexProofs ---------------------------
(***************************************************************************)
(* Theorems about Bm25Index for every finite set of JSON files and every   *)
(* bound.  Types, and that one answer has one version of a file, hold for  *)
(* any set of builders that may overlap as they like.  That a corpus taken *)
(* for current has the texts of the JSON files, whatever earlier builds    *)
(* left half written, takes that builds do not overlap.                    *)
(***************************************************************************)
EXTENDS Bm25Index, FiniteSetTheorems, TLAPS

\* Where two builds had a file open at once, it does not parse.
MixesAreNoticed == \A f \in ToSet(CacheFiles) : Mixes[f] = {}

\* No two builds overlap.
TakeTurns == \A b, c \in Builders : ~Resting(b) /\ ~Resting(c) => b = c

-----------------------------------------------------------------------------
(* The operators on lists.                                                 *)

Names == {"tf", "arrays", "vocab", "corpus", "manifest"}

LEMMA Files ==
    /\ Steps = 1..5 /\ Len(CacheFiles) = 5 /\ ToSet(CacheFiles) = Names
    /\ Len(LoadFiles) = 5 /\ LoadFiles[1] = "corpus" /\ LoadFiles[2] = "manifest"
    /\ \A i \in 1..5 : CacheFiles[i] \in Names /\ LoadFiles[i] \in Names
    /\ \A i \in 3..5 : LoadFiles[i] \notin {"corpus", "manifest"}
    /\ \A i \in 1..3 : CacheFiles[i] \notin {"corpus", "manifest"}
    /\ CacheFiles[4] = "corpus" /\ CacheFiles[5] = "manifest"
    /\ IndexFiles \subseteq Names /\ "manifest" \notin IndexFiles
<1>1. /\ DOMAIN CacheFiles = 1..5 /\ Len(CacheFiles) = 5
      /\ CacheFiles[1] = "tf" /\ CacheFiles[2] = "arrays" /\ CacheFiles[3] = "vocab"
      /\ CacheFiles[4] = "corpus" /\ CacheFiles[5] = "manifest"
  BY DEF CacheFiles
<1>2. /\ Len(LoadFiles) = 5
      /\ LoadFiles[1] = "corpus" /\ LoadFiles[2] = "manifest"
      /\ LoadFiles[3] = "tf" /\ LoadFiles[4] = "arrays" /\ LoadFiles[5] = "vocab"
  BY DEF LoadFiles
<1>3. /\ \A i : i \in 1..5 <=> i \in {1, 2, 3, 4, 5}
      /\ \A i : i \in 1..3 <=> i \in {1, 2, 3}
      /\ \A i : i \in 3..5 <=> i \in {3, 4, 5}
  OBVIOUS
<1>4. ToSet(CacheFiles) = Names
  BY <1>1, <1>3 DEF ToSet, Names
<1>5. /\ \A i \in 1..5 : CacheFiles[i] \in Names /\ LoadFiles[i] \in Names
      /\ \A i \in 3..5 : LoadFiles[i] \notin {"corpus", "manifest"}
      /\ \A i \in 1..3 : CacheFiles[i] \notin {"corpus", "manifest"}
  BY <1>1, <1>2, <1>3 DEF Names
<1>6. IndexFiles \subseteq Names /\ "manifest" \notin IndexFiles
  BY DEF IndexFiles, Names
<1> QED BY <1>1, <1>2, <1>4, <1>5, <1>6 DEF Steps

\* Of each file at most one text, and none that is blank.
Sound(corpus) ==
    /\ \A i, j \in DOMAIN corpus : corpus[i].sid = corpus[j].sid => i = j
    /\ \A i \in DOMAIN corpus : corpus[i].version \notin Blank

\* A finite set of places can be listed in increasing order, each place once.
LEMMA Listing ==
    ASSUME NEW n \in Nat, NEW places \in SUBSET (1..n)
    PROVE  /\ Cardinality(places) \in Nat
           /\ InOrder(places) \in [1..Cardinality(places) -> places]
           /\ \A k, m \in 1..Cardinality(places) :
                 InOrder(places)[k] = InOrder(places)[m] => k = m
           /\ \A p \in places : \E k \in 1..Cardinality(places) : InOrder(places)[k] = p
<1> DEFINE size == Cardinality(places)
           upto(p) == {q \in places : q <= p}
           rank == [p \in places |-> Cardinality(upto(p))]
           Increasing(f) == \A k, m \in DOMAIN f : k < m => f[k] < f[m]
<1>0. \A p \in places : p \in Nat
  OBVIOUS
<1>1. IsFiniteSet(places) /\ size \in Nat
  <2>1. IsFiniteSet(1..n)
    BY FS_Interval
  <2>2. IsFiniteSet(places)
    BY <2>1, FS_Subset
  <2> QED BY <2>2, FS_CardinalityType
<1>2. /\ IsFiniteSet(1..size) /\ Cardinality(1..size) = size
  BY <1>1, FS_Interval
<1>3. ASSUME NEW p \in places PROVE IsFiniteSet(upto(p)) /\ rank[p] \in 1..size
  <2>1. /\ IsFiniteSet(upto(p)) /\ Cardinality(upto(p)) <= size
        /\ Cardinality(upto(p)) \in Nat
    <3>1. upto(p) \in SUBSET places
      OBVIOUS
    <3>2. IsFiniteSet(upto(p)) /\ Cardinality(upto(p)) <= size
      BY <1>1, <3>1, FS_Subset
    <3> QED BY <3>2, FS_CardinalityType
  <2>2. p \in upto(p)
    OBVIOUS
  <2>3. Cardinality(upto(p)) # 0
    BY <2>1, <2>2, FS_EmptySet
  <2> QED BY <1>1, <2>1, <2>3
<1>4. ASSUME NEW p \in places, NEW q \in places, p < q PROVE rank[p] < rank[q]
  <2>1. upto(p) \in SUBSET upto(q) /\ q \in upto(q) /\ q \notin upto(p)
    <3>1. p \in Nat /\ q \in Nat /\ \A k \in places : k \in Nat
      OBVIOUS
    <3>2. \A k \in Nat : k <= p => k <= q
      BY <1>4, <3>1
    <3>3. q <= q /\ ~(q <= p)
      BY <1>4, <3>1
    <3> QED BY <3>1, <3>2, <3>3
  <2>2. upto(p) # upto(q)
    BY <2>1
  <2>3. /\ Cardinality(upto(p)) <= Cardinality(upto(q))
        /\ Cardinality(upto(p)) # Cardinality(upto(q))
    BY <1>3, <2>1, <2>2, FS_Subset
  <2>4. Cardinality(upto(p)) \in Nat /\ Cardinality(upto(q)) \in Nat
    BY <1>3, FS_CardinalityType
  <2> QED BY <2>3, <2>4
<1> HIDE DEF rank, size
<1>5. rank \in Injection(places, 1..size)
  <2>1. rank \in [places -> 1..size]
    BY <1>3 DEF rank
  <2>2. \A p, q \in places : rank[p] = rank[q] => p = q
    <3> SUFFICES ASSUME NEW p \in places, NEW q \in places, rank[p] = rank[q], p # q PROVE FALSE
      OBVIOUS
    <3>1. p < q \/ q < p
      OBVIOUS
    <3>2. rank[p] \in Nat /\ rank[q] \in Nat
      BY <1>1, <2>1
    <3> QED BY <1>4, <3>1, <3>2
  <2> QED BY <2>1, <2>2 DEF Injection, IsInjective
<1>6. rank \in Surjection(places, 1..size)
  BY <1>1, <1>2, <1>5, FS_Injection DEF size
<1>7. PICK g \in [1..size -> places] : \A k \in 1..size : rank[g[k]] = k
  <2>1. \A k \in 1..size : \E p \in places : rank[p] = k
    BY <1>6 DEF Surjection
  <2>2. [k \in 1..size |-> CHOOSE p \in places : rank[p] = k] \in [1..size -> places]
    BY <2>1
  <2>3. \A k \in 1..size : rank[CHOOSE p \in places : rank[p] = k] = k
    BY <2>1
  <2> QED BY <2>2, <2>3
<1>8. Increasing(g)
  <2> SUFFICES ASSUME NEW k \in 1..size, NEW m \in 1..size, k < m PROVE g[k] < g[m]
    BY <1>7
  <2>1. g[k] \in places /\ g[m] \in places /\ rank[g[k]] = k /\ rank[g[m]] = m
    BY <1>7
  <2>2. k \in Nat /\ m \in Nat /\ ~(m < k) /\ k # m
    BY <1>1
  <2>3. g[k] # g[m]
    BY <2>1, <2>2
  <2>4. ~(g[m] < g[k])
    BY <1>4, <2>1, <2>2
  <2>5. g[k] \in Nat /\ g[m] \in Nat
    BY <1>0, <2>1
  <2> QED BY <2>3, <2>4, <2>5
<1> DEFINE inOrder == InOrder(places)
<1>9. inOrder \in [1..size -> places] /\ Increasing(inOrder)
  <2>1. inOrder = CHOOSE f \in [1..size -> places] : Increasing(f)
    BY DEF InOrder, size
  <2> QED BY <1>7, <1>8, <2>1
<1> HIDE DEF inOrder
<1>10. ASSUME NEW k \in 1..size, NEW m \in 1..size, inOrder[k] = inOrder[m], k # m
       PROVE  FALSE
  <2>1. k < m \/ m < k
    BY <1>1, <1>10
  <2>2. inOrder[k] \in places /\ inOrder[m] \in places
    BY <1>9
  <2>3. inOrder[k] \in Nat /\ inOrder[m] \in Nat
    BY <1>0, <2>2
  <2>4. \A i, j \in 1..size : i < j => inOrder[i] < inOrder[j]
    <3>1. DOMAIN inOrder = 1..size
      BY <1>9
    <3> QED BY <1>9, <3>1
  <2>5. inOrder[k] < inOrder[m] \/ inOrder[m] < inOrder[k]
    BY <2>1, <2>4
  <2> QED BY <1>10, <2>3, <2>5
<1>11. inOrder \in Injection(1..size, places)
  BY <1>9, <1>10 DEF Injection, IsInjective
<1>12. inOrder \in Surjection(1..size, places)
  BY <1>1, <1>2, <1>11, FS_Injection DEF size
<1>13. \A p \in places : \E k \in 1..size : inOrder[k] = p
  BY <1>12 DEF Surjection
<1> QED BY <1>1, <1>9, <1>10, <1>13 DEF size, inOrder

\* The elements of a list at some of its places, each once.
Picks(chosen, list, places) ==
    \E size \in Nat : \E f \in [1..size -> places] :
       /\ DOMAIN chosen = 1..size
       /\ \A k \in 1..size : chosen[k] = list[f[k]]
       /\ \A k, m \in 1..size : f[k] = f[m] => k = m
       /\ \A p \in places : \E k \in 1..size : f[k] = p

LEMMA SelectedFacts ==
    ASSUME NEW list, NEW n \in Nat, NEW places, places \subseteq 1..n, NEW V,
           \A p \in places : list[p] \in V
    PROVE  Selected(list, places) \in Seq(V) /\ Picks(Selected(list, places), list, places)
<1> DEFINE inOrder == InOrder(places)
           size == Cardinality(places)
<1>1. /\ size \in Nat
      /\ inOrder \in [1..size -> places]
      /\ \A k, m \in 1..size : inOrder[k] = inOrder[m] => k = m
      /\ \A p \in places : \E k \in 1..size : inOrder[k] = p
  BY Listing
<1>2. Selected(list, places) = [k \in 1..size |-> list[inOrder[k]]]
  BY DEF Selected
<1> HIDE DEF inOrder, size
<1>3. \A k \in 1..size : list[inOrder[k]] \in V
  BY <1>1
<1>4. /\ Selected(list, places) \in Seq(V)
      /\ DOMAIN Selected(list, places) = 1..size
      /\ \A k \in 1..size : Selected(list, places)[k] = list[inOrder[k]]
  BY <1>1, <1>2, <1>3
<1> QED BY <1>1, <1>4 DEF Picks

LEMMA DocsTypes ==
    ASSUME NEW corpus \in Corpora
    PROVE  /\ Len(corpus) \in Nat /\ DOMAIN corpus = 1..Len(corpus)
           /\ \A i \in DOMAIN corpus : /\ corpus[i] \in Docs /\ corpus[i].sid \in Sids
                                       /\ corpus[i].version \in 1..MaxVersion
<1>1. /\ Len(corpus) \in Nat /\ DOMAIN corpus = 1..Len(corpus)
      /\ \A i \in DOMAIN corpus : corpus[i] \in Docs
  BY DEF Corpora
<1>2. \A d \in Docs : d.sid \in Sids /\ d.version \in 1..MaxVersion
  BY DEF Docs
<1> QED BY <1>1, <1>2

\* What is left of a corpus when the texts of some files are taken out.
LEMMA WithoutFacts ==
    ASSUME NEW corpus \in Corpora, NEW gone
    PROVE  LET left == Without(corpus, gone) IN
           /\ left \in Corpora /\ (Sound(corpus) => Sound(left))
           /\ \A k \in DOMAIN left :
                 left[k].sid \notin gone /\ \E i \in DOMAIN corpus : left[k] = corpus[i]
           /\ \A i \in DOMAIN corpus :
                 corpus[i].sid \notin gone => \E k \in DOMAIN left : left[k] = corpus[i]
<1> DEFINE places == {i \in DOMAIN corpus : corpus[i].sid \notin gone}
           left == Without(corpus, gone)
<1>1. /\ Len(corpus) \in Nat /\ places \in SUBSET (1..Len(corpus))
      /\ \A i \in 1..Len(corpus) : corpus[i] \in Docs
  BY DocsTypes
<1>2. left = Selected(corpus, places)
  BY DEF Without
<1> HIDE DEF left
<1>3. left \in Seq(Docs) /\ Picks(left, corpus, places)
  <2>1. \A p \in places : corpus[p] \in Docs
    BY <1>1
  <2> HIDE DEF places
  <2> QED BY <1>1, <1>2, <2>1, SelectedFacts
<1>4. PICK size \in Nat : \E f \in [1..size -> places] :
         /\ DOMAIN left = 1..size
         /\ \A k \in 1..size : left[k] = corpus[f[k]]
         /\ \A k, m \in 1..size : f[k] = f[m] => k = m
         /\ \A p \in places : \E k \in 1..size : f[k] = p
  BY <1>3 DEF Picks
<1>5. PICK f \in [1..size -> places] :
         /\ DOMAIN left = 1..size
         /\ \A k \in 1..size : left[k] = corpus[f[k]]
         /\ \A k, m \in 1..size : f[k] = f[m] => k = m
         /\ \A p \in places : \E k \in 1..size : f[k] = p
  BY <1>4
<1>6. /\ DOMAIN left = 1..size
      /\ \A k \in 1..size : f[k] \in places /\ f[k] \in DOMAIN corpus /\ left[k] = corpus[f[k]]
  BY <1>5
<1>7. Sound(corpus) => \A k, m \in DOMAIN left : left[k].sid = left[m].sid => k = m
  BY <1>5, <1>6 DEF Sound
<1>8. Sound(corpus) => \A k \in DOMAIN left : left[k].version \notin Blank
  BY <1>6 DEF Sound
<1>9. \A k \in DOMAIN left :
         left[k].sid \notin gone /\ \E i \in DOMAIN corpus : left[k] = corpus[i]
  BY <1>6
<1>10. \A i \in DOMAIN corpus :
          corpus[i].sid \notin gone => \E k \in DOMAIN left : left[k] = corpus[i]
  BY <1>5, <1>6
<1> QED BY <1>3, <1>7, <1>8, <1>9, <1>10 DEF Sound, Corpora, left

\* Every element of a finite set is in each of its listings, once.
LEMMA OrderFacts ==
    ASSUME NEW found \in SUBSET Sids, NEW order \in SetToSeqs(found)
    PROVE  \E n \in Nat :
              /\ order \in [1..n -> found]
              /\ \A i, j \in 1..n : order[i] = order[j] => i = j
              /\ \A s \in found : \E i \in 1..n : order[i] = s
<1> DEFINE n == Cardinality(found)
<1>1. IsFiniteSet(found) /\ n \in Nat
  BY ConstantsAssumption, FS_Subset, FS_CardinalityType
<1>2. IsFiniteSet(1..n) /\ Cardinality(1..n) = n
  BY <1>1, FS_Interval
<1>3. /\ order \in [1..n -> found]
      /\ \A i, j \in 1..n : order[i] = order[j] => i = j
  BY DEF SetToSeqs
<1>4. order \in Injection(1..n, found)
  BY <1>3 DEF Injection, IsInjective
<1>5. order \in Surjection(1..n, found)
  BY <1>1, <1>2, <1>4, FS_Injection
<1> QED BY <1>1, <1>3, <1>5 DEF Surjection

\* The texts that are read, in the order they are read in.
LEMMA WithTokensFacts ==
    ASSUME NEW found \in SUBSET Sids, NEW order \in SetToSeqs(found),
           \A s \in found : json[s] \in 1..MaxVersion
    PROVE  LET read == WithTokens(order) IN
           /\ read \in Corpora /\ Sound(read)
           /\ \A k \in DOMAIN read :
                 read[k].sid \in found /\ read[k].version = json[read[k].sid]
           /\ \A s \in found : json[s] \notin Blank => \E k \in DOMAIN read : read[k].sid = s
<1> DEFINE read == WithTokens(order)
<1>1. PICK n \in Nat :
         /\ order \in [1..n -> found]
         /\ \A i, j \in 1..n : order[i] = order[j] => i = j
         /\ \A s \in found : \E i \in 1..n : order[i] = s
  BY OrderFacts
<1> DEFINE texts == [i \in DOMAIN order |-> [sid |-> order[i], version |-> json[order[i]]]]
           places == {i \in DOMAIN texts : texts[i].version \notin Blank}
<1>2. /\ DOMAIN texts = 1..n
      /\ \A i \in 1..n : /\ texts[i] \in Docs /\ order[i] \in found
                         /\ texts[i].sid = order[i] /\ texts[i].version = json[order[i]]
  BY <1>1 DEF Docs
<1>3. read = Selected(texts, places) /\ places \in SUBSET (1..n)
  BY <1>2 DEF WithTokens
<1> HIDE DEF read, texts
<1>4. read \in Seq(Docs) /\ Picks(read, texts, places)
  <2>1. \A p \in places : texts[p] \in Docs
    BY <1>3, <1>2
  <2> HIDE DEF places
  <2> QED BY <1>1, <1>3, <2>1, SelectedFacts
<1>5. PICK size \in Nat : \E g \in [1..size -> places] :
         /\ DOMAIN read = 1..size
         /\ \A k \in 1..size : read[k] = texts[g[k]]
         /\ \A k, m \in 1..size : g[k] = g[m] => k = m
         /\ \A p \in places : \E k \in 1..size : g[k] = p
  BY <1>4 DEF Picks
<1>6. PICK f \in [1..size -> places] :
         /\ DOMAIN read = 1..size
         /\ \A k \in 1..size : read[k] = texts[f[k]]
         /\ \A k, m \in 1..size : f[k] = f[m] => k = m
         /\ \A p \in places : \E k \in 1..size : f[k] = p
  BY <1>5
<1>7. /\ DOMAIN read = 1..size
      /\ \A k \in 1..size : f[k] \in places /\ f[k] \in 1..n /\ read[k] = texts[f[k]]
  BY <1>2, <1>6
<1>8. read \in Seq(Docs)
  BY <1>4
<1>9. \A k, m \in DOMAIN read : read[k].sid = read[m].sid => k = m
  BY <1>1, <1>2, <1>6, <1>7
<1>10. \A k \in DOMAIN read : read[k].version \notin Blank
  BY <1>7
<1>11. \A k \in DOMAIN read : read[k].sid \in found /\ read[k].version = json[read[k].sid]
  BY <1>2, <1>7
<1>12. ASSUME NEW s \in found, json[s] \notin Blank
       PROVE  \E k \in DOMAIN read : read[k].sid = s
  <2>1. PICK i \in 1..n : order[i] = s
    BY <1>1
  <2>2. i \in places
    BY <1>2, <1>12, <2>1
  <2>3. PICK k \in 1..size : f[k] = i
    BY <1>6, <2>2
  <2> QED BY <1>2, <1>7, <2>1, <2>3
<1> QED BY <1>8, <1>9, <1>10, <1>11, <1>12 DEF Sound, Corpora, read

\* Two corpora one behind the other.
LEMMA JoinFacts ==
    ASSUME NEW c \in Corpora, NEW d \in Corpora
    PROVE  /\ c \o d \in Corpora
           /\ Sound(c) /\ Sound(d) /\ (\A i \in DOMAIN c, k \in DOMAIN d : c[i].sid # d[k].sid)
                 => Sound(c \o d)
           /\ \A i \in DOMAIN (c \o d) :
                 \/ \E k \in DOMAIN c : (c \o d)[i] = c[k]
                 \/ \E k \in DOMAIN d : (c \o d)[i] = d[k]
           /\ \A k \in DOMAIN c : \E i \in DOMAIN (c \o d) : (c \o d)[i] = c[k]
           /\ \A k \in DOMAIN d : \E i \in DOMAIN (c \o d) : (c \o d)[i] = d[k]
<1>1. /\ Len(c) \in Nat /\ DOMAIN c = 1..Len(c)
      /\ Len(d) \in Nat /\ DOMAIN d = 1..Len(d)
  BY DocsTypes
<1>2. /\ c \o d \in Seq(Docs) /\ Len(c \o d) = Len(c) + Len(d)
      /\ DOMAIN (c \o d) = 1..(Len(c) + Len(d))
      /\ \A i \in 1..(Len(c) + Len(d)) :
            (c \o d)[i] = IF i <= Len(c) THEN c[i] ELSE d[i - Len(c)]
  BY <1>1 DEF Corpora
<1> DEFINE all == c \o d
<1> HIDE DEF all
<1>3. /\ DOMAIN all = 1..(Len(c) + Len(d))
      /\ \A i \in DOMAIN c : i \in DOMAIN all /\ all[i] = c[i]
      /\ \A k \in DOMAIN d : Len(c) + k \in DOMAIN all /\ all[Len(c) + k] = d[k]
      /\ \A i \in DOMAIN all :
            \/ i \in DOMAIN c /\ all[i] = c[i]
            \/ i - Len(c) \in DOMAIN d /\ all[i] = d[i - Len(c)] /\ i \in Nat
  BY <1>1, <1>2 DEF all
<1>4. ASSUME Sound(c), Sound(d), \A i \in DOMAIN c, k \in DOMAIN d : c[i].sid # d[k].sid
      PROVE  Sound(all)
  <2>1. \A i, j \in DOMAIN all : all[i].sid = all[j].sid => i = j
    BY <1>1, <1>3, <1>4 DEF Sound
  <2>2. \A i \in DOMAIN all : all[i].version \notin Blank
    BY <1>3, <1>4 DEF Sound
  <2> QED BY <2>1, <2>2 DEF Sound
<1>5. /\ \A i \in DOMAIN all :
            (\E k \in DOMAIN c : all[i] = c[k]) \/ (\E k \in DOMAIN d : all[i] = d[k])
      /\ \A k \in DOMAIN c : \E i \in DOMAIN all : all[i] = c[k]
      /\ \A k \in DOMAIN d : \E i \in DOMAIN all : all[i] = d[k]
  BY <1>3
<1> QED BY <1>2, <1>4, <1>5 DEF Corpora, all

-----------------------------------------------------------------------------
(* Types.                                                                  *)

USE DEF Places

Contents(f) == Unreadable \cup Written(f)
Caches == {c \in [Names -> Hashes \cup Corpora] : \A f \in Names : c[f] \in Written(f)}
Results == [corpus : Corpora, index : [IndexFiles -> Corpora]]

TypeInv ==
    /\ json \in Hashes /\ last \in Versions
    /\ disk \in [Names -> Unreadable \cup Hashes \cup Corpora]
    /\ \A f \in Names : disk[f] \in Contents(f)
    /\ pc \in [Builders -> Places]
    /\ at \in [Builders -> 1..5]
    /\ files \in [Builders -> SUBSET Sids]
    /\ cache \in [Builders -> Caches]
    /\ hashes \in [Builders -> Hashes]
    /\ result \in [Builders -> Results \cup {Nothing}]
    /\ \A b \in Builders : pc[b] \in {"next", "open"} => result[b] \in Results

LEMMA WrittenTypes ==
    /\ Written("manifest") = Hashes
    /\ \A f \in Names : /\ f # "manifest" => Written(f) = Corpora
                        /\ Written(f) \subseteq Hashes \cup Corpora
                        /\ Mixes[f] \subseteq Written(f)
    /\ "manifest" \in Names /\ "corpus" \in Names /\ "corpus" # "manifest"
BY Files, MixesAssumption DEF Written, Names

LEMMA NothingTypes ==
    /\ NoCache \in Caches /\ NoCache["corpus"] = <<>> /\ <<>> \in Corpora
    /\ [s \in Sids |-> 0] \in Hashes
<1>1. [s \in Sids |-> 0] \in Hashes /\ <<>> \in Corpora
  BY ConstantsAssumption DEF Hashes, Versions, Corpora
<1>2. NoCache = [f \in Names |-> IF f = "manifest" THEN [s \in Sids |-> 0] ELSE <<>>]
  BY Files DEF NoCache
<1>3. NoCache \in [Names -> Hashes \cup Corpora]
  BY <1>1, <1>2
<1>4. \A f \in Names : NoCache[f] \in Written(f)
  BY <1>1, <1>2, WrittenTypes
<1>5. NoCache["corpus"] = <<>>
  BY <1>2, WrittenTypes
<1> QED BY <1>1, <1>3, <1>4, <1>5 DEF Caches

LEMMA TypesAtStart == Init => TypeInv
<1> SUFFICES ASSUME Init PROVE TypeInv
  OBVIOUS
<1>1. json \in Hashes /\ last \in Versions
  BY ConstantsAssumption DEF Init, Hashes, Versions
<1>2. disk = [f \in Names |-> Absent]
  BY Files DEF Init
<1>3. disk \in [Names -> Unreadable \cup Hashes \cup Corpora]
  BY <1>2 DEF Unreadable
<1>4. \A f \in Names : disk[f] \in Contents(f)
  BY <1>2 DEF Unreadable, Contents
<1>5. cache \in [Builders -> Caches] /\ hashes \in [Builders -> Hashes]
  BY NothingTypes DEF Init
<1>6. /\ pc \in [Builders -> Places] /\ at \in [Builders -> 1..5]
      /\ files \in [Builders -> SUBSET Sids]
      /\ result \in [Builders -> Results \cup {Nothing}]
      /\ \A b \in Builders : pc[b] = "idle"
  BY DEF Init
<1> QED BY <1>1, <1>3, <1>4, <1>5, <1>6 DEF TypeInv

\* What one builder has after a step, the others having what they had.
Goes(b, p, n, found, c, h, r) ==
    /\ pc' = [pc EXCEPT ![b] = p] /\ at' = [at EXCEPT ![b] = n]
    /\ files' = [files EXCEPT ![b] = found] /\ cache' = [cache EXCEPT ![b] = c]
    /\ hashes' = [hashes EXCEPT ![b] = h] /\ result' = [result EXCEPT ![b] = r]

LEMMA GoesTypes ==
    ASSUME TypeInv, NEW b \in Builders, UNCHANGED <<json, last>>,
           disk' \in [Names -> Unreadable \cup Hashes \cup Corpora],
           \A f \in Names : disk'[f] \in Contents(f),
           NEW p \in Places, NEW n \in 1..5, NEW found \in SUBSET Sids, NEW c \in Caches,
           NEW h \in Hashes, NEW r \in Results \cup {Nothing},
           p \in {"next", "open"} => r \in Results, Goes(b, p, n, found, c, h, r)
    PROVE  TypeInv'
<1>1. /\ json' \in Hashes /\ last' \in Versions
      /\ pc' \in [Builders -> Places] /\ at' \in [Builders -> 1..5]
      /\ files' \in [Builders -> SUBSET Sids] /\ cache' \in [Builders -> Caches]
      /\ hashes' \in [Builders -> Hashes] /\ result' \in [Builders -> Results \cup {Nothing}]
  BY DEF TypeInv, Goes
<1>2. ASSUME NEW e \in Builders, pc'[e] \in {"next", "open"} PROVE result'[e] \in Results
  <2>1. CASE e = b
    BY <1>2, <2>1 DEF TypeInv, Goes
  <2>2. CASE e # b
    BY <1>2, <2>2 DEF TypeInv, Goes
  <2> QED BY <2>1, <2>2
<1> QED BY <1>1, <1>2 DEF TypeInv, Contents

\* A value that stays is the value it had, in the form Goes asks for.
LEMMA Stays ==
    ASSUME TypeInv, NEW b \in Builders
    PROVE  /\ pc[b] \in Places /\ at[b] \in 1..5 /\ files[b] \in SUBSET Sids
           /\ cache[b] \in Caches /\ hashes[b] \in Hashes
           /\ result[b] \in Results \cup {Nothing}
           /\ at' = at => at' = [at EXCEPT ![b] = at[b]]
           /\ files' = files => files' = [files EXCEPT ![b] = files[b]]
           /\ cache' = cache => cache' = [cache EXCEPT ![b] = cache[b]]
           /\ hashes' = hashes => hashes' = [hashes EXCEPT ![b] = hashes[b]]
           /\ result' = result => result' = [result EXCEPT ![b] = result[b]]
BY DEF TypeInv

\* What a cache that was loaded holds.
LEMMA CacheTypes ==
    ASSUME TypeInv, NEW b \in Builders
    PROVE  /\ cache[b]["corpus"] \in Corpora /\ cache[b]["manifest"] \in Hashes
           /\ [f \in IndexFiles |-> cache[b][f]] \in [IndexFiles -> Corpora]
<1>1. \A f \in Names : cache[b][f] \in Written(f)
  BY DEF TypeInv, Caches
<1>2. \A f \in IndexFiles : f \in Names /\ f # "manifest"
  BY Files
<1> QED BY <1>1, <1>2, WrittenTypes

LEMMA DiskTypes ==
    ASSUME TypeInv
    PROVE  /\ disk \in [Names -> Unreadable \cup Hashes \cup Corpora]
           /\ \A f \in Names : disk[f] \in Contents(f)
           /\ \A f \in Names : disk[f] \notin Unreadable => disk[f] \in Written(f)
           /\ disk["corpus"] \notin Unreadable => disk["corpus"] \in Corpora
           /\ disk["manifest"] \notin Unreadable => disk["manifest"] \in Hashes
BY WrittenTypes DEF TypeInv, Contents

\* A step that begins, goes on or ends, in the words of Goes.
LEMMA ReturnGoes ==
    ASSUME NEW b, NEW r, Returns(b, r), NEW h, hashes' = [hashes EXCEPT ![b] = h]
    PROVE  Goes(b, "done", 1, {}, NoCache, h, r)
BY DEF Returns, Goes

LEMMA BeginGoes ==
    ASSUME TypeInv, NEW b \in Builders, Begin(b)
    PROVE  LET found == {s \in Sids : json[s] # 0}
               none == [s \in Sids |-> 0] IN
           \/ Returns(b, Nothing) /\ Goes(b, "done", 1, {}, NoCache, none, Nothing)
           \/ Goes(b, "listed", at[b], found, cache[b], none, Nothing) /\ UNCHANGED served
<1> DEFINE found == {s \in Sids : json[s] # 0}
           none == [s \in Sids |-> 0]
<1>1. hashes' = [hashes EXCEPT ![b] = none]
  BY DEF Begin
<1>2. CASE found = {}
  <2>1. Returns(b, Nothing)
    BY <1>2 DEF Begin
  <2> QED BY <1>1, <2>1, ReturnGoes
<1>3. CASE found # {}
  <2>1. /\ pc' = [pc EXCEPT ![b] = "listed"] /\ files' = [files EXCEPT ![b] = found]
        /\ result' = [result EXCEPT ![b] = Nothing] /\ UNCHANGED <<at, cache, served>>
    BY <1>3 DEF Begin
  <2> QED BY <1>1, <2>1, Stays DEF Goes
<1> QED BY <1>2, <1>3

\* What is loaded of the cache with one more file.
Loads(b) ==
    LET f == LoadFiles[at[b]] IN
    IF disk[f] \in Unreadable \/ (at[b] = 1 /\ disk["manifest"] = Absent)
    THEN NoCache ELSE [cache[b] EXCEPT ![f] = disk[f]]

Adds(b) ==
    LET f == LoadFiles[at[b]] IN
    disk[f] \notin Unreadable /\ Loads(b) = [cache[b] EXCEPT ![f] = disk[f]]

LEMMA LoadFileGoes ==
    ASSUME TypeInv, NEW b \in Builders, LoadFile(b)
    PROVE  /\ Loads(b) \in Caches
           /\ Loads(b) = NoCache \/ Adds(b)
           /\ \/ Goes(b, "loaded", 1, files[b], Loads(b), hashes[b], result[b])
                 /\ (Loads(b) = NoCache \/ (at[b] = 5 /\ Adds(b)))
              \/ Goes(b, "listed", at[b] + 1, files[b], Loads(b), hashes[b], result[b])
                 /\ at[b] \in 1..4 /\ Adds(b)
<1> DEFINE f == LoadFiles[at[b]]
           missing == disk[f] \in Unreadable \/ (at[b] = 1 /\ disk["manifest"] = Absent)
           c == Loads(b)
<1>1. /\ at[b] \in 1..5 /\ f \in Names /\ cache[b] \in Caches /\ Len(LoadFiles) = 5
  BY Files, Stays
<1>2. c = IF missing THEN NoCache ELSE [cache[b] EXCEPT ![f] = disk[f]]
  BY DEF Loads
<1>3. /\ cache' = [cache EXCEPT ![b] = IF missing THEN NoCache
                                       ELSE [cache[b] EXCEPT ![f] = disk[f]]]
      /\ pc' = [pc EXCEPT ![b] = IF missing \/ at[b] = 5 THEN "loaded" ELSE pc[b]]
      /\ at' = [at EXCEPT ![b] = IF missing \/ at[b] = 5 THEN 1 ELSE at[b] + 1]
      /\ pc[b] = "listed" /\ UNCHANGED <<files, hashes, result>>
  BY <1>1 DEF LoadFile, TypeInv
<1>4. c = NoCache \/ (Adds(b) /\ ~missing)
  BY <1>2 DEF Adds
<1> HIDE DEF f
<1>5. c \in Caches
  <2>1. CASE missing
    BY <1>2, <2>1, NothingTypes
  <2>2. CASE ~missing
    <3>1. disk[f] \in Written(f)
      BY <1>1, <2>2, DiskTypes
    <3>2. c = [cache[b] EXCEPT ![f] = disk[f]]
      BY <1>2, <2>2
    <3> QED BY <1>1, <3>1, <3>2, WrittenTypes DEF Caches
  <2> QED BY <2>1, <2>2
<1>6. /\ files' = [files EXCEPT ![b] = files[b]] /\ hashes' = [hashes EXCEPT ![b] = hashes[b]]
      /\ result' = [result EXCEPT ![b] = result[b]]
  BY <1>3, Stays
<1>7. cache' = [cache EXCEPT ![b] = c]
  BY <1>2, <1>3
<1>8. CASE missing \/ at[b] = 5
  <2>1. pc' = [pc EXCEPT ![b] = "loaded"] /\ at' = [at EXCEPT ![b] = 1]
    BY <1>3, <1>8
  <2>2. c = NoCache \/ (at[b] = 5 /\ Adds(b))
    BY <1>4, <1>8
  <2>3. Goes(b, "loaded", 1, files[b], c, hashes[b], result[b])
    BY <1>6, <1>7, <2>1 DEF Goes
  <2> QED BY <1>4, <1>5, <2>2, <2>3
<1>9. CASE ~(missing \/ at[b] = 5)
  <2>1. pc' = [pc EXCEPT ![b] = "listed"] /\ at' = [at EXCEPT ![b] = at[b] + 1]
    BY <1>3, <1>9
  <2>2. at[b] \in 1..4
    BY <1>1, <1>9
  <2>3. Goes(b, "listed", at[b] + 1, files[b], c, hashes[b], result[b])
    BY <1>6, <1>7, <2>1 DEF Goes
  <2>4. Adds(b)
    BY <1>2, <1>9 DEF Adds, f
  <2> QED BY <1>5, <2>2, <2>3, <2>4
<1> QED BY <1>8, <1>9

\* The hashes a build sees.
Seen(b) == [s \in Sids |-> IF s \in files[b] THEN json[s] ELSE 0]

LEMMA HashFilesGoes ==
    ASSUME TypeInv, NEW b \in Builders, HashFiles(b)
    PROVE  /\ Seen(b) \in Hashes
           /\ \/ Returns(b, Nothing) /\ Goes(b, "done", 1, {}, NoCache, Seen(b), Nothing)
              \/ /\ Goes(b, "hashed", at[b], files[b], cache[b], Seen(b), result[b])
                 /\ UNCHANGED served
                 /\ \A s \in files[b] : json[s] # 0
<1>1. Seen(b) \in Hashes
  BY ConstantsAssumption DEF TypeInv, Hashes, Versions, Seen
<1>2. hashes' = [hashes EXCEPT ![b] = Seen(b)]
  BY DEF HashFiles, Seen
<1>3. CASE \E s \in files[b] : json[s] = 0
  <2>1. Returns(b, Nothing)
    BY <1>3 DEF HashFiles
  <2> QED BY <1>1, <1>2, <2>1, ReturnGoes
<1>4. CASE ~ \E s \in files[b] : json[s] = 0
  <2>1. pc' = [pc EXCEPT ![b] = "hashed"] /\ UNCHANGED <<at, files, cache, result, served>>
    BY <1>4 DEF HashFiles
  <2> QED BY <1>1, <1>2, <1>4, <2>1, Stays DEF Goes
<1> QED BY <1>3, <1>4

\* What a build returns that finds no change.
Cached(b) == [corpus |-> cache[b]["corpus"], index |-> [f \in IndexFiles |-> cache[b][f]]]

LEMMA UseCacheGoes ==
    ASSUME TypeInv, NEW b \in Builders, UseCache(b)
    PROVE  /\ Cached(b) \in Results /\ Cached(b).corpus = cache[b]["corpus"]
           /\ Returns(b, Cached(b))
           /\ Goes(b, "done", 1, {}, NoCache, hashes[b], Cached(b))
<1>1. Returns(b, Cached(b)) /\ hashes' = [hashes EXCEPT ![b] = hashes[b]]
  BY Stays DEF UseCache, Cached
<1>2. Cached(b) \in Results /\ Cached(b).corpus = cache[b]["corpus"]
  BY CacheTypes DEF Cached, Results
<1> QED BY <1>1, <1>2, ReturnGoes

\* What is kept of a corpus, and what is read instead of the rest.
LEMMA UpdatedTexts ==
    ASSUME TypeInv, NEW b \in Builders, \A s \in Modified(b) : json[s] # 0,
           NEW order \in SetToSeqs(Modified(b))
    PROVE  LET corpus == Kept(b) \o WithTokens(order)
               old == cache[b]["corpus"]
               gone == Modified(b) \cup Deleted(b) IN
           /\ corpus \in Corpora
           /\ Sound(old) => Sound(corpus)
           /\ \A i \in DOMAIN corpus :
                 \/ corpus[i].sid \notin gone /\ \E k \in DOMAIN old : corpus[i] = old[k]
                 \/ corpus[i].sid \in Modified(b) /\ corpus[i].version = json[corpus[i].sid]
           /\ \A k \in DOMAIN old :
                 old[k].sid \notin gone => \E i \in DOMAIN corpus : corpus[i] = old[k]
           /\ \A s \in Modified(b) :
                 json[s] \notin Blank => \E i \in DOMAIN corpus : corpus[i].sid = s
<1> DEFINE old == cache[b]["corpus"]
           gone == Modified(b) \cup Deleted(b)
           kept == Kept(b)
           read == WithTokens(order)
           found == Modified(b)
<1>1. old \in Corpora /\ files[b] \in SUBSET Sids /\ json \in Hashes
  BY CacheTypes, Stays DEF TypeInv
<1>2. found \in SUBSET Sids
  BY <1>1 DEF Modified
<1>3. \A s \in found : json[s] \in 1..MaxVersion
  BY <1>1, <1>2, ConstantsAssumption DEF Hashes, Versions
<1>4. /\ kept \in Corpora /\ (Sound(old) => Sound(kept))
      /\ \A k \in DOMAIN kept :
            kept[k].sid \notin gone /\ \E i \in DOMAIN old : kept[k] = old[i]
      /\ \A i \in DOMAIN old :
            old[i].sid \notin gone => \E k \in DOMAIN kept : kept[k] = old[i]
  <2>1. kept = Without(old, gone)
    BY DEF Kept
  <2> HIDE DEF gone, kept
  <2> QED BY <1>1, <2>1, WithoutFacts
<1>5. /\ read \in Corpora /\ Sound(read)
      /\ \A k \in DOMAIN read : read[k].sid \in found /\ read[k].version = json[read[k].sid]
      /\ \A s \in found : json[s] \notin Blank => \E k \in DOMAIN read : read[k].sid = s
  <2> HIDE DEF found
  <2>1. order \in SetToSeqs(found)
    BY DEF found
  <2> QED BY <1>2, <1>3, <2>1, WithTokensFacts
<1>6. found \subseteq gone
  OBVIOUS
<1> DEFINE corpus == kept \o read
<1> HIDE DEF old, gone, kept, read, found
<1>7. \A i \in DOMAIN kept, k \in DOMAIN read : kept[i].sid # read[k].sid
  BY <1>4, <1>5, <1>6
<1>8. /\ corpus \in Corpora
      /\ Sound(old) => Sound(corpus)
      /\ \A i \in DOMAIN corpus :
            \/ \E k \in DOMAIN kept : corpus[i] = kept[k]
            \/ \E k \in DOMAIN read : corpus[i] = read[k]
      /\ \A k \in DOMAIN kept : \E i \in DOMAIN corpus : corpus[i] = kept[k]
      /\ \A k \in DOMAIN read : \E i \in DOMAIN corpus : corpus[i] = read[k]
  BY <1>4, <1>5, <1>7, JoinFacts
<1> HIDE DEF corpus
<1>9. \A i \in DOMAIN corpus :
         \/ corpus[i].sid \notin gone /\ \E k \in DOMAIN old : corpus[i] = old[k]
         \/ corpus[i].sid \in found /\ corpus[i].version = json[corpus[i].sid]
  BY <1>4, <1>5, <1>8
<1>10. /\ \A k \in DOMAIN old :
             old[k].sid \notin gone => \E i \in DOMAIN corpus : corpus[i] = old[k]
       /\ \A s \in found :
             json[s] \notin Blank => \E i \in DOMAIN corpus : corpus[i].sid = s
  BY <1>4, <1>5, <1>8
<1> QED BY <1>8, <1>9, <1>10 DEF corpus, old, gone, kept, read, found

\* The result of a build that makes an index of a corpus.
Indexed(corpus) == [corpus |-> corpus, index |-> [f \in IndexFiles |-> corpus]]

LEMMA UpdateCorpusGoes ==
    ASSUME TypeInv, NEW b \in Builders, UpdateCorpus(b)
    PROVE  \/ Returns(b, Nothing) /\ Goes(b, "done", 1, {}, NoCache, hashes[b], Nothing)
           \/ /\ \A s \in Modified(b) : json[s] # 0
              /\ \E order \in SetToSeqs(Modified(b)) :
                    LET corpus == Kept(b) \o WithTokens(order) IN
                    Goes(b, "next", at[b], {}, NoCache, hashes[b], Indexed(corpus))
              /\ UNCHANGED served
<1>1. hashes' = [hashes EXCEPT ![b] = hashes[b]]
  BY Stays DEF UpdateCorpus
<1>2. ASSUME Returns(b, Nothing)
      PROVE  Goes(b, "done", 1, {}, NoCache, hashes[b], Nothing)
  BY <1>1, <1>2, ReturnGoes
<1>3. CASE \E s \in Modified(b) : json[s] = 0
  BY <1>2, <1>3 DEF UpdateCorpus
<1>4. CASE ~ \E s \in Modified(b) : json[s] = 0
  <2>1. PICK order \in SetToSeqs(Modified(b)) :
           LET corpus == Kept(b) \o WithTokens(order) IN
           IF corpus = <<>>
           THEN Returns(b, Nothing)
           ELSE /\ result' = [result EXCEPT ![b] =
                       [corpus |-> corpus, index |-> [f \in IndexFiles |-> corpus]]]
                /\ pc' = [pc EXCEPT ![b] = "next"]
                /\ files' = [files EXCEPT ![b] = {}]
                /\ cache' = [cache EXCEPT ![b] = NoCache]
                /\ UNCHANGED <<at, served>>
    BY <1>4 DEF UpdateCorpus
  <2>2. PICK corpus : corpus = Kept(b) \o WithTokens(order)
    OBVIOUS
  <2>3. CASE corpus = <<>>
    BY <1>2, <2>1, <2>2, <2>3
  <2>4. CASE corpus # <<>>
    <3>1. /\ result' = [result EXCEPT ![b] = Indexed(corpus)]
          /\ pc' = [pc EXCEPT ![b] = "next"]
          /\ files' = [files EXCEPT ![b] = {}]
          /\ cache' = [cache EXCEPT ![b] = NoCache]
          /\ UNCHANGED <<at, served>>
      BY <2>1, <2>2, <2>4 DEF Indexed
    <3>2. Goes(b, "next", at[b], {}, NoCache, hashes[b], Indexed(corpus))
      BY <1>1, <3>1, Stays DEF Goes
    <3> QED BY <1>4, <2>2, <3>1, <3>2
  <2> QED BY <2>3, <2>4
<1> QED BY <1>3, <1>4

LEMMA IndexedTypes ==
    ASSUME NEW corpus \in Corpora
    PROVE  Indexed(corpus) \in Results /\ Indexed(corpus).corpus = corpus
BY DEF Indexed, Results

LEMMA OpenFileGoes ==
    ASSUME TypeInv, NEW b \in Builders, OpenFile(b)
    PROVE  /\ CacheFiles[at[b]] \in Names
           /\ \E torn \in {Torn, Mixed} : disk' = [disk EXCEPT ![CacheFiles[at[b]]] = torn]
           /\ Goes(b, "open", at[b], files[b], cache[b], hashes[b], result[b])
           /\ UNCHANGED <<json, last, served>> /\ result[b] \in Results
<1>1. CacheFiles[at[b]] \in Names /\ result[b] \in Results
  BY Files DEF TypeInv, OpenFile
<1>2. /\ pc' = [pc EXCEPT ![b] = "open"]
      /\ UNCHANGED <<json, last, at, files, cache, hashes, result, served>>
      /\ \E torn \in {Torn, Mixed} : disk' = [disk EXCEPT ![CacheFiles[at[b]]] = torn]
  BY DEF OpenFile
<1> QED BY <1>1, <1>2, Stays DEF Goes

\* What a build writes to a file.
Writes(b, f) == IF f = "manifest" THEN hashes[b] ELSE result[b].corpus

LEMMA WriteFileGoes ==
    ASSUME TypeInv, NEW b \in Builders, WriteFile(b)
    PROVE  LET f == CacheFiles[at[b]] IN
           /\ f \in Names /\ Writes(b, f) \in Written(f)
           /\ result[b] \in Results /\ result[b].corpus \in Corpora
           /\ \E left \in Left(f, Writes(b, f)) : disk' = [disk EXCEPT ![f] = left]
           /\ UNCHANGED <<json, last>>
           /\ \/ /\ Goes(b, "done", 1, {}, NoCache, hashes[b], result[b])
                 /\ Returns(b, result[b])
              \/ /\ Goes(b, "next", at[b] + 1, files[b], cache[b], hashes[b], result[b])
                 /\ at[b] \in 1..4 /\ UNCHANGED served
<1> DEFINE f == CacheFiles[at[b]]
<1>1. f \in Names /\ at[b] \in 1..5 /\ Len(CacheFiles) = 5
  BY Files DEF TypeInv
<1>2. result[b] \in Results /\ result[b].corpus \in Corpora /\ hashes[b] \in Hashes
  <2>1. result[b] \in Results /\ hashes[b] \in Hashes
    BY DEF WriteFile, TypeInv
  <2> QED BY <2>1 DEF Results
<1>3. Closes(b, f, Writes(b, f))
  BY DEF WriteFile, Writes
<1>4. Writes(b, f) \in Written(f)
  BY <1>1, <1>2, WrittenTypes DEF Writes
<1>5. /\ \E left \in Left(f, Writes(b, f)) : disk' = [disk EXCEPT ![f] = left]
      /\ UNCHANGED <<json, last>> /\ hashes' = [hashes EXCEPT ![b] = hashes[b]]
  BY <1>3, Stays DEF Closes
<1>6. CASE at[b] = 5
  <2>1. Returns(b, result[b])
    BY <1>1, <1>3, <1>6 DEF Closes
  <2> QED BY <1>1, <1>2, <1>4, <1>5, <2>1, ReturnGoes
<1>7. CASE at[b] # 5
  <2>1. /\ pc' = [pc EXCEPT ![b] = "next"] /\ at' = [at EXCEPT ![b] = at[b] + 1]
        /\ UNCHANGED <<files, cache, result, served>>
    BY <1>1, <1>3, <1>7 DEF Closes, TypeInv
  <2>2. at[b] \in 1..4
    BY <1>1, <1>7
  <2>3. Goes(b, "next", at[b] + 1, files[b], cache[b], hashes[b], result[b])
    BY <1>5, <2>1, Stays DEF Goes
  <2> QED BY <1>1, <1>2, <1>4, <1>5, <2>1, <2>2, <2>3
<1> QED BY <1>6, <1>7

LEMMA BreakGoes ==
    ASSUME TypeInv, NEW b \in Builders, Break(b)
    PROVE  Returns(b, Nothing) /\ Goes(b, "done", 1, {}, NoCache, hashes[b], Nothing)
<1>1. Returns(b, Nothing) /\ hashes' = [hashes EXCEPT ![b] = hashes[b]]
  BY Stays DEF Break
<1> QED BY <1>1, ReturnGoes

LEMMA TypesKept == TypeInv /\ [Next]_vars => TypeInv'
<1> SUFFICES ASSUME TypeInv, [Next]_vars PROVE TypeInv'
  OBVIOUS
<1>1. CASE UNCHANGED vars
  <2>1. UNCHANGED <<json, last, disk, pc, at, files, cache, hashes, result>>
    BY <1>1 DEF vars, localVars
  <2> QED BY <2>1 DEF TypeInv, Contents
<1>2. ASSUME NEW s \in Sids, SaveJson(s) \/ DeleteJson(s) PROVE TypeInv'
  <2>1. json' \in Hashes /\ last' \in Versions
    <3>1. json \in Hashes /\ last \in Versions /\ MaxVersion \in Nat
      BY ConstantsAssumption DEF TypeInv
    <3> QED BY <1>2, <3>1 DEF SaveJson, DeleteJson, Hashes, Versions
  <2>2. UNCHANGED <<disk, pc, at, files, cache, hashes, result>>
    BY <1>2 DEF SaveJson, DeleteJson, localVars
  <2> QED BY <2>1, <2>2 DEF TypeInv, Contents
<1>3. ASSUME UNCHANGED disk
      PROVE  /\ disk' \in [Names -> Unreadable \cup Hashes \cup Corpora]
             /\ \A f \in Names : disk'[f] \in Contents(f)
  BY <1>3, DiskTypes
<1>4. 1 \in 1..5 /\ {} \in SUBSET Sids /\ NoCache \in Caches /\ [s \in Sids |-> 0] \in Hashes
  BY NothingTypes
<1>5. ASSUME NEW b \in Builders, Begin(b) PROVE TypeInv'
  <2>1. UNCHANGED <<json, last, disk>>
    BY <1>5 DEF Begin
  <2>2. PICK found : found = {s \in Sids : json[s] # 0}
    OBVIOUS
  <2>3. PICK none : none = [s \in Sids |-> 0]
    OBVIOUS
  <2>4. \/ Goes(b, "done", 1, {}, NoCache, none, Nothing)
        \/ Goes(b, "listed", at[b], found, cache[b], none, Nothing)
    BY <1>5, <2>2, <2>3, BeginGoes
  <2>5. found \in SUBSET Sids /\ none \in Hashes
    BY <1>4, <2>2, <2>3
  <2> QED BY <1>3, <1>4, <1>5, <2>1, <2>4, <2>5, Stays, GoesTypes
<1>6. ASSUME NEW b \in Builders, LoadFile(b) PROVE TypeInv'
  <2>1. UNCHANGED <<json, last, disk>> /\ pc[b] = "listed"
    BY <1>6 DEF LoadFile
  <2>2. /\ Loads(b) \in Caches
        /\ \/ Goes(b, "loaded", 1, files[b], Loads(b), hashes[b], result[b])
           \/ /\ Goes(b, "listed", at[b] + 1, files[b], Loads(b), hashes[b], result[b])
              /\ at[b] + 1 \in 1..5
    BY <1>6, LoadFileGoes
  <2> QED BY <1>3, <1>4, <1>6, <2>1, <2>2, Stays, GoesTypes
<1>7. ASSUME NEW b \in Builders, HashFiles(b) PROVE TypeInv'
  <2>1. UNCHANGED <<json, last, disk>>
    BY <1>7 DEF HashFiles
  <2>2. /\ Seen(b) \in Hashes
        /\ \/ Goes(b, "done", 1, {}, NoCache, Seen(b), Nothing)
           \/ Goes(b, "hashed", at[b], files[b], cache[b], Seen(b), result[b])
    BY <1>7, HashFilesGoes
  <2> QED BY <1>3, <1>4, <1>7, <2>1, <2>2, Stays, GoesTypes
<1>8. ASSUME NEW b \in Builders, UseCache(b) PROVE TypeInv'
  <2>1. UNCHANGED <<json, last, disk>>
    BY <1>8 DEF UseCache
  <2>2. Cached(b) \in Results /\ Goes(b, "done", 1, {}, NoCache, hashes[b], Cached(b))
    BY <1>8, UseCacheGoes
  <2> QED BY <1>3, <1>4, <1>8, <2>1, <2>2, Stays, GoesTypes
<1>9. ASSUME NEW b \in Builders, UpdateCorpus(b) PROVE TypeInv'
  <2>1. UNCHANGED <<json, last, disk>>
    BY <1>9 DEF UpdateCorpus
  <2>2. CASE Goes(b, "done", 1, {}, NoCache, hashes[b], Nothing)
    BY <1>3, <1>4, <1>9, <2>1, <2>2, Stays, GoesTypes
  <2>3. CASE ~ Goes(b, "done", 1, {}, NoCache, hashes[b], Nothing)
    <3>1. PICK order \in SetToSeqs(Modified(b)) :
             /\ \A s \in Modified(b) : json[s] # 0
             /\ Goes(b, "next", at[b], {}, NoCache, hashes[b],
                     Indexed(Kept(b) \o WithTokens(order)))
      BY <1>9, <2>3, UpdateCorpusGoes
    <3>2. PICK r : r = Indexed(Kept(b) \o WithTokens(order))
      OBVIOUS
    <3>3. r \in Results
      BY <1>9, <3>1, <3>2, UpdatedTexts, IndexedTypes
    <3> QED BY <1>3, <1>4, <1>9, <2>1, <3>1, <3>2, <3>3, Stays, GoesTypes
  <2> QED BY <2>2, <2>3
<1>10. ASSUME NEW b \in Builders, NEW f \in Names, NEW new \in Contents(f),
              disk' = [disk EXCEPT ![f] = new]
       PROVE  /\ disk' \in [Names -> Unreadable \cup Hashes \cup Corpora]
              /\ \A g \in Names : disk'[g] \in Contents(g)
  <2>1. new \in Unreadable \cup Hashes \cup Corpora
    BY WrittenTypes DEF Contents
  <2> QED BY <1>10, <2>1, DiskTypes
<1>11. ASSUME NEW b \in Builders, OpenFile(b) PROVE TypeInv'
  <2>1. /\ CacheFiles[at[b]] \in Names
        /\ \E torn \in {Torn, Mixed} : disk' = [disk EXCEPT ![CacheFiles[at[b]]] = torn]
        /\ Goes(b, "open", at[b], files[b], cache[b], hashes[b], result[b])
        /\ UNCHANGED <<json, last>> /\ result[b] \in Results
    BY <1>11, OpenFileGoes
  <2>2. /\ disk' \in [Names -> Unreadable \cup Hashes \cup Corpora]
        /\ \A f \in Names : disk'[f] \in Contents(f)
    BY <1>10, <1>11, <2>1 DEF Contents, Unreadable
  <2> QED BY <1>11, <2>1, <2>2, Stays, GoesTypes
<1>12. ASSUME NEW b \in Builders, WriteFile(b) PROVE TypeInv'
  <2>1. PICK f : f = CacheFiles[at[b]]
    OBVIOUS
  <2>2. /\ f \in Names /\ Writes(b, f) \in Written(f) /\ result[b] \in Results
        /\ \E left \in Left(f, Writes(b, f)) : disk' = [disk EXCEPT ![f] = left]
        /\ UNCHANGED <<json, last>>
        /\ \/ Goes(b, "done", 1, {}, NoCache, hashes[b], result[b])
           \/ /\ Goes(b, "next", at[b] + 1, files[b], cache[b], hashes[b], result[b])
              /\ at[b] + 1 \in 1..5
    BY <1>12, <2>1, WriteFileGoes
  <2>3. PICK left \in Left(f, Writes(b, f)) : disk' = [disk EXCEPT ![f] = left]
    BY <2>2
  <2>4. left \in Contents(f)
    BY <2>2, <2>3, WrittenTypes DEF Left, Contents, Unreadable
  <2>5. /\ disk' \in [Names -> Unreadable \cup Hashes \cup Corpora]
        /\ \A g \in Names : disk'[g] \in Contents(g)
    BY <1>10, <1>12, <2>2, <2>3, <2>4
  <2> QED BY <1>4, <1>12, <2>2, <2>5, Stays, GoesTypes
<1>13. ASSUME NEW b \in Builders, Break(b) PROVE TypeInv'
  <2>1. UNCHANGED <<json, last, disk>>
    BY <1>13 DEF Break
  <2>2. Goes(b, "done", 1, {}, NoCache, hashes[b], Nothing)
    BY <1>13, BreakGoes
  <2> QED BY <1>3, <1>4, <1>13, <2>1, <2>2, Stays, GoesTypes
<1> QED
  BY <1>1, <1>2, <1>5, <1>6, <1>7, <1>8, <1>9, <1>11, <1>12, <1>13 DEF Next, Build

LEMMA TypesHold == Spec => []TypeInv
BY TypesAtStart, TypesKept, PTL DEF Spec

-----------------------------------------------------------------------------
(* However builds overlap, no corpus has two texts of one file.            *)

SoundInv ==
    /\ disk["corpus"] \notin Unreadable => Sound(disk["corpus"])
    /\ \A b \in Builders :
          /\ Sound(cache[b]["corpus"])
          /\ result[b] # Nothing \/ pc[b] \in {"next", "open"} => Sound(result[b].corpus)
    /\ served # Nothing => Sound(served.corpus)

LEMMA EmptySound == Sound(<<>>)
BY DEF Sound

LEMMA GoesSound ==
    ASSUME TypeInv, SoundInv, NEW b \in Builders,
           disk'["corpus"] \notin Unreadable => Sound(disk'["corpus"]),
           NEW p, NEW n, NEW found, NEW c, NEW h, NEW r, Goes(b, p, n, found, c, h, r),
           Sound(c["corpus"]), r # Nothing \/ p \in {"next", "open"} => Sound(r.corpus),
           UNCHANGED served \/ Returns(b, r)
    PROVE  SoundInv'
<1>1. /\ cache' = [cache EXCEPT ![b] = c] /\ result' = [result EXCEPT ![b] = r]
      /\ pc' = [pc EXCEPT ![b] = p]
      /\ served' = served \/ served' = r
  BY DEF Goes, Returns
<1>2. ASSUME NEW e \in Builders
      PROVE  /\ Sound(cache'[e]["corpus"])
             /\ result'[e] # Nothing \/ pc'[e] \in {"next", "open"} => Sound(result'[e].corpus)
  <2>1. CASE e = b
    <3>1. cache'[e] = c /\ result'[e] = r /\ pc'[e] = p
      BY <1>1, <2>1 DEF TypeInv
    <3> QED BY <3>1
  <2>2. CASE e # b
    <3>1. cache'[e] = cache[e] /\ result'[e] = result[e] /\ pc'[e] = pc[e]
      BY <1>1, <1>2, <2>2 DEF TypeInv
    <3> QED BY <1>2, <3>1 DEF SoundInv
  <2> QED BY <2>1, <2>2
<1>3. served' # Nothing => Sound(served'.corpus)
  BY <1>1 DEF SoundInv
<1> QED BY <1>2, <1>3 DEF SoundInv, Sound

LEMMA SoundAtStart == Init => SoundInv
<1> SUFFICES ASSUME Init PROVE SoundInv
  OBVIOUS
<1>1. disk = [f \in Names |-> Absent] /\ disk["corpus"] \in Unreadable
  BY Files, WrittenTypes DEF Init, Unreadable
<1>2. \A b \in Builders :
         cache[b]["corpus"] = <<>> /\ result[b] = Nothing /\ pc[b] = "idle"
  BY NothingTypes DEF Init
<1> QED BY <1>1, <1>2, EmptySound DEF Init, SoundInv

LEMMA SoundKept ==
    ASSUME MixesAreNoticed
    PROVE  TypeInv /\ SoundInv /\ [Next]_vars => SoundInv'
<1> SUFFICES ASSUME TypeInv, SoundInv, [Next]_vars PROVE SoundInv'
  OBVIOUS
<1>1. CASE UNCHANGED vars
  BY <1>1 DEF vars, localVars, SoundInv, Sound
<1>2. ASSUME NEW s \in Sids, SaveJson(s) \/ DeleteJson(s) PROVE SoundInv'
  BY <1>2 DEF SaveJson, DeleteJson, localVars, SoundInv, Sound
<1>3. ASSUME UNCHANGED disk
      PROVE  disk'["corpus"] \notin Unreadable => Sound(disk'["corpus"])
  BY <1>3 DEF SoundInv
<1>4. /\ Sound(NoCache["corpus"])
      /\ \A b \in Builders : /\ Sound(cache[b]["corpus"])
                             /\ result[b] # Nothing \/ pc[b] \in {"next", "open"}
                                   => Sound(result[b].corpus)
      /\ Nothing # Nothing => Sound(Nothing.corpus)
  BY EmptySound, NothingTypes DEF SoundInv
<1>5. ASSUME NEW b \in Builders, Begin(b) PROVE SoundInv'
  <2>1. PICK found : found = {s \in Sids : json[s] # 0}
    OBVIOUS
  <2>2. PICK none : none = [s \in Sids |-> 0]
    OBVIOUS
  <2>3. /\ \/ Returns(b, Nothing) /\ Goes(b, "done", 1, {}, NoCache, none, Nothing)
           \/ Goes(b, "listed", at[b], found, cache[b], none, Nothing) /\ UNCHANGED served
        /\ UNCHANGED disk
    BY <1>5, <2>1, <2>2, BeginGoes DEF Begin
  <2> QED BY <1>3, <1>4, <1>5, <2>3, GoesSound
<1>6. ASSUME NEW b \in Builders, LoadFile(b) PROVE SoundInv'
  <2>1. UNCHANGED <<disk, served>>
    BY <1>6 DEF LoadFile
  <2>2. PICK f : f = LoadFiles[at[b]]
    OBVIOUS
  <2>3. \/ Loads(b) = NoCache
        \/ disk[f] \notin Unreadable /\ Loads(b) = [cache[b] EXCEPT ![f] = disk[f]]
    BY <1>6, <2>2, LoadFileGoes DEF Adds
  <2>4. cache[b] \in [Names -> Hashes \cup Corpora] /\ "corpus" \in Names
    BY <1>6, Stays, WrittenTypes DEF Caches
  <2>5. Sound(Loads(b)["corpus"])
    <3>1. CASE Loads(b) = NoCache
      BY <1>4, <3>1
    <3>2. CASE /\ disk[f] \notin Unreadable
               /\ Loads(b) = [cache[b] EXCEPT ![f] = disk[f]]
      <4>1. \/ Loads(b)["corpus"] = cache[b]["corpus"]
            \/ f = "corpus" /\ Loads(b)["corpus"] = disk["corpus"]
        BY <2>4, <3>2
      <4> QED BY <1>4, <1>6, <3>2, <4>1 DEF SoundInv
    <3> QED BY <2>3, <3>1, <3>2
  <2>6. PICK c : c = Loads(b)
    OBVIOUS
  <2>7. \/ Goes(b, "loaded", 1, files[b], c, hashes[b], result[b])
        \/ Goes(b, "listed", at[b] + 1, files[b], c, hashes[b], result[b])
    BY <1>6, <2>6, LoadFileGoes
  <2> QED BY <1>3, <1>4, <1>6, <2>1, <2>5, <2>6, <2>7, GoesSound
<1>7. ASSUME NEW b \in Builders, HashFiles(b) PROVE SoundInv'
  <2>1. UNCHANGED disk
    BY <1>7 DEF HashFiles
  <2>2. PICK h : h = Seen(b)
    OBVIOUS
  <2>3. \/ Returns(b, Nothing) /\ Goes(b, "done", 1, {}, NoCache, h, Nothing)
        \/ /\ Goes(b, "hashed", at[b], files[b], cache[b], h, result[b])
           /\ UNCHANGED served
    BY <1>7, <2>2, HashFilesGoes
  <2> QED BY <1>3, <1>4, <1>7, <2>1, <2>3, GoesSound
<1>8. ASSUME NEW b \in Builders, UseCache(b) PROVE SoundInv'
  <2>1. UNCHANGED disk
    BY <1>8 DEF UseCache
  <2>2. PICK r : r = Cached(b)
    OBVIOUS
  <2>3. /\ r.corpus = cache[b]["corpus"] /\ Returns(b, r)
        /\ Goes(b, "done", 1, {}, NoCache, hashes[b], r)
    BY <1>8, <2>2, UseCacheGoes
  <2>4. Sound(r.corpus)
    BY <1>4, <1>8, <2>3
  <2> QED BY <1>3, <1>4, <1>8, <2>1, <2>3, <2>4, GoesSound
<1>9. ASSUME NEW b \in Builders, UpdateCorpus(b) PROVE SoundInv'
  <2>1. UNCHANGED disk
    BY <1>9 DEF UpdateCorpus
  <2>2. CASE Returns(b, Nothing) /\ Goes(b, "done", 1, {}, NoCache, hashes[b], Nothing)
    BY <1>3, <1>4, <1>9, <2>1, <2>2, GoesSound
  <2>3. CASE ~(Returns(b, Nothing) /\ Goes(b, "done", 1, {}, NoCache, hashes[b], Nothing))
    <3>1. PICK order \in SetToSeqs(Modified(b)) :
             /\ \A s \in Modified(b) : json[s] # 0
             /\ Goes(b, "next", at[b], {}, NoCache, hashes[b],
                     Indexed(Kept(b) \o WithTokens(order)))
             /\ UNCHANGED served
      BY <1>9, <2>3, UpdateCorpusGoes
    <3>2. PICK corpus : corpus = Kept(b) \o WithTokens(order)
      OBVIOUS
    <3>3. PICK r : r = Indexed(corpus)
      OBVIOUS
    <3>4. corpus \in Corpora /\ Sound(corpus)
      BY <1>4, <1>9, <3>1, <3>2, UpdatedTexts
    <3>5. Sound(r.corpus)
      BY <3>3, <3>4, IndexedTypes
    <3> QED BY <1>3, <1>4, <1>9, <2>1, <3>1, <3>2, <3>3, <3>5, GoesSound
  <2> QED BY <2>2, <2>3
<1>10. ASSUME NEW f \in Names, NEW new, disk' = [disk EXCEPT ![f] = new],
              f = "corpus" => new \in Unreadable \/ Sound(new)
       PROVE  disk'["corpus"] \notin Unreadable => Sound(disk'["corpus"])
  <2>1. disk'["corpus"] = IF f = "corpus" THEN new ELSE disk["corpus"]
    BY <1>10, DiskTypes, WrittenTypes
  <2> QED BY <1>10, <2>1 DEF SoundInv
<1>11. ASSUME NEW b \in Builders, OpenFile(b) PROVE SoundInv'
  <2>1. PICK f : f = CacheFiles[at[b]]
    OBVIOUS
  <2>2. /\ f \in Names
        /\ \E torn \in {Torn, Mixed} : disk' = [disk EXCEPT ![f] = torn]
        /\ Goes(b, "open", at[b], files[b], cache[b], hashes[b], result[b])
        /\ UNCHANGED served /\ pc[b] = "next"
    BY <1>11, <2>1, OpenFileGoes DEF OpenFile
  <2>3. disk'["corpus"] \notin Unreadable => Sound(disk'["corpus"])
    BY <1>10, <2>2 DEF Unreadable
  <2> QED BY <1>4, <1>11, <2>2, <2>3, GoesSound
<1>12. ASSUME NEW b \in Builders, WriteFile(b) PROVE SoundInv'
  <2>1. PICK f : f = CacheFiles[at[b]]
    OBVIOUS
  <2>2. PICK left \in Left(f, Writes(b, f)) : disk' = [disk EXCEPT ![f] = left]
    BY <1>12, <2>1, WriteFileGoes
  <2>3. /\ f \in Names /\ result[b] \in Results
        /\ \/ /\ Goes(b, "done", 1, {}, NoCache, hashes[b], result[b])
              /\ Returns(b, result[b])
           \/ /\ Goes(b, "next", at[b] + 1, files[b], cache[b], hashes[b], result[b])
              /\ UNCHANGED served
    BY <1>12, <2>1, WriteFileGoes
  <2>4. Sound(result[b].corpus)
    <3>1. pc[b] = "open"
      BY <1>12 DEF WriteFile
    <3> QED BY <1>4, <1>12, <3>1
  <2>5. f = "corpus" => left \in Unreadable \/ Sound(left)
    <3>1. f = "corpus" => Writes(b, f) = result[b].corpus /\ Mixes[f] = {}
      BY <2>3, Files, WrittenTypes DEF Writes, MixesAreNoticed
    <3> QED BY <2>2, <2>4, <3>1 DEF Left, Unreadable
  <2>6. disk'["corpus"] \notin Unreadable => Sound(disk'["corpus"])
    BY <1>10, <2>2, <2>3, <2>5
  <2> QED BY <1>4, <1>12, <2>3, <2>4, <2>6, GoesSound
<1>13. ASSUME NEW b \in Builders, Break(b) PROVE SoundInv'
  <2>1. UNCHANGED disk
    BY <1>13 DEF Break
  <2>2. Returns(b, Nothing) /\ Goes(b, "done", 1, {}, NoCache, hashes[b], Nothing)
    BY <1>13, BreakGoes
  <2> QED BY <1>3, <1>4, <1>13, <2>1, <2>2, GoesSound
<1> QED
  BY <1>1, <1>2, <1>5, <1>6, <1>7, <1>8, <1>9, <1>11, <1>12, <1>13 DEF Next, Build

-----------------------------------------------------------------------------
(* While builds take turns, a corpus that is taken for current is.         *)

There(f) == disk[f] \notin Unreadable

\* No version of the future.
Known(h) == \A s \in Sids : h[s] <= last

\* A version never comes back.  So a file that still has the version a manifest
\* names has had it since: what was read of it in between is that version.
Follows(corpus, h) ==
    \A i \in DOMAIN corpus :
       LET s == corpus[i].sid IN h[s] # 0 /\ h[s] = json[s] => corpus[i].version = json[s]

\* A corpus that was made by a build that saw h: of each file the text that was
\* seen, as far as it has not changed since, and no other text.
Made(corpus, h) ==
    /\ Sound(corpus)
    /\ Follows(corpus, h)
    /\ \A i \in DOMAIN corpus : h[corpus[i].sid] # 0
    /\ \A s \in Sids : h[s] # 0 /\ h[s] = json[s] /\ json[s] \notin Blank =>
          \E i \in DOMAIN corpus : corpus[i].sid = s

\* The corpus on disk may be newer than the manifest beside it, never older.
DiskOK ==
    /\ Known(json) /\ (There("manifest") => Known(disk["manifest"]))
    /\ There("corpus") =>
          /\ Sound(disk["corpus"])
          /\ There("manifest") => Follows(disk["corpus"], disk["manifest"])

\* What a build has loaded is still on disk.
LoadedOK(p, n, found, c, h) ==
    /\ p = "listed" /\ n > 1 => There("corpus") /\ c["corpus"] = disk["corpus"]
    /\ p = "listed" /\ n > 2 => There("manifest") /\ c["manifest"] = disk["manifest"]
    /\ p \in {"loaded", "hashed"} /\ c["corpus"] # <<>> =>
          /\ There("corpus") /\ c["corpus"] = disk["corpus"]
          /\ There("manifest") /\ c["manifest"] = disk["manifest"]
    /\ p = "hashed" => \A s \in Sids : s \in found <=> h[s] # 0

\* The manifest is written when the corpus is, and nobody else has a file open.
WritingOK(p, n, r) ==
    p \in {"next", "open"} =>
       /\ There("manifest") => Follows(r.corpus, disk["manifest"])
       /\ CacheFiles[n] = "manifest" => disk["corpus"] = r.corpus
       /\ p = "open" => disk[CacheFiles[n]] = Torn

\* The build that is at p, with the locals n, found, c, h and r.
BuildOK(p, n, found, c, h, r) ==
    /\ Known(h)
    /\ LoadedOK(p, n, found, c, h)
    /\ p \in {"next", "open"} \/ (p = "done" /\ r # Nothing) => Made(r.corpus, h)
    /\ WritingOK(p, n, r)
    /\ p \notin {"listed", "next", "open"} => n = 1

BuildInv ==
    /\ DiskOK
    /\ \A b \in Builders : BuildOK(pc[b], at[b], files[b], cache[b], hashes[b], result[b])

LEMMA BuildAtStart == Init => BuildInv
<1> SUFFICES ASSUME Init PROVE BuildInv
  OBVIOUS
<1>1. disk = [f \in Names |-> Absent] /\ ~There("manifest") /\ ~There("corpus")
  BY Files, WrittenTypes DEF Init, Unreadable, There
<1>2. /\ \A s \in Sids : json[s] = 0 /\ last = 0
      /\ \A b \in Builders, s \in Sids : hashes[b][s] = 0
      /\ \A b \in Builders : pc[b] = "idle" /\ at[b] = 1
  BY DEF Init
<1>3. DiskOK
  BY <1>1, <1>2 DEF DiskOK, Known
<1>4. ASSUME NEW b \in Builders
      PROVE  BuildOK(pc[b], at[b], files[b], cache[b], hashes[b], result[b])
  BY <1>2 DEF BuildOK, LoadedOK, WritingOK, Known
<1> QED BY <1>3, <1>4 DEF BuildInv

\* A file that changes has a version that no build and no manifest has seen.
LEMMA JsonBuild ==
    ASSUME TypeInv, BuildInv, NEW t \in Sids, SaveJson(t) \/ DeleteJson(t)
    PROVE  BuildInv'
<1>1. UNCHANGED <<disk, pc, at, files, cache, hashes, result>>
  BY DEF SaveJson, DeleteJson, localVars
<1>2. json \in Hashes /\ last \in Versions /\ MaxVersion \in Nat /\ Known(json)
  BY ConstantsAssumption DEF TypeInv, BuildInv, DiskOK
<1>3. json' \in Hashes /\ last' \in Versions /\ last <= last'
  BY <1>2 DEF SaveJson, DeleteJson, Hashes, Versions
<1>4. /\ \A s \in Sids : json'[s] = json[s] \/ json'[s] = 0 \/ json'[s] > last
      /\ \A s \in Sids : json'[s] <= last'
  BY <1>2 DEF SaveJson, DeleteJson, Hashes, Versions, Known
<1>5. ASSUME NEW h \in Hashes, Known(h)
      PROVE  /\ \A s \in Sids : h[s] <= last'
             /\ \A s \in Sids : h[s] # 0 /\ h[s] = json'[s] => json'[s] = json[s]
  <2>1. \A s \in Sids : h[s] \in Nat /\ h[s] <= last
    BY <1>2, <1>5 DEF Known, Hashes, Versions
  <2>2. last \in Nat /\ last' \in Nat
    BY <1>2, <1>3 DEF Versions
  <2>3. \A s \in Sids : json'[s] \in Nat
    BY <1>2, <1>3 DEF Hashes, Versions
  <2> QED BY <1>3, <1>4, <2>1, <2>2, <2>3
<1>6. ASSUME NEW h \in Hashes, Known(h), NEW c \in Corpora, Follows(c, h)
      PROVE  \A i \in DOMAIN c :
                h[c[i].sid] # 0 /\ h[c[i].sid] = json'[c[i].sid] =>
                   c[i].version = json'[c[i].sid]
  BY <1>5, <1>6, DocsTypes DEF Follows
<1>7. There("manifest") => disk["manifest"] \in Hashes /\ Known(disk["manifest"])
  BY DiskTypes DEF There, BuildInv, DiskOK
<1>8. There("corpus") => disk["corpus"] \in Corpora
  BY DiskTypes DEF There
<1>9. DiskOK'
  BY <1>1, <1>4, <1>5, <1>6, <1>7, <1>8 DEF BuildInv, DiskOK, There, Known, Follows, Sound
<1>10. ASSUME NEW b \in Builders
       PROVE  BuildOK(pc[b], at[b], files[b], cache[b], hashes[b], result[b])'
  <2> DEFINE h == hashes[b]
             c == result[b].corpus
             shown == pc[b] = "done" /\ result[b] # Nothing
  <2>1. BuildOK(pc[b], at[b], files[b], cache[b], hashes[b], result[b]) /\ h \in Hashes
    BY DEF BuildInv, TypeInv
  <2>2. pc[b] \in {"next", "open"} \/ shown => c \in Corpora
    BY DEF TypeInv, Results
  <2>3. Known(h)'
    BY <1>1, <1>5, <2>1 DEF BuildOK, Known
  <2>4. LoadedOK(pc[b], at[b], files[b], cache[b], hashes[b])'
    BY <1>1, <2>1 DEF BuildOK, LoadedOK, There
  <2>5. ASSUME pc[b] \in {"next", "open"} \/ shown PROVE Made(c, h)'
    <3>1. Made(c, h) /\ Known(h)
      BY <2>1, <2>5 DEF BuildOK
    <3>2. \A i \in DOMAIN c :
             h[c[i].sid] # 0 /\ h[c[i].sid] = json'[c[i].sid] => c[i].version = json'[c[i].sid]
      BY <1>6, <2>1, <2>2, <2>5, <3>1 DEF Made
    <3>3. \A s \in Sids : h[s] # 0 /\ h[s] = json'[s] /\ json'[s] \notin Blank =>
             \E i \in DOMAIN c : c[i].sid = s
      BY <1>5, <2>1, <3>1 DEF Made
    <3> QED BY <1>1, <3>1, <3>2, <3>3 DEF Made, Follows, Sound
  <2>6. WritingOK(pc[b], at[b], result[b])'
    <3> SUFFICES ASSUME pc[b] \in {"next", "open"}
                 PROVE  /\ There("manifest") => Follows(c, disk["manifest"])'
                        /\ CacheFiles[at[b]] = "manifest" => disk["corpus"] = c
                        /\ pc[b] = "open" => disk[CacheFiles[at[b]]] = Torn
      BY <1>1 DEF WritingOK, There
    <3>1. /\ There("manifest") => Follows(c, disk["manifest"])
          /\ CacheFiles[at[b]] = "manifest" => disk["corpus"] = c
          /\ pc[b] = "open" => disk[CacheFiles[at[b]]] = Torn
      BY <2>1 DEF BuildOK, WritingOK
    <3> QED BY <1>1, <1>6, <1>7, <2>2, <3>1 DEF Follows
  <2>7. (pc[b] \notin {"listed", "next", "open"} => at[b] = 1)'
    BY <1>1, <2>1 DEF BuildOK
  <2> QED BY <1>1, <2>3, <2>4, <2>5, <2>6, <2>7 DEF BuildOK
<1> QED BY <1>9, <1>10 DEF BuildInv

\* One build gets what the step gives it.  The others keep what they have: either
\* the step writes nothing, or they are at rest.
LEMMA GoesBuild ==
    ASSUME TypeInv, BuildInv, NEW b \in Builders, UNCHANGED <<json, last>>,
           UNCHANGED disk \/ (TakeTurns /\ ~Resting(b)),
           NEW p, NEW n, NEW found, NEW c, NEW h, NEW r,
           Goes(b, p, n, found, c, h, r), DiskOK', BuildOK(p, n, found, c, h, r)'
    PROVE  BuildInv'
<1>1. /\ pc'[b] = p /\ at'[b] = n /\ files'[b] = found /\ cache'[b] = c
      /\ hashes'[b] = h /\ result'[b] = r
  BY DEF Goes, TypeInv
<1>2. ASSUME NEW e \in Builders
      PROVE  BuildOK(pc[e], at[e], files[e], cache[e], hashes[e], result[e])'
  <2>1. CASE e = b
    BY <1>1, <2>1 DEF BuildOK, LoadedOK, WritingOK, Made, Known, There, Sound, Follows
  <2>2. CASE e # b
    <3>1. /\ pc'[e] = pc[e] /\ at'[e] = at[e] /\ files'[e] = files[e]
          /\ cache'[e] = cache[e] /\ hashes'[e] = hashes[e] /\ result'[e] = result[e]
      BY <1>2, <2>2 DEF Goes, TypeInv
    <3>2. BuildOK(pc[e], at[e], files[e], cache[e], hashes[e], result[e])
      BY DEF BuildInv
    <3>3. UNCHANGED disk \/ pc[e] \in {"idle", "done"}
      BY <2>2 DEF TakeTurns, Resting
    <3>4. Made(result[e].corpus, hashes[e]) => Made(result[e].corpus, hashes[e])'
      BY <3>1 DEF Made, Sound, Follows
    <3>5. LoadedOK(pc[e], at[e], files[e], cache[e], hashes[e])'
      BY <3>1, <3>2, <3>3 DEF BuildOK, LoadedOK, There
    <3>6. WritingOK(pc[e], at[e], result[e])'
      BY <3>1, <3>2, <3>3 DEF BuildOK, WritingOK, There, Follows
    <3> QED BY <3>1, <3>2, <3>4, <3>5, <3>6 DEF BuildOK, Known
  <2> QED BY <2>1, <2>2
<1> QED BY <1>2 DEF BuildInv

\* A step that writes nothing.
LEMMA QuietBuild ==
    ASSUME TypeInv, BuildInv, UNCHANGED <<json, last, disk>>,
           NEW b \in Builders, NEW p, NEW n, NEW found, NEW c, NEW h, NEW r,
           Goes(b, p, n, found, c, h, r), BuildOK(p, n, found, c, h, r)
    PROVE  BuildInv'
<1>1. DiskOK'
  BY DEF BuildInv, DiskOK, Known, There, Sound, Follows
<1>2. BuildOK(p, n, found, c, h, r)'
  BY DEF BuildOK, LoadedOK, WritingOK, Made, Known, There, Sound, Follows
<1> QED BY <1>1, <1>2, GoesBuild

\* What a build that has ended without a result, or has just begun, must meet.
LEMMA EndedOK ==
    ASSUME NEW h, Known(h), NEW c, NEW found
    PROVE  /\ BuildOK("done", 1, found, c, h, Nothing)
           /\ \A r : BuildOK("listed", 1, found, c, h, r)
BY DEF BuildOK, LoadedOK, WritingOK

LEMMA BeginBuild ==
    ASSUME TypeInv, BuildInv, NEW b \in Builders, Begin(b)
    PROVE  BuildInv'
<1>1. PICK found : found = {s \in Sids : json[s] # 0}
  OBVIOUS
<1>2. PICK none : none = [s \in Sids |-> 0]
  OBVIOUS
<1>3. /\ \/ Goes(b, "done", 1, {}, NoCache, none, Nothing)
         \/ Goes(b, "listed", at[b], found, cache[b], none, Nothing)
      /\ UNCHANGED <<json, last, disk>> /\ pc[b] \in {"idle", "done"}
  BY <1>1, <1>2, BeginGoes DEF Begin, Resting
<1>4. at[b] = 1
  <2>1. BuildOK(pc[b], at[b], files[b], cache[b], hashes[b], result[b])
    BY DEF BuildInv
  <2> QED BY <1>3, <2>1 DEF BuildOK
<1>5. Known(none)
  <2>1. last \in Nat
    BY ConstantsAssumption DEF TypeInv, Versions
  <2> QED BY <1>2, <2>1 DEF Known
<1>6. /\ BuildOK("done", 1, {}, NoCache, none, Nothing)
      /\ BuildOK("listed", 1, found, cache[b], none, Nothing)
  BY <1>5, EndedOK
<1>7. CASE Goes(b, "done", 1, {}, NoCache, none, Nothing)
  BY <1>3, <1>6, <1>7, QuietBuild
<1>8. CASE Goes(b, "listed", at[b], found, cache[b], none, Nothing)
  BY <1>3, <1>4, <1>6, <1>8, QuietBuild
<1> QED BY <1>3, <1>7, <1>8

\* What is loaded of the corpus and the manifest is what is on disk.
LEMMA LoadFileBuild ==
    ASSUME TypeInv, BuildInv, NEW b \in Builders, LoadFile(b)
    PROVE  BuildInv'
<1> DEFINE f == LoadFiles[at[b]]
           n == at[b]
           h == hashes[b]
           r == result[b]
           old == cache[b]
           found == files[b]
<1>1. PICK c : c = Loads(b)
  OBVIOUS
<1>2. /\ UNCHANGED <<json, last, disk>> /\ pc[b] = "listed"
      /\ n \in 1..5 /\ old \in [Names -> Hashes \cup Corpora]
      /\ "corpus" \in Names /\ "manifest" \in Names
  BY Stays, WrittenTypes DEF LoadFile, Caches
<1>3. /\ Known(h)
      /\ n > 1 => There("corpus") /\ old["corpus"] = disk["corpus"]
      /\ n > 2 => There("manifest") /\ old["manifest"] = disk["manifest"]
  <2>1. BuildOK(pc[b], n, found, old, h, r)
    BY DEF BuildInv
  <2> QED BY <1>2, <2>1 DEF BuildOK, LoadedOK
<1>4. ASSUME Adds(b)
      PROVE  /\ There("corpus") /\ c["corpus"] = disk["corpus"]
             /\ n > 1 => There("manifest") /\ c["manifest"] = disk["manifest"]
  <2>1. disk[f] \notin Unreadable /\ c = [old EXCEPT ![f] = disk[f]]
    BY <1>1, <1>4 DEF Adds
  <2>2. CASE n = 1
    BY <1>2, <2>1, <2>2, Files DEF There
  <2>3. CASE n = 2
    BY <1>2, <1>3, <2>1, <2>3, Files, WrittenTypes DEF There
  <2>4. CASE n \in 3..5
    <3>1. f # "corpus" /\ f # "manifest" /\ n > 2 /\ n > 1
      BY <2>4, Files
    <3> QED BY <1>2, <1>3, <2>1, <3>1
  <2>5. n = 1 \/ n = 2 \/ n \in 3..5
    BY <1>2
  <2> QED BY <2>2, <2>3, <2>4, <2>5
<1>5. \/ Goes(b, "loaded", 1, found, c, h, r) /\ (c = NoCache \/ (n = 5 /\ Adds(b)))
      \/ Goes(b, "listed", n + 1, found, c, h, r) /\ n \in 1..4 /\ Adds(b)
  BY <1>1, LoadFileGoes
<1> HIDE DEF f, n, h, r, old, found
<1>6. CASE Goes(b, "loaded", 1, found, c, h, r) /\ (c = NoCache \/ (n = 5 /\ Adds(b)))
  <2>1. c["corpus"] # <<>> =>
           /\ There("corpus") /\ c["corpus"] = disk["corpus"]
           /\ There("manifest") /\ c["manifest"] = disk["manifest"]
    BY <1>4, <1>6, NothingTypes
  <2>2. BuildOK("loaded", 1, found, c, h, r)
    BY <1>3, <2>1 DEF BuildOK, LoadedOK, WritingOK
  <2> QED BY <1>2, <1>6, <2>2, QuietBuild
<1>7. CASE Goes(b, "listed", n + 1, found, c, h, r) /\ n \in 1..4 /\ Adds(b)
  <2>1. n + 1 > 2 => n > 1
    BY <1>7
  <2>2. BuildOK("listed", n + 1, found, c, h, r)
    BY <1>3, <1>4, <1>7, <2>1 DEF BuildOK, LoadedOK, WritingOK
  <2> QED BY <1>2, <1>7, <2>2, QuietBuild
<1> QED BY <1>5, <1>6, <1>7

LEMMA HashFilesBuild ==
    ASSUME TypeInv, BuildInv, NEW b \in Builders, HashFiles(b)
    PROVE  BuildInv'
<1>1. PICK h : h = Seen(b)
  OBVIOUS
<1>2. /\ \/ Goes(b, "done", 1, {}, NoCache, h, Nothing)
         \/ /\ Goes(b, "hashed", at[b], files[b], cache[b], h, result[b])
            /\ \A s \in files[b] : json[s] # 0
      /\ UNCHANGED <<json, last, disk>> /\ pc[b] = "loaded"
  BY <1>1, HashFilesGoes DEF HashFiles
<1>3. Known(h)
  <2>1. last \in Nat /\ Known(json)
    BY ConstantsAssumption DEF TypeInv, Versions, BuildInv, DiskOK
  <2> QED BY <1>1, <2>1 DEF Known, Seen
<1>4. CASE Goes(b, "done", 1, {}, NoCache, h, Nothing)
  BY <1>2, <1>3, <1>4, EndedOK, QuietBuild
<1>5. CASE /\ Goes(b, "hashed", at[b], files[b], cache[b], h, result[b])
           /\ \A s \in files[b] : json[s] # 0
  <2>1. BuildOK(pc[b], at[b], files[b], cache[b], hashes[b], result[b])
    BY DEF BuildInv
  <2>2. \A s \in Sids : s \in files[b] <=> h[s] # 0
    BY <1>1, <1>5 DEF Seen
  <2>3. BuildOK("hashed", at[b], files[b], cache[b], h, result[b])
    BY <1>2, <1>3, <2>1, <2>2 DEF BuildOK, LoadedOK, WritingOK
  <2> QED BY <1>2, <1>5, <2>3, QuietBuild
<1> QED BY <1>2, <1>4, <1>5

\* What a build that has hashed the files knows of the cache it loaded.
LEMMA HashedFacts ==
    ASSUME TypeInv, BuildInv, NEW b \in Builders, pc[b] = "hashed"
    PROVE  LET old == cache[b]["corpus"]
               manifest == cache[b]["manifest"] IN
           /\ at[b] = 1 /\ Known(hashes[b]) /\ Sound(old) /\ Follows(old, manifest)
           /\ old # <<>> /\ There("manifest") => manifest = disk["manifest"]
           /\ \A s \in Sids : s \in files[b] <=> hashes[b][s] # 0
           /\ old # <<>> => \A s \in files[b] \ Modified(b) :
                 hashes[b][s] = manifest[s] /\ \E i \in DOMAIN old : old[i].sid = s
           /\ \A i \in DOMAIN old : old[i].sid \in files[b] \/ old[i].sid \in Deleted(b)
<1> DEFINE old == cache[b]["corpus"]
           manifest == cache[b]["manifest"]
<1>1. BuildOK(pc[b], at[b], files[b], cache[b], hashes[b], result[b]) /\ DiskOK
  BY DEF BuildInv
<1>2. /\ at[b] = 1 /\ Known(hashes[b])
      /\ \A s \in Sids : s \in files[b] <=> hashes[b][s] # 0
      /\ old # <<>> => /\ There("corpus") /\ old = disk["corpus"]
                       /\ There("manifest") /\ manifest = disk["manifest"]
  BY <1>1 DEF BuildOK, LoadedOK
<1>3. Sound(old) /\ Follows(old, manifest)
  <2>1. CASE old = <<>>
    BY <2>1 DEF Sound, Follows
  <2>2. CASE old # <<>>
    BY <1>1, <1>2, <2>2 DEF DiskOK
  <2> QED BY <2>1, <2>2
<1>4. old # <<>> => \A s \in files[b] \ Modified(b) :
         hashes[b][s] = manifest[s] /\ \E i \in DOMAIN old : old[i].sid = s
  BY DEF Modified, SidsOf, ToSet
<1>5. \A i \in DOMAIN old : old[i].sid \in files[b] \/ old[i].sid \in Deleted(b)
  BY DEF Deleted, SidsOf, ToSet
<1> QED BY <1>2, <1>3, <1>4, <1>5

LEMMA UseCacheBuild ==
    ASSUME TypeInv, BuildInv, NEW b \in Builders, UseCache(b)
    PROVE  BuildInv'
<1> DEFINE old == cache[b]["corpus"]
           h == hashes[b]
<1>1. PICK r : r = Cached(b)
  OBVIOUS
<1>2. /\ Goes(b, "done", 1, {}, NoCache, h, r) /\ r.corpus = old
      /\ UNCHANGED <<json, last, disk>> /\ pc[b] = "hashed"
      /\ Modified(b) = {} /\ Deleted(b) = {} /\ old # <<>>
  BY <1>1, UseCacheGoes DEF UseCache
<1>3. /\ Known(h) /\ Sound(old) /\ Follows(old, cache[b]["manifest"])
      /\ \A s \in Sids : s \in files[b] <=> h[s] # 0
      /\ \A s \in files[b] :
            h[s] = cache[b]["manifest"][s] /\ \E i \in DOMAIN old : old[i].sid = s
      /\ \A i \in DOMAIN old : old[i].sid \in files[b]
  BY <1>2, HashedFacts
<1>4. \A i \in DOMAIN old : old[i].sid \in Sids
  BY CacheTypes, DocsTypes
<1>5. Made(old, h)
  <2>1. Follows(old, h)
    BY <1>3 DEF Follows
  <2>2. \A i \in DOMAIN old : h[old[i].sid] # 0
    BY <1>3, <1>4
  <2>3. \A s \in Sids : h[s] # 0 => \E i \in DOMAIN old : old[i].sid = s
    BY <1>3
  <2> QED BY <1>3, <2>1, <2>2, <2>3 DEF Made
<1>6. BuildOK("done", 1, {}, NoCache, h, r)
  BY <1>2, <1>3, <1>5 DEF BuildOK, LoadedOK, WritingOK
<1> HIDE DEF h
<1> QED BY <1>2, <1>6, QuietBuild

\* What is kept is of a file whose hash the manifest has; the rest is read now.
LEMMA UpdatedMade ==
    ASSUME TypeInv, BuildInv, NEW b \in Builders, pc[b] = "hashed",
           \A s \in Modified(b) : json[s] # 0,
           NEW order \in SetToSeqs(Modified(b)),
           NEW corpus, corpus = Kept(b) \o WithTokens(order)
    PROVE  /\ corpus \in Corpora /\ Made(corpus, hashes[b])
           /\ cache[b]["corpus"] # <<>> \/ \A i \in DOMAIN corpus :
                 corpus[i].sid \in Modified(b) /\ corpus[i].version = json[corpus[i].sid]
           /\ Follows(corpus, cache[b]["manifest"])
<1> DEFINE old == cache[b]["corpus"]
           manifest == cache[b]["manifest"]
           h == hashes[b]
           gone == Modified(b) \cup Deleted(b)
<1>1. /\ corpus \in Corpora
      /\ Sound(old) => Sound(corpus)
      /\ \A i \in DOMAIN corpus :
            \/ corpus[i].sid \notin gone /\ \E k \in DOMAIN old : corpus[i] = old[k]
            \/ corpus[i].sid \in Modified(b) /\ corpus[i].version = json[corpus[i].sid]
      /\ \A k \in DOMAIN old :
            old[k].sid \notin gone => \E i \in DOMAIN corpus : corpus[i] = old[k]
      /\ \A s \in Modified(b) :
            json[s] \notin Blank => \E i \in DOMAIN corpus : corpus[i].sid = s
  BY UpdatedTexts
<1>2. /\ Sound(old) /\ Follows(old, manifest)
      /\ \A s \in Sids : s \in files[b] <=> h[s] # 0
      /\ old # <<>> => \A s \in files[b] \ Modified(b) :
            h[s] = manifest[s] /\ \E i \in DOMAIN old : old[i].sid = s
      /\ \A i \in DOMAIN old : old[i].sid \in files[b] \/ old[i].sid \in Deleted(b)
  BY HashedFacts
<1>3. /\ Modified(b) \subseteq files[b] /\ files[b] \in SUBSET Sids
      /\ old = <<>> => Modified(b) = files[b]
  BY Stays DEF Modified
<1>4. \A i \in DOMAIN corpus : corpus[i].sid \in Sids
  BY <1>1, DocsTypes
<1> HIDE DEF old, manifest, h
\* Each text of the new corpus is current, or kept and as the manifest says.
<1>5. ASSUME NEW i \in DOMAIN corpus
      PROVE  \/ corpus[i].sid \in Modified(b) /\ corpus[i].version = json[corpus[i].sid]
             \/ /\ old # <<>>
                /\ corpus[i].sid \in files[b] \ Modified(b)
                /\ h[corpus[i].sid] = manifest[corpus[i].sid]
                /\ \E k \in DOMAIN old : corpus[i] = old[k]
  <2>1. CASE corpus[i].sid \notin gone /\ \E k \in DOMAIN old : corpus[i] = old[k]
    <3>1. PICK k \in DOMAIN old : corpus[i] = old[k]
      BY <2>1
    <3>2. old # <<>>
      BY <3>1
    <3>3. corpus[i].sid \in files[b] \ Modified(b)
      BY <1>2, <2>1, <3>1
    <3> QED BY <1>2, <3>1, <3>2, <3>3
  <2> QED BY <1>1, <1>5, <2>1
<1>6. Follows(corpus, h)
  <2> SUFFICES ASSUME NEW i \in DOMAIN corpus, h[corpus[i].sid] # 0,
                      h[corpus[i].sid] = json[corpus[i].sid]
               PROVE  corpus[i].version = json[corpus[i].sid]
    BY DEF Follows
  <2> QED BY <1>2, <1>5 DEF Follows
<1>7. Follows(corpus, manifest)
  <2> SUFFICES ASSUME NEW i \in DOMAIN corpus, manifest[corpus[i].sid] # 0,
                      manifest[corpus[i].sid] = json[corpus[i].sid]
               PROVE  corpus[i].version = json[corpus[i].sid]
    BY DEF Follows
  <2> QED BY <1>2, <1>5 DEF Follows
<1>8. \A i \in DOMAIN corpus : h[corpus[i].sid] # 0
  BY <1>2, <1>3, <1>4, <1>5
<1>9. ASSUME NEW s \in Sids, h[s] # 0, json[s] \notin Blank
      PROVE  \E i \in DOMAIN corpus : corpus[i].sid = s
  <2>1. s \in files[b]
    BY <1>2, <1>9
  <2>2. CASE s \in Modified(b)
    BY <1>1, <1>9, <2>2
  <2>3. CASE s \notin Modified(b)
    <3>1. old # <<>>
      BY <1>3, <2>1, <2>3
    <3>2. PICK k \in DOMAIN old : old[k].sid = s
      BY <1>2, <2>1, <2>3, <3>1
    <3>3. s \notin gone
      BY <2>1, <2>3 DEF Deleted
    <3> QED BY <1>1, <3>2, <3>3
  <2> QED BY <2>2, <2>3
<1>10. Made(corpus, h)
  BY <1>1, <1>2, <1>6, <1>8, <1>9 DEF Made
<1>11. old # <<>> \/ \A i \in DOMAIN corpus :
          corpus[i].sid \in Modified(b) /\ corpus[i].version = json[corpus[i].sid]
  BY <1>5
<1> QED BY <1>1, <1>7, <1>10, <1>11 DEF old, manifest, h

LEMMA UpdateCorpusBuild ==
    ASSUME TypeInv, BuildInv, NEW b \in Builders, UpdateCorpus(b)
    PROVE  BuildInv'
<1>1. UNCHANGED <<json, last, disk>> /\ pc[b] = "hashed"
  BY DEF UpdateCorpus
<1>2. PICK h : h = hashes[b]
  OBVIOUS
<1>3. at[b] = 1 /\ Known(h)
  BY <1>1, <1>2, HashedFacts
<1>4. CASE Goes(b, "done", 1, {}, NoCache, h, Nothing)
  BY <1>1, <1>3, <1>4, EndedOK, QuietBuild
<1>5. CASE ~ Goes(b, "done", 1, {}, NoCache, h, Nothing)
  <2>1. PICK order \in SetToSeqs(Modified(b)) :
           /\ \A s \in Modified(b) : json[s] # 0
           /\ Goes(b, "next", at[b], {}, NoCache, h, Indexed(Kept(b) \o WithTokens(order)))
    BY <1>2, <1>5, UpdateCorpusGoes
  <2>2. PICK corpus : corpus = Kept(b) \o WithTokens(order)
    OBVIOUS
  <2>3. /\ corpus \in Corpora /\ Made(corpus, h)
        /\ cache[b]["corpus"] # <<>> \/ \A i \in DOMAIN corpus :
              corpus[i].sid \in Modified(b) /\ corpus[i].version = json[corpus[i].sid]
        /\ Follows(corpus, cache[b]["manifest"])
    BY <1>1, <1>2, <2>1, <2>2, UpdatedMade
  <2>4. There("manifest") => Follows(corpus, disk["manifest"])
    <3>1. CASE cache[b]["corpus"] # <<>>
      BY <1>1, <2>3, <3>1, HashedFacts
    <3>2. CASE cache[b]["corpus"] = <<>>
      BY <2>3, <3>2 DEF Follows
    <3> QED BY <3>1, <3>2
  <2>5. PICK r : r = Indexed(corpus)
    OBVIOUS
  <2>6. r.corpus = corpus /\ CacheFiles[1] # "manifest"
    BY <2>3, <2>5, IndexedTypes, Files
  <2>7. BuildOK("next", 1, {}, NoCache, h, r)
    BY <1>3, <2>3, <2>4, <2>6 DEF BuildOK, LoadedOK, WritingOK
  <2> QED BY <1>1, <1>3, <2>1, <2>2, <2>5, <2>7, QuietBuild
<1> QED BY <1>4, <1>5

\* A build alone finds no other that has the file open.
LEMMA OpenFileBuild ==
    ASSUME TypeInv, BuildInv, TakeTurns, NEW b \in Builders, OpenFile(b)
    PROVE  BuildInv'
<1>1. PICK n, found, c, h, r : /\ n = at[b] /\ found = files[b] /\ c = cache[b]
                               /\ h = hashes[b] /\ r = result[b]
  OBVIOUS
<1>2. PICK f : f = CacheFiles[n]
  OBVIOUS
<1>3. /\ pc[b] = "next" /\ ~Resting(b) /\ UNCHANGED <<json, last>>
      /\ Goes(b, "open", n, found, c, h, r) /\ f \in Names
  BY <1>1, <1>2, OpenFileGoes DEF OpenFile, Resting
<1>4. disk' = [disk EXCEPT ![f] = Torn]
  <2>1. ~ \E e \in Builders : HasOpen(e, f)
    BY <1>3 DEF HasOpen, TakeTurns, Resting
  <2> QED BY <1>1, <1>2, <2>1 DEF OpenFile
<1>5. /\ BuildOK(pc[b], n, found, c, h, r) /\ DiskOK
      /\ disk \in [Names -> Unreadable \cup Hashes \cup Corpora] /\ Torn \in Unreadable
  BY <1>1, DiskTypes DEF BuildInv, Unreadable
<1>6. disk'[f] = Torn /\ \A g \in Names : g # f => disk'[g] = disk[g]
  BY <1>3, <1>4, <1>5
<1>7. \A g \in Names : There(g)' => There(g) /\ disk'[g] = disk[g]
  BY <1>5, <1>6 DEF There
<1>8. DiskOK'
  BY <1>3, <1>5, <1>7, WrittenTypes DEF DiskOK, Known, Sound, Follows
<1>9. /\ Known(h)' /\ (Made(r.corpus, h) => Made(r.corpus, h)')
  BY <1>3, <1>5 DEF BuildOK, Known, Made, Sound, Follows
<1>10. WritingOK("open", n, r)'
  <2>1. /\ There("manifest") => Follows(r.corpus, disk["manifest"])
        /\ f = "manifest" => disk["corpus"] = r.corpus
    BY <1>2, <1>3, <1>5 DEF BuildOK, WritingOK
  <2>2. There("manifest")' => Follows(r.corpus, disk["manifest"])'
    BY <1>3, <1>7, <2>1, WrittenTypes DEF Follows
  <2>3. f = "manifest" => disk'["corpus"] = r.corpus
    BY <1>6, <2>1, WrittenTypes
  <2> QED BY <1>2, <1>6, <2>2, <2>3 DEF WritingOK
<1>11. BuildOK("open", n, found, c, h, r)'
  BY <1>3, <1>5, <1>9, <1>10 DEF BuildOK, LoadedOK
<1> QED BY <1>3, <1>8, <1>11, GoesBuild

\* The file is only this build's: it gets what is written.  A corpus goes beside a
\* manifest it follows, and the manifest beside the corpus it was made for.
LEMMA WriteFileBuild ==
    ASSUME TypeInv, BuildInv, TakeTurns, NEW b \in Builders, WriteFile(b)
    PROVE  BuildInv'
<1>1. PICK n, h, r, found, c : /\ n = at[b] /\ found = files[b] /\ c = cache[b]
                               /\ h = hashes[b] /\ r = result[b]
  OBVIOUS
<1>2. PICK f, what : f = CacheFiles[n] /\ what = Writes(b, f)
  OBVIOUS
<1>3. what = IF f = "manifest" THEN h ELSE r.corpus
  BY <1>1, <1>2 DEF Writes
<1>4. /\ pc[b] = "open" /\ ~Resting(b) /\ UNCHANGED <<json, last>>
      /\ f \in Names /\ n \in 1..5
      /\ \E left \in Left(f, what) : disk' = [disk EXCEPT ![f] = left]
      /\ \/ Goes(b, "done", 1, {}, NoCache, h, r)
         \/ Goes(b, "next", n + 1, found, c, h, r) /\ n \in 1..4
  BY <1>1, <1>2, WriteFileGoes, Stays DEF WriteFile, Resting
<1>5. (f = "manifest" <=> n = 5) /\ (f = "corpus" <=> n = 4)
  <2>1. n \in 1..3 \/ n = 4 \/ n = 5
    BY <1>4
  <2> QED BY <1>2, <2>1, Files
<1>6. /\ BuildOK(pc[b], n, found, c, h, r) /\ DiskOK
      /\ disk \in [Names -> Unreadable \cup Hashes \cup Corpora]
      /\ Known(h) /\ Made(r.corpus, h) /\ disk[f] = Torn
      /\ There("manifest") => Follows(r.corpus, disk["manifest"])
      /\ f = "manifest" => disk["corpus"] = r.corpus
  <2>1. BuildOK(pc[b], n, found, c, h, r) /\ DiskOK
    BY <1>1 DEF BuildInv
  <2> QED BY <1>2, <1>4, <2>1, DiskTypes DEF BuildOK, WritingOK
<1>7. disk' = [disk EXCEPT ![f] = what]
  BY <1>4, <1>6 DEF Left
<1>8. disk'[f] = what /\ \A g \in Names : g # f => disk'[g] = disk[g]
  BY <1>4, <1>6, <1>7
<1>9. Known(h)' /\ Made(r.corpus, h)' /\ Follows(r.corpus, h)' /\ Sound(r.corpus)
  BY <1>4, <1>6 DEF Known, Made, Sound, Follows
<1>10. CASE n = 5
  <2>1. disk'["manifest"] = h /\ disk'["corpus"] = r.corpus
    BY <1>3, <1>5, <1>6, <1>8, <1>10, WrittenTypes
  <2>2. DiskOK'
    BY <1>4, <1>6, <1>9, <2>1 DEF DiskOK, Known, There, Sound, Follows
  <2>3. BuildOK("done", 1, {}, NoCache, h, r)'
    BY <1>9 DEF BuildOK, LoadedOK, WritingOK
  <2>4. Goes(b, "done", 1, {}, NoCache, h, r)
    BY <1>4, <1>10
  <2> QED BY <1>4, <2>2, <2>3, <2>4, GoesBuild
<1>11. CASE n # 5
  <2>1. disk'["manifest"] = disk["manifest"] /\ (There("manifest")' => There("manifest"))
    BY <1>5, <1>8, <1>11, WrittenTypes DEF There
  <2>2. n = 4 => disk'["corpus"] = r.corpus
    BY <1>3, <1>5, <1>8
  <2>3. n # 4 => disk'["corpus"] = disk["corpus"]
    BY <1>5, <1>8, WrittenTypes
  <2>4. There("manifest")' => Follows(r.corpus, disk["manifest"])'
    BY <1>4, <1>6, <2>1 DEF Follows
  <2>5. DiskOK'
    <3>1. Known(json)' /\ (There("manifest")' => Known(disk["manifest"])')
      BY <1>4, <1>6, <2>1 DEF DiskOK, Known
    <3>2. CASE n = 4
      BY <1>9, <2>2, <2>4, <3>1, <3>2 DEF DiskOK, Sound, Follows
    <3>3. CASE n # 4
      <4>1. There("corpus")' => There("corpus")
        BY <2>3, <3>3 DEF There
      <4>2. There("corpus")' /\ There("manifest")' => Follows(disk["corpus"], disk["manifest"])'
        BY <1>4, <1>6, <2>1, <2>3, <3>3, <4>1 DEF DiskOK, Follows
      <4> QED BY <1>6, <2>3, <3>1, <3>3, <4>1, <4>2 DEF DiskOK, Sound
    <3> QED BY <3>2, <3>3
  <2>6. n \in 1..4 /\ n + 1 \in 1..5
    BY <1>4, <1>11
  <2>7. CacheFiles[n + 1] = "manifest" => n = 4
    <3>1. n + 1 \in 1..3 \/ n + 1 = 4 \/ n + 1 = 5
      BY <2>6
    <3> QED BY <2>6, <3>1, Files
  <2>8. WritingOK("next", n + 1, r)'
    BY <2>2, <2>4, <2>7 DEF WritingOK
  <2>9. BuildOK("next", n + 1, found, c, h, r)'
    BY <1>4, <1>9, <2>8 DEF BuildOK, LoadedOK
  <2>10. Goes(b, "next", n + 1, found, c, h, r) \/ Goes(b, "done", 1, {}, NoCache, h, r)
    BY <1>4
  <2>11. BuildOK("done", 1, {}, NoCache, h, r)'
    BY <1>9 DEF BuildOK, LoadedOK, WritingOK
  <2> QED BY <1>4, <2>5, <2>9, <2>10, <2>11, GoesBuild
<1> QED BY <1>10, <1>11

LEMMA BreakBuild ==
    ASSUME TypeInv, BuildInv, NEW b \in Builders, Break(b)
    PROVE  BuildInv'
<1>1. PICK h : h = hashes[b]
  OBVIOUS
<1>2. Goes(b, "done", 1, {}, NoCache, h, Nothing) /\ UNCHANGED <<json, last, disk>>
  BY <1>1, BreakGoes DEF Break
<1>3. Known(h)
  BY <1>1 DEF BuildInv, BuildOK
<1>4. BuildOK("done", 1, {}, NoCache, h, Nothing)
  BY <1>3, EndedOK
<1> QED BY <1>2, <1>4, QuietBuild

LEMMA BuildKept == TypeInv /\ BuildInv /\ TakeTurns /\ [Next]_vars => BuildInv'
<1> SUFFICES ASSUME TypeInv, BuildInv, TakeTurns, [Next]_vars PROVE BuildInv'
  OBVIOUS
<1>1. CASE UNCHANGED vars
  <2>1. UNCHANGED <<json, last, disk, pc, at, files, cache, hashes, result>>
    BY <1>1 DEF vars, localVars
  <2>2. DiskOK'
    BY <2>1 DEF BuildInv, DiskOK, Known, There, Sound, Follows
  <2>3. ASSUME NEW b \in Builders
        PROVE  BuildOK(pc[b], at[b], files[b], cache[b], hashes[b], result[b])'
    <3>1. BuildOK(pc[b], at[b], files[b], cache[b], hashes[b], result[b])
      BY DEF BuildInv
    <3> QED BY <2>1, <3>1
            DEF BuildOK, LoadedOK, WritingOK, Made, Known, There, Sound, Follows
  <2> QED BY <2>2, <2>3 DEF BuildInv
<1>2. ASSUME NEW s \in Sids, SaveJson(s) \/ DeleteJson(s) PROVE BuildInv'
  BY <1>2, JsonBuild
<1>3. ASSUME NEW b \in Builders, Build(b) \/ Break(b) PROVE BuildInv'
  BY <1>3, BeginBuild, LoadFileBuild, HashFilesBuild, UseCacheBuild, UpdateCorpusBuild,
     OpenFileBuild, WriteFileBuild, BreakBuild DEF Build
<1> QED BY <1>1, <1>2, <1>3 DEF Next

-----------------------------------------------------------------------------
(* The theorems.                                                           *)

\* Types are kept: the locals, the five files and what is loaded of them, for any
\* number of builders, whatever a mix of two writes holds.
THEOREM IndexTypeCorrect == Spec => []TypeOK
<1>1. TypeInv => TypeOK
  <2> SUFFICES ASSUME TypeInv PROVE TypeOK
    OBVIOUS
  <2>1. Steps = 1..5 /\ ToSet(CacheFiles) = Names
    BY Files
  <2>2. \A f \in Names : disk[f] \in Unreadable \/ disk[f] \in Written(f)
    BY DEF TypeInv, Contents
  <2>3. \A b \in Builders, f \in Names : cache[b][f] \in Written(f)
    BY DEF TypeInv, Caches
  <2> QED BY <2>1, <2>2, <2>3 DEF TypeInv, TypeOK
<1> QED BY <1>1, TypesHold, PTL

\* No question is answered from two versions of one file, however the files
\* changed while a build read them and however builds overlapped, unless a file
\* that two of them wrote at once parses (_update_corpus, served by BM25Manager).
THEOREM ServedCorrect ==
    ASSUME MixesAreNoticed
    PROVE  Spec => []ServedOneVersion
<1>1. SoundInv => ServedOneVersion
  BY DEF SoundInv, ServedOneVersion, Sound, ToSet
<1> QED BY <1>1, TypesHold, SoundAtStart, SoundKept, PTL DEF Spec

\* While builds take turns, one that ends while the JSON files are still those it
\* hashed returns their texts, no other, and each once, whatever earlier builds
\* left half written (build_or_load, _detect_changes and _update_corpus).
THEOREM CorpusCorrect == Spec /\ []TakeTurns => []CurrentCorpusIsExact
<1>1. TypeInv /\ BuildInv => CurrentCorpusIsExact
  <2> SUFFICES ASSUME TypeInv, BuildInv, NEW b \in Builders, pc[b] = "done",
                      result[b] # Nothing, hashes[b] = json
               PROVE  /\ ToSet(result[b].corpus) =
                            {d \in Docs : d.version = json[d.sid] /\ d.version \notin Blank}
                      /\ IsInjective(result[b].corpus)
    BY DEF CurrentCorpusIsExact
  <2> DEFINE corpus == result[b].corpus
  <2>1. Made(corpus, json)
    BY DEF BuildInv, BuildOK
  <2>2. corpus \in Corpora
    <3>1. result[b] \in Results
      BY DEF TypeInv
    <3> QED BY <3>1 DEF Results
  <2> HIDE DEF corpus
  <2>3. \A i \in DOMAIN corpus : /\ corpus[i] \in Docs /\ corpus[i].sid \in Sids
                               /\ corpus[i].version = json[corpus[i].sid]
                               /\ corpus[i].version \notin Blank
    BY <2>1, <2>2, DocsTypes DEF Made, Follows, Sound
  <2>4. ASSUME NEW d \in Docs, d.version = json[d.sid], d.version \notin Blank
        PROVE  \E i \in DOMAIN corpus : corpus[i] = d
    <3>1. d.sid \in Sids /\ d.version \in 1..MaxVersion
          /\ d = [sid |-> d.sid, version |-> d.version]
      BY DEF Docs
    <3>2. json[d.sid] # 0
      BY <2>4, <3>1
    <3>3. PICK i \in DOMAIN corpus : corpus[i].sid = d.sid
      BY <2>1, <2>4, <3>1, <3>2 DEF Made
    <3>4. corpus[i] = [sid |-> corpus[i].sid, version |-> corpus[i].version]
      BY <2>3 DEF Docs
    <3> QED BY <2>3, <2>4, <3>1, <3>3, <3>4
  <2>5. ToSet(corpus) = {d \in Docs : d.version = json[d.sid] /\ d.version \notin Blank}
    BY <2>3, <2>4 DEF ToSet
  <2>6. IsInjective(corpus)
    BY <2>1 DEF Made, Sound, IsInjective
  <2> QED BY <2>5, <2>6 DEF corpus
<1> QED BY <1>1, TypesHold, BuildAtStart, BuildKept, PTL DEF Spec
=============================================================================
