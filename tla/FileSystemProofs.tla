-------------------------- MODULE FileSystemProofs --------------------------
(***************************************************************************)
(* The FAT32 driver on disks of any size, with folders of any length and   *)
(* any requests.  First, for every client and wherever the machine stops:  *)
(* what the driver keeps in memory is of the right kind, and its FAT is    *)
(* the one on the disk.  Then, for careful clients: the disk is sound      *)
(* (TreeKept) after every operation, so chains are apart, ".." leads up,   *)
(* everything can be read back and nothing is lost; and whichever of its   *)
(* writes are done (CrashKept) an operation leaves everything else alone.  *)
(* And the driver implements a tree of files: the objects of a disk are    *)
(* the least set that has the root and what its folders name, their names  *)
(* differ in each folder (NamesKept), and an operation adds one object,    *)
(* takes one away with all that is in it, or gives it another path.        *)
(***************************************************************************)
EXTENDS FileSystem, Lemmas, FiniteSetTheorems, TLAPS

-----------------------------------------------------------------------------
(* Types *)

FatWords == Clusters \cup {NoCluster, JUNK, CLUSTER_0_VALUE, FAT32_FAT_END_OF_FILE}

FatMaps  == [Clusters -> FatWords]

Tables   == [Indices -> EntryType]

\* What a cluster can hold, and a write to a cluster.
Stored == {Signature} \cup {Fat(map) : map \in FatMaps} \cup {Table(t) : t \in Tables}
            \cup {Bytes(c, k) : c \in Contents, k \in Nat}

Writes == [at : Clusters, content : Stored]

\* The variables of the driver are of these.
DriverTypes ==
  /\ disk \in [Clusters -> Stored]
  /\ fat \in FatMaps
  /\ queue \in Seq(Writes)
  /\ busy \in Clusters \cup {NoCluster}
  /\ power \in {"off", "on", "hung"}

-----------------------------------------------------------------------------
(* Walks along the FAT and down the folders *)

\* The word after a word.
After(map, w) == IF w \in Clusters THEN map[w] ELSE w

\* The words a walk can meet.
WordsFrom(map, cluster) == Clusters \cup {cluster} \cup {map[c] : c \in Clusters}

\* Cluster numbers are natural numbers and end where the disk does.
LEMMA ClusterRange ==
  /\ CLUSTER_MAP_SIZE \in Nat /\ CLUSTER_MAP_SIZE >= 4 /\ Clusters \subseteq Nat
  /\ \A c \in Clusters : c < CLUSTER_MAP_SIZE
  /\ 0 \in Clusters /\ 1 \in Clusters /\ 2 \in Clusters /\ 3 \in Clusters
  /\ NoCluster \notin Clusters /\ JUNK \notin Clusters
  /\ CLUSTER_0_VALUE \notin Clusters /\ FAT32_FAT_END_OF_FILE \notin Clusters
<1>1. CLUSTER_MAP_SIZE \in Nat /\ CLUSTER_MAP_SIZE >= 4
      /\ CLUSTER_MAP_SIZE <= CLUSTER_0_VALUE /\ CLUSTER_MAP_SIZE <= FAT32_FAT_END_OF_FILE
      /\ CLUSTER_0_VALUE \in Nat /\ FAT32_FAT_END_OF_FILE \in Nat
  <2>1. CLUSTER_MAP_SIZE \in Nat /\ CLUSTER_MAP_SIZE > 3 /\ CLUSTER_MAP_SIZE <= 268435440
    BY Fat32Assumption, SMT
  <2>2. CLUSTER_0_VALUE = 268435440
    BY SMT DEF CLUSTER_0_VALUE
  <2>3. FAT32_FAT_END_OF_FILE = 268435455
    BY SMT DEF FAT32_FAT_END_OF_FILE
  <2> QED
    BY <2>1, <2>2, <2>3, SMT
<1>2. Clusters \subseteq Nat /\ \A c \in Clusters : c < CLUSTER_MAP_SIZE
  BY <1>1, SMT DEF Clusters
<1>3. 0 \in Clusters /\ 1 \in Clusters /\ 2 \in Clusters /\ 3 \in Clusters
  BY <1>1, SMT DEF Clusters
<1>4. NoCluster \notin Clusters /\ JUNK \notin Clusters
  BY SMT DEF Clusters, NoCluster, JUNK
<1>5. CLUSTER_0_VALUE \notin Clusters /\ FAT32_FAT_END_OF_FILE \notin Clusters
  BY <1>1, SMT DEF Clusters
<1> QED
  BY <1>1, <1>2, <1>3, <1>4, <1>5

\* A walk goes from word to word.
LEMMA WalkSteps ==
  ASSUME NEW map, NEW cluster
  PROVE  /\ Walk(map, cluster) \in [0 .. CLUSTER_MAP_SIZE -> WordsFrom(map, cluster)]
         /\ Walk(map, cluster)[0] = cluster
         /\ \A n \in 0 .. CLUSTER_MAP_SIZE - 1 :
              Walk(map, cluster)[n + 1] = After(map, Walk(map, cluster)[n])
<1> DEFINE N     == CLUSTER_MAP_SIZE
           words == Clusters \cup {cluster} \cup {map[c] : c \in Clusters}
           next  == [w \in words |-> IF w \in Clusters THEN map[w] ELSE w]
           F     == [p \in (0 .. N) \X words |-> next[p[2]]]
           Rec(h) == h = [n \in 0 .. N |-> IF n = 0 THEN cluster ELSE next[h[n - 1]]]
           w     == CHOOSE h : Rec(h)
<1>1. N \in Nat /\ cluster \in words /\ next \in [words -> words]
      /\ \A x \in words : next[x] = After(map, x)
  BY ClusterRange DEF After
<1> HIDE DEF words, next, N
<1>2. F \in StepMaps(N, words)
  BY <1>1 DEF StepMaps
<1>3. PICK f \in [0 .. N -> words] : Iterates(f, N, cluster, F)
  <2> HIDE DEF F
  <2> QED
    BY <1>1, <1>2, Iterated
<1>4. \A n \in 0 .. N - 1 : n \in 0 .. N /\ n + 1 \in 0 .. N
  BY <1>1
<1>5. Rec(f)
  <2>1. ASSUME NEW n \in 0 .. N PROVE f[n] = IF n = 0 THEN cluster ELSE next[f[n - 1]]
    <3>1. CASE n = 0
      BY <1>3, <3>1 DEF Iterates
    <3>2. CASE n # 0
      <4>1. n - 1 \in 0 .. N - 1 /\ n - 1 \in 0 .. N /\ (n - 1) + 1 = n
        BY <1>1, <3>2
      <4>2. f[n] = F[<<n - 1, f[n - 1]>>] /\ f[n - 1] \in words
        BY <1>3, <4>1 DEF Iterates
      <4>3. F[<<n - 1, f[n - 1]>>] = next[f[n - 1]]
        BY <4>1, <4>2
      <4> QED
        BY <3>2, <4>2, <4>3
    <3> QED
      BY <3>1, <3>2
  <2> QED
    BY <2>1
<1>6. Rec(w)
  BY <1>5
<1>7. Walk(map, cluster) = w
  BY DEF Walk, words, next, N
<1> HIDE DEF w, F
<1>8. w[0] = cluster /\ \A n \in 0 .. N - 1 : w[n + 1] = next[w[n]]
  <2>1. 0 \in 0 .. N
    BY <1>1
  <2>2. ASSUME NEW n \in 0 .. N - 1 PROVE w[n + 1] = next[w[n]]
    <3>1. n + 1 \in 0 .. N /\ n + 1 # 0 /\ (n + 1) - 1 = n
      BY <1>1
    <3> QED
      BY <1>6, <3>1
  <2> QED
    BY <1>6, <2>1, <2>2
<1>9. \A n \in 0 .. N : w[n] \in words
  <2> DEFINE E == {n \in 0 .. N : w[n] \in words}
  <2>1. E \in SUBSET (0 .. N) /\ 0 \in E
    BY <1>1, <1>8
  <2>2. \A n \in 0 .. N - 1 : n \in E => n + 1 \in E
    BY <1>1, <1>4, <1>8
  <2> HIDE DEF E
  <2>3. E = 0 .. N
    BY <1>1, <2>1, <2>2, AllUpTo
  <2> QED
    BY <2>3 DEF E
<1>10. w \in [0 .. N -> words]
  BY <1>6, <1>9
<1>11. \A n \in 0 .. N - 1 : w[n + 1] = After(map, w[n])
  BY <1>1, <1>4, <1>8, <1>9
<1> QED
  BY <1>7, <1>8, <1>10, <1>11 DEF N, words, WordsFrom

\* What is at or below the folders of S, level by level.
Levels(d, S) ==
  {b \in [0 .. CLUSTER_MAP_SIZE -> SUBSET (Clusters \cup S)] :
     /\ b[0] = S
     /\ \A n \in 0 .. CLUSTER_MAP_SIZE - 1 : b[n + 1] = S \cup SubfoldersOn(d, b[n])
     /\ BelowOn(d, S) = b[CLUSTER_MAP_SIZE]}

\* There are such levels.
LEMMA BelowSteps ==
  ASSUME NEW d, NEW S
  PROVE  Levels(d, S) # {}
<1> DEFINE N == CLUSTER_MAP_SIZE
           D == SUBSET (Clusters \cup S)
           F == [p \in (0 .. N) \X D |-> S \cup SubfoldersOn(d, p[2])]
           Rec(h) == h = [n \in 0 .. N |-> IF n = 0 THEN S ELSE S \cup SubfoldersOn(d, h[n - 1])]
           b == CHOOSE h : Rec(h)
<1>1. N \in Nat /\ S \in D
  BY ClusterRange
<1>2. \A X : S \cup SubfoldersOn(d, X) \in D
  BY DEF SubfoldersOn
<1> HIDE DEF N, D
<1>3. F \in StepMaps(N, D)
  BY <1>2 DEF StepMaps
<1>4. PICK f \in [0 .. N -> D] : Iterates(f, N, S, F)
  <2> HIDE DEF F
  <2> QED
    BY <1>1, <1>3, Iterated
<1>5. Rec(f)
  <2>1. ASSUME NEW n \in 0 .. N PROVE f[n] = IF n = 0 THEN S ELSE S \cup SubfoldersOn(d, f[n - 1])
    <3>1. CASE n = 0
      BY <1>4, <3>1 DEF Iterates
    <3>2. CASE n # 0
      <4>1. n - 1 \in 0 .. N - 1 /\ n - 1 \in 0 .. N /\ (n - 1) + 1 = n
        BY <1>1, <3>2
      <4>2. f[n] = F[<<n - 1, f[n - 1]>>] /\ f[n - 1] \in D
        BY <1>4, <4>1 DEF Iterates
      <4>3. F[<<n - 1, f[n - 1]>>] = S \cup SubfoldersOn(d, f[n - 1])
        BY <4>1, <4>2
      <4> QED
        BY <3>2, <4>2, <4>3
    <3> QED
      BY <3>1, <3>2
  <2> QED
    BY <2>1
<1>6. Rec(b)
  BY <1>5
<1>7. BelowOn(d, S) = b[N]
  BY DEF BelowOn, N
<1> HIDE DEF b, F
<1>8. 0 \in 0 .. N /\ \A n \in 0 .. N - 1 : n + 1 \in 0 .. N /\ n + 1 # 0 /\ (n + 1) - 1 = n
  BY <1>1
<1>9. b[0] = S /\ \A n \in 0 .. N - 1 : b[n + 1] = S \cup SubfoldersOn(d, b[n])
  BY <1>6, <1>8
<1>10. b \in [0 .. N -> D]
  BY <1>1, <1>2, <1>6
<1> QED
  BY <1>7, <1>9, <1>10 DEF N, D, Levels

-----------------------------------------------------------------------------
(* Contents of clusters *)

\* The kind of what a cluster holds says of which type it is.
LEMMA StoredKinds ==
  ASSUME NEW x \in Stored
  PROVE  /\ x.kind \in {"signature", "fat", "table", "bytes"}
         /\ x.kind = "fat" => x.map \in FatMaps
         /\ x.kind = "table" => x.entries \in Tables
<1>1. CASE x = Signature
  BY <1>1 DEF Signature
<1>2. CASE \E map \in FatMaps : x = Fat(map)
  BY <1>2 DEF Fat
<1>3. CASE \E t \in Tables : x = Table(t)
  BY <1>3 DEF Table
<1>4. CASE \E c \in Contents, k \in Nat : x = Bytes(c, k)
  BY <1>4 DEF Bytes
<1> QED
  BY <1>1, <1>2, <1>3, <1>4 DEF Stored

\* What the driver writes can be stored.
LEMMA StoredValues ==
  /\ Signature \in Stored
  /\ \A map \in FatMaps : Fat(map) \in Stored
  /\ \A t \in Tables : Table(t) \in Stored
  /\ \A c \in Contents, k \in Nat : Bytes(c, k) \in Stored
BY DEF Stored

\* Indices of a table.
LEMMA IndexRange ==
  /\ DIRECTORY_LENGTH \in Nat /\ DIRECTORY_LENGTH > 2
  /\ Indices = 0 .. DIRECTORY_LENGTH - 1 /\ Items = 2 .. DIRECTORY_LENGTH - 1
  /\ Items \subseteq Indices /\ Indices \subseteq Nat /\ 0 \in Indices /\ 1 \in Indices
  /\ 0 \notin Items /\ 1 \notin Items
<1>1. DIRECTORY_LENGTH \in Nat /\ DIRECTORY_LENGTH > 2
  BY Fat32Assumption
<1> QED
  BY <1>1 DEF Indices, Items

\* Entries the driver makes.
LEMMA EntryValues ==
  /\ NoEntry \in EntryType /\ NoEntries \in Tables /\ Zeroes \in Stored
  /\ ~NoEntry.used /\ NoEntry.cluster = 0
  /\ \A name \in Names \cup {NoName, ".", ".."}, c \in Clusters \cup {NoCluster} :
       FolderEntry(name, c) \in EntryType
<1>1. NoExt \in Exts
  BY Fat32Assumption
<1>2. NoEntry \in EntryType
  BY <1>1, ClusterRange DEF NoEntry, EntryType
<1>3. NoEntries \in Tables
  BY <1>2 DEF NoEntries, Tables
<1>4. Zeroes \in Stored
  BY <1>3, StoredValues DEF Zeroes
<1>5. ~NoEntry.used /\ NoEntry.cluster = 0
  BY DEF NoEntry
<1>6. \A name \in Names \cup {NoName, ".", ".."}, c \in Clusters \cup {NoCluster} :
        FolderEntry(name, c) \in EntryType
  BY <1>1 DEF FolderEntry, EntryType
<1> QED
  BY <1>2, <1>3, <1>4, <1>5, <1>6

\* Whatever is read as a table has entries.
LEMMA EntriesTyped ==
  ASSUME NEW d \in [Clusters -> Stored], NEW c
  PROVE  EntriesOn(d, c) \in Tables
BY EntryValues, StoredKinds DEF EntriesOn

\* A write is a sequence of at most one write.
LEMMA PutTyped ==
  ASSUME NEW cluster, NEW content \in Stored
  PROVE  Put(cluster, content) \in Seq(Writes)
<1>1. CASE cluster \in Clusters
  <2>1. [at |-> cluster, content |-> content] \in Writes
    BY <1>1 DEF Writes
  <2> QED
    BY <1>1, <2>1 DEF Put
<1>2. CASE cluster \notin Clusters
  BY <1>2 DEF Put
<1> QED
  BY <1>1, <1>2

\* The clusters erased are some of those named.
LEMMA EraseTyped ==
  ASSUME NEW C, NEW clusters \in Seq(C)
  PROVE  Erase(clusters) \in Seq({w \in Writes : w.at \in C /\ w.content = Zeroes})
<1> DEFINE W    == {w \in Writes : w.at \in C /\ w.content = Zeroes}
           puts == [k \in DOMAIN clusters |-> Put(clusters[k], Zeroes)]
<1>1. ASSUME NEW c \in C PROVE Put(c, Zeroes) \in Seq(W)
  <2>1. CASE c \in Clusters
    <3>1. [at |-> c, content |-> Zeroes] \in W
      BY <2>1, EntryValues DEF Writes
    <3> HIDE DEF W
    <3> QED
      BY <2>1, <3>1 DEF Put
  <2>2. CASE c \notin Clusters
    BY <2>2 DEF Put
  <2> QED
    BY <2>1, <2>2
<1> HIDE DEF W
<1>2. puts \in Seq(Seq(W))
  <2>1. Len(clusters) \in Nat /\ DOMAIN clusters = 1 .. Len(clusters)
        /\ \A k \in 1 .. Len(clusters) : clusters[k] \in C
    OBVIOUS
  <2>2. puts = [k \in 1 .. Len(clusters) |-> Put(clusters[k], Zeroes)]
    BY <2>1
  <2> HIDE DEF puts
  <2> QED
    BY <1>1, <2>1, <2>2
<1> HIDE DEF puts
<1>3. FlattenSeq(puts) \in Seq(W)
  BY <1>2, FlattenIn
<1> QED
  BY <1>3 DEF Erase, puts, W

-----------------------------------------------------------------------------
(* Tables *)

\* The first hole of a table, or its length.
LEMMA FirstHoleIs ==
  ASSUME NEW t
  PROVE  /\ FirstHole(t) \in 2 .. DIRECTORY_LENGTH
         /\ ~Full(t) => FirstHole(t) \in Items /\ ~t[FirstHole(t)].used
         /\ \A i \in Items : i < FirstHole(t) => t[i].used
<1>1. CASE Full(t)
  BY <1>1, IndexRange DEF FirstHole, Full, Holes
<1>2. CASE ~Full(t)
  <2>1. Holes(t) \in SUBSET Nat /\ Holes(t) # {}
    BY <1>2, IndexRange DEF Holes, Full
  <2>2. Min(Holes(t)) \in Holes(t) /\ \A y \in Holes(t) : Min(Holes(t)) <= y
    BY <2>1, MinIsLeast
  <2>3. FirstHole(t) = Min(Holes(t))
    BY <1>2 DEF FirstHole
  <2>4. FirstHole(t) \in Items /\ ~t[FirstHole(t)].used
    BY <2>2, <2>3 DEF Holes
  <2>5. \A i \in Items : i < FirstHole(t) => t[i].used
    BY <2>2, <2>3, IndexRange DEF Holes
  <2> QED
    BY <2>4, <2>5, IndexRange
<1> QED
  BY <1>1, <1>2

\* Tables stay tables when entries are added and removed.
LEMMA TablesKept ==
  ASSUME NEW t \in Tables
  PROVE  /\ \A i \in Indices : RemoveEntry(t, i) \in Tables
         /\ \A e \in EntryType : AddEntry(t, e) \in Tables
         /\ \A e \in EntryType : \A i : [t EXCEPT ![i] = e] \in Tables
<1>1. \A e \in EntryType : \A i : [t EXCEPT ![i] = e] \in Tables
  BY DEF Tables
<1>2. ASSUME NEW i \in Indices PROVE RemoveEntry(t, i) \in Tables
  <2>1. CASE Full(t)
    BY <1>1, <2>1, EntryValues DEF RemoveEntry
  <2>2. CASE ~Full(t)
    <3> DEFINE last == FirstHole(t) - 1
    <3>1. last \in Indices
      BY <2>2, FirstHoleIs, IndexRange
    <3> HIDE DEF last
    <3>2. t[last] \in EntryType
      BY <3>1 DEF Tables
    <3>3. [t EXCEPT ![i] = t[last]] \in Tables
      BY <1>1, <3>2
    <3>4. [t EXCEPT ![i] = t[last], ![last] = NoEntry] \in Tables
      BY <3>3, EntryValues DEF Tables
    <3> QED
      BY <2>2, <3>4 DEF RemoveEntry, last
  <2> QED
    BY <2>1, <2>2
<1>3. \A e \in EntryType : AddEntry(t, e) \in Tables
  BY <1>1 DEF AddEntry
<1> QED
  BY <1>1, <1>2, <1>3

-----------------------------------------------------------------------------
(* The FAT *)

\* The words the driver puts into the FAT.
LEMMA FatWordValues ==
  /\ Clusters \subseteq FatWords /\ NoCluster \in FatWords /\ JUNK \in FatWords
  /\ CLUSTER_0_VALUE \in FatWords /\ FAT32_FAT_END_OF_FILE \in FatWords
  /\ FAT32_FAT_EMPTY_ENTRY \in FatWords
BY ClusterRange DEF FatWords, FAT32_FAT_EMPTY_ENTRY

\* There are finitely many clusters.
LEMMA ClustersFinite ==
  /\ IsFiniteSet(Clusters)
  /\ \A S \in SUBSET Clusters : IsFiniteSet(S) /\ Cardinality(S) \in Nat
  /\ Cardinality(Clusters) = CLUSTER_MAP_SIZE
<1>1. 0 \in Int /\ CLUSTER_MAP_SIZE - 1 \in Int /\ 0 <= CLUSTER_MAP_SIZE - 1
      /\ (CLUSTER_MAP_SIZE - 1) - 0 + 1 = CLUSTER_MAP_SIZE
  BY ClusterRange
<1>2. IsFiniteSet(Clusters) /\ Cardinality(Clusters) = CLUSTER_MAP_SIZE
  BY <1>1, FS_Interval DEF Clusters
<1>3. ASSUME NEW S \in SUBSET Clusters PROVE IsFiniteSet(S) /\ Cardinality(S) \in Nat
  BY <1>2, FS_Subset, FS_CardinalityType
<1> QED
  BY <1>2, <1>3

\* The cluster found is empty, and none comes before it.
LEMMA EmptyFound ==
  ASSUME NEW map
  PROVE  /\ EmptyClusters(map) \in SUBSET Clusters
         /\ \/ EmptyClusters(map) = {} /\ get_empty_cluster(map) = NoCluster
            \/ /\ get_empty_cluster(map) \in EmptyClusters(map)
               /\ \A c \in EmptyClusters(map) : get_empty_cluster(map) <= c
<1>1. EmptyClusters(map) \in SUBSET Clusters /\ Clusters \in SUBSET Nat
  BY ClusterRange DEF EmptyClusters
<1>2. CASE EmptyClusters(map) = {}
  BY <1>1, <1>2 DEF get_empty_cluster
<1>3. CASE EmptyClusters(map) # {}
  <2>1. EmptyClusters(map) \in SUBSET Nat
    BY <1>1
  <2>2. /\ Min(EmptyClusters(map)) \in EmptyClusters(map)
        /\ \A c \in EmptyClusters(map) : Min(EmptyClusters(map)) <= c
    BY <1>3, <2>1, MinIsLeast
  <2> QED
    BY <1>1, <1>3, <2>2 DEF get_empty_cluster
<1> QED
  BY <1>2, <1>3

\* The members of a set below one of them.
Lower(S, c) == {d \in S : d < c}

\* Every place in a finite set of numbers is somebody's.
LEMMA PlaceTaken ==
  ASSUME NEW S \in SUBSET Clusters, NEW r \in Nat, r < Cardinality(S)
  PROVE  \E c \in S : Cardinality(Lower(S, c)) = r
<1> DEFINE rank(c) == Cardinality(Lower(S, c))
           T       == {c \in S : rank(c) >= r}
<1>1. /\ S \in SUBSET (0 .. CLUSTER_MAP_SIZE) /\ S \in SUBSET Nat /\ IsFiniteSet(S)
      /\ CLUSTER_MAP_SIZE \in Nat /\ Cardinality(S) \in Nat
  BY ClusterRange, ClustersFinite
<1>2. \A c : IsFiniteSet(Lower(S, c)) /\ rank(c) \in Nat /\ Lower(S, c) \in SUBSET S
  <2>1. \A c : Lower(S, c) \in SUBSET Clusters /\ Lower(S, c) \in SUBSET S
    BY DEF Lower
  <2> QED
    BY <2>1, ClustersFinite
<1>3. ASSUME NEW c \in S, NEW R \in SUBSET S, R = Lower(S, c) \cup {c}
      PROVE  Cardinality(R) = rank(c) + 1
  <2>1. c \notin Lower(S, c)
    BY <1>1 DEF Lower
  <2> QED
    BY <1>2, <1>3, <2>1, FS_AddElement
<1>4. S # {}
  BY <1>1, FS_EmptySet
<1>5. T # {}
  <2> DEFINE m == Max(S)
  <2>1. m \in S /\ \A y \in S : y <= m
    BY <1>1, <1>4, MaxIsGreatest
  <2> HIDE DEF m
  <2>2. S = Lower(S, m) \cup {m}
    <3>1. ASSUME NEW y \in S, y # m PROVE y < m
      <4>1. y \in Nat /\ m \in Nat /\ y <= m
        BY <1>1, <2>1
      <4> QED
        BY <3>1, <4>1
    <3> QED
      BY <2>1, <3>1 DEF Lower
  <2>3. Cardinality(S) = rank(m) + 1
    BY <1>3, <2>1, <2>2
  <2>4. rank(m) >= r
    BY <1>1, <1>2, <2>3
  <2> QED
    BY <2>1, <2>4
<1>6. PICK c \in T : \A y \in T : c <= y
  <2>1. T \in SUBSET Nat
    BY <1>1
  <2> HIDE DEF T
  <2> QED
    BY <1>5, <2>1, MinIsLeast
<1>7. c \in S /\ rank(c) >= r
  BY <1>6
<1>8. CASE rank(c) = r
  BY <1>7, <1>8
<1>9. CASE rank(c) > r
  <2> DEFINE L == Lower(S, c)
             d == Max(L)
  <2>1. L \in SUBSET (0 .. CLUSTER_MAP_SIZE) /\ L # {}
    <3>1. L \in SUBSET S /\ IsFiniteSet(L) /\ Cardinality(L) \in Nat /\ Cardinality(L) # 0
      BY <1>2, <1>9
    <3> HIDE DEF L
    <3> QED
      BY <1>1, <3>1, FS_EmptySet
  <2> HIDE DEF L
  <2>2. d \in L /\ \A y \in L : y <= d
    BY <1>1, <2>1, MaxIsGreatest
  <2> HIDE DEF d
  <2>3. d \in S /\ d < c
    BY <2>2 DEF L, Lower
  <2>4. L = Lower(S, d) \cup {d}
    <3>1. \A y \in S : y \in Nat
      BY <1>1
    <3>2. ASSUME NEW y \in S PROVE y \in L <=> (y < d \/ y = d)
      <4>1. y \in Nat /\ d \in Nat /\ c \in Nat
        BY <1>7, <2>3, <3>1
      <4>2. y \in L => y <= d
        BY <2>2
      <4>3. y \in L <=> y < c
        BY DEF L, Lower
      <4> QED
        BY <2>3, <4>1, <4>2, <4>3
    <3>3. L \subseteq S
      BY DEF L, Lower
    <3> QED
      BY <2>3, <3>2, <3>3 DEF Lower
  <2>5. rank(c) = rank(d) + 1
    BY <1>2, <1>3, <2>3, <2>4 DEF L
  <2>6. rank(d) >= r
    BY <1>2, <1>9, <2>5
  <2>7. d \in T
    BY <2>3, <2>6
  <2> QED
    BY <1>1, <1>6, <1>7, <2>3, <2>7
<1> QED
  BY <1>2, <1>7, <1>8, <1>9

\* Two members with the same place are one.
LEMMA PlaceIsOwn ==
  ASSUME NEW S \in SUBSET Clusters, NEW c \in S, NEW d \in S,
         Cardinality(Lower(S, c)) = Cardinality(Lower(S, d))
  PROVE  c = d
<1>1. ASSUME NEW x \in S, NEW y \in S, x < y
      PROVE  Cardinality(Lower(S, x)) < Cardinality(Lower(S, y))
  <2> DEFINE R == Lower(S, x) \cup {x}
  <2>1. x \in Nat /\ y \in Nat /\ \A z \in S : z \in Nat
    BY ClusterRange
  <2>2. R \subseteq Lower(S, y) /\ x \notin Lower(S, x)
    <3>1. ASSUME NEW z \in S, z < x PROVE z < y
      BY <1>1, <2>1, <3>1
    <3>2. ~(x < x)
      BY <2>1
    <3> QED
      BY <1>1, <3>1, <3>2 DEF Lower
  <2>3. /\ Lower(S, x) \in SUBSET Clusters /\ Lower(S, y) \in SUBSET Clusters
    BY DEF Lower
  <2>4. /\ IsFiniteSet(Lower(S, x)) /\ IsFiniteSet(Lower(S, y))
        /\ Cardinality(Lower(S, x)) \in Nat /\ Cardinality(Lower(S, y)) \in Nat
    BY <2>3, ClustersFinite
  <2>5. Cardinality(R) = Cardinality(Lower(S, x)) + 1
    BY <2>2, <2>4, FS_AddElement
  <2>6. Cardinality(R) <= Cardinality(Lower(S, y))
    <3> HIDE DEF R
    <3> QED
      BY <2>2, <2>4, FS_Subset
  <2>7. Cardinality(R) \in Nat
    BY <2>4, <2>5
  <2> QED
    BY <2>4, <2>5, <2>6, <2>7
<1>2. c \in Nat /\ d \in Nat
  BY ClusterRange
<1>3. Cardinality(Lower(S, c)) \in Nat /\ Cardinality(Lower(S, d)) \in Nat
  <2>1. Lower(S, c) \in SUBSET Clusters /\ Lower(S, d) \in SUBSET Clusters
    BY DEF Lower
  <2> QED
    BY <2>1, ClustersFinite
<1>4. ~(c < d) /\ ~(d < c)
  BY <1>1, <1>3
<1> QED
  BY <1>2, <1>4

\* The clusters write takes: the first, then others that are empty, none twice, and as
\* many as asked for if there are.
LEMMA NewChainIs ==
  ASSUME NEW map, NEW start \in Clusters, NEW n \in Nat
  PROVE  /\ NewChain(map, start, n) \in Seq(Clusters)
         /\ n > 0 => Len(NewChain(map, start, n)) > 0
         /\ Len(NewChain(map, start, n)) > 0 => NewChain(map, start, n)[1] = start
         /\ \A k \in 2 .. Len(NewChain(map, start, n)) :
              NewChain(map, start, n)[k] \in EmptyClusters(map) \ {start}
         /\ \A k, l \in 1 .. Len(NewChain(map, start, n)) :
              NewChain(map, start, n)[k] = NewChain(map, start, n)[l] => k = l
         /\ Len(NewChain(map, start, n)) <= n
         /\ n <= 1 + Cardinality(EmptyClusters(map) \ {start}) => Len(NewChain(map, start, n)) = n
<1> DEFINE rest     == EmptyClusters(map) \ {start}
           place(c) == 2 + Cardinality({d \in rest : d < c})
           last     == Min({n, 1 + Cardinality(rest)})
           at(k)    == CHOOSE c \in rest : place(c) = k
           chain    == [k \in 1 .. last |-> IF k = 1 THEN start ELSE at(k)]
<1>1. NewChain(map, start, n) = chain
  BY DEF NewChain
<1>2. rest \in SUBSET Clusters /\ Cardinality(rest) \in Nat
  BY EmptyFound, ClustersFinite
<1>3. last \in {n, 1 + Cardinality(rest)} /\ last <= n /\ last <= 1 + Cardinality(rest)
  <2>1. {n, 1 + Cardinality(rest)} \in SUBSET Nat /\ {n, 1 + Cardinality(rest)} # {}
    BY <1>2
  <2> QED
    BY <2>1, MinIsLeast
<1>4. last \in Nat /\ (n > 0 => last > 0) /\ (n <= 1 + Cardinality(rest) => last = n)
  BY <1>2, <1>3
<1>5. \A c : place(c) = 2 + Cardinality(Lower(rest, c))
  BY DEF Lower
<1> HIDE DEF rest, place, last
<1>6. ASSUME NEW k \in 2 .. last PROVE at(k) \in rest /\ place(at(k)) = k
  <2>1. k - 2 \in Nat /\ k - 2 < Cardinality(rest) /\ 2 + (k - 2) = k
    BY <1>2, <1>3, <1>4
  <2>2. PICK c \in rest : Cardinality(Lower(rest, c)) = k - 2
    BY <1>2, <2>1, PlaceTaken
  <2>3. place(c) = k
    BY <1>5, <2>1, <2>2
  <2> QED
    BY <2>3
<1>7. ASSUME NEW k \in 1 .. last
      PROVE  chain[k] = (IF k = 1 THEN start ELSE at(k)) /\ (k # 1 => k \in 2 .. last)
  <2> HIDE DEF at
  <2> QED
    BY <1>4
<1> HIDE DEF at, chain
<1>8. ASSUME NEW k \in 1 .. last PROVE chain[k] \in Clusters
  BY <1>2, <1>6, <1>7
<1>9. chain \in Seq(Clusters) /\ Len(chain) = last
  BY <1>4, <1>8 DEF chain
<1>10. last > 0 => chain[1] = start
  <2>1. last > 0 => 1 \in 1 .. last
    BY <1>4
  <2> QED
    BY <1>7, <2>1
<1>11. \A k \in 2 .. last : chain[k] \in rest /\ place(chain[k]) = k
  <2>1. \A k \in 2 .. last : k \in 1 .. last /\ k # 1
    BY <1>4
  <2> QED
    BY <1>6, <1>7, <2>1
<1>12. start \notin rest
  BY DEF rest
<1>13. ASSUME NEW k \in 1 .. last, NEW l \in 1 .. last, chain[k] = chain[l] PROVE k = l
  <2>1. CASE k = 1 /\ l = 1
    BY <2>1
  <2>2. CASE k = 1 /\ l # 1
    BY <1>7, <1>11, <1>12, <1>13, <2>2
  <2>3. CASE k # 1 /\ l = 1
    BY <1>7, <1>11, <1>12, <1>13, <2>3
  <2>4. CASE k # 1 /\ l # 1
    BY <1>7, <1>11, <1>13, <2>4
  <2> QED
    BY <2>1, <2>2, <2>3, <2>4
<1> QED
  BY <1>1, <1>3, <1>4, <1>9, <1>10, <1>11, <1>13 DEF rest

\* Linking a chain of clusters leaves a FAT.
LEMMA LinkTyped ==
  ASSUME NEW map \in FatMaps, NEW chain \in Seq(Clusters), NEW n
  PROVE  LinkChain(map, chain, n) \in FatMaps
<1> DEFINE word(c) == IF \E k \in DOMAIN chain : chain[k] = c
                      THEN LET k == CHOOSE k \in DOMAIN chain : chain[k] = c
                           IN  IF k < Len(chain) THEN chain[k + 1]
                               ELSE IF k = n THEN FAT32_FAT_END_OF_FILE ELSE NoCluster
                      ELSE map[c]
<1>1. ASSUME NEW c \in Clusters PROVE word(c) \in FatWords
  <2>1. CASE \E k \in DOMAIN chain : chain[k] = c
    <3> DEFINE k == CHOOSE k \in DOMAIN chain : chain[k] = c
    <3>1. k \in DOMAIN chain
      BY <2>1
    <3>2. word(c) = IF k < Len(chain) THEN chain[k + 1]
                    ELSE IF k = n THEN FAT32_FAT_END_OF_FILE ELSE NoCluster
      BY <2>1
    <3> HIDE DEF k, word
    <3>3. k < Len(chain) => chain[k + 1] \in Clusters
      BY <3>1
    <3> QED
      BY <3>2, <3>3, FatWordValues
  <2>2. CASE ~\E k \in DOMAIN chain : chain[k] = c
    BY <2>2 DEF FatMaps
  <2> QED
    BY <2>1, <2>2
<1>2. LinkChain(map, chain, n) = [c \in Clusters |-> word(c)]
  BY DEF LinkChain
<1> HIDE DEF word
<1> QED
  BY <1>1, <1>2 DEF FatMaps

\* A chain is a sequence of clusters.
LEMMA ChainTyped ==
  ASSUME NEW map, NEW cluster
  PROVE  \E C : Chain(map, cluster) \in Seq(C)
<1> DEFINE walk == Walk(map, cluster)
           n    == Cardinality({walk[k] : k \in DOMAIN walk} \cap Clusters)
           C    == {walk[k - 1] : k \in 1 .. n}
<1>1. n \in Nat
  BY ClustersFinite
<1>2. Chain(map, cluster) = [k \in 1 .. n |-> walk[k - 1]]
  BY DEF Chain
<1> HIDE DEF walk, n
<1>3. \A k \in 1 .. n : walk[k - 1] \in C
  OBVIOUS
<1> HIDE DEF C
<1>4. Chain(map, cluster) \in Seq(C)
  BY <1>1, <1>2, <1>3
<1> QED
  BY <1>4

\* Freeing a chain and marking a cluster leave a FAT.
LEMMA FatsKept ==
  ASSUME NEW map \in FatMaps
  PROVE  /\ \A c : FreeChain(map, c) \in FatMaps
         /\ \A c, w : w \in FatWords => [map EXCEPT ![c] = w] \in FatMaps
         /\ \A x : [c \in Clusters |-> IF c = x THEN FAT32_FAT_EMPTY_ENTRY ELSE map[c]] \in FatMaps
BY FatWordValues DEF FatMaps, FreeChain

\* So does what an entry written beyond the table does to the words before it.
LEMMA SpillTyped ==
  ASSUME NEW t, fat \in FatMaps
  PROVE  Spilled(t) \subseteq FatMaps
<1> DEFINE T == CLUSTER_MAP_SIZE - SPILL .. CLUSTER_MAP_SIZE - 1
<1>1. ASSUME NEW word \in [T -> {FAT32_FAT_EMPTY_ENTRY, JUNK}]
      PROVE  [c \in Clusters |-> IF c < CLUSTER_MAP_SIZE - SPILL THEN fat[c] ELSE word[c]] \in FatMaps
  <2>1. ASSUME NEW c \in Clusters
        PROVE  (IF c < CLUSTER_MAP_SIZE - SPILL THEN fat[c] ELSE word[c]) \in FatWords
    <3>1. c < CLUSTER_MAP_SIZE - SPILL \/ c \in T
      <4>1. SPILL \in Nat /\ CLUSTER_MAP_SIZE \in Nat /\ c \in 0 .. CLUSTER_MAP_SIZE - 1
        BY Fat32Assumption, SMT DEF Clusters
      <4> QED
        BY <4>1
    <3> QED
      BY <3>1, FatWordValues DEF FatMaps
  <2> QED
    BY <2>1 DEF FatMaps
<1> QED
  BY <1>1 DEF Spilled

-----------------------------------------------------------------------------
(* The FAT in memory is the one on the disk *)

\* The last write of a FAT in q is one of this FAT, and nothing but a table or bytes is
\* written after it.
LastFatIs(q, map) ==
  \E k \in DOMAIN q : /\ q[k] = [at |-> FAT_CLUSTER_NUMBER, content |-> Fat(map)]
                      /\ \A j \in DOMAIN q : j > k => q[j].content.kind # "fat"

NoFatIn(q) == \A k \in DOMAIN q : q[k].content.kind # "fat"

\* The inductive invariant: what power-up would read once the queue is written is the FAT in
\* memory.
FatKept ==
  /\ power = "off" => queue = <<>>
  /\ power = "on" =>
       \/ LastFatIs(queue, fat)
       \/ /\ NoFatIn(queue)
          /\ disk[FAT_CLUSTER_NUMBER].kind = "fat" => disk[FAT_CLUSTER_NUMBER].map = fat

DriverKept == DriverTypes /\ FatKept

\* Of a sequence of writes followed by one of the FAT, that is the last.
LEMMA FatWrittenLast ==
  ASSUME NEW q \in Seq(Writes), NEW map \in FatMaps
  PROVE  /\ q \o Put(FAT_CLUSTER_NUMBER, Fat(map)) \in Seq(Writes)
         /\ LastFatIs(q \o Put(FAT_CLUSTER_NUMBER, Fat(map)), map)
<1> DEFINE w == [at |-> FAT_CLUSTER_NUMBER, content |-> Fat(map)]
           r == q \o <<w>>
<1>1. Put(FAT_CLUSTER_NUMBER, Fat(map)) = <<w>> /\ w \in Writes
  BY ClusterRange, StoredValues DEF Put, FAT_CLUSTER_NUMBER, Writes
<1> HIDE DEF w
<1>2. r \in Seq(Writes) /\ DOMAIN r = 1 .. Len(q) + 1 /\ r[Len(q) + 1] = w
  BY <1>1
<1>3. Len(q) + 1 \in DOMAIN r /\ \A j \in DOMAIN r : ~(j > Len(q) + 1)
  BY <1>2
<1> HIDE DEF r
<1>4. LastFatIs(r, map)
  BY <1>2, <1>3 DEF LastFatIs, w
<1> QED
  BY <1>1, <1>2, <1>4 DEF r

\* A write of a table is no write of a FAT.
LEMMA TableWrite ==
  ASSUME NEW cluster, NEW t \in Tables
  PROVE  Put(cluster, Table(t)) \in Seq(Writes) /\ NoFatIn(Put(cluster, Table(t)))
<1>1. Put(cluster, Table(t)) \in Seq(Writes)
  BY PutTyped, StoredValues
<1>2. CASE cluster \in Clusters
  <2> DEFINE w == [at |-> cluster, content |-> Table(t)]
  <2>1. w.content.kind # "fat"
    BY DEF Table
  <2> HIDE DEF w
  <2>2. NoFatIn(<<w>>)
    BY <2>1 DEF NoFatIn
  <2> QED
    BY <1>1, <1>2, <2>2 DEF Put, w
<1>3. CASE cluster \notin Clusters
  BY <1>1, <1>3 DEF Put, NoFatIn
<1> QED
  BY <1>2, <1>3

\* Two sequences without a write of a FAT have none together.
LEMMA NoFatInBoth ==
  ASSUME NEW q \in Seq(Writes), NEW r \in Seq(Writes), NoFatIn(q), NoFatIn(r)
  PROVE  q \o r \in Seq(Writes) /\ NoFatIn(q \o r)
<1>1. q \o r \in Seq(Writes)
  OBVIOUS
<1>2. ASSUME NEW k \in DOMAIN (q \o r) PROVE (q \o r)[k].content.kind # "fat"
  <2>1. CASE k <= Len(q)
    <3>1. k \in DOMAIN q /\ (q \o r)[k] = q[k]
      BY <2>1
    <3> QED
      BY <3>1 DEF NoFatIn
  <2>2. CASE ~(k <= Len(q))
    <3>1. k - Len(q) \in DOMAIN r /\ (q \o r)[k] = r[k - Len(q)]
      BY <2>2
    <3> QED
      BY <3>1 DEF NoFatIn
  <2> QED
    BY <2>1, <2>2
<1> QED
  BY <1>1, <1>2 DEF NoFatIn

\* One write of the queue reaching the disk changes nothing of it.
LEMMA FlushKeepsFat ==
  ASSUME DriverKept, Flush
  PROVE  DriverKept'
<1> DEFINE w == Head(queue)
<1>1. /\ disk \in [Clusters -> Stored] /\ queue \in Seq(Writes) /\ queue # <<>>
      /\ disk' = [disk EXCEPT ![w.at] = w.content] /\ queue' = Tail(queue)
      /\ fat' = fat /\ power' = power /\ power # "off"
  BY DEF DriverKept, DriverTypes, Flush
<1>2. /\ w = queue[1] /\ w \in Writes /\ Len(queue) \in Nat /\ Len(queue) >= 1
      /\ queue' \in Seq(Writes) /\ Len(queue') = Len(queue) - 1
      /\ \A k \in DOMAIN queue' : k + 1 \in DOMAIN queue /\ queue'[k] = queue[k + 1]
      /\ \A k \in DOMAIN queue : k # 1 => k - 1 \in DOMAIN queue' /\ queue'[k - 1] = queue[k]
      /\ 1 \in DOMAIN queue
  BY <1>1
<1> HIDE DEF w
<1>3. w.at \in Clusters /\ w.content \in Stored /\ disk' \in [Clusters -> Stored]
  BY <1>1, <1>2 DEF Writes
<1>4. DriverTypes'
  <2>1. busy' \in Clusters \cup {NoCluster}
    BY ClusterRange DEF Flush, DriverKept, DriverTypes
  <2> QED
    BY <1>1, <1>2, <1>3, <2>1 DEF DriverKept, DriverTypes
<1>5. power' = "on" =>
        \/ LastFatIs(queue', fat')
        \/ /\ NoFatIn(queue')
           /\ disk'[FAT_CLUSTER_NUMBER].kind = "fat" => disk'[FAT_CLUSTER_NUMBER].map = fat'
  <2> SUFFICES ASSUME power = "on"
               PROVE  \/ LastFatIs(queue', fat)
                      \/ /\ NoFatIn(queue')
                         /\ disk'[FAT_CLUSTER_NUMBER].kind = "fat" =>
                              disk'[FAT_CLUSTER_NUMBER].map = fat
    BY <1>1
  <2>1. CASE LastFatIs(queue, fat)
    <3>1. PICK k \in DOMAIN queue :
            /\ queue[k] = [at |-> FAT_CLUSTER_NUMBER, content |-> Fat(fat)]
            /\ \A j \in DOMAIN queue : j > k => queue[j].content.kind # "fat"
      BY <2>1 DEF LastFatIs
    <3>2. CASE k = 1
      <4>1. NoFatIn(queue')
        <5>1. ASSUME NEW j \in DOMAIN queue' PROVE queue'[j].content.kind # "fat"
          <6>1. j + 1 \in DOMAIN queue /\ j + 1 > 1
            BY <1>2
          <6> QED
            BY <1>2, <3>1, <3>2, <6>1
        <5> QED
          BY <5>1 DEF NoFatIn
      <4>2. disk'[FAT_CLUSTER_NUMBER].map = fat
        <5>1. w.at = FAT_CLUSTER_NUMBER /\ w.content = Fat(fat)
          BY <1>2, <3>1, <3>2
        <5>2. disk'[FAT_CLUSTER_NUMBER] = Fat(fat)
          BY <1>1, <1>3, <5>1
        <5> QED
          BY <5>2 DEF Fat
      <4> QED
        BY <4>1, <4>2
    <3>3. CASE k # 1
      <4>1. /\ k - 1 \in DOMAIN queue'
            /\ queue'[k - 1] = [at |-> FAT_CLUSTER_NUMBER, content |-> Fat(fat)]
        BY <1>2, <3>1, <3>3
      <4>2. ASSUME NEW j \in DOMAIN queue', j > k - 1 PROVE queue'[j].content.kind # "fat"
        <5>1. j + 1 \in DOMAIN queue /\ queue'[j] = queue[j + 1] /\ j + 1 > k
          BY <1>2, <4>2
        <5> QED
          BY <3>1, <5>1
      <4> QED
        BY <4>1, <4>2 DEF LastFatIs
    <3> QED
      BY <3>2, <3>3
  <2>2. CASE NoFatIn(queue) /\ (disk[FAT_CLUSTER_NUMBER].kind = "fat" =>
                                  disk[FAT_CLUSTER_NUMBER].map = fat)
    <3>1. NoFatIn(queue')
      BY <1>2, <2>2 DEF NoFatIn
    <3>2. w.content.kind # "fat"
      BY <1>2, <2>2 DEF NoFatIn
    <3>3. disk'[FAT_CLUSTER_NUMBER] = IF w.at = FAT_CLUSTER_NUMBER THEN w.content
                                      ELSE disk[FAT_CLUSTER_NUMBER]
      BY <1>1, <1>3, ClusterRange DEF FAT_CLUSTER_NUMBER
    <3> QED
      BY <2>2, <3>1, <3>2, <3>3
  <2> QED
    BY <2>1, <2>2 DEF DriverKept, FatKept
<1> QED
  BY <1>1, <1>4, <1>5 DEF DriverKept, FatKept

-----------------------------------------------------------------------------
(* What delete_all_folder erases *)

AnyCluster == Clusters \cup {NoCluster}

\* What a table names is in X if the folders hold only what is in X, and the files named are in X.
LEMMA NamedIn ==
  ASSUME NEW X, NEW t, NEW g,
         \A i \in Items : t[i].used =>
           IF t[i].folder THEN g[t[i].cluster] \in Seq(X) ELSE t[i].cluster \in X
  PROVE  Named(t, g) \in Seq(X)
<1> DEFINE part(i) == IF ~t[i].used THEN <<>>
                      ELSE IF t[i].folder THEN g[t[i].cluster]
                      ELSE <<t[i].cluster>>
           parts == [k \in 1 .. DIRECTORY_LENGTH - 2 |-> part(k + 1)]
<1>1. ASSUME NEW i \in Items PROVE part(i) \in Seq(X)
  <2>1. CASE ~t[i].used
    BY <2>1
  <2>2. CASE t[i].used /\ t[i].folder
    BY <2>2
  <2>3. CASE t[i].used /\ ~t[i].folder
    <3>1. t[i].cluster \in X
      BY <2>3
    <3> QED
      BY <2>3, <3>1
  <2> QED
    BY <2>1, <2>2, <2>3
<1>2. DIRECTORY_LENGTH - 2 \in Nat /\ \A k \in 1 .. DIRECTORY_LENGTH - 2 : k + 1 \in Items
  BY IndexRange
<1>3. Named(t, g) = FlattenSeq(parts)
  BY DEF Named
<1> HIDE DEF part
<1>4. parts \in Seq(Seq(X))
  BY <1>1, <1>2
<1> HIDE DEF parts
<1> QED
  BY <1>3, <1>4, FlattenIn

\* What delete_all_folder erases, level by level.
LEMMA ErasedSteps ==
  ASSUME disk \in [Clusters -> Stored], NEW f \in AnyCluster
  PROVE  \E e \in [0 .. CLUSTER_MAP_SIZE -> [AnyCluster -> Seq(AnyCluster)]] :
           /\ \A c \in AnyCluster : e[0][c] = <<>>
           /\ \A n \in 0 .. CLUSTER_MAP_SIZE - 1, c \in AnyCluster :
                e[n + 1][c] = Named(Entries(c), e[n]) \o <<c>>
           /\ delete_all_folder(f) = Erase(e[CLUSTER_MAP_SIZE][f])
<1> DEFINE N == CLUSTER_MAP_SIZE
           C == Clusters \cup {NoCluster}
           D == [C -> Seq(C)]
           level(g) == [c \in C |-> Named(Entries(c), g) \o <<c>>]
           F == [p \in (0 .. N) \X D |-> level(p[2])]
           e0 == [c \in C |-> <<>>]
           Rec(h) == h = [n \in 0 .. N |-> [c \in C |->
                            IF n = 0 THEN <<>> ELSE Named(Entries(c), h[n - 1]) \o <<c>>]]
           h == CHOOSE x : Rec(x)
<1>1. N \in Nat /\ e0 \in D /\ f \in C /\ C = AnyCluster
  BY ClusterRange DEF AnyCluster
<1>2. \A c : Entries(c) \in Tables
  BY EntriesTyped DEF Entries
<1>3. ASSUME NEW g \in D, NEW c \in C PROVE Named(Entries(c), g) \o <<c>> \in Seq(C)
  <2>1. ASSUME NEW i \in Items PROVE Entries(c)[i].cluster \in C
    <3>1. Entries(c)[i] \in EntryType
      BY <1>2, IndexRange DEF Tables
    <3> QED
      BY <3>1 DEF EntryType
  <2>2. \A i \in Items : g[Entries(c)[i].cluster] \in Seq(C)
    BY <2>1
  <2>3. Named(Entries(c), g) \in Seq(C)
    <3> HIDE DEF C
    <3> QED
      BY <2>1, <2>2, NamedIn
  <2> QED
    BY <2>3
<1> HIDE DEF C
<1>4. ASSUME NEW g \in D PROVE level(g) \in D
  BY <1>3
<1>5. \A g, c : c \in C => level(g)[c] = Named(Entries(c), g) \o <<c>>
  OBVIOUS
<1>6. \A c \in C : e0[c] = <<>>
  OBVIOUS
<1>7. \A g : [c \in C |-> Named(Entries(c), g) \o <<c>>] = level(g)
  OBVIOUS
<1> HIDE DEF level
<1>8. F \in StepMaps(N, D)
  <2> HIDE DEF D
  <2> QED
    BY <1>4 DEF StepMaps
<1>9. PICK e \in [0 .. N -> D] : Iterates(e, N, e0, F)
  <2> HIDE DEF F, D, e0, N
  <2> QED
    BY <1>1, <1>8, Iterated
<1>10. e[0] = e0 /\ \A n \in 0 .. N - 1 : e[n + 1] = level(e[n])
  <2>1. ASSUME NEW n \in 0 .. N - 1 PROVE e[n + 1] = level(e[n])
    <3> HIDE DEF D
    <3>1. n \in 0 .. N
      BY <1>1
    <3>2. e[n] \in D
      BY <1>9, <3>1
    <3> HIDE DEF F
    <3>3. e[n + 1] = F[<<n, e[n]>>]
      BY <1>9 DEF Iterates
    <3>4. F[<<n, e[n]>>] = level(e[n])
      BY <3>1, <3>2 DEF F
    <3> QED
      BY <3>3, <3>4
  <2> QED
    BY <1>9, <2>1 DEF Iterates
<1> HIDE DEF F
<1>11. ASSUME NEW x, x = [n \in 0 .. N |-> IF n = 0 THEN e0 ELSE level(x[n - 1])]
       PROVE  Rec(x)
  <2>1. ASSUME NEW n \in 0 .. N
        PROVE  (IF n = 0 THEN e0 ELSE level(x[n - 1]))
                 = [c \in C |-> IF n = 0 THEN <<>> ELSE Named(Entries(c), x[n - 1]) \o <<c>>]
    <3>1. CASE n = 0
      BY <3>1
    <3>2. CASE n # 0
      <4>1. [c \in C |-> IF n = 0 THEN <<>> ELSE Named(Entries(c), x[n - 1]) \o <<c>>]
              = [c \in C |-> Named(Entries(c), x[n - 1]) \o <<c>>]
        BY <3>2
      <4> QED
        BY <1>7, <3>2, <4>1
    <3> QED
      BY <3>1, <3>2
  <2> QED
    BY <1>11, <2>1
<1>12. ASSUME NEW x, Rec(x)
       PROVE  x = [n \in 0 .. N |-> IF n = 0 THEN e0 ELSE level(x[n - 1])]
  <2>1. ASSUME NEW n \in 0 .. N
        PROVE  [c \in C |-> IF n = 0 THEN <<>> ELSE Named(Entries(c), x[n - 1]) \o <<c>>]
                 = (IF n = 0 THEN e0 ELSE level(x[n - 1]))
    <3>1. CASE n = 0
      BY <3>1
    <3>2. CASE n # 0
      <4>1. [c \in C |-> IF n = 0 THEN <<>> ELSE Named(Entries(c), x[n - 1]) \o <<c>>]
              = [c \in C |-> Named(Entries(c), x[n - 1]) \o <<c>>]
        BY <3>2
      <4> QED
        BY <1>7, <3>2, <4>1
    <3> QED
      BY <3>1, <3>2
  <2> QED
    BY <1>12, <2>1
<1> HIDE DEF Rec, e0
<1>13. e = [n \in 0 .. N |-> IF n = 0 THEN e0 ELSE level(e[n - 1])]
  <2>1. ASSUME NEW n \in 0 .. N PROVE e[n] = IF n = 0 THEN e0 ELSE level(e[n - 1])
    <3>1. CASE n = 0
      BY <1>10, <3>1
    <3>2. CASE n # 0
      <4>1. n - 1 \in 0 .. N - 1 /\ (n - 1) + 1 = n
        BY <1>1, <3>2
      <4> QED
        BY <1>10, <3>2, <4>1
    <3> QED
      BY <3>1, <3>2
  <2> HIDE DEF D
  <2> QED
    BY <2>1
<1>14. Rec(h)
  <2>1. Rec(e)
    BY <1>11, <1>13
  <2> QED
    BY <2>1
<1>15. delete_all_folder(f) = Erase(h[N][f])
  BY DEF delete_all_folder, N, C, Rec
<1> HIDE DEF h
<1>16. h = [n \in 0 .. N |-> IF n = 0 THEN e0 ELSE level(h[n - 1])]
  BY <1>12, <1>14
<1>17. h[0] = e0 /\ \A n \in 0 .. N - 1 : h[n + 1] = level(h[n])
  <2>1. 0 \in 0 .. N /\ \A n \in 0 .. N - 1 : n + 1 \in 0 .. N /\ n + 1 # 0 /\ (n + 1) - 1 = n
    BY <1>1
  <2> QED
    BY <1>16, <2>1
<1>18. h \in [0 .. N -> D]
  <2> DEFINE E == {n \in 0 .. N : h[n] \in D}
  <2>1. E \in SUBSET (0 .. N) /\ 0 \in E
    BY <1>1, <1>17
  <2>2. \A n \in 0 .. N - 1 : n \in E => n + 1 \in E
    <3>1. \A n \in 0 .. N - 1 : n + 1 \in 0 .. N
      BY <1>1
    <3> HIDE DEF D
    <3> QED
      BY <1>4, <1>17, <3>1
  <2> HIDE DEF E, D
  <2>3. E = 0 .. N
    BY <1>1, <2>1, <2>2, AllUpTo
  <2>4. DOMAIN h = 0 .. N /\ h = [n \in 0 .. N |-> h[n]]
    BY <1>16
  <2>5. \A n \in 0 .. N : h[n] \in D
    BY <2>3 DEF E
  <2> QED
    BY <2>4, <2>5
<1>19. /\ \A c \in C : h[0][c] = <<>>
       /\ \A n \in 0 .. N - 1, c \in C : h[n + 1][c] = Named(Entries(c), h[n]) \o <<c>>
  BY <1>5, <1>6, <1>17 DEF e0
<1> HIDE DEF N
<1> QED
  BY <1>1, <1>15, <1>18, <1>19 DEF N

\* It is in X and Y if X holds the folders that folders of X name, and Y the files.
LEMMA ErasedAre ==
  ASSUME disk \in [Clusters -> Stored], NEW X \in SUBSET AnyCluster, NEW Y,
         \A c \in X, i \in Items : Entries(c)[i].used =>
           IF Entries(c)[i].folder THEN Entries(c)[i].cluster \in X ELSE Entries(c)[i].cluster \in Y,
         NEW f \in X
  PROVE  \E s \in Seq(X \cup Y) : delete_all_folder(f) = Erase(s)
<1> DEFINE N == CLUSTER_MAP_SIZE
<1>1. f \in AnyCluster
  OBVIOUS
<1>2. PICK e \in [0 .. N -> [AnyCluster -> Seq(AnyCluster)]] :
        /\ \A c \in AnyCluster : e[0][c] = <<>>
        /\ \A n \in 0 .. N - 1, c \in AnyCluster : e[n + 1][c] = Named(Entries(c), e[n]) \o <<c>>
        /\ delete_all_folder(f) = Erase(e[N][f])
  BY <1>1, ErasedSteps
<1> DEFINE E == {n \in 0 .. N : \A c \in X : e[n][c] \in Seq(X \cup Y)}
<1>3. N \in Nat
  BY ClusterRange
<1> HIDE DEF N
<1>4. E \in SUBSET (0 .. N) /\ 0 \in E
  BY <1>2, <1>3
<1>5. ASSUME NEW n \in 0 .. N - 1, n \in E PROVE n + 1 \in E
  <2>1. ASSUME NEW c \in X PROVE e[n + 1][c] \in Seq(X \cup Y)
    <3> DEFINE Z == X \cup Y
               g == e[n]
    <3>1. \A x \in X : g[x] \in Seq(Z)
      BY <1>5
    <3>2. X \subseteq Z /\ Y \subseteq Z /\ c \in Z /\ c \in AnyCluster
      OBVIOUS
    <3>3. e[n + 1][c] = Named(Entries(c), g) \o <<c>>
      BY <1>2
    <3> HIDE DEF Z, g
    <3>4. Named(Entries(c), g) \in Seq(Z)
      BY <3>1, <3>2, NamedIn
    <3>5. Named(Entries(c), g) \o <<c>> \in Seq(Z)
      BY <3>2, <3>4
    <3> QED
      BY <3>3, <3>5 DEF Z
  <2>2. n + 1 \in 0 .. N
    BY <1>3
  <2> QED
    BY <2>1, <2>2
<1> HIDE DEF E
<1>6. E = 0 .. N
  BY <1>3, <1>4, <1>5, AllUpTo
<1>7. e[N][f] \in Seq(X \cup Y)
  <2>1. N \in 0 .. N
    BY <1>3
  <2> QED
    BY <1>6, <2>1 DEF E
<1> QED
  BY <1>2, <1>7 DEF N

-----------------------------------------------------------------------------
(* Requests *)

\* Parents are clusters, or the -1 of a folder made on a full disk.
LEMMA ParentsTyped ==
  ASSUME disk \in [Clusters -> Stored]
  PROVE  FolderClusters \subseteq Clusters /\ Selves \subseteq AnyCluster
<1>1. PICK b \in [0 .. CLUSTER_MAP_SIZE -> SUBSET (Clusters \cup {ROOT_CLUSTER_NUMBER})] :
        BelowOn(disk, {ROOT_CLUSTER_NUMBER}) = b[CLUSTER_MAP_SIZE]
  BY BelowSteps DEF Levels
<1>2. ROOT_CLUSTER_NUMBER \in Clusters /\ CLUSTER_MAP_SIZE \in 0 .. CLUSTER_MAP_SIZE
  BY ClusterRange DEF ROOT_CLUSTER_NUMBER
<1>3. FolderClusters \subseteq Clusters
  BY <1>1, <1>2 DEF FolderClusters, Below
<1>4. ASSUME NEW c PROVE Entries(c)[0].cluster \in AnyCluster
  <2>1. Entries(c) \in Tables
    BY EntriesTyped DEF Entries
  <2>2. Entries(c)[0] \in EntryType
    BY <2>1, IndexRange DEF Tables
  <2> QED
    BY <2>2 DEF EntryType, AnyCluster
<1> QED
  BY <1>3, <1>4 DEF Selves

\* What every operation may count on of its requests.
IsNameRequest(rq)  == rq.parent \in AnyCluster /\ rq.name \in Names /\ rq.ext \in Exts

\* mkdir asks for a size of 0, and has no content.
IsWriteRequest(rq) ==
  IsNameRequest(rq) /\ rq.size \in Nat /\ (rq.size # 0 => rq.content \in Contents)

\* The requests of the model are such requests.
LEMMA RequestsTyped ==
  ASSUME NEW P \in SUBSET AnyCluster
  PROVE  /\ \A rq \in NameRequests(P) : IsNameRequest(rq)
         /\ \A rq \in WriteRequests(P) : IsWriteRequest(rq)
<1>1. Sizes \subseteq Nat
  BY Fat32Assumption
<1> QED
  BY <1>1 DEF NameRequests, WriteRequests, IsNameRequest, IsWriteRequest

-----------------------------------------------------------------------------
(* The operations keep the types and the FAT *)

\* The conditions a step satisfies that ends with the FAT written, or changes none.
LEMMA KeptByWriting ==
  ASSUME DriverKept, power' = power, disk' = disk, busy' \in AnyCluster,
         NEW q \in Seq(Writes), fat' \in FatMaps,
         queue' = q \o Put(FAT_CLUSTER_NUMBER, Fat(fat')), power # "off"
  PROVE  DriverKept'
BY FatWrittenLast DEF DriverKept, DriverTypes, FatKept, AnyCluster

\* The search for the entry to delete finds one.
LEMMA MatchFound ==
  ASSUME NEW t, NEW rq, Matches(t, rq) # {}
  PROVE  Min(Matches(t, rq)) \in Matches(t, rq) /\ Min(Matches(t, rq)) \in Items
<1>1. Matches(t, rq) \in SUBSET Nat
  BY IndexRange DEF Matches
<1> QED
  BY <1>1, MinIsLeast DEF Matches

\* A new folder.
LEMMA WriteFolderKeeps ==
  ASSUME DriverKept, NEW rq, IsWriteRequest(rq), NEW start \in Clusters, NEW map \in FatMaps,
         WriteFolder(rq, start, map), power = "on", UNCHANGED <<disk, power>>, busy' \in AnyCluster
  PROVE  DriverKept'
<1> DEFINE marked == [map EXCEPT ![start] = FAT32_FAT_END_OF_FILE]
           other  == get_empty_cluster(marked)
           half   == [NoEntries EXCEPT ![0] = FolderEntry(rq.name, other)]
           table  == [half EXCEPT ![1] = FolderEntry("..", rq.parent)]
           e      == [FolderEntry(rq.name, start) EXCEPT !.ext = rq.ext]
           full   == AddEntry(Entries(rq.parent), e)
<1>1. marked \in FatMaps
  BY FatsKept, FatWordValues
<1>2. other \in AnyCluster
  BY EmptyFound DEF AnyCluster
<1>3. half \in Tables /\ table \in Tables
  <2>1. FolderEntry(rq.name, other) \in EntryType /\ FolderEntry("..", rq.parent) \in EntryType
    BY <1>2, EntryValues DEF IsWriteRequest, IsNameRequest, AnyCluster
  <2>2. half \in Tables
    BY <2>1, EntryValues, TablesKept
  <2> HIDE DEF half
  <2>3. table \in Tables
    BY <2>1, <2>2, TablesKept
  <2> QED
    BY <2>2, <2>3
<1>4. full \in Tables
  <2>1. FolderEntry(rq.name, start) \in EntryType
    BY EntryValues DEF IsWriteRequest, IsNameRequest
  <2>2. e \in EntryType
    BY <2>1 DEF IsWriteRequest, IsNameRequest, EntryType
  <2>3. Entries(rq.parent) \in Tables
    BY EntriesTyped DEF Entries, DriverKept, DriverTypes
  <2> HIDE DEF e
  <2> QED
    BY <2>2, <2>3, TablesKept
<1> DEFINE q == (Put(other, Table(half)) \o Put(start, Table(table))) \o Put(rq.parent, Table(full))
<1>5. fat' = marked /\ queue' = q \o Put(FAT_CLUSTER_NUMBER, Fat(marked))
  BY DEF WriteFolder, init_directory_table
<1> HIDE DEF marked, other, half, table, full
<1>6. q \in Seq(Writes)
  <2>1. /\ Put(other, Table(half)) \in Seq(Writes) /\ Put(start, Table(table)) \in Seq(Writes)
        /\ Put(rq.parent, Table(full)) \in Seq(Writes)
    BY <1>3, <1>4, TableWrite
  <2> QED
    BY <2>1
<1> HIDE DEF q
<1> QED
  BY <1>1, <1>5, <1>6, KeptByWriting

\* A new file.
LEMMA WriteFileKeeps ==
  ASSUME DriverKept, NEW rq, IsWriteRequest(rq), rq.size # 0,
         NEW start \in Clusters, NEW map \in FatMaps,
         WriteFile(rq, start, map), power = "on", UNCHANGED <<disk, power>>, busy' \in AnyCluster
  PROVE  DriverKept'
<1> DEFINE needed == (rq.size + CLUSTER_SIZE - 1) \div CLUSTER_SIZE
           chain  == NewChain(map, start, needed)
           linked == LinkChain(map, chain, needed)
           e      == [name |-> rq.name, ext |-> rq.ext, folder |-> FALSE, used |-> TRUE,
                      cluster |-> start, size |-> rq.size]
           data   == [k \in DOMAIN chain |-> [at |-> chain[k], content |-> Bytes(rq.content, k)]]
           full   == AddEntry(Entries(rq.parent), e)
           q      == data \o Put(rq.parent, Table(full))
<1>1. fat' = linked /\ queue' = q \o Put(FAT_CLUSTER_NUMBER, Fat(linked))
  BY DEF WriteFile
<1>2. needed \in Nat
  <2>1. CLUSTER_SIZE \in Nat \ {0} /\ rq.size \in Nat
    BY Fat32Assumption DEF IsWriteRequest
  <2>2. rq.size + CLUSTER_SIZE - 1 \in Nat
    BY <2>1
  <2> QED
    BY <2>1, <2>2, SMT
<1> HIDE DEF needed
<1>3. chain \in Seq(Clusters)
  BY <1>2, NewChainIs
<1> HIDE DEF chain
<1>4. linked \in FatMaps
  BY <1>3, LinkTyped
<1> HIDE DEF linked
<1>5. data \in Seq(Writes)
  <2>1. ASSUME NEW k \in 1 .. Len(chain)
        PROVE  [at |-> chain[k], content |-> Bytes(rq.content, k)] \in Writes
    <3>1. chain[k] \in Clusters /\ k \in Nat
      BY <1>3
    <3>2. Bytes(rq.content, k) \in Stored
      BY <3>1, StoredValues DEF IsWriteRequest
    <3> QED
      BY <3>1, <3>2 DEF Writes
  <2>2. data = [k \in 1 .. Len(chain) |-> [at |-> chain[k], content |-> Bytes(rq.content, k)]]
        /\ Len(chain) \in Nat
    BY <1>3
  <2> HIDE DEF data
  <2> QED
    BY <2>1, <2>2
<1>6. full \in Tables
  <2>1. e \in EntryType
    BY DEF IsWriteRequest, IsNameRequest, EntryType
  <2>2. Entries(rq.parent) \in Tables
    BY EntriesTyped DEF Entries, DriverKept, DriverTypes
  <2> HIDE DEF e
  <2> QED
    BY <2>1, <2>2, TablesKept
<1> HIDE DEF data, full
<1>7. q \in Seq(Writes)
  BY <1>5, <1>6, TableWrite
<1> HIDE DEF q
<1> QED
  BY <1>1, <1>4, <1>7, KeptByWriting

\* write.
LEMMA WriteKeeps ==
  ASSUME DriverKept, NEW rq, IsWriteRequest(rq), NEW ret, write(rq, ret)
  PROVE  DriverKept'
<1>1. CASE UNCHANGED fsVars
  BY <1>1 DEF fsVars, DriverKept, DriverTypes, FatKept
<1>2. CASE /\ WriteRefusal(rq) = 0
           /\ busy' = get_empty_cluster(fat)
           /\ \E map \in Spilled(Entries(rq.parent)) :
                \/ rq.size = 0 /\ WriteFolder(rq, busy', map)
                \/ rq.size # 0 /\ WriteFile(rq, busy', map)
           /\ UNCHANGED <<disk, power>>
  <2>1. get_empty_cluster(fat) # NoCluster
    BY <1>2, ClusterRange DEF WriteRefusal, NoCluster
  <2>2. busy' \in Clusters /\ busy' \in AnyCluster
    BY <1>2, <2>1, EmptyFound DEF AnyCluster
  <2>3. Spilled(Entries(rq.parent)) \subseteq FatMaps
    BY SpillTyped DEF DriverKept, DriverTypes
  <2>4. power = "on"
    BY DEF write, Ready
  <2>5. ASSUME NEW map \in FatMaps, WriteFolder(rq, busy', map) PROVE DriverKept'
    BY <1>2, <2>2, <2>4, <2>5, WriteFolderKeeps
  <2>6. ASSUME NEW map \in FatMaps, rq.size # 0, WriteFile(rq, busy', map) PROVE DriverKept'
    BY <1>2, <2>2, <2>4, <2>6, WriteFileKeeps
  <2> QED
    BY <1>2, <2>3, <2>5, <2>6
<1> QED
  BY <1>1, <1>2 DEF write

\* The entry a search found is of a table, and the table without it is one.
LEMMA EntryFound ==
  ASSUME DriverKept, NEW parent, NEW i \in Indices
  PROVE  /\ Entries(parent)[i] \in EntryType /\ Entries(parent)[i].cluster \in AnyCluster
         /\ Put(parent, Table(RemoveEntry(Entries(parent), i))) \in Seq(Writes)
<1>1. Entries(parent) \in Tables
  BY EntriesTyped DEF Entries, DriverKept, DriverTypes
<1>2. Entries(parent)[i] \in EntryType
  BY <1>1 DEF Tables
<1> QED
  BY <1>1, <1>2, TablesKept, TableWrite DEF EntryType, AnyCluster

\* What is erased are writes of zeroes.
LEMMA EraseWrites ==
  ASSUME NEW C, NEW clusters \in Seq(C)
  PROVE  Erase(clusters) \in Seq(Writes) /\ NoFatIn(Erase(clusters))
<1> DEFINE W == {w \in Writes : w.at \in C /\ w.content = Zeroes}
<1>1. Erase(clusters) \in Seq(W)
  BY EraseTyped
<1>2. \A w \in W : w \in Writes /\ w.content.kind # "fat"
  BY DEF Zeroes, Table
<1> HIDE DEF W
<1>3. \A k \in DOMAIN Erase(clusters) : Erase(clusters)[k] \in W
  BY <1>1
<1> QED
  BY <1>1, <1>2, <1>3 DEF NoFatIn

\* Deleting one entry.
LEMMA DeleteEntryKeeps ==
  ASSUME DriverKept, NEW parent, NEW i \in Indices, DeleteEntry(parent, i), power = "on",
         UNCHANGED disk
  PROVE  DriverKept'
<1> DEFINE first == Entries(parent)[i].cluster
           freed == FreeChain(fat, first)
           zero  == Erase(Chain(fat, first))
           table == Put(parent, Table(RemoveEntry(Entries(parent), i)))
<1>1. fat' = freed /\ busy' = first
  BY DEF DeleteEntry
<1>2. first \in AnyCluster /\ table \in Seq(Writes)
  BY EntryFound
<1>3. freed \in FatMaps
  BY FatsKept DEF DriverKept, DriverTypes
<1>4. zero \in Seq(Writes)
  BY ChainTyped, EraseWrites
<1>5. \/ queue' = zero \o (table \o Put(FAT_CLUSTER_NUMBER, Fat(freed))) /\ UNCHANGED power
      \/ queue' = zero /\ power' = "hung"
  BY DEF DeleteEntry, Unlink
<1> HIDE DEF first, freed, zero, table
<1>6. CASE queue' = zero \o (table \o Put(FAT_CLUSTER_NUMBER, Fat(freed))) /\ UNCHANGED power
  <2> DEFINE put == Put(FAT_CLUSTER_NUMBER, Fat(freed))
  <2>1. put \in Seq(Writes)
    BY <1>3, PutTyped, StoredValues
  <2> HIDE DEF put
  <2>2. zero \o (table \o put) = (zero \o table) \o put /\ zero \o table \in Seq(Writes)
    BY <1>2, <1>4, <2>1
  <2>3. queue' = (zero \o table) \o Put(FAT_CLUSTER_NUMBER, Fat(fat'))
    BY <1>1, <1>6, <2>2 DEF put
  <2> QED
    BY <1>1, <1>2, <1>3, <1>6, <2>2, <2>3, KeptByWriting
<1>7. CASE queue' = zero /\ power' = "hung"
  BY <1>1, <1>2, <1>3, <1>4, <1>7 DEF DriverKept, DriverTypes, FatKept, AnyCluster
<1> QED
  BY <1>5, <1>6, <1>7

\* delete.
LEMMA DeleteKeeps ==
  ASSUME DriverKept, NEW rq, NEW ret, delete(rq, ret)
  PROVE  DriverKept'
<1> DEFINE i == Min(Matches(Entries(rq.parent), rq))
<1>1. CASE UNCHANGED fsVars
  BY <1>1 DEF fsVars, DriverKept, DriverTypes, FatKept
<1>2. CASE Matches(Entries(rq.parent), rq) # {} /\ DeleteEntry(rq.parent, i) /\ UNCHANGED disk
  <2>1. i \in Indices
    BY <1>2, MatchFound, IndexRange
  <2>2. power = "on"
    BY DEF delete, Ready
  <2> HIDE DEF i
  <2> QED
    BY <1>2, <2>1, <2>2, DeleteEntryKeeps
<1> QED
  BY <1>1, <1>2 DEF delete

\* Deleting one entry and everything in it.
LEMMA DeleteAllEntryKeeps ==
  ASSUME DriverKept, NEW parent, NEW i \in Indices, power = "on", UNCHANGED disk,
         busy' = Entries(parent)[i].cluster,
         DeleteAllEntry(parent, i) \/ DeleteAllLoops(parent, i)
  PROVE  DriverKept'
<1> DEFINE e     == Entries(parent)[i]
           freed == [c \in Clusters |-> IF c = e.cluster THEN FAT32_FAT_EMPTY_ENTRY ELSE fat[c]]
           zero  == IF e.folder THEN delete_all_folder(e.cluster) ELSE Erase(<<e.cluster>>)
           table == Put(parent, Table(RemoveEntry(Entries(parent), i)))
<1>1. e.cluster \in AnyCluster /\ table \in Seq(Writes)
  BY EntryFound
<1>2. freed \in FatMaps
  <2> HIDE DEF e
  <2> QED
    BY FatsKept DEF DriverKept, DriverTypes
<1>3. CASE DeleteAllEntry(parent, i)
  <2>1. zero \in Seq(Writes)
    <3>1. CASE e.folder
      <4>1. ASSUME NEW c \in AnyCluster, NEW k \in Items
            PROVE  Entries(c)[k].cluster \in AnyCluster
        BY EntryFound, IndexRange
      <4>2. \E s \in Seq(AnyCluster \cup AnyCluster) : delete_all_folder(e.cluster) = Erase(s)
        <5>1. disk \in [Clusters -> Stored] /\ AnyCluster \in SUBSET AnyCluster
          BY DEF DriverKept, DriverTypes
        <5> HIDE DEF e
        <5> QED
          BY <1>1, <4>1, <5>1, ErasedAre
      <4> QED
        BY <3>1, <4>2, EraseWrites
    <3>2. CASE ~e.folder
      <4>1. <<e.cluster>> \in Seq(AnyCluster)
        BY <1>1
      <4> QED
        BY <3>2, <4>1, EraseWrites
    <3> QED
      BY <3>1, <3>2
  <2>2. /\ fat' = freed /\ UNCHANGED power
        /\ queue' = zero \o (table \o Put(FAT_CLUSTER_NUMBER, Fat(freed)))
    BY <1>3 DEF DeleteAllEntry, Unlink
  <2>3. busy' \in AnyCluster
    BY <1>1
  <2> HIDE DEF e, freed, zero, table
  <2> DEFINE put == Put(FAT_CLUSTER_NUMBER, Fat(freed))
  <2>4. put \in Seq(Writes)
    BY <1>2, PutTyped, StoredValues
  <2> HIDE DEF put
  <2>5. zero \o (table \o put) = (zero \o table) \o put /\ zero \o table \in Seq(Writes)
    BY <1>1, <2>1, <2>4
  <2>6. queue' = (zero \o table) \o Put(FAT_CLUSTER_NUMBER, Fat(fat'))
    BY <2>2, <2>5 DEF put
  <2> QED
    BY <1>2, <2>2, <2>3, <2>5, <2>6, KeptByWriting
<1>4. CASE DeleteAllLoops(parent, i)
  <2>1. PICK zeroed \in SUBSET {c \in Clusters : c >= 3} : queue' = Erase(SetToSeq(zeroed))
    BY <1>4 DEF DeleteAllLoops
  <2>2. IsFiniteSet(zeroed)
    <3>1. zeroed \in SUBSET Clusters
      OBVIOUS
    <3> QED
      BY <3>1, ClustersFinite
  <2>3. queue' \in Seq(Writes)
    BY <2>1, <2>2, SetInOrder, EraseWrites
  <2>4. power' = "hung" /\ fat' = fat
    BY <1>4 DEF DeleteAllLoops
  <2> QED
    BY <1>1, <2>3, <2>4 DEF DriverKept, DriverTypes, FatKept, AnyCluster
<1> QED
  BY <1>3, <1>4

\* delete_all.
LEMMA DeleteAllKeeps ==
  ASSUME DriverKept, NEW rq, NEW ret, delete_all(rq, ret)
  PROVE  DriverKept'
<1> DEFINE i == Min(Matches(Entries(rq.parent), rq))
<1>1. CASE UNCHANGED fsVars
  BY <1>1 DEF fsVars, DriverKept, DriverTypes, FatKept
<1>2. CASE /\ Matches(Entries(rq.parent), rq) # {}
           /\ DeleteAllEntry(rq.parent, i) \/ DeleteAllLoops(rq.parent, i)
           /\ busy' = Entries(rq.parent)[i].cluster
           /\ UNCHANGED disk
  <2>1. i \in Indices
    BY <1>2, MatchFound, IndexRange
  <2>2. power = "on"
    BY DEF delete_all, Ready
  <2> HIDE DEF i
  <2> QED
    BY <1>2, <2>1, <2>2, DeleteAllEntryKeeps
<1> QED
  BY <1>1, <1>2 DEF delete_all

\* The search for the entry to move finds one.
LEMMA SourceFound ==
  ASSUME NEW src, SourceIndices(src) # {}
  PROVE  Min(SourceIndices(src)) \in SourceIndices(src) /\ Min(SourceIndices(src)) \in Indices
<1>1. SourceIndices(src) \in SUBSET Nat /\ SourceIndices(src) \in SUBSET Indices
  BY IndexRange DEF SourceIndices
<1> QED
  BY <1>1, MinIsLeast

\* The place an entry is moved to.
LEMMA DestinationTyped ==
  ASSUME DriverKept, NEW tar, IsNameRequest(tar)
  PROVE  Destination(tar) \in AnyCluster
<1>1. CASE IntoFolder(tar)
  <2>1. TargetHits(tar) # {} /\ TargetHits(tar) \in SUBSET Nat /\ TargetHits(tar) \in SUBSET Indices
    BY <1>1, IndexRange DEF IntoFolder, TargetHits, Visible, Matches
  <2>2. Min(TargetHits(tar)) \in Indices
    BY <2>1, MinIsLeast
  <2>3. Entries(tar.parent)[Min(TargetHits(tar))].cluster \in AnyCluster
    BY <2>2, EntryFound
  <2> QED
    BY <1>1, <2>3 DEF Destination
<1>2. CASE ~IntoFolder(tar)
  BY <1>2 DEF Destination, IsNameRequest
<1> QED
  BY <1>1, <1>2

\* A table whose entries about the folder itself and its parent are changed.
LEMMA TableRenamed ==
  ASSUME NEW t \in Tables, NEW name \in Names \cup {NoName, ".", ".."}, NEW ext \in Exts,
         NEW c \in AnyCluster
  PROVE  [t EXCEPT ![0].name = name, ![0].ext = ext, ![1].cluster = c] \in Tables
<1> DEFINE self   == [t[0] EXCEPT !.name = name, !.ext = ext]
           parent == [t[1] EXCEPT !.cluster = c]
<1>1. t[0] \in EntryType /\ t[1] \in EntryType
  BY IndexRange DEF Tables
<1>2. self \in EntryType
  BY <1>1 DEF EntryType
<1>3. parent \in EntryType
  BY <1>1 DEF EntryType, AnyCluster
<1>4. [t EXCEPT ![0].name = name, ![0].ext = ext, ![1].cluster = c]
        = [t EXCEPT ![0] = self, ![1] = parent]
  BY IndexRange DEF Tables
<1> HIDE DEF self, parent
<1>5. [t EXCEPT ![0] = self, ![1] = parent] \in Tables
  BY <1>2, <1>3, TablesKept DEF Tables
<1> QED
  BY <1>4, <1>5

\* move.
LEMMA MoveKeeps ==
  ASSUME DriverKept, NEW src, NEW tar, IsNameRequest(src), IsNameRequest(tar), NEW ret,
         move(src, tar, ret)
  PROVE  DriverKept'
<1>1. CASE UNCHANGED fsVars
  BY <1>1 DEF fsVars, DriverKept, DriverTypes, FatKept
<1>2. CASE MoveRefusal(src, tar) = 0 /\ MoveEntry(src, tar) /\ UNCHANGED <<disk, fat, power>>
  <2> DEFINE i     == Min(SourceIndices(src))
             old   == Source(src)
             dest  == Destination(tar)
             new   == IF IntoFolder(tar) THEN old ELSE [old EXCEPT !.name = tar.name, !.ext = tar.ext]
             moved == [Entries(old.cluster) EXCEPT ![0].name = new.name, ![0].ext = new.ext,
                                                   ![1].cluster = dest]
             t     == Entries(dest)
             left  == Put(src.parent, Table(RemoveEntry(Entries(src.parent), i)))
             self  == IF old.folder THEN Put(old.cluster, Table(moved)) ELSE <<>>
             there == Put(dest, Table([t EXCEPT ![FirstHole(t)] = new]))
  <2>1. SourceIndices(src) # {}
    BY <1>2, ClusterRange DEF MoveRefusal
  <2>2. i \in Indices
    BY <2>1, SourceFound
  <2>3. old \in EntryType /\ old.cluster \in AnyCluster
    <3>1. old = Entries(src.parent)[i]
      BY DEF Source
    <3> HIDE DEF i
    <3> QED
      BY <2>2, <3>1, EntryFound
  <2>4. dest \in AnyCluster
    BY DestinationTyped
  <2>5. new \in EntryType
    <3> HIDE DEF old
    <3> QED
      BY <2>3 DEF EntryType, IsNameRequest
  <2> HIDE DEF new
  <2>6. \A c : Entries(c) \in Tables
    BY EntriesTyped DEF Entries, DriverKept, DriverTypes
  <2>7. moved \in Tables
    <3>1. new.name \in Names \cup {NoName, ".", ".."} /\ new.ext \in Exts
      BY <2>5 DEF EntryType
    <3> HIDE DEF old, dest
    <3> QED
      BY <2>4, <2>6, <3>1, TableRenamed
  <2> HIDE DEF moved
  <2>8. [t EXCEPT ![FirstHole(t)] = new] \in Tables
    BY <2>5, <2>6, TablesKept
  <2>9. RemoveEntry(Entries(src.parent), i) \in Tables
    BY <2>2, <2>6, TablesKept
  <2>10. queue' = (self \o left) \o there /\ busy' = old.cluster
    BY <1>2 DEF MoveEntry, new, moved
  <2> HIDE DEF i, old, dest, t
  <2>11. self \in Seq(Writes) /\ NoFatIn(self)
    <3>1. CASE old.folder
      BY <2>7, <3>1, TableWrite
    <3>2. CASE ~old.folder
      BY <3>2 DEF NoFatIn
    <3> QED
      BY <3>1, <3>2
  <2>12. left \in Seq(Writes) /\ NoFatIn(left)
    BY <2>9, TableWrite
  <2>13. there \in Seq(Writes) /\ NoFatIn(there)
    BY <2>8, TableWrite
  <2> HIDE DEF self, left, there
  <2>14. queue' \in Seq(Writes) /\ NoFatIn(queue')
    BY <2>10, <2>11, <2>12, <2>13, NoFatInBoth
  <2>15. power = "on" /\ queue = <<>>
    BY DEF move, Ready
  <2>16. ~LastFatIs(queue, fat)
    BY <2>15 DEF LastFatIs
  <2>17. DriverTypes'
    BY <1>2, <2>3, <2>10, <2>14 DEF DriverKept, DriverTypes, AnyCluster
  <2>18. FatKept'
    BY <1>2, <2>14, <2>15, <2>16 DEF DriverKept, FatKept
  <2> QED
    BY <2>17, <2>18 DEF DriverKept
<1> QED
  BY <1>1, <1>2 DEF move

\* A disk and a memory of zeroes.
LEMMA StartKept == Init => DriverKept
<1> SUFFICES ASSUME Init PROVE DriverKept
  OBVIOUS
<1>1. disk \in [Clusters -> Stored] /\ fat \in FatMaps
  BY EntryValues, FatWordValues DEF Init, Fat32Init, FatMaps
<1>2. queue \in Seq(Writes) /\ queue = <<>> /\ busy \in AnyCluster /\ power = "off"
  BY ClusterRange DEF Init, Fat32Init, AnyCluster
<1> QED
  BY <1>1, <1>2 DEF DriverKept, DriverTypes, FatKept, AnyCluster

\* Power-up reads the FAT, or writes one.
LEMMA BootKeeps ==
  ASSUME DriverKept, initialize_filesystem_fat32
  PROVE  DriverKept'
<1>1. power = "off" /\ power' = "on" /\ UNCHANGED <<disk, busy>> /\ queue = <<>>
  BY DEF initialize_filesystem_fat32, DriverKept, FatKept
<1>2. CASE create_fat32
  <2> DEFINE map  == [fat EXCEPT ![0] = CLUSTER_0_VALUE, ![1] = CLUSTER_1_VALUE,
                                 ![2] = FAT32_FAT_END_OF_FILE]
             root == [NoEntries EXCEPT ![0] = FolderEntry(".", ROOT_CLUSTER_NUMBER),
                                       ![1] = FolderEntry("..", ROOT_CLUSTER_NUMBER)]
             boot == Put(BOOT_SECTOR, Signature)
             put  == Put(FAT_CLUSTER_NUMBER, Fat(map))
             last == Put(ROOT_CLUSTER_NUMBER, Table(root))
  <2>1. fat' = map /\ queue' = (boot \o put) \o last
    BY <1>2 DEF create_fat32
  <2>2. map \in FatMaps
    <3>1. CLUSTER_1_VALUE = FAT32_FAT_END_OF_FILE
      BY SMT DEF CLUSTER_1_VALUE, FAT32_FAT_END_OF_FILE
    <3> QED
      BY <3>1, FatWordValues DEF FatMaps, DriverKept, DriverTypes
  <2>3. root \in Tables
    <3>1. FolderEntry(".", ROOT_CLUSTER_NUMBER) \in EntryType
          /\ FolderEntry("..", ROOT_CLUSTER_NUMBER) \in EntryType
      BY EntryValues, ClusterRange DEF ROOT_CLUSTER_NUMBER
    <3> QED
      BY <3>1, EntryValues DEF Tables
  <2> HIDE DEF map, root
  <2>4. boot \in Seq(Writes)
    BY PutTyped, StoredValues
  <2>5. put \in Seq(Writes) /\ boot \o put \in Seq(Writes) /\ LastFatIs(boot \o put, map)
    BY <2>2, <2>4, FatWrittenLast, PutTyped, StoredValues
  <2>6. last \in Seq(Writes) /\ NoFatIn(last)
    BY <2>3, TableWrite
  <2> HIDE DEF boot, put, last
  <2>7. queue' \in Seq(Writes) /\ LastFatIs(queue', map)
    <3> DEFINE q == boot \o put
    <3> HIDE DEF q
    <3>1. q \in Seq(Writes) /\ LastFatIs(q, map) /\ queue' = q \o last
      BY <2>1, <2>5 DEF q
    <3>2. PICK k \in DOMAIN q : /\ q[k] = [at |-> FAT_CLUSTER_NUMBER, content |-> Fat(map)]
                                /\ \A j \in DOMAIN q : j > k => q[j].content.kind # "fat"
      BY <3>1 DEF LastFatIs
    <3>3. k \in DOMAIN queue' /\ queue'[k] = q[k]
      BY <2>6, <3>1
    <3>4. ASSUME NEW j \in DOMAIN queue', j > k PROVE queue'[j].content.kind # "fat"
      <4>1. CASE j <= Len(q)
        <5>1. j \in DOMAIN q /\ queue'[j] = q[j]
          BY <2>6, <3>1, <4>1
        <5> QED
          BY <3>2, <3>4, <5>1
      <4>2. CASE ~(j <= Len(q))
        <5>1. j - Len(q) \in DOMAIN last /\ queue'[j] = last[j - Len(q)]
          BY <2>6, <3>1, <4>2
        <5> QED
          BY <2>6, <5>1 DEF NoFatIn
      <4> QED
        BY <4>1, <4>2
    <3>5. queue' \in Seq(Writes)
      BY <2>6, <3>1
    <3> QED
      BY <3>2, <3>3, <3>4, <3>5 DEF LastFatIs
  <2> QED
    BY <1>1, <2>1, <2>2, <2>7 DEF DriverKept, DriverTypes, FatKept
<1>3. CASE /\ fat' = IF disk[FAT_CLUSTER_NUMBER].kind = "fat" THEN disk[FAT_CLUSTER_NUMBER].map ELSE fat
           /\ UNCHANGED queue
  <2>1. disk[FAT_CLUSTER_NUMBER] \in Stored
    BY ClusterRange DEF DriverKept, DriverTypes, FAT_CLUSTER_NUMBER
  <2>2. fat' \in FatMaps
    BY <1>3, <2>1, StoredKinds DEF DriverKept, DriverTypes
  <2>3. NoFatIn(queue')
    BY <1>1, <1>3 DEF NoFatIn
  <2> QED
    BY <1>1, <1>3, <2>2, <2>3 DEF DriverKept, DriverTypes, FatKept
<1> QED
  BY <1>2, <1>3 DEF initialize_filesystem_fat32

\* A crash.
LEMMA CrashKeeps ==
  ASSUME DriverKept, Crash
  PROVE  DriverKept'
<1>1. fat' \in FatMaps
  BY FatWordValues DEF Crash, FatMaps
<1>2. queue' \in Seq(Writes) /\ queue' = <<>> /\ busy' \in AnyCluster /\ power' = "off" /\ disk' = disk
  BY ClusterRange DEF Crash, AnyCluster
<1> QED
  BY <1>1, <1>2 DEF DriverKept, DriverTypes, FatKept, AnyCluster

\* Every step keeps the types and the FAT.
LEMMA DriverStep == DriverKept /\ [FileSystemNext]_systemVars => DriverKept'
<1> SUFFICES ASSUME DriverKept, [FileSystemNext]_systemVars PROVE DriverKept'
  OBVIOUS
<1>1. FolderClusters \in SUBSET AnyCluster /\ Selves \in SUBSET AnyCluster
      /\ FolderClusters \cup Selves \in SUBSET AnyCluster
  BY ParentsTyped DEF DriverKept, DriverTypes, AnyCluster
<1>2. CASE initialize_filesystem_fat32
  BY <1>2, BootKeeps
<1>3. CASE Flush
  BY <1>3, FlushKeepsFat
<1>4. CASE Crash
  BY <1>4, CrashKeeps
<1>5. ASSUME NEW rq \in WriteRequests(FolderClusters \cup Selves), write(rq, WriteRefusal(rq))
      PROVE  DriverKept'
  BY <1>1, <1>5, RequestsTyped, WriteKeeps
<1>6. ASSUME NEW rq, NEW ret, delete(rq, ret) PROVE DriverKept'
  BY <1>6, DeleteKeeps
<1>7. ASSUME NEW rq, NEW ret, delete_all(rq, ret) PROVE DriverKept'
  BY <1>7, DeleteAllKeeps
<1>8. ASSUME NEW src \in NameRequests(FolderClusters \cup Selves),
             NEW tar \in NameRequests(FolderClusters \cup Selves),
             move(src, tar, MoveRefusal(src, tar))
      PROVE  DriverKept'
  BY <1>1, <1>8, RequestsTyped, MoveKeeps
<1>9. CASE UNCHANGED systemVars
  BY <1>9 DEF systemVars, fsVars, DriverKept, DriverTypes, FatKept
<1> QED
  BY <1>2, <1>3, <1>4, <1>5, <1>6, <1>7, <1>8, <1>9 DEF FileSystemNext, Syscall

\* The invariant says what the runs check.
LEMMA KeptIsDriverInv == DriverKept => DriverInv
<1> SUFFICES ASSUME DriverKept PROVE DriverInv
  OBVIOUS
<1>1. \A c \in Clusters : /\ disk[c].kind \in {"signature", "fat", "table", "bytes"}
                          /\ disk[c].kind = "table" => disk[c].entries \in Tables
  BY StoredKinds DEF DriverKept, DriverTypes
<1>2. \A k \in DOMAIN queue : queue[k].at \in Clusters
  <2>1. queue \in Seq(Writes)
    BY DEF DriverKept, DriverTypes
  <2>2. \A k \in DOMAIN queue : queue[k] \in Writes
    BY <2>1
  <2>3. \A w \in Writes : w.at \in Clusters
    BY DEF Writes
  <2> QED
    BY <2>2, <2>3
<1>3. Fat32TypeOK
  BY <1>1, <1>2 DEF Fat32TypeOK, DriverKept, DriverTypes, FatMaps, FatWords, Tables
<1>4. FatCached
  <2> SUFFICES ASSUME power = "on", queue = <<>>, disk[FAT_CLUSTER_NUMBER].kind = "fat"
               PROVE  disk[FAT_CLUSTER_NUMBER].map = fat
    BY DEF FatCached, Ready
  <2>1. ~LastFatIs(queue, fat)
    BY DEF LastFatIs
  <2> QED
    BY <2>1 DEF DriverKept, FatKept
<1> QED
  BY <1>3, <1>4 DEF DriverInv

\* Types, and that the FAT in memory is the one on the disk whenever a syscall can begin,
\* wherever the machine stopped before.
THEOREM DriverInvariant == FileSystemSpec => []DriverInv
BY StartKept, DriverStep, KeptIsDriverInv, PTL DEF FileSystemSpec

-----------------------------------------------------------------------------
(* The disk once its writes are done *)

WritesTo(q, c) == {k \in DOMAIN q : q[k].at = c}

ImageOf(d, q)  ==
  [c \in Clusters |-> IF WritesTo(q, c) = {} THEN d[c] ELSE q[Max(WritesTo(q, c))].content]

\* Image is that of the disk and the queue.
LEMMA ImageIs == Image = ImageOf(disk, queue)
BY DEF Image, ImageOf, WritesTo

\* The last write to a cluster is one.
LEMMA LastWrite ==
  ASSUME NEW q \in Seq(Writes), NEW c, WritesTo(q, c) # {}
  PROVE  /\ Max(WritesTo(q, c)) \in DOMAIN q /\ q[Max(WritesTo(q, c))].at = c
         /\ \A k \in WritesTo(q, c) : k <= Max(WritesTo(q, c))
<1>1. Len(q) \in Nat /\ WritesTo(q, c) \in SUBSET (0 .. Len(q))
  BY DEF WritesTo
<1>2. /\ Max(WritesTo(q, c)) \in WritesTo(q, c)
      /\ \A k \in WritesTo(q, c) : k <= Max(WritesTo(q, c))
  BY <1>1, MaxIsGreatest
<1> QED
  BY <1>2 DEF WritesTo

\* A cluster holds what it held, or what a write put there.
LEMMA ImageFrom ==
  ASSUME NEW d, NEW q \in Seq(Writes), NEW c \in Clusters
  PROVE  ImageOf(d, q)[c] = d[c] \/ \E k \in DOMAIN q : q[k].at = c /\ ImageOf(d, q)[c] = q[k].content
<1>1. CASE WritesTo(q, c) = {}
  BY <1>1 DEF ImageOf
<1>2. CASE WritesTo(q, c) # {}
  <2>1. ImageOf(d, q)[c] = q[Max(WritesTo(q, c))].content
    BY <1>2 DEF ImageOf
  <2> QED
    BY <1>2, <2>1, LastWrite
<1> QED
  BY <1>1, <1>2

\* A cluster that no write is for stays what it was.
LEMMA Unwritten ==
  ASSUME NEW d, NEW q, NEW c \in Clusters, \A k \in DOMAIN q : q[k].at # c
  PROVE  ImageOf(d, q)[c] = d[c]
BY DEF ImageOf, WritesTo

\* An image is determined by where the last write is.
LEMMA ImageAt ==
  ASSUME NEW d, NEW q \in Seq(Writes), NEW k \in DOMAIN q,
         \A j \in DOMAIN q : j > k => q[j].at # q[k].at
  PROVE  ImageOf(d, q)[q[k].at] = q[k].content
<1> DEFINE c == q[k].at
           m == Max(WritesTo(q, c))
<1>1. k \in WritesTo(q, c) /\ c \in Clusters
  <2>1. q[k] \in Writes
    OBVIOUS
  <2> QED
    BY <2>1 DEF WritesTo, Writes
<1>2. m \in DOMAIN q /\ q[m].at = c /\ k <= m
  <2> HIDE DEF c
  <2> QED
    BY <1>1, LastWrite
<1>3. ~(m > k)
  BY <1>2
<1>4. m = k
  <2>1. m \in Int /\ k \in Int
    BY <1>2
  <2> HIDE DEF m
  <2> QED
    BY <1>2, <1>3, <2>1
<1>5. ImageOf(d, q)[c] = q[m].content
  BY <1>1 DEF ImageOf
<1> QED
  BY <1>4, <1>5

\* One write after those of q, and what it leaves.
Then(q, cluster, content) == q \o Put(cluster, content)

\* It makes a sequence of writes again.
LEMMA ThenTyped ==
  ASSUME NEW q \in Seq(Writes), NEW cluster, NEW content \in Stored
  PROVE  Then(q, cluster, content) \in Seq(Writes)
BY PutTyped DEF Then

\* The cluster written last has what was written.
LEMMA WrittenHere ==
  ASSUME NEW d, NEW q \in Seq(Writes), NEW content \in Stored, NEW c \in Clusters
  PROVE  ImageOf(d, Then(q, c, content))[c] = content
<1> DEFINE w == [at |-> c, content |-> content]
           r == q \o <<w>>
           n == Len(q) + 1
<1>1. Then(q, c, content) = r /\ w \in Writes /\ w.at = c /\ w.content = content
  BY DEF Put, Writes, Then
<1> HIDE DEF w
<1>2. r \in Seq(Writes) /\ DOMAIN r = 1 .. n /\ r[n] = w /\ n \in DOMAIN r
  BY <1>1
<1> HIDE DEF r
<1>3. \A j \in DOMAIN r : ~(j > n)
  BY <1>2
<1>4. ImageOf(d, r)[r[n].at] = r[n].content
  <2> HIDE DEF n
  <2> QED
    BY <1>2, <1>3, ImageAt
<1> HIDE DEF n
<1> QED
  BY <1>1, <1>2, <1>4, Zenon

\* Every other cluster has what it had.
LEMMA WrittenLast ==
  ASSUME NEW d, NEW q \in Seq(Writes), NEW cluster, NEW content \in Stored, NEW c \in Clusters
  PROVE  /\ c = cluster => ImageOf(d, Then(q, cluster, content))[c] = content
         /\ c # cluster => ImageOf(d, Then(q, cluster, content))[c] = ImageOf(d, q)[c]
<1>1. ASSUME c = cluster PROVE ImageOf(d, Then(q, cluster, content))[c] = content
  <2>1. ImageOf(d, Then(q, c, content))[c] = content
    BY WrittenHere
  <2>2. Then(q, c, content) = Then(q, cluster, content)
    BY <1>1
  <2> QED
    BY <2>1, <2>2, Zenon
<1>2. ASSUME cluster \notin Clusters
      PROVE  ImageOf(d, Then(q, cluster, content))[c] = ImageOf(d, q)[c]
  BY <1>2 DEF Put, Then
<1>3. ASSUME cluster \in Clusters, c # cluster
      PROVE  ImageOf(d, Then(q, cluster, content))[c] = ImageOf(d, q)[c]
  <2> DEFINE w == [at |-> cluster, content |-> content]
             r == q \o <<w>>
             n == Len(q) + 1
  <2>1. Then(q, cluster, content) = r /\ w.at = cluster /\ w \in Writes
    BY <1>3 DEF Put, Writes, Then
  <2> HIDE DEF w
  <2>2. /\ DOMAIN r = 1 .. n /\ r[n] = w /\ DOMAIN q = 1 .. Len(q) /\ Len(q) \in Nat
        /\ \A k \in DOMAIN q : k \in DOMAIN r /\ r[k] = q[k]
        /\ \A k \in DOMAIN r : k = n \/ k \in DOMAIN q
    BY <2>1
  <2> HIDE DEF r
  <2>3. WritesTo(r, c) = WritesTo(q, c)
    BY <1>3, <2>1, <2>2 DEF WritesTo
  <2>4. CASE WritesTo(q, c) = {}
    BY <2>1, <2>3, <2>4 DEF ImageOf
  <2>5. CASE WritesTo(q, c) # {}
    <3>1. Max(WritesTo(q, c)) \in DOMAIN q
      BY <2>5, LastWrite
    <3>2. r[Max(WritesTo(q, c))] = q[Max(WritesTo(q, c))]
      BY <2>2, <3>1
    <3> QED
      BY <2>1, <2>3, <2>5, <3>2 DEF ImageOf
  <2> QED
    BY <2>4, <2>5
<1> QED
  BY <1>1, <1>2, <1>3

\* Doing the first write leaves the image what it is.
LEMMA FlushedImage ==
  ASSUME NEW d \in [Clusters -> Stored], NEW q \in Seq(Writes), q # <<>>
  PROVE  ImageOf([d EXCEPT ![Head(q).at] = Head(q).content], Tail(q)) = ImageOf(d, q)
<1> DEFINE e == [d EXCEPT ![Head(q).at] = Head(q).content]
           r == Tail(q)
<1>1. /\ r \in Seq(Writes) /\ Len(q) \in Nat /\ Len(q) > 0 /\ DOMAIN q = 1 .. Len(q)
      /\ DOMAIN r = 1 .. Len(q) - 1 /\ \A k \in DOMAIN r : r[k] = q[k + 1]
      /\ Head(q) = q[1] /\ 1 \in DOMAIN q
  OBVIOUS
<1>2. \A k \in DOMAIN q : k = 1 \/ (k - 1 \in DOMAIN r /\ q[k] = r[k - 1])
  BY <1>1
<1>3. \A k \in DOMAIN r : k + 1 \in DOMAIN q
  BY <1>1
<1> HIDE DEF r
<1>4. ASSUME NEW c \in Clusters PROVE ImageOf(e, r)[c] = ImageOf(d, q)[c]
  <2>1. CASE WritesTo(r, c) = {}
    <3>1. ImageOf(e, r)[c] = e[c]
      BY <2>1 DEF ImageOf
    <3>2. \A k \in DOMAIN q : k # 1 => q[k].at # c
      BY <1>2, <2>1 DEF WritesTo
    <3>3. CASE q[1].at = c
      <4>1. e[c] = q[1].content
        BY <1>1, <3>3
      <4>2. \A j \in DOMAIN q : j > 1 => q[j].at # q[1].at
        BY <1>1, <3>2, <3>3
      <4>3. ImageOf(d, q)[q[1].at] = q[1].content
        BY <1>1, <4>2, ImageAt
      <4> QED
        BY <3>1, <3>3, <4>1, <4>3
    <3>4. CASE q[1].at # c
      <4>1. e[c] = d[c]
        BY <1>1, <3>4
      <4>2. ImageOf(d, q)[c] = d[c]
        BY <3>2, <3>4, Unwritten
      <4> QED
        BY <3>1, <4>1, <4>2
    <3> QED
      BY <3>3, <3>4
  <2>2. CASE WritesTo(r, c) # {}
    <3> DEFINE m == Max(WritesTo(r, c))
    <3>1. m \in DOMAIN r /\ r[m].at = c /\ \A k \in WritesTo(r, c) : k <= m
      BY <1>1, <2>2, LastWrite
    <3>2. ImageOf(e, r)[c] = r[m].content
      BY <2>2 DEF ImageOf
    <3> HIDE DEF m
    <3>3. m + 1 \in DOMAIN q /\ q[m + 1] = r[m]
      BY <1>1, <3>1
    <3>4. ASSUME NEW j \in DOMAIN q, j > m + 1 PROVE q[j].at # c
      <4>1. j - 1 \in DOMAIN r /\ q[j] = r[j - 1]
        BY <1>1, <3>1, <3>4
      <4>2. ~(j - 1 <= m)
        BY <1>1, <3>1, <3>4
      <4>3. j - 1 \notin WritesTo(r, c)
        BY <3>1, <4>2
      <4> QED
        BY <4>1, <4>3 DEF WritesTo
    <3>5. ImageOf(d, q)[q[m + 1].at] = q[m + 1].content
      BY <3>1, <3>3, <3>4, ImageAt
    <3> QED
      BY <3>1, <3>2, <3>3, <3>5
  <2> QED
    BY <2>1, <2>2
<1>5. ImageOf(e, r) = [c \in Clusters |-> ImageOf(e, r)[c]]
  BY DEF ImageOf
<1>6. ImageOf(d, q) = [c \in Clusters |-> ImageOf(d, q)[c]]
  BY DEF ImageOf
<1> HIDE DEF e
<1> QED
  BY <1>4, <1>5, <1>6 DEF e, r

-----------------------------------------------------------------------------
(* The folders below a folder *)

\* More folders have more subfolders.
LEMMA SubfoldersGrow ==
  ASSUME NEW d, NEW S, NEW T, S \subseteq T
  PROVE  SubfoldersOn(d, S) \subseteq SubfoldersOn(d, T)
BY DEF SubfoldersOn

\* What is at or below the folders of S is the least set with S that has the subfolders of all
\* its folders: on a disk of so many clusters as many levels as there are clusters are enough.
LEMMA BelowIsLeast ==
  ASSUME NEW d, NEW S \in SUBSET Clusters
  PROVE  /\ S \subseteq BelowOn(d, S) /\ BelowOn(d, S) \subseteq Clusters
         /\ SubfoldersOn(d, BelowOn(d, S)) \subseteq BelowOn(d, S)
         /\ \A X : S \subseteq X /\ SubfoldersOn(d, X) \subseteq X => BelowOn(d, S) \subseteq X
<1> DEFINE N == CLUSTER_MAP_SIZE
<1>0. PICK b : b \in Levels(d, S)
  BY BelowSteps
<1>1. /\ b \in [0 .. N -> SUBSET (Clusters \cup S)]
      /\ b[0] = S
      /\ \A n \in 0 .. N - 1 : b[n + 1] = S \cup SubfoldersOn(d, b[n])
      /\ BelowOn(d, S) = b[N]
  BY <1>0 DEF Levels
<1>2. N \in Nat /\ N > 0 /\ \A n \in 0 .. N : b[n] \in SUBSET Clusters
  BY <1>1, ClusterRange
<1>3. \A n \in 0 .. N - 1 : n \in 0 .. N /\ n + 1 \in 0 .. N
  BY <1>2
<1> HIDE DEF N
<1>4. \A n \in 0 .. N : S \subseteq b[n]
  <2> DEFINE A == {n \in 0 .. N : S \subseteq b[n]}
  <2>1. 0 \in A
    BY <1>1, <1>2
  <2>2. \A n \in 0 .. N - 1 : n \in A => n + 1 \in A
    BY <1>1, <1>3
  <2>3. A \in SUBSET (0 .. N)
    OBVIOUS
  <2> HIDE DEF A
  <2>4. A = 0 .. N
    BY <1>2, <2>1, <2>2, <2>3, AllUpTo
  <2> QED
    BY <2>4 DEF A
<1>5. ASSUME NEW X, S \subseteq X, SubfoldersOn(d, X) \subseteq X PROVE b[N] \subseteq X
  <2> DEFINE A == {n \in 0 .. N : b[n] \subseteq X}
  <2>1. 0 \in A
    BY <1>1, <1>2, <1>5
  <2>2. ASSUME NEW n \in 0 .. N - 1, n \in A PROVE n + 1 \in A
    <3>1. SubfoldersOn(d, b[n]) \subseteq X
      BY <1>5, <2>2, SubfoldersGrow
    <3> QED
      BY <1>1, <1>3, <1>5, <3>1
  <2>3. A \in SUBSET (0 .. N)
    OBVIOUS
  <2> HIDE DEF A
  <2>4. A = 0 .. N
    BY <1>2, <2>1, <2>2, <2>3, AllUpTo
  <2>5. N \in A
    BY <1>2, <2>4
  <2> QED
    BY <2>5 DEF A
<1>6. \A n \in 0 .. N - 1 : b[n] \subseteq b[n + 1]
  <2> DEFINE A == {n \in 0 .. N : n < N => b[n] \subseteq b[n + 1]}
  <2>1. 0 \in A
    <3>1. 0 \in 0 .. N /\ 0 \in 0 .. N - 1
      BY <1>2
    <3> QED
      BY <1>1, <3>1
  <2>2. ASSUME NEW n \in 0 .. N - 1, n \in A PROVE n + 1 \in A
    <3>1. n < N /\ n + 1 \in 0 .. N
      BY <1>2
    <3>2. CASE n + 1 < N
      <4>1. n + 1 \in 0 .. N - 1
        BY <1>2, <3>1, <3>2
      <4>2. b[n] \subseteq b[n + 1]
        BY <2>2, <3>1
      <4>3. b[(n + 1) + 1] = S \cup SubfoldersOn(d, b[n + 1]) /\ b[n + 1] = S \cup SubfoldersOn(d, b[n])
        BY <1>1, <4>1
      <4>4. b[n + 1] \subseteq b[(n + 1) + 1]
        BY <4>2, <4>3, SubfoldersGrow
      <4> QED
        BY <3>1, <4>4
    <3>3. CASE ~(n + 1 < N)
      BY <3>1, <3>3
    <3> QED
      BY <3>2, <3>3
  <2>3. A \in SUBSET (0 .. N)
    OBVIOUS
  <2> HIDE DEF A
  <2>4. A = 0 .. N
    BY <1>2, <2>1, <2>2, <2>3, AllUpTo
  <2>5. \A n \in 0 .. N - 1 : n \in A /\ n < N
    BY <1>2, <2>4
  <2> QED
    BY <2>5 DEF A
<1>7. \A n \in 0 .. N : IsFiniteSet(b[n]) /\ Cardinality(b[n]) \in Nat /\ Cardinality(b[n]) <= N
  <2>1. IsFiniteSet(Clusters) /\ Cardinality(Clusters) = N
    BY ClustersFinite DEF N
  <2>2. ASSUME NEW n \in 0 .. N PROVE Cardinality(b[n]) <= N
    <3>1. b[n] \in SUBSET Clusters
      BY <1>2
    <3> QED
      BY <2>1, <3>1, FS_Subset
  <2> QED
    BY <1>2, <2>2, ClustersFinite
<1>8. CASE S = {}
  <2>1. SubfoldersOn(d, {}) = {}
    BY DEF SubfoldersOn
  <2>2. b[N] = {}
    BY <1>5, <1>8, <2>1
  <2> QED
    BY <1>1, <1>5, <1>8, <2>1, <2>2 DEF N
\* Each level is closed or has one folder more than the one before.
<1>9. CASE S # {}
  <2> DEFINE A == {n \in 0 .. N : SubfoldersOn(d, b[n]) \subseteq b[n] \/ n + 1 <= Cardinality(b[n])}
  <2>1. 0 \in A
    <3>1. Cardinality(b[0]) # 0
      BY <1>1, <1>2, <1>7, <1>9, FS_EmptySet
    <3> QED
      BY <1>2, <1>7, <3>1
  <2>2. ASSUME NEW n \in 0 .. N - 1, n \in A PROVE n + 1 \in A
    <3>1. n \in 0 .. N /\ n + 1 \in 0 .. N /\ n \in Nat
      BY <1>2
    <3>2. b[n + 1] = S \cup SubfoldersOn(d, b[n]) /\ S \subseteq b[n] /\ b[n] \subseteq b[n + 1]
      BY <1>1, <1>4, <1>6, <3>1
    <3>3. CASE SubfoldersOn(d, b[n]) \subseteq b[n]
      <4>1. b[n + 1] = b[n]
        BY <3>2, <3>3
      <4> QED
        BY <3>1, <3>3, <4>1
    <3>4. CASE ~(SubfoldersOn(d, b[n]) \subseteq b[n])
      <4>1. PICK x : x \in SubfoldersOn(d, b[n]) /\ x \notin b[n]
        BY <3>4
      <4>2. n + 1 <= Cardinality(b[n])
        BY <2>2, <3>4
      <4>3. Cardinality(b[n] \cup {x}) = Cardinality(b[n]) + 1 /\ IsFiniteSet(b[n] \cup {x})
        BY <1>7, <3>1, <4>1, FS_AddElement
      <4>4. b[n] \cup {x} \subseteq b[n + 1]
        BY <3>2, <4>1
      <4>5. Cardinality(b[n] \cup {x}) <= Cardinality(b[n + 1])
        BY <1>7, <3>1, <4>4, FS_Subset
      <4>6. (n + 1) + 1 <= Cardinality(b[n + 1])
        BY <1>7, <3>1, <4>2, <4>3, <4>5
      <4> QED
        BY <3>1, <4>6
    <3> QED
      BY <3>3, <3>4
  <2>3. A \in SUBSET (0 .. N)
    OBVIOUS
  <2> HIDE DEF A
  <2>4. A = 0 .. N
    BY <1>2, <2>1, <2>2, <2>3, AllUpTo
  <2>5. SubfoldersOn(d, b[N]) \subseteq b[N]
    <3>1. N \in A /\ N \in 0 .. N
      BY <1>2, <2>4
    <3>2. Cardinality(b[N]) <= N /\ Cardinality(b[N]) \in Nat
      BY <1>7, <3>1
    <3>3. ~(N + 1 <= Cardinality(b[N]))
      BY <1>2, <3>2
    <3> QED
      BY <3>1, <3>3 DEF A
  <2>6. N \in 0 .. N
    BY <1>2
  <2>7. BelowOn(d, S) = b[N]
    BY <1>1 DEF N
  <2> QED
    BY <1>2, <1>4, <1>5, <2>5, <2>6, <2>7
<1> QED
  BY <1>8, <1>9

\* A folder below those of S is one of S, or in one that is at or below them.
LEMMA BelowStarts ==
  ASSUME NEW d, NEW S \in SUBSET Clusters
  PROVE  BelowOn(d, S) \subseteq S \cup SubfoldersOn(d, BelowOn(d, S))
<1> DEFINE B == BelowOn(d, S)
           X == S \cup SubfoldersOn(d, B)
<1>1. X \subseteq B
  BY BelowIsLeast
<1>2. SubfoldersOn(d, X) \subseteq SubfoldersOn(d, B)
  BY <1>1, SubfoldersGrow
<1>3. S \subseteq X /\ SubfoldersOn(d, X) \subseteq X
  BY <1>2
<1> HIDE DEF X
<1>4. B \subseteq X
  BY <1>3, BelowIsLeast
<1> QED
  BY <1>4 DEF X

-----------------------------------------------------------------------------
(* Chains *)

\* A sequence of clusters that the FAT links, from the first to the end mark.
Linked(map, s) ==
  /\ s \in Seq(Clusters) /\ s # <<>>
  /\ \A k \in DOMAIN s : s[k] >= 3
  /\ \A k, l \in DOMAIN s : s[k] = s[l] => k = l
  /\ \A k \in 1 .. Len(s) - 1 : map[s[k]] = s[k + 1]
  /\ map[s[Len(s)]] = FAT32_FAT_END_OF_FILE

\* Linked clusters are as many as the sequence is long, and no more than there are.
LEMMA LinkedShort ==
  ASSUME NEW map, NEW s, Linked(map, s)
  PROVE  LET R == {s[k] : k \in 1 .. Len(s)}
         IN  R \in SUBSET Clusters /\ Cardinality(R) = Len(s) /\ Len(s) <= CLUSTER_MAP_SIZE
<1> DEFINE N == CLUSTER_MAP_SIZE
           n == Len(s)
           R == {s[k] : k \in 1 .. n}
<1>1. n \in Nat /\ n > 0 /\ DOMAIN s = 1 .. n /\ s \in [1 .. n -> Clusters] /\ N \in Nat
  BY ClusterRange DEF Linked
<1>2. R \in SUBSET Clusters
  BY <1>1
<1>3. IsFiniteSet(Clusters) /\ Cardinality(Clusters) = N
  BY ClustersFinite
<1>4. IsFiniteSet(R) /\ Cardinality(R) <= N
  <2> HIDE DEF R, N
  <2> QED
    BY <1>2, <1>3, FS_Subset
<1>5. s \in Bijection(1 .. n, R)
  <2>1. \A k, l \in 1 .. n : s[k] = s[l] => k = l
    BY <1>1 DEF Linked
  <2> HIDE DEF n
  <2> QED
    BY <1>1, <2>1 DEF Bijection, Injection, Surjection, IsInjective
<1>6. IsFiniteSet(1 .. n) /\ Cardinality(1 .. n) = n
  BY <1>1, FS_Interval
<1>7. Cardinality(R) = n
  <2> HIDE DEF R, n
  <2> QED
    BY <1>5, <1>6, FS_Bijection DEF ExistsBijection
<1> QED
  BY <1>1, <1>2, <1>4, <1>7

\* The walk from the first of linked clusters meets them and ends.
LEMMA ChainOf ==
  ASSUME NEW map, NEW s, Linked(map, s)
  PROVE  Chain(map, s[1]) = s /\ Ends(map, s[1])
<1> DEFINE N == CLUSTER_MAP_SIZE
           n == Len(s)
           w == Walk(map, s[1])
<1>1. n \in Nat /\ n > 0 /\ DOMAIN s = 1 .. n /\ s \in [1 .. n -> Clusters]
  BY DEF Linked
<1>2. N \in Nat /\ w[0] = s[1] /\ DOMAIN w = 0 .. N /\ \A k \in 0 .. N - 1 : w[k + 1] = After(map, w[k])
  BY ClusterRange, WalkSteps
<1> DEFINE R == {s[k] : k \in 1 .. n}
<1>3. R \in SUBSET Clusters /\ Cardinality(R) = n /\ n <= N
  BY LinkedShort
<1> HIDE DEF w, n, N, R
<1>4. \A k \in 0 .. N : k < n => w[k] = s[k + 1]
  <2> DEFINE A == {k \in 0 .. N : k < n => w[k] = s[k + 1]}
  <2>1. 0 \in A
    BY <1>1, <1>2
  <2>2. ASSUME NEW k \in 0 .. N - 1, k \in A PROVE k + 1 \in A
    <3>1. k + 1 \in 0 .. N
      BY <1>2
    <3>2. CASE k + 1 < n
      <4>1. k < n /\ k + 1 \in 1 .. n - 1 /\ k + 1 \in 1 .. n
        BY <1>1, <1>2, <3>2
      <4>2. w[k] = s[k + 1] /\ s[k + 1] \in Clusters /\ map[s[k + 1]] = s[(k + 1) + 1]
        BY <1>1, <2>2, <4>1 DEF Linked, n
      <4>3. w[k + 1] = s[(k + 1) + 1]
        BY <1>2, <4>2 DEF After
      <4> QED
        BY <3>1, <4>3
    <3>3. CASE ~(k + 1 < n)
      BY <3>1, <3>3
    <3> QED
      BY <3>2, <3>3
  <2>3. A \in SUBSET (0 .. N)
    OBVIOUS
  <2> HIDE DEF A
  <2>4. A = 0 .. N
    BY <1>2, <2>1, <2>2, <2>3, AllUpTo
  <2> QED
    BY <2>4 DEF A
<1>5. \A k \in 0 .. N : k >= n => w[k] = FAT32_FAT_END_OF_FILE
  <2> DEFINE A == {k \in 0 .. N : k >= n => w[k] = FAT32_FAT_END_OF_FILE}
  <2>1. 0 \in A
    BY <1>1, <1>2
  <2>2. ASSUME NEW k \in 0 .. N - 1, k \in A PROVE k + 1 \in A
    <3>1. k \in 0 .. N /\ k + 1 \in 0 .. N /\ k \in Nat
      BY <1>2
    <3>2. CASE k >= n
      <4>1. w[k] = FAT32_FAT_END_OF_FILE
        BY <2>2, <3>2
      <4>2. w[k + 1] = FAT32_FAT_END_OF_FILE
        BY <1>2, <4>1, ClusterRange DEF After
      <4> QED
        BY <3>1, <4>2
    <3>3. CASE k + 1 = n
      <4>1. k < n /\ w[k] = s[n] /\ n \in 1 .. n
        BY <1>1, <1>4, <3>1, <3>3
      <4>2. s[n] \in Clusters /\ map[s[n]] = FAT32_FAT_END_OF_FILE
        BY <1>1, <4>1 DEF Linked, n
      <4>3. w[k + 1] = FAT32_FAT_END_OF_FILE
        BY <1>2, <4>1, <4>2 DEF After
      <4> QED
        BY <3>1, <4>3
    <3>4. CASE k + 1 < n
      BY <1>1, <3>1, <3>4
    <3> QED
      BY <1>1, <3>1, <3>2, <3>3, <3>4
  <2>3. A \in SUBSET (0 .. N)
    OBVIOUS
  <2> HIDE DEF A
  <2>4. A = 0 .. N
    BY <1>2, <2>1, <2>2, <2>3, AllUpTo
  <2> QED
    BY <2>4 DEF A
<1>6. {w[k] : k \in DOMAIN w} \cap Clusters = R
  <2>1. ASSUME NEW k \in 0 .. N, w[k] \in Clusters PROVE w[k] \in R
    <3>1. k < n
      BY <1>1, <1>5, <2>1, ClusterRange
    <3>2. w[k] = s[k + 1] /\ k + 1 \in 1 .. n
      BY <1>1, <1>2, <1>4, <3>1
    <3> QED
      BY <3>2 DEF R
  <2>2. ASSUME NEW k \in 1 .. n PROVE s[k] \in {w[j] : j \in 0 .. N} /\ s[k] \in Clusters
    <3>1. k - 1 \in 0 .. N /\ k - 1 < n /\ (k - 1) + 1 = k
      BY <1>1, <1>2, <1>3
    <3>2. w[k - 1] = s[k]
      BY <1>4, <3>1
    <3> QED
      BY <1>1, <3>1, <3>2
  <2> QED
    BY <1>2, <2>1, <2>2 DEF R
<1>7. Chain(map, s[1]) = [k \in 1 .. n |-> w[k - 1]]
  BY <1>3, <1>6 DEF Chain, w
<1>8. ASSUME NEW k \in 1 .. n PROVE w[k - 1] = s[k]
  <2>1. k - 1 \in 0 .. N /\ k - 1 < n /\ (k - 1) + 1 = k
    BY <1>1, <1>2, <1>3
  <2> QED
    BY <1>4, <2>1
<1>9. Chain(map, s[1]) = s
  BY <1>1, <1>7, <1>8
<1>10. N \in 0 .. N /\ N >= n
  BY <1>1, <1>2, <1>3
<1>11. w[N] = FAT32_FAT_END_OF_FILE
  BY <1>5, <1>10
<1> QED
  BY <1>9, <1>11 DEF Ends, w, N

\* Clusters whose words do not change stay linked.
LEMMA LinkedKept ==
  ASSUME NEW map, NEW new, NEW s, Linked(map, s), \A k \in DOMAIN s : new[s[k]] = map[s[k]]
  PROVE  Linked(new, s)
<1>1. Len(s) \in Nat /\ Len(s) \in DOMAIN s /\ \A k \in 1 .. Len(s) - 1 : k \in DOMAIN s
  BY DEF Linked
<1> QED
  BY <1>1 DEF Linked

\* The word of a linked cluster is not that of an empty one.
LEMMA LinkedMarked ==
  ASSUME NEW map, NEW s, Linked(map, s), NEW k \in DOMAIN s
  PROVE  map[s[k]] # FAT32_FAT_EMPTY_ENTRY /\ s[k] \notin EmptyClusters(map)
<1>1. Len(s) \in Nat /\ DOMAIN s = 1 .. Len(s)
  BY DEF Linked
<1>2. FAT32_FAT_END_OF_FILE # FAT32_FAT_EMPTY_ENTRY
  BY ClusterRange DEF FAT32_FAT_EMPTY_ENTRY
<1>3. CASE k = Len(s)
  BY <1>2, <1>3 DEF Linked, EmptyClusters
<1>4. CASE k # Len(s)
  <2>1. k \in 1 .. Len(s) - 1 /\ k + 1 \in DOMAIN s
    BY <1>1, <1>4
  <2>2. s[k + 1] \in Clusters
    BY <2>1 DEF Linked
  <2>3. map[s[k]] = s[k + 1] /\ s[k + 1] >= 3 /\ s[k + 1] \in Nat
    BY <2>1, <2>2, ClusterRange DEF Linked
  <2> QED
    BY <2>3 DEF EmptyClusters, FAT32_FAT_EMPTY_ENTRY
<1> QED
  BY <1>3, <1>4

-----------------------------------------------------------------------------
(* Tables without a hole before an entry *)

\* The entries in use come first, and there is a hole after them; what is not in use has no name.
Tidy(t) ==
  /\ ~Full(t)
  /\ \A i \in Items : i >= FirstHole(t) => ~t[i].used /\ t[i].name = NoName

\* Where the entry at j was before the one at i was removed.
Origin(t, i, j) == IF j = i THEN FirstHole(t) - 1 ELSE j

\* Removing an entry leaves the table tidy and loses no other.
LEMMA RemovedIs ==
  ASSUME NEW t \in Tables, Tidy(t), NEW i \in Items, t[i].used
  PROVE  /\ RemoveEntry(t, i) \in Tables /\ Tidy(RemoveEntry(t, i))
         /\ RemoveEntry(t, i)[0] = t[0] /\ RemoveEntry(t, i)[1] = t[1]
         /\ \A j \in Items : RemoveEntry(t, i)[j].used =>
              /\ Origin(t, i, j) \in Items /\ Origin(t, i, j) # i
              /\ RemoveEntry(t, i)[j] = t[Origin(t, i, j)]
         /\ \A j, k \in Items :
              RemoveEntry(t, i)[j].used /\ RemoveEntry(t, i)[k].used =>
                (Origin(t, i, j) = Origin(t, i, k) => j = k)
         /\ \A k \in Items : k # i => \E j \in Items : RemoveEntry(t, i)[j] = t[k]
<1> DEFINE hole == FirstHole(t)
           last == hole - 1
           r    == RemoveEntry(t, i)
<1>1. /\ hole \in Items /\ ~t[hole].used /\ \A j \in Items : j < hole => t[j].used
      /\ ~Full(t) /\ \A j \in Items : j >= hole => ~t[j].used /\ t[j].name = NoName
  BY FirstHoleIs DEF Tidy
<1>2. r = [t EXCEPT ![i] = t[last], ![last] = NoEntry]
  BY <1>1 DEF RemoveEntry
<1> HIDE DEF hole, r
<1>3. hole \in Nat /\ i \in Nat /\ i < hole
  BY <1>1, IndexRange
<1>4. last \in Items /\ i <= last /\ last < hole /\ \A j \in Items : j < hole => j <= last
  BY <1>1, <1>3, IndexRange
<1>5. \A j \in Items : j \in Nat /\ j # 0 /\ j # 1 /\ j \in Indices
  BY IndexRange
<1> HIDE DEF last
<1>6. /\ r[last] = NoEntry /\ (i # last => r[i] = t[last])
      /\ \A j \in Indices : j # i /\ j # last => r[j] = t[j]
  BY <1>2, <1>4, <1>5 DEF Tables
<1>7. r \in Tables
  BY <1>5, TablesKept DEF r
<1>8. r[0] = t[0] /\ r[1] = t[1]
  BY <1>4, <1>5, <1>6, IndexRange
<1>9. ~r[last].used /\ r[last].name = NoName
  BY <1>6, EntryValues DEF NoEntry
<1>10. \A j \in Items : j < last => r[j].used
  <2>1. ASSUME NEW j \in Items, j < last PROVE r[j].used
    <3>1. j # last /\ j < hole
      BY <1>3, <1>4, <1>5, <2>1
    <3>2. t[j].used /\ t[last].used
      BY <1>1, <1>4, <3>1
    <3> QED
      BY <1>5, <1>6, <3>1, <3>2
  <2> QED
    BY <2>1
<1>11. Tidy(r)
  <2>1. ~Full(r)
    BY <1>4, <1>9 DEF Full, Holes
  <2>2. FirstHole(r) \in Items /\ ~r[FirstHole(r)].used
    BY <2>1, FirstHoleIs
  <2>3. ~(FirstHole(r) < last)
    BY <1>10, <2>2
  <2>4. ASSUME NEW j \in Items, j >= FirstHole(r) PROVE ~r[j].used /\ r[j].name = NoName
    <3>1. j = last \/ j > last
      BY <1>4, <1>5, <2>2, <2>3, <2>4
    <3>2. CASE j > last
      <4>1. j # last /\ j # i /\ ~(j < hole)
        BY <1>3, <1>4, <1>5, <3>2
      <4>2. j >= hole
        BY <1>3, <1>5, <4>1
      <4> QED
        BY <1>1, <1>5, <1>6, <4>1, <4>2
    <3> QED
      BY <1>9, <3>1, <3>2
  <2> QED
    BY <2>1, <2>4 DEF Tidy
<1>12. \A j \in Items : Origin(t, i, j) = IF j = i THEN last ELSE j
  BY DEF Origin, last, hole
<1>13. \A j \in Items : r[j].used => j # last
  BY <1>9
<1>14. \A j \in Items : r[j].used =>
         Origin(t, i, j) \in Items /\ Origin(t, i, j) # i /\ r[j] = t[Origin(t, i, j)]
  BY <1>4, <1>5, <1>6, <1>12, <1>13
<1>15. \A j, k \in Items : r[j].used /\ r[k].used =>
         (Origin(t, i, j) = Origin(t, i, k) => j = k)
  BY <1>12, <1>13
<1>16. ASSUME NEW k \in Items, k # i PROVE \E j \in Items : r[j] = t[k]
  <2>1. CASE k = last
    BY <1>6, <1>16, <2>1
  <2>2. CASE k # last
    BY <1>5, <1>6, <1>16, <2>2
  <2> QED
    BY <2>1, <2>2
<1> QED
  BY <1>7, <1>8, <1>11, <1>14, <1>15, <1>16 DEF r

\* Adding an entry to a table with another hole leaves it tidy and changes no other.
LEMMA AddedIs ==
  ASSUME NEW t \in Tables, Tidy(t), Cardinality(Holes(t)) > 1, NEW e \in EntryType, e.used
  PROVE  /\ FirstHole(t) \in Items /\ ~t[FirstHole(t)].used
         /\ AddEntry(t, e) = [t EXCEPT ![FirstHole(t)] = e]
         /\ AddEntry(t, e) \in Tables /\ Tidy(AddEntry(t, e))
         /\ AddEntry(t, e)[0] = t[0] /\ AddEntry(t, e)[1] = t[1]
         /\ AddEntry(t, e)[FirstHole(t)] = e
         /\ \A j \in Items : j # FirstHole(t) => AddEntry(t, e)[j] = t[j]
<1> DEFINE hole == FirstHole(t)
           a    == AddEntry(t, e)
<1>1. /\ hole \in Items /\ ~t[hole].used /\ \A j \in Items : j < hole => t[j].used
      /\ ~Full(t) /\ \A j \in Items : j >= hole => ~t[j].used /\ t[j].name = NoName
  BY FirstHoleIs DEF Tidy
<1>2. a = [t EXCEPT ![hole] = e] /\ a \in Tables
  BY <1>1, TablesKept DEF AddEntry
<1> HIDE DEF hole, a
<1>3. \A j \in Items : j \in Nat /\ j # 0 /\ j # 1 /\ j \in Indices
  BY IndexRange
<1>4. a[hole] = e /\ \A j \in Indices : j # hole => a[j] = t[j]
  BY <1>1, <1>2, <1>3 DEF Tables
<1>5. a[0] = t[0] /\ a[1] = t[1]
  BY <1>1, <1>3, <1>4, IndexRange
<1>6. hole + 1 \in Items
  <2>1. SUFFICES ASSUME hole + 1 \notin Items PROVE FALSE
    OBVIOUS
  <2>2. \A j \in Items : j = hole \/ j < hole
    BY <1>1, <2>1, IndexRange
  <2>3. Holes(t) = {hole}
    BY <1>1, <2>2 DEF Holes
  <2>4. Cardinality(Holes(t)) = 1
    BY <2>3, FS_Singleton
  <2> QED
    BY <2>4
<1>7. ~Full(a)
  <2>1. ~a[hole + 1].used
    BY <1>1, <1>3, <1>4, <1>6
  <2> QED
    BY <1>6, <2>1 DEF Full, Holes
<1>8. FirstHole(a) \in Items /\ ~a[FirstHole(a)].used
  BY <1>7, FirstHoleIs
<1>9. FirstHole(a) > hole
  <2>1. FirstHole(a) # hole
    BY <1>4, <1>8
  <2>2. ~(FirstHole(a) < hole)
    BY <1>1, <1>3, <1>4, <1>8, <2>1
  <2> QED
    BY <1>1, <1>3, <1>8, <2>1, <2>2
<1>10. ASSUME NEW j \in Items, j >= FirstHole(a) PROVE ~a[j].used /\ a[j].name = NoName
  <2>1. j # hole /\ j >= hole
    BY <1>1, <1>3, <1>8, <1>9, <1>10
  <2> QED
    BY <1>1, <1>3, <1>4, <2>1
<1>11. Tidy(a)
  BY <1>7, <1>10 DEF Tidy
<1> QED
  BY <1>1, <1>2, <1>3, <1>4, <1>5, <1>11 DEF a, hole

\* A named entry of a tidy table is in use.
LEMMA NamedIsUsed ==
  ASSUME NEW t \in Tables, Tidy(t), NEW i \in Items, t[i].name # NoName
  PROVE  t[i].used
<1>1. FirstHole(t) \in Items /\ i \in Nat /\ FirstHole(t) \in Nat
  BY FirstHoleIs, IndexRange DEF Tidy
<1>2. i < FirstHole(t)
  BY <1>1 DEF Tidy
<1> QED
  BY <1>2, FirstHoleIs

-----------------------------------------------------------------------------
(* Entries and their chains *)

\* The entry has a chain of the length it asks for.
Owned(map, e) ==
  /\ Linked(map, Chain(map, e.cluster))
  /\ Chain(map, e.cluster)[1] = e.cluster
  /\ Len(Chain(map, e.cluster)) = ClustersFor(e)

\* Entries about one file or folder, whatever it is called.
SameObject(e, f) == e.cluster = f.cluster /\ e.folder = f.folder /\ e.size = f.size

\* The entries at P have chains of their own.
OwnChains(d, map, P) ==
  /\ \A p \in P : Owned(map, At(d, p))
  /\ \A p, q \in P : p # q => ClustersOf(map, At(d, p)) \cap ClustersOf(map, At(d, q)) = {}

\* The clusters of a chain are marked ones behind the root's.
LEMMA OwnedClusters ==
  ASSUME NEW map, NEW e, Owned(map, e)
  PROVE  /\ e.cluster \in ClustersOf(map, e)
         /\ \A c \in ClustersOf(map, e) :
              /\ c \in Clusters /\ c >= 3
              /\ map[c] # FAT32_FAT_EMPTY_ENTRY /\ c \notin EmptyClusters(map)
<1> DEFINE s == Chain(map, e.cluster)
<1>1. Linked(map, s) /\ s[1] = e.cluster /\ ClustersOf(map, e) = {s[k] : k \in DOMAIN s}
  BY DEF Owned, ClustersOf
<1> HIDE DEF s
<1>2. 1 \in DOMAIN s /\ \A k \in DOMAIN s : s[k] \in Clusters /\ s[k] >= 3
  BY <1>1 DEF Linked
<1>3. \A k \in DOMAIN s : map[s[k]] # FAT32_FAT_EMPTY_ENTRY /\ s[k] \notin EmptyClusters(map)
  BY <1>1, LinkedMarked
<1> QED
  BY <1>1, <1>2, <1>3

\* A chain is found again in a FAT that agrees on it.
LEMMA OwnedKept ==
  ASSUME NEW map, NEW new, NEW e, NEW f, Owned(map, e), SameObject(e, f),
         \A c \in ClustersOf(map, e) : new[c] = map[c]
  PROVE  Owned(new, f) /\ Chain(new, f.cluster) = Chain(map, e.cluster)
           /\ ClustersOf(new, f) = ClustersOf(map, e)
<1> DEFINE s == Chain(map, e.cluster)
<1>1. /\ Linked(map, s) /\ s[1] = e.cluster /\ ClustersOf(map, e) = {s[k] : k \in DOMAIN s}
      /\ Len(s) = ClustersFor(e)
  BY DEF Owned, ClustersOf
<1>2. e.cluster = f.cluster /\ ClustersFor(e) = ClustersFor(f)
  BY DEF SameObject, ClustersFor
<1> HIDE DEF s
<1>3. Linked(new, s)
  <2>1. \A k \in DOMAIN s : new[s[k]] = map[s[k]]
    BY <1>1
  <2> QED
    BY <1>1, <2>1, LinkedKept
<1>4. Chain(new, s[1]) = s
  BY <1>3, ChainOf
<1>5. Chain(new, f.cluster) = s
  BY <1>1, <1>2, <1>4
<1> QED
  BY <1>1, <1>2, <1>3, <1>5 DEF Owned, ClustersOf, s

\* Entries that are found elsewhere keep the chains they have to themselves.
LEMMA ChainsCarried ==
  ASSUME NEW d, NEW map, NEW P, OwnChains(d, map, P),
         NEW e, NEW new, NEW Q, NEW from \in [Q -> P],
         \A q, r \in Q : from[q] = from[r] => q = r,
         \A q \in Q : /\ SameObject(At(d, from[q]), At(e, q))
                      /\ \A c \in ClustersOf(map, At(d, from[q])) : new[c] = map[c]
  PROVE  /\ OwnChains(e, new, Q)
         /\ \A q \in Q : ClustersOf(new, At(e, q)) = ClustersOf(map, At(d, from[q]))
<1>1. \A q \in Q : Owned(new, At(e, q))
                   /\ ClustersOf(new, At(e, q)) = ClustersOf(map, At(d, from[q]))
  <2> TAKE q \in Q
  <2>1. from[q] \in P
    OBVIOUS
  <2>2. Owned(map, At(d, from[q]))
    BY <2>1 DEF OwnChains
  <2> QED
    BY <2>2, OwnedKept
<1>2. ASSUME NEW q \in Q, NEW r \in Q, q # r
      PROVE  ClustersOf(new, At(e, q)) \cap ClustersOf(new, At(e, r)) = {}
  <2>1. from[q] \in P /\ from[r] \in P /\ from[q] # from[r]
    BY <1>2
  <2>2. ClustersOf(map, At(d, from[q])) \cap ClustersOf(map, At(d, from[r])) = {}
    BY <2>1 DEF OwnChains
  <2> QED
    BY <1>1, <2>2
<1> QED
  BY <1>1, <1>2 DEF OwnChains

\* An entry whose chain has nothing of the others'.
LEMMA ChainAdded ==
  ASSUME NEW d, NEW map, NEW P, OwnChains(d, map, P), NEW p, Owned(map, At(d, p)),
         \A q \in P : ClustersOf(map, At(d, p)) \cap ClustersOf(map, At(d, q)) = {}
  PROVE  OwnChains(d, map, P \cup {p})
BY DEF OwnChains

-----------------------------------------------------------------------------
(* A sound disk *)

PlacesIn(d, X) == {p \in X \X Items : At(d, p).used}

Live(d) == BelowOn(d, {ROOT_CLUSTER_NUMBER})

\* The folders of X have what is in them to themselves, and nothing in them leads out of X.
Sound(d, map, X) ==
  /\ X \in SUBSET Clusters /\ ROOT_CLUSTER_NUMBER \in X
  /\ SubfoldersOn(d, X) \subseteq X
  /\ \A c \in X : Tidy(EntriesOn(d, c)) /\ EntriesOn(d, c)[0].used
  /\ OwnChains(d, map, PlacesIn(d, X))
  /\ \A p \in PlacesIn(d, X) :
       At(d, p).folder => EntriesOn(d, At(d, p).cluster)[1].cluster = p[1]

\* The folders that lead nowhere else include those below the root.
LEMMA LiveIsLeast ==
  ASSUME NEW d
  PROVE  /\ Live(d) \in SUBSET Clusters /\ ROOT_CLUSTER_NUMBER \in Live(d)
         /\ SubfoldersOn(d, Live(d)) \subseteq Live(d)
         /\ \A X : ROOT_CLUSTER_NUMBER \in X /\ SubfoldersOn(d, X) \subseteq X => Live(d) \subseteq X
<1>1. {ROOT_CLUSTER_NUMBER} \in SUBSET Clusters
  BY ClusterRange DEF ROOT_CLUSTER_NUMBER
<1> QED
  BY <1>1, BelowIsLeast DEF Live

\* It is enough for a disk to be sound on some of these.
LEMMA SoundLive ==
  ASSUME NEW d, NEW map, NEW X, Sound(d, map, X)
  PROVE  Sound(d, map, Live(d))
<1>1. Live(d) \subseteq X /\ PlacesIn(d, Live(d)) \subseteq PlacesIn(d, X)
  BY LiveIsLeast DEF Sound, PlacesIn
<1>2. OwnChains(d, map, PlacesIn(d, Live(d)))
  BY <1>1 DEF Sound, OwnChains
<1> QED
  BY <1>1, <1>2, LiveIsLeast DEF Sound

\* The entry at a place, and where it leads.
LEMMA PlaceLeads ==
  ASSUME NEW d, NEW X, SubfoldersOn(d, X) \subseteq X, X \in SUBSET Clusters,
         NEW p \in PlacesIn(d, X), At(d, p).folder, At(d, p).cluster \in Clusters
  PROVE  At(d, p).cluster \in X
<1>1. At(d, p).cluster \in SubfoldersOn(d, X)
  BY DEF SubfoldersOn, PlacesIn, At
<1> QED
  BY <1>1

\* A subfolder stands at a place.
LEMMA SubfolderPlace ==
  ASSUME NEW d, NEW X, NEW f \in SubfoldersOn(d, X)
  PROVE  \E p \in PlacesIn(d, X) : At(d, p).folder /\ At(d, p).cluster = f
<1>1. PICK c \in X, i \in Items : LET e == EntriesOn(d, c)[i] IN e.used /\ e.folder /\ e.cluster = f
  BY DEF SubfoldersOn
<1>2. <<c, i>> \in PlacesIn(d, X) /\ At(d, <<c, i>>) = EntriesOn(d, c)[i]
  BY <1>1 DEF PlacesIn, At
<1> QED
  BY <1>1, <1>2

\* On a sound disk two places do not lead to one cluster, and no cluster of a chain is a live
\* folder but the folder's own.
LEMMA OnePlace ==
  ASSUME NEW d, NEW map, Sound(d, map, Live(d)), NEW p \in PlacesIn(d, Live(d))
  PROVE  /\ At(d, p).cluster >= 3 /\ At(d, p).cluster \in Clusters
         /\ \A q \in PlacesIn(d, Live(d)) : At(d, p).cluster = At(d, q).cluster => p = q
         /\ \A c \in ClustersOf(map, At(d, p)) :
              c \in Live(d) => At(d, p).folder /\ c = At(d, p).cluster
<1> DEFINE P == PlacesIn(d, Live(d))
<1>1. OwnChains(d, map, P) /\ p \in P
  BY DEF Sound
<1> HIDE DEF P
<1>2. \A q \in P : Owned(map, At(d, q)) /\ At(d, q).cluster \in ClustersOf(map, At(d, q))
  <2>1. \A q \in P : Owned(map, At(d, q))
    BY <1>1 DEF OwnChains
  <2> QED
    BY <2>1, OwnedClusters
<1>3. At(d, p).cluster >= 3 /\ At(d, p).cluster \in Clusters
  BY <1>1, <1>2, OwnedClusters
<1>4. \A q \in P : At(d, p).cluster = At(d, q).cluster => p = q
  BY <1>1, <1>2 DEF OwnChains
<1>5. ASSUME NEW c \in ClustersOf(map, At(d, p)), c \in Live(d)
      PROVE  At(d, p).folder /\ c = At(d, p).cluster
  <2>1. c # ROOT_CLUSTER_NUMBER
    <3>1. c \in Clusters /\ c >= 3
      BY <1>1, <1>2, <1>5, OwnedClusters
    <3> QED
      BY <3>1 DEF ROOT_CLUSTER_NUMBER
  <2>2. c \in SubfoldersOn(d, Live(d))
    <3>1. {ROOT_CLUSTER_NUMBER} \in SUBSET Clusters
      BY ClusterRange DEF ROOT_CLUSTER_NUMBER
    <3>2. Live(d) \subseteq {ROOT_CLUSTER_NUMBER} \cup SubfoldersOn(d, Live(d))
      BY <3>1, BelowStarts DEF Live
    <3> QED
      BY <1>5, <2>1, <3>2
  <2>3. PICK q \in P : At(d, q).folder /\ At(d, q).cluster = c
    BY <2>2, SubfolderPlace DEF P
  <2>4. c \in ClustersOf(map, At(d, q))
    BY <1>2, <2>3
  <2>5. p = q
    BY <1>1, <1>5, <2>4 DEF OwnChains
  <2> QED
    BY <2>3, <2>5
<1> QED
  BY <1>3, <1>4, <1>5 DEF P

\* No live folder is below itself.
LEMMA NoCycle ==
  ASSUME NEW d, NEW map, Sound(d, map, Live(d)), NEW f \in Live(d)
  PROVE  f \notin BelowOn(d, SubfoldersOn(d, {f}))
<1> DEFINE S == SubfoldersOn(d, {f})
           C == BelowOn(d, S)
           X == Live(d) \ C
<1>1. SUFFICES ASSUME f \in C PROVE FALSE
  OBVIOUS
<1>2. S \in SUBSET Clusters
  BY DEF SubfoldersOn
<1> HIDE DEF S
<1>3. S \subseteq C /\ C \in SUBSET Clusters /\ SubfoldersOn(d, C) \subseteq C
      /\ \A Y : S \subseteq Y /\ SubfoldersOn(d, Y) \subseteq Y => C \subseteq Y
  BY <1>2, BelowIsLeast
<1>4. C \subseteq S \cup SubfoldersOn(d, C)
  BY <1>2, BelowStarts
<1> HIDE DEF C
<1>5. S \subseteq SubfoldersOn(d, C) /\ S \subseteq Live(d)
  <2>1. {f} \subseteq C /\ {f} \subseteq Live(d)
    BY <1>1
  <2>2. S \subseteq SubfoldersOn(d, C) /\ S \subseteq SubfoldersOn(d, Live(d))
    BY <2>1, SubfoldersGrow DEF S
  <2> QED
    BY <2>2, LiveIsLeast
<1>6. C \subseteq Live(d) /\ C \subseteq SubfoldersOn(d, C)
  BY <1>3, <1>4, <1>5, LiveIsLeast
<1>7. PlacesIn(d, C) \subseteq PlacesIn(d, Live(d))
  BY <1>6 DEF PlacesIn
\* The folders of C are in folders of C alone.
<1>8. \A c \in C : \E p \in PlacesIn(d, Live(d)) : p[1] \in C /\ At(d, p).folder /\ At(d, p).cluster = c
  <2> TAKE c \in C
  <2>1. PICK p \in PlacesIn(d, C) : At(d, p).folder /\ At(d, p).cluster = c
    BY <1>6, SubfolderPlace
  <2>2. p[1] \in C
    BY DEF PlacesIn
  <2> QED
    BY <1>7, <2>1, <2>2
<1>9. ROOT_CLUSTER_NUMBER \notin C
  <2>1. SUFFICES ASSUME ROOT_CLUSTER_NUMBER \in C PROVE FALSE
    OBVIOUS
  <2>2. PICK p \in PlacesIn(d, Live(d)) : At(d, p).cluster = ROOT_CLUSTER_NUMBER
    BY <1>8, <2>1
  <2> QED
    BY <2>2, OnePlace DEF ROOT_CLUSTER_NUMBER
<1>10. SubfoldersOn(d, X) \subseteq X
  <2>1. SUFFICES ASSUME NEW g \in SubfoldersOn(d, X) PROVE g \in X
    OBVIOUS
  <2>2. g \in Live(d)
    BY LiveIsLeast, SubfoldersGrow
  <2>3. PICK p \in PlacesIn(d, X) : At(d, p).folder /\ At(d, p).cluster = g
    BY <2>1, SubfolderPlace
  <2>4. p \in PlacesIn(d, Live(d)) /\ p[1] \notin C
    BY DEF PlacesIn
  <2>5. g \notin C
    BY <1>8, <2>3, <2>4, OnePlace
  <2> QED
    BY <2>2, <2>5
<1>11. Live(d) \subseteq X
  BY <1>9, <1>10, LiveIsLeast
<1> QED
  BY <1>1, <1>6, <1>11

-----------------------------------------------------------------------------
(* What an operation does to a sound disk *)

\* The entry at p is gone from its table, and with it what it led to.
Unlinks(d, map, e, new, X, p) ==
  /\ \A c \in X : EntriesOn(e, c) = IF c = p[1] THEN RemoveEntry(EntriesOn(d, c), p[2])
                                    ELSE EntriesOn(d, c)
  /\ \A q \in PlacesIn(d, X) : q # p /\ At(d, q).folder => At(d, q).cluster \in X
  /\ \A c \in Clusters : c \notin ClustersOf(map, At(d, p)) => new[c] = map[c]

\* Then what is left is sound.
LEMMA UnlinkedSound ==
  ASSUME NEW d \in [Clusters -> Stored], NEW map, Sound(d, map, Live(d)),
         NEW p \in PlacesIn(d, Live(d)), NEW X \in SUBSET Live(d),
         ROOT_CLUSTER_NUMBER \in X, p[1] \in X,
         NEW e, NEW new, Unlinks(d, map, e, new, X, p)
  PROVE  Sound(e, new, X)
<1> DEFINE L == Live(d)
           P == PlacesIn(d, L)
           Q == PlacesIn(e, X)
           t == EntriesOn(d, p[1])
           i == p[2]
           from == [q \in Q |-> <<q[1], IF q[1] = p[1] THEN Origin(t, i, q[2]) ELSE q[2]>>]
<1>1. /\ p = <<p[1], i>> /\ i \in Items /\ t[i].used /\ At(d, p) = t[i]
  BY DEF PlacesIn, At
<1>2. /\ L \in SUBSET Clusters /\ OwnChains(d, map, P) /\ X \in SUBSET L
      /\ \A c \in L : Tidy(EntriesOn(d, c)) /\ EntriesOn(d, c)[0].used
      /\ \A q \in P : At(d, q).folder => EntriesOn(d, At(d, q).cluster)[1].cluster = q[1]
  BY DEF Sound
<1>3. t \in Tables /\ Tidy(t)
  BY <1>2, EntriesTyped
<1>4. /\ Tidy(RemoveEntry(t, i))
      /\ RemoveEntry(t, i)[0] = t[0] /\ RemoveEntry(t, i)[1] = t[1]
      /\ \A j \in Items : RemoveEntry(t, i)[j].used =>
           Origin(t, i, j) \in Items /\ Origin(t, i, j) # i /\ RemoveEntry(t, i)[j] = t[Origin(t, i, j)]
      /\ \A j, k \in Items : RemoveEntry(t, i)[j].used /\ RemoveEntry(t, i)[k].used =>
           (Origin(t, i, j) = Origin(t, i, k) => j = k)
  BY <1>1, <1>3, RemovedIs
<1>5. \A c \in X : EntriesOn(e, c) = IF c = p[1] THEN RemoveEntry(t, i) ELSE EntriesOn(d, c)
  BY DEF Unlinks
<1>6. \A c \in X : /\ Tidy(EntriesOn(e, c)) /\ EntriesOn(e, c)[0].used
                   /\ EntriesOn(e, c)[1] = EntriesOn(d, c)[1]
  BY <1>2, <1>4, <1>5
<1>7. \A q \in Q : q = <<q[1], q[2]>> /\ q[1] \in X /\ q[2] \in Items /\ EntriesOn(e, q[1])[q[2]].used
                   /\ At(e, q) = EntriesOn(e, q[1])[q[2]]
  BY DEF PlacesIn, At
<1> HIDE DEF i, t, Q, P, L
<1>8. ASSUME NEW q \in Q
      PROVE  /\ from[q] \in PlacesIn(d, X) /\ from[q] \in P /\ from[q] # p /\ from[q][1] = q[1]
             /\ At(e, q) = At(d, from[q])
  <2>1. CASE q[1] = p[1]
    <3> DEFINE j == Origin(t, i, q[2])
    <3>1. EntriesOn(e, q[1]) = RemoveEntry(t, i)
      BY <1>5, <1>7, <2>1
    <3>2. j \in Items /\ j # i /\ EntriesOn(e, q[1])[q[2]] = t[j]
      BY <1>4, <1>7, <3>1
    <3>3. from[q] = <<p[1], j>> /\ At(d, <<p[1], j>>) = t[j]
      BY <2>1 DEF At, t
    <3> HIDE DEF j, from
    <3>4. t[j].used
      BY <1>7, <3>2
    <3>5. <<p[1], j>> \in PlacesIn(d, X) /\ <<p[1], j>> \in P
      BY <1>2, <1>7, <2>1, <3>2, <3>3, <3>4 DEF PlacesIn, P
    <3> QED
      BY <1>1, <1>7, <2>1, <3>2, <3>3, <3>5
  <2>2. CASE q[1] # p[1]
    <3>1. from[q] = <<q[1], q[2]>>
      BY <2>2
    <3>2. EntriesOn(e, q[1]) = EntriesOn(d, q[1])
      BY <1>5, <1>7, <2>2
    <3>3. At(e, q) = At(d, q) /\ At(d, q).used
      BY <1>7, <3>2 DEF At
    <3>4. q \in PlacesIn(d, X) /\ q \in P
      BY <1>2, <1>7, <3>3 DEF PlacesIn, P
    <3> HIDE DEF from
    <3> QED
      BY <1>7, <2>2, <3>1, <3>3, <3>4
  <2> QED
    BY <2>1, <2>2
<1>9. ASSUME NEW q \in Q, NEW r \in Q, from[q] = from[r] PROVE q = r
  <2>1. q[1] = r[1]
    BY <1>8, <1>9
  <2>2. CASE q[1] = p[1]
    <3>1. Origin(t, i, q[2]) = Origin(t, i, r[2])
      BY <1>9, <2>1, <2>2
    <3>2. RemoveEntry(t, i)[q[2]].used /\ RemoveEntry(t, i)[r[2]].used
      BY <1>5, <1>7, <2>1, <2>2
    <3> HIDE DEF from
    <3>3. q[2] = r[2]
      BY <1>4, <1>7, <3>1, <3>2
    <3> QED
      BY <1>7, <2>1, <3>3
  <2>3. CASE q[1] # p[1]
    <3>1. from[q] = <<q[1], q[2]>> /\ from[r] = <<r[1], r[2]>>
      BY <2>1, <2>3
    <3> HIDE DEF from
    <3> QED
      BY <1>7, <1>9, <3>1
  <2> QED
    BY <2>2, <2>3
<1>10. from \in [Q -> P]
  BY <1>8
<1> HIDE DEF from
<1>11. ASSUME NEW q \in Q
       PROVE  /\ SameObject(At(d, from[q]), At(e, q))
              /\ \A c \in ClustersOf(map, At(d, from[q])) : new[c] = map[c]
  <2>1. At(e, q) = At(d, from[q]) /\ from[q] \in P /\ from[q] # p /\ p \in P
    BY <1>8 DEF P, L
  <2>2. ClustersOf(map, At(d, from[q])) \cap ClustersOf(map, At(d, p)) = {}
    BY <1>2, <2>1 DEF OwnChains
  <2>3. \A c \in ClustersOf(map, At(d, from[q])) : c \in Clusters
    <3>1. Owned(map, At(d, from[q]))
      BY <1>2, <2>1 DEF OwnChains
    <3> QED
      BY <3>1, OwnedClusters
  <2> QED
    BY <2>1, <2>2, <2>3 DEF Unlinks, SameObject
<1>12. OwnChains(e, new, Q)
  BY <1>2, <1>9, <1>10, <1>11, ChainsCarried
<1>13. ASSUME NEW q \in Q, At(e, q).folder
       PROVE  At(e, q).cluster \in X /\ EntriesOn(e, At(e, q).cluster)[1].cluster = q[1]
  <2>1. At(d, from[q]).folder /\ from[q] \in PlacesIn(d, X) /\ from[q] \in P /\ from[q] # p
        /\ from[q][1] = q[1] /\ At(e, q) = At(d, from[q])
    BY <1>8, <1>13
  <2>2. At(e, q).cluster \in X
    BY <2>1 DEF Unlinks
  <2>3. EntriesOn(d, At(e, q).cluster)[1].cluster = q[1]
    BY <1>2, <2>1
  <2> QED
    BY <1>6, <2>2, <2>3
<1>14. SubfoldersOn(e, X) \subseteq X
  <2>1. ASSUME NEW g \in SubfoldersOn(e, X) PROVE g \in X
    <3>1. PICK q \in Q : At(e, q).folder /\ At(e, q).cluster = g
      BY SubfolderPlace DEF Q
    <3> QED
      BY <1>13, <3>1
  <2> QED
    BY <2>1
<1> QED
  BY <1>2, <1>6, <1>12, <1>13, <1>14 DEF Sound, Q

\* An entry x is new in the folder c, with a chain of clusters that were empty and, if it is a
\* folder, a table that names nothing but where it is.
Links(d, map, e, new, c, x) ==
  /\ \A b \in Live(d) : EntriesOn(e, b) = IF b = c THEN AddEntry(EntriesOn(d, c), x)
                                          ELSE EntriesOn(d, b)
  /\ Owned(new, x) /\ ClustersOf(new, x) \subseteq EmptyClusters(map)
  /\ \A b \in Clusters : b \notin ClustersOf(new, x) => new[b] = map[b]
  /\ x.folder => /\ \A i \in Items : ~EntriesOn(e, x.cluster)[i].used
                 /\ EntriesOn(e, x.cluster)[0].used /\ EntriesOn(e, x.cluster)[1].cluster = c
                 /\ Tidy(EntriesOn(e, x.cluster))

\* Then the disk is sound with it.
LEMMA LinkedSound ==
  ASSUME NEW d \in [Clusters -> Stored], NEW map, Sound(d, map, Live(d)),
         NEW c \in Live(d), Cardinality(Holes(EntriesOn(d, c))) > 1,
         NEW x \in EntryType, x.used, NEW e, NEW new, Links(d, map, e, new, c, x)
  PROVE  Sound(e, new, Live(d) \cup (IF x.folder THEN {x.cluster} ELSE {}))
<1> DEFINE L == Live(d)
           P == PlacesIn(d, L)
           X == L \cup (IF x.folder THEN {x.cluster} ELSE {})
           t == EntriesOn(d, c)
           a == AddEntry(t, x)
           p == <<c, FirstHole(t)>>
           Q == PlacesIn(e, L) \ {p}
           from == [q \in Q |-> q]
<1>1. /\ L \in SUBSET Clusters /\ OwnChains(d, map, P)
      /\ ROOT_CLUSTER_NUMBER \in L /\ SubfoldersOn(d, L) \subseteq L
      /\ \A b \in L : Tidy(EntriesOn(d, b)) /\ EntriesOn(d, b)[0].used
      /\ \A q \in P : At(d, q).folder => EntriesOn(d, At(d, q).cluster)[1].cluster = q[1]
  BY DEF Sound
<1>2. t \in Tables /\ Tidy(t)
  BY <1>1, EntriesTyped
<1>3. /\ FirstHole(t) \in Items /\ ~t[FirstHole(t)].used /\ Tidy(a)
      /\ a[0] = t[0] /\ a[1] = t[1] /\ a[FirstHole(t)] = x
      /\ \A j \in Items : j # FirstHole(t) => a[j] = t[j]
  BY <1>2, AddedIs
<1>4. /\ \A b \in L : EntriesOn(e, b) = IF b = c THEN a ELSE EntriesOn(d, b)
      /\ Owned(new, x) /\ ClustersOf(new, x) \subseteq EmptyClusters(map)
      /\ \A b \in Clusters : b \notin ClustersOf(new, x) => new[b] = map[b]
      /\ x.folder => /\ \A i \in Items : ~EntriesOn(e, x.cluster)[i].used
                     /\ EntriesOn(e, x.cluster)[0].used /\ EntriesOn(e, x.cluster)[1].cluster = c
                     /\ Tidy(EntriesOn(e, x.cluster))
  BY DEF Links
<1>5. \A b \in L : /\ Tidy(EntriesOn(e, b)) /\ EntriesOn(e, b)[0].used
                   /\ EntriesOn(e, b)[1] = EntriesOn(d, b)[1]
  BY <1>1, <1>3, <1>4
<1>6. x.cluster \in ClustersOf(new, x) /\ x.cluster \in Clusters /\ x.cluster \in EmptyClusters(map)
  BY <1>4, OwnedClusters
\* Clusters of chains and folders are marked in the FAT, those of the new chain were not.
<1>7. \A q \in P : /\ ClustersOf(map, At(d, q)) \cap ClustersOf(new, x) = {}
                   /\ \A b \in ClustersOf(map, At(d, q)) : new[b] = map[b]
  <2> TAKE q \in P
  <2>1. Owned(map, At(d, q))
    BY <1>1 DEF OwnChains
  <2>2. \A b \in ClustersOf(map, At(d, q)) : b \in Clusters /\ b \notin EmptyClusters(map)
    BY <2>1, OwnedClusters
  <2> QED
    BY <1>4, <2>2
<1>8. x.cluster \notin L
  <2>1. SUFFICES ASSUME x.cluster \in L PROVE FALSE
    OBVIOUS
  <2>2. x.cluster # ROOT_CLUSTER_NUMBER
    <3>1. x.cluster >= 3
      BY <1>6 DEF EmptyClusters
    <3> QED
      BY <3>1 DEF ROOT_CLUSTER_NUMBER
  <2>3. x.cluster \in SubfoldersOn(d, L)
    <3>1. {ROOT_CLUSTER_NUMBER} \in SUBSET Clusters
      BY ClusterRange DEF ROOT_CLUSTER_NUMBER
    <3>2. L \subseteq {ROOT_CLUSTER_NUMBER} \cup SubfoldersOn(d, L)
      BY <3>1, BelowStarts DEF Live
    <3> QED
      BY <2>1, <2>2, <3>2
  <2>4. PICK q \in P : At(d, q).cluster = x.cluster
    BY <2>3, SubfolderPlace
  <2>5. Owned(map, At(d, q))
    BY <1>1 DEF OwnChains
  <2>6. x.cluster \in ClustersOf(map, At(d, q))
    BY <2>4, <2>5, OwnedClusters
  <2> QED
    BY <1>6, <1>7, <2>6
<1>9. /\ p \in PlacesIn(e, L) /\ At(e, p) = x /\ c \in L
      /\ \A q \in Q : q \in P /\ At(e, q) = At(d, q)
  <2>1. At(e, p) = x /\ p \in PlacesIn(e, L)
    BY <1>3, <1>4 DEF At, PlacesIn
  <2>2. ASSUME NEW q \in Q PROVE q \in P /\ At(e, q) = At(d, q)
    <3>1. q = <<q[1], q[2]>> /\ q[1] \in L /\ q[2] \in Items /\ At(e, q).used /\ q # p
          /\ At(e, q) = EntriesOn(e, q[1])[q[2]] /\ At(d, q) = EntriesOn(d, q[1])[q[2]]
      BY DEF At, PlacesIn
    <3>2. At(e, q) = At(d, q)
      <4>1. CASE q[1] = c
        BY <1>3, <1>4, <3>1, <4>1
      <4>2. CASE q[1] # c
        BY <1>4, <3>1, <4>2
      <4> QED
        BY <4>1, <4>2
    <3> QED
      BY <3>1, <3>2 DEF PlacesIn
  <2> QED
    BY <2>1, <2>2
<1>10. PlacesIn(e, X) = Q \cup {p}
  <2>1. \A q \in X \X Items : q[1] \notin L => ~At(e, q).used
    BY <1>4 DEF At
  <2> QED
    BY <1>9, <2>1 DEF PlacesIn
<1> HIDE DEF p, Q, P, L, t, a
<1>11. OwnChains(e, new, Q) /\ \A q \in Q : ClustersOf(new, At(e, q)) = ClustersOf(map, At(d, q))
  <2>1. from \in [Q -> P] /\ \A q \in Q : from[q] = q
    BY <1>9
  <2> HIDE DEF from
  <2>2. \A q \in Q : /\ SameObject(At(d, from[q]), At(e, q))
                     /\ \A b \in ClustersOf(map, At(d, from[q])) : new[b] = map[b]
    BY <1>7, <1>9, <2>1 DEF SameObject
  <2>3. \A q, r \in Q : from[q] = from[r] => q = r
    BY <2>1
  <2>4. /\ OwnChains(e, new, Q)
        /\ \A q \in Q : ClustersOf(new, At(e, q)) = ClustersOf(map, At(d, from[q]))
    BY <1>1, <2>1, <2>2, <2>3, ChainsCarried
  <2> QED
    BY <2>1, <2>4
<1>12. OwnChains(e, new, PlacesIn(e, X))
  <2>1. \A q \in Q : ClustersOf(new, At(e, p)) \cap ClustersOf(new, At(e, q)) = {}
    BY <1>7, <1>9, <1>11
  <2>2. OwnChains(e, new, Q \cup {p})
    BY <1>4, <1>9, <1>11, <2>1, ChainAdded
  <2> QED
    BY <1>10, <2>2
<1>13. ASSUME NEW q \in PlacesIn(e, X), At(e, q).folder
       PROVE  At(e, q).cluster \in X /\ EntriesOn(e, At(e, q).cluster)[1].cluster = q[1]
  <2>1. CASE q = p
    BY <1>4, <1>9, <1>13, <2>1 DEF p
  <2>2. CASE q \in Q
    <3>1. q \in P /\ At(d, q).folder /\ At(e, q) = At(d, q)
      BY <1>9, <1>13, <2>2
    <3>2. At(d, q).cluster \in L
      <4>1. At(d, q).cluster \in Clusters
        BY <3>1, OnePlace DEF P, L
      <4> QED
        BY <1>1, <3>1, <4>1, PlaceLeads DEF P
    <3> QED
      BY <1>1, <1>5, <3>1, <3>2
  <2> QED
    BY <1>10, <2>1, <2>2
<1>14. SubfoldersOn(e, X) \subseteq X
  <2>1. ASSUME NEW g \in SubfoldersOn(e, X) PROVE g \in X
    <3>1. PICK q \in PlacesIn(e, X) : At(e, q).folder /\ At(e, q).cluster = g
      BY SubfolderPlace
    <3> QED
      BY <1>13, <3>1
  <2> QED
    BY <2>1
<1>15. X \in SUBSET Clusters /\ ROOT_CLUSTER_NUMBER \in X
       /\ \A b \in X : Tidy(EntriesOn(e, b)) /\ EntriesOn(e, b)[0].used
  BY <1>1, <1>4, <1>5, <1>6
<1> QED
  BY <1>12, <1>13, <1>14, <1>15 DEF Sound, L

\* What stands at 0 and 1 does not matter for a table to be tidy.
LEMMA TidyAlike ==
  ASSUME NEW t, NEW u, \A i \in Items : u[i] = t[i], Tidy(t)
  PROVE  Tidy(u)
<1>1. Holes(u) = Holes(t)
  BY DEF Holes
<1>2. FirstHole(u) = FirstHole(t) /\ (Full(u) <=> Full(t))
  BY <1>1 DEF FirstHole, Full
<1> QED
  BY <1>2 DEF Tidy

\* The entry at p goes to the folder c as x; the table of a folder that moves has c as its parent.
Moves(d, e, p, c, x) ==
  /\ SameObject(At(d, p), x) /\ c # p[1] /\ (x.folder => x.cluster # c)
  /\ EntriesOn(e, p[1]) = RemoveEntry(EntriesOn(d, p[1]), p[2])
  /\ EntriesOn(e, c) = AddEntry(EntriesOn(d, c), x)
  /\ \A b \in Live(d) \ {p[1], c} :
       /\ \A i \in Items : EntriesOn(e, b)[i] = EntriesOn(d, b)[i]
       /\ EntriesOn(e, b)[0].used = EntriesOn(d, b)[0].used
       /\ EntriesOn(e, b)[1].cluster =
            IF x.folder /\ b = x.cluster THEN c ELSE EntriesOn(d, b)[1].cluster

\* Then the disk is as sound as it was.
LEMMA MovedSound ==
  ASSUME NEW d \in [Clusters -> Stored], NEW map, Sound(d, map, Live(d)),
         NEW p \in PlacesIn(d, Live(d)),
         NEW c \in Live(d), Cardinality(Holes(EntriesOn(d, c))) > 1,
         NEW x \in EntryType, x.used, NEW e, Moves(d, e, p, c, x)
  PROVE  Sound(e, map, Live(d))
<1> DEFINE L == Live(d)
           P == PlacesIn(d, L)
           Q == PlacesIn(e, L)
           t == EntriesOn(d, p[1])
           u == EntriesOn(d, c)
           i == p[2]
           n == <<c, FirstHole(u)>>
           from == [q \in Q |-> IF q = n THEN p
                                ELSE <<q[1], IF q[1] = p[1] THEN Origin(t, i, q[2]) ELSE q[2]>>]
<1>1. /\ p = <<p[1], i>> /\ p[1] \in L /\ i \in Items /\ t[i].used /\ At(d, p) = t[i] /\ p \in P
  BY DEF PlacesIn, At
<1>2. /\ L \in SUBSET Clusters /\ OwnChains(d, map, P) /\ ROOT_CLUSTER_NUMBER \in L
      /\ \A b \in L : Tidy(EntriesOn(d, b)) /\ EntriesOn(d, b)[0].used
      /\ \A q \in P : At(d, q).folder => EntriesOn(d, At(d, q).cluster)[1].cluster = q[1]
  BY DEF Sound
<1>3. t \in Tables /\ Tidy(t) /\ u \in Tables /\ Tidy(u)
  BY <1>1, <1>2, EntriesTyped
<1>4. /\ Tidy(RemoveEntry(t, i))
      /\ RemoveEntry(t, i)[0] = t[0] /\ RemoveEntry(t, i)[1] = t[1]
      /\ \A j \in Items : RemoveEntry(t, i)[j].used =>
           Origin(t, i, j) \in Items /\ Origin(t, i, j) # i /\ RemoveEntry(t, i)[j] = t[Origin(t, i, j)]
      /\ \A j, k \in Items : RemoveEntry(t, i)[j].used /\ RemoveEntry(t, i)[k].used =>
           (Origin(t, i, j) = Origin(t, i, k) => j = k)
  BY <1>1, <1>3, RemovedIs
<1>5. /\ FirstHole(u) \in Items /\ ~u[FirstHole(u)].used /\ Tidy(AddEntry(u, x))
      /\ AddEntry(u, x)[0] = u[0] /\ AddEntry(u, x)[1] = u[1] /\ AddEntry(u, x)[FirstHole(u)] = x
      /\ \A j \in Items : j # FirstHole(u) => AddEntry(u, x)[j] = u[j]
  BY <1>3, AddedIs
<1>6. /\ SameObject(At(d, p), x) /\ c # p[1] /\ (x.folder => x.cluster # c)
      /\ EntriesOn(e, p[1]) = RemoveEntry(t, i) /\ EntriesOn(e, c) = AddEntry(u, x)
      /\ \A b \in L : b # p[1] /\ b # c =>
           /\ \A j \in Items : EntriesOn(e, b)[j] = EntriesOn(d, b)[j]
           /\ EntriesOn(e, b)[0].used = EntriesOn(d, b)[0].used
           /\ EntriesOn(e, b)[1].cluster =
                IF x.folder /\ b = x.cluster THEN c ELSE EntriesOn(d, b)[1].cluster
  BY DEF Moves
<1>7. x.folder => x.cluster # p[1]
  <2>1. SUFFICES ASSUME x.folder, x.cluster = p[1] PROVE FALSE
    OBVIOUS
  <2>2. At(d, p).folder /\ At(d, p).cluster = p[1]
    BY <1>6, <2>1 DEF SameObject
  <2>3. p[1] \in SubfoldersOn(d, {p[1]})
    BY <1>1, <1>2, <2>2 DEF SubfoldersOn
  <2>4. SubfoldersOn(d, {p[1]}) \in SUBSET Clusters
    BY DEF SubfoldersOn
  <2>5. p[1] \in BelowOn(d, SubfoldersOn(d, {p[1]}))
    BY <2>3, <2>4, BelowIsLeast
  <2> QED
    BY <1>1, <2>5, NoCycle
<1>8. \A b \in L : Tidy(EntriesOn(e, b)) /\ EntriesOn(e, b)[0].used
  <2> TAKE b \in L
  <2>1. CASE b = p[1]
    BY <1>2, <1>4, <1>6, <2>1
  <2>2. CASE b = c
    BY <1>2, <1>5, <1>6, <2>2
  <2>3. CASE b # p[1] /\ b # c
    BY <1>2, <1>6, <2>3, TidyAlike
  <2> QED
    BY <2>1, <2>2, <2>3
<1>9. \A b \in L : EntriesOn(e, b)[1].cluster =
                     IF x.folder /\ b = x.cluster THEN c ELSE EntriesOn(d, b)[1].cluster
  BY <1>4, <1>5, <1>6, <1>7
<1>10. \A q \in Q : q = <<q[1], q[2]>> /\ q[1] \in L /\ q[2] \in Items /\ EntriesOn(e, q[1])[q[2]].used
                    /\ At(e, q) = EntriesOn(e, q[1])[q[2]]
  BY DEF PlacesIn, At
<1>11. n \in L \X Items /\ At(e, n) = x /\ n[1] = c
  BY <1>5, <1>6 DEF At
<1> HIDE DEF i, t, u, n, Q, P, L
<1>12. ASSUME NEW q \in Q, q # n
       PROVE  /\ from[q] \in P /\ from[q] # p /\ from[q][1] = q[1] /\ At(e, q) = At(d, from[q])
              /\ from[q] = <<q[1], IF q[1] = p[1] THEN Origin(t, i, q[2]) ELSE q[2]>>
  <2>0. from[q] = <<q[1], IF q[1] = p[1] THEN Origin(t, i, q[2]) ELSE q[2]>>
    BY <1>12
  <2> HIDE DEF from
  <2>1. CASE q[1] = p[1]
    <3> DEFINE j == Origin(t, i, q[2])
    <3>1. EntriesOn(e, q[1]) = RemoveEntry(t, i)
      BY <1>6, <1>10, <2>1
    <3>2. j \in Items /\ j # i /\ EntriesOn(e, q[1])[q[2]] = t[j]
      BY <1>4, <1>10, <3>1
    <3>3. from[q] = <<p[1], j>> /\ At(d, <<p[1], j>>) = t[j]
      BY <2>0, <2>1 DEF At, t
    <3> HIDE DEF j
    <3>4. t[j].used
      BY <1>10, <3>2
    <3>5. <<p[1], j>> \in P
      BY <1>1, <3>2, <3>3, <3>4 DEF PlacesIn, P
    <3> QED
      BY <1>1, <1>10, <2>0, <2>1, <3>2, <3>3, <3>5
  <2>2. CASE q[1] # p[1]
    <3>1. from[q] = <<q[1], q[2]>>
      BY <2>0, <2>2
    <3>2. EntriesOn(e, q[1])[q[2]] = EntriesOn(d, q[1])[q[2]]
      <4>1. CASE q[1] = c
        <5>1. q[2] # FirstHole(u)
          BY <1>10, <1>12, <4>1 DEF n
        <5> QED
          BY <1>5, <1>6, <1>10, <4>1, <5>1 DEF u
      <4>2. CASE q[1] # c
        BY <1>6, <1>10, <2>2, <4>2
      <4> QED
        BY <4>1, <4>2
    <3>3. At(e, q) = At(d, q) /\ At(d, q).used
      BY <1>10, <3>2 DEF At
    <3>4. q \in P
      BY <1>10, <3>3 DEF PlacesIn, P
    <3> QED
      BY <1>10, <2>0, <2>2, <3>1, <3>3, <3>4
  <2> QED
    BY <2>1, <2>2
<1>13. n \in Q => from[n] = p
  OBVIOUS
<1> HIDE DEF from
<1>14. ASSUME NEW q \in Q, NEW r \in Q, from[q] = from[r] PROVE q = r
  <2>1. CASE q = n \/ r = n
    BY <1>12, <1>13, <1>14, <2>1
  <2>2. CASE q # n /\ r # n
    <3>1. /\ from[q] = <<q[1], IF q[1] = p[1] THEN Origin(t, i, q[2]) ELSE q[2]>>
          /\ from[r] = <<r[1], IF r[1] = p[1] THEN Origin(t, i, r[2]) ELSE r[2]>>
      BY <1>12, <2>2
    <3>2. q[1] = r[1]
      BY <1>12, <1>14, <2>2
    <3>3. CASE q[1] = p[1]
      <4>1. from[q] = <<q[1], Origin(t, i, q[2])>> /\ from[r] = <<r[1], Origin(t, i, r[2])>>
        BY <3>1, <3>2, <3>3
      <4>2. Origin(t, i, q[2]) = Origin(t, i, r[2])
        <5>1. <<q[1], Origin(t, i, q[2])>> = <<r[1], Origin(t, i, r[2])>>
          BY <1>14, <4>1, Zenon
        <5> QED
          BY <5>1
      <4>3. RemoveEntry(t, i)[q[2]].used /\ RemoveEntry(t, i)[r[2]].used
        BY <1>6, <1>10, <3>2, <3>3
      <4>4. q[2] = r[2]
        BY <1>4, <1>10, <4>2, <4>3
      <4> QED
        BY <1>10, <3>2, <4>4
    <3>4. CASE q[1] # p[1]
      BY <1>10, <1>14, <3>1, <3>2, <3>4
    <3> QED
      BY <3>3, <3>4
  <2> QED
    BY <2>1, <2>2
<1>15. from \in [Q -> P]
  <2>1. \A q \in Q : from[q] \in P
    BY <1>1, <1>12, <1>13
  <2> QED
    BY <2>1 DEF from
<1>16. ASSUME NEW q \in Q
       PROVE  /\ SameObject(At(d, from[q]), At(e, q))
              /\ \A b \in ClustersOf(map, At(d, from[q])) : map[b] = map[b]
  <2>1. CASE q = n
    BY <1>6, <1>11, <1>13, <2>1
  <2>2. CASE q # n
    BY <1>12, <2>2 DEF SameObject
  <2> QED
    BY <2>1, <2>2
<1>17. OwnChains(e, map, Q)
  BY <1>2, <1>14, <1>15, <1>16, ChainsCarried
<1>18. ASSUME NEW q \in Q, At(e, q).folder
       PROVE  At(e, q).cluster \in L /\ EntriesOn(e, At(e, q).cluster)[1].cluster = q[1]
  <2>1. from[q] \in P /\ At(d, from[q]).folder /\ At(d, from[q]).cluster = At(e, q).cluster
    BY <1>15, <1>16, <1>18 DEF SameObject
  <2>2. At(e, q).cluster \in L
    <3>1. At(d, from[q]).cluster \in Clusters
      BY <2>1, OnePlace DEF P, L
    <3>2. SubfoldersOn(d, L) \subseteq L
      BY DEF Sound, L
    <3> QED
      BY <1>2, <2>1, <3>1, <3>2, PlaceLeads DEF P
  <2>3. CASE q = n
    BY <1>9, <1>11, <1>18, <2>2, <2>3
  <2>4. CASE q # n
    <3>1. from[q] # p /\ from[q][1] = q[1]
      BY <1>12, <2>4
    <3>2. At(d, from[q]).cluster # At(d, p).cluster
      BY <1>1, <2>1, <3>1, OnePlace DEF P, L
    <3>3. At(e, q).cluster # x.cluster
      BY <1>6, <2>1, <3>2 DEF SameObject
    <3>4. EntriesOn(d, At(e, q).cluster)[1].cluster = q[1]
      BY <1>2, <2>1, <3>1
    <3> QED
      BY <1>9, <2>2, <3>3, <3>4
  <2> QED
    BY <2>3, <2>4
<1>19. SubfoldersOn(e, L) \subseteq L
  <2>1. ASSUME NEW g \in SubfoldersOn(e, L) PROVE g \in L
    <3>1. PICK q \in Q : At(e, q).folder /\ At(e, q).cluster = g
      BY SubfolderPlace DEF Q
    <3> QED
      BY <1>18, <3>1
  <2> QED
    BY <2>1
<1> QED
  BY <1>2, <1>8, <1>17, <1>18, <1>19 DEF Sound, Q, L

-----------------------------------------------------------------------------
(* Careful clients keep the disk sound *)

\* The inductive invariant: a machine that runs has a sound disk before it.
TreeKept ==
  /\ power = "off" => disk = [c \in Clusters |-> Zeroes] /\ queue = <<>>
  /\ power # "off" => Sound(Image, fat, Live(Image))

\* When a syscall can begin the disk itself is sound.
LEMMA SoundAtRest ==
  ASSUME DriverKept, TreeKept, Ready
  PROVE  /\ disk \in [Clusters -> Stored] /\ fat \in FatMaps
         /\ Image = disk /\ Sound(disk, fat, Live(disk)) /\ FolderClusters = Live(disk)
<1>1. disk \in [Clusters -> Stored] /\ fat \in FatMaps
  BY DEF DriverKept, DriverTypes
<1>2. queue = <<>> /\ power # "off"
  BY DEF Ready
<1>3. \A c \in Clusters : ImageOf(disk, queue)[c] = disk[c]
  BY <1>2, Unwritten
<1>4. ImageOf(disk, queue) = [c \in Clusters |-> ImageOf(disk, queue)[c]]
  BY DEF ImageOf
<1>5. Image = disk
  BY <1>1, <1>3, <1>4, ImageIs
<1> QED
  BY <1>1, <1>2, <1>5 DEF TreeKept, FolderClusters, Below, Live

\* What the writes of an operation make is sound, as far as it is live.
LEMMA KeptBySoundness ==
  ASSUME power' # "off", disk' = disk, NEW X, Sound(ImageOf(disk, queue'), fat', X)
  PROVE  TreeKept'
<1>1. Image' = ImageOf(disk, queue')
  BY DEF Image, ImageOf, WritesTo
<1>2. Sound(Image', fat', Live(Image'))
  BY <1>1, SoundLive
<1> QED
  BY <1>2 DEF TreeKept

\* A step that changes nothing of the driver changes nothing here.
LEMMA TreeStays == TreeKept /\ UNCHANGED fsVars => TreeKept'
BY DEF TreeKept, fsVars, Image

\* The table a cluster holds.
LEMMA EntriesAre ==
  ASSUME NEW d, NEW e, NEW c \in Clusters
  PROVE  /\ \A t : e[c] = Table(t) => EntriesOn(e, c) = t
         /\ e[c] = d[c] => EntriesOn(e, c) = EntriesOn(d, c)
BY DEF EntriesOn, Table

\* Live folders are behind the FAT and none of them is empty in it.
LEMMA LiveMarked ==
  ASSUME NEW d, NEW map, Sound(d, map, Live(d)), NEW c \in Live(d)
  PROVE  c \in Clusters /\ c # FAT_CLUSTER_NUMBER /\ c \notin EmptyClusters(map)
<1>1. Live(d) \in SUBSET Clusters /\ OwnChains(d, map, PlacesIn(d, Live(d)))
  BY DEF Sound
<1>2. CASE c = ROOT_CLUSTER_NUMBER
  BY <1>1, <1>2 DEF ROOT_CLUSTER_NUMBER, FAT_CLUSTER_NUMBER, EmptyClusters
<1>3. CASE c # ROOT_CLUSTER_NUMBER
  <2>1. {ROOT_CLUSTER_NUMBER} \in SUBSET Clusters
    BY ClusterRange DEF ROOT_CLUSTER_NUMBER
  <2>2. c \in SubfoldersOn(d, Live(d))
    BY <1>3, <2>1, BelowStarts DEF Live
  <2>3. PICK q \in PlacesIn(d, Live(d)) : At(d, q).cluster = c
    BY <2>2, SubfolderPlace
  <2>4. Owned(map, At(d, q))
    BY <1>1 DEF OwnChains
  <2>5. c \in ClustersOf(map, At(d, q))
    BY <2>3, <2>4, OwnedClusters
  <2>6. c \in Clusters /\ c >= 3 /\ c \notin EmptyClusters(map)
    BY <2>4, <2>5, OwnedClusters
  <2> QED
    BY <2>6 DEF FAT_CLUSTER_NUMBER
<1> QED
  BY <1>2, <1>3

\* A table with nothing in it is tidy.
LEMMA OnlyHoles ==
  ASSUME NEW t, \A i \in Items : t[i] = NoEntry
  PROVE  Tidy(t) /\ \A i \in Items : ~t[i].used
<1>1. ~NoEntry.used /\ NoEntry.name = NoName
  BY EntryValues DEF NoEntry
<1>2. \A i \in Items : ~t[i].used /\ t[i].name = NoName
  BY <1>1
<1>3. 2 \in Items
  BY IndexRange, SMT
<1>4. 2 \in Holes(t)
  BY <1>2, <1>3 DEF Holes
<1> QED
  BY <1>2, <1>4 DEF Tidy, Full

-----------------------------------------------------------------------------
(* What an operation on one file or folder leaves alone *)

\* The places the properties speak of are those of the live folders.
LEMMA PlacesAre ==
  ASSUME NEW d
  PROVE  Places(d) = PlacesIn(d, Live(d))
BY DEF Places, PlacesIn, Live, At

\* The places in the folders of K that are not about f.
Outside(d, K, f) == {p \in PlacesIn(d, K) : At(d, p).cluster # f}

\* The clusters of the files there.
Data(d, map, K, f) ==
  UNION {ClustersOf(map, At(d, p)) : p \in {q \in Outside(d, K, f) : ~At(d, q).folder}}

\* From the folders of K only entries about f lead to other folders.
Apart(d, map, K, f) ==
  /\ K \in SUBSET Clusters /\ ROOT_CLUSTER_NUMBER \in K /\ f \in Clusters
  /\ \A p \in Outside(d, K, f) : IF At(d, p).folder THEN At(d, p).cluster \in K
                                 ELSE Owned(map, At(d, p))

\* The entries of a folder that are not about f.
Around(t, f) == {e \in {t[i] : i \in Items} : e.used /\ e.cluster # f}

\* Disk g with FAT m has the same of these as d with map, and the same files.
Spared(g, m, d, map, K, f) ==
  /\ \A c \in K : Around(EntriesOn(g, c), f) = Around(EntriesOn(d, c), f)
  /\ \A c \in Data(d, map, K, f) : g[c] = d[c] /\ m[c] = map[c]

\* A folder's entry that is not about f is at a place outside.
LEMMA AroundOutside ==
  ASSUME NEW d, NEW K, NEW f, NEW c \in K, NEW e \in Around(EntriesOn(d, c), f)
  PROVE  \E p \in Outside(d, K, f) : p[1] = c /\ At(d, p) = e
<1>1. PICK i \in Items : e = EntriesOn(d, c)[i]
  BY DEF Around
<1>2. e.used /\ e.cluster # f
  BY DEF Around
<1> DEFINE p == <<c, i>>
<1>3. p[1] = c /\ p[2] = i /\ p \in K \X Items
  OBVIOUS
<1>4. At(d, p) = e
  BY <1>1, <1>3 DEF At
<1> HIDE DEF p
<1>5. p \in Outside(d, K, f)
  BY <1>2, <1>3, <1>4 DEF Outside, PlacesIn
<1> QED
  BY <1>3, <1>4, <1>5

\* And the other way round.
LEMMA OutsideAround ==
  ASSUME NEW d, NEW K, NEW f, NEW p \in Outside(d, K, f)
  PROVE  At(d, p) \in Around(EntriesOn(d, p[1]), f)
BY DEF Outside, PlacesIn, At, Around

\* What is outside is what it was on the other disk.
LEMMA SparedEntries ==
  ASSUME NEW d, NEW map, NEW K, NEW f, Apart(d, map, K, f),
         NEW g, NEW m, Spared(g, m, d, map, K, f),
         NEW c \in K, NEW e \in Around(EntriesOn(g, c), f)
  PROVE  /\ e \in Around(EntriesOn(d, c), f)
         /\ e.folder => e.cluster \in K
         /\ ~e.folder => Content(g, m, e) = Content(d, map, e)
<1>1. e \in Around(EntriesOn(d, c), f)
  BY DEF Spared
<1>2. PICK p \in Outside(d, K, f) : At(d, p) = e
  BY <1>1, AroundOutside
<1>3. e.folder => e.cluster \in K
  BY <1>2 DEF Apart
<1>4. ASSUME ~e.folder PROVE Content(g, m, e) = Content(d, map, e)
  <2> DEFINE s == Chain(map, e.cluster)
  <2>1. Owned(map, e)
    BY <1>2, <1>4 DEF Apart
  <2>2. \A b \in ClustersOf(map, e) : b \in Data(d, map, K, f)
    BY <1>2, <1>4, SMTT(30) DEF Data
  <2>3. \A b \in ClustersOf(map, e) : g[b] = d[b] /\ m[b] = map[b]
    BY <2>2 DEF Spared
  <2>4. Chain(m, e.cluster) = s
    BY <2>1, <2>3, OwnedKept DEF SameObject
  <2>5. \A k \in DOMAIN s : s[k] \in ClustersOf(map, e)
    BY DEF ClustersOf
  <2> HIDE DEF s
  <2>6. \A k \in DOMAIN s : g[s[k]] = d[s[k]]
    BY <2>3, <2>5
  <2> QED
    BY <2>4, <2>6 DEF Content, s
<1> QED
  BY <1>1, <1>3, <1>4

\* A folder of one such disk that is not below f is a folder of the other.
LEMMA LiveCarried ==
  ASSUME NEW d, NEW map, NEW K, NEW f, Apart(d, map, K, f),
         NEW g, NEW m, Spared(g, m, d, map, K, f),
         NEW h, NEW n, Spared(h, n, d, map, K, f)
  PROVE  Live(g) \subseteq (K \cap Live(h)) \cup BelowOn(g, {f})
<1> DEFINE B == BelowOn(g, {f})
           X == (K \cap Live(h)) \cup B
<1>1. f \in B /\ SubfoldersOn(g, B) \subseteq B
  <2>1. {f} \in SUBSET Clusters
    BY DEF Apart
  <2> QED
    BY <2>1, BelowIsLeast
<1> HIDE DEF B
<1>2. ROOT_CLUSTER_NUMBER \in X
  BY LiveIsLeast DEF Apart
<1>3. ASSUME NEW b \in SubfoldersOn(g, X) PROVE b \in X
  <2>1. PICK c \in X, i \in Items : LET e == EntriesOn(g, c)[i]
                                    IN  e.used /\ e.folder /\ e.cluster = b
    BY <1>3 DEF SubfoldersOn
  <2>2. b \in Clusters
    BY <1>3 DEF SubfoldersOn
  <2> DEFINE e == EntriesOn(g, c)[i]
  <2>3. CASE c \in B
    <3>1. b \in SubfoldersOn(g, B)
      BY <2>1, <2>2, <2>3 DEF SubfoldersOn
    <3> QED
      BY <1>1, <3>1
  <2>4. CASE b = f
    BY <1>1, <2>4
  <2>5. CASE c \in K /\ c \in Live(h) /\ b # f
    <3>1. e \in Around(EntriesOn(g, c), f)
      BY <2>1, <2>5 DEF Around
    <3>2. e \in Around(EntriesOn(h, c), f)
      BY <2>5, <3>1 DEF Spared
    <3>3. b \in K
      BY <2>1, <2>5, <3>1, SparedEntries
    <3>4. b \in SubfoldersOn(h, Live(h))
      <4>1. PICK j \in Items : EntriesOn(h, c)[j] = e
        BY <3>2 DEF Around
      <4> QED
        BY <2>1, <2>2, <2>5, <4>1 DEF SubfoldersOn
    <3> QED
      BY <3>3, <3>4, LiveIsLeast
  <2> QED
    BY <2>1, <2>3, <2>4, <2>5
<1>4. Live(g) \subseteq X
  <2> HIDE DEF X
  <2> QED
    BY <1>2, <1>3, LiveIsLeast
<1> QED
  BY <1>4 DEF B

\* What a disk with a FAT shows: what each place of it holds.
View(d, map) ==
  {<<p[1], At(d, p), IF At(d, p).folder THEN <<>> ELSE Content(d, map, At(d, p))>> : p \in Places(d)}

\* So one shows what the other shows, but for f and what is below it.
LEMMA SparedView ==
  ASSUME NEW d, NEW map, NEW K, NEW f, Apart(d, map, K, f),
         NEW g, NEW m, Spared(g, m, d, map, K, f),
         NEW h, NEW n, Spared(h, n, d, map, K, f), NEW v \in View(g, m)
  PROVE  v[2].cluster = f \/ v[1] \in BelowOn(g, {f}) \/ v \in View(h, n)
<1>1. PICK p \in Places(g) :
        v = <<p[1], At(g, p), IF At(g, p).folder THEN <<>> ELSE Content(g, m, At(g, p))>>
  BY DEF View
<1>2. v[1] = p[1] /\ v[2] = At(g, p)
  BY <1>1
<1>3. SUFFICES ASSUME At(g, p).cluster # f, p[1] \notin BelowOn(g, {f}) PROVE v \in View(h, n)
  BY <1>2
<1>4. p \in PlacesIn(g, Live(g)) /\ p[1] \in Live(g)
  BY PlacesAre DEF PlacesIn
<1>5. p[1] \in K /\ p[1] \in Live(h)
  BY <1>3, <1>4, LiveCarried
<1>6. p \in Outside(g, K, f)
  BY <1>3, <1>4, <1>5 DEF Outside, PlacesIn
<1> DEFINE e == At(g, p)
<1>7. e \in Around(EntriesOn(g, p[1]), f)
  BY <1>6, OutsideAround
<1>8. e \in Around(EntriesOn(h, p[1]), f)
  BY <1>5, <1>7 DEF Spared
<1>9. PICK q \in Outside(h, K, f) : q[1] = p[1] /\ At(h, q) = e
  BY <1>5, <1>8, AroundOutside
<1>10. q \in Places(h)
  <2>1. q \in PlacesIn(h, Live(h))
    BY <1>5, <1>9 DEF Outside, PlacesIn
  <2> QED
    BY <2>1, PlacesAre
<1>11. ~e.folder => Content(h, n, e) = Content(g, m, e)
  BY <1>5, <1>7, <1>8, SparedEntries
<1> HIDE DEF e
<1>12. v = <<q[1], At(h, q), IF At(h, q).folder THEN <<>> ELSE Content(h, n, At(h, q))>>
  BY <1>1, <1>9, <1>11 DEF e
<1> QED
  BY <1>10, <1>12 DEF View

\* The FAT a machine started with disk d would read.
FatIn(d) == IF d[FAT_CLUSTER_NUMBER].kind = "fat" THEN d[FAT_CLUSTER_NUMBER].map
            ELSE [c \in Clusters |-> FAT32_FAT_EMPTY_ENTRY]

\* A write that leaves what is outside alone.
Spares(w, d, map, K, f) ==
  /\ w.at \in K => \E t : w.content = Table(t) /\ Around(t, f) = Around(EntriesOn(d, w.at), f)
  /\ w.at \notin Data(d, map, K, f)
  /\ w.at = FAT_CLUSTER_NUMBER =>
       \E m : w.content = Fat(m) /\ \A c \in Data(d, map, K, f) : m[c] = map[c]

\* Any number of them does so too.
LEMMA WritesSpare ==
  ASSUME NEW d, NEW map, NEW K, NEW f, Apart(d, map, K, f),
         \A c \in Data(d, map, K, f) : FatIn(d)[c] = map[c],
         NEW q \in Seq(Writes), \A k \in DOMAIN q : Spares(q[k], d, map, K, f)
  PROVE  Spared(ImageOf(d, q), FatIn(ImageOf(d, q)), d, map, K, f)
<1> DEFINE g == ImageOf(d, q)
<1>1. FAT_CLUSTER_NUMBER \in Clusters /\ K \in SUBSET Clusters
  BY ClusterRange DEF FAT_CLUSTER_NUMBER, Apart
<1>2. ASSUME NEW c \in Clusters
      PROVE  g[c] = d[c] \/ \E k \in DOMAIN q : q[k].at = c /\ g[c] = q[k].content
  BY ImageFrom
<1>3. \A c \in Data(d, map, K, f) : c \in Clusters
  <2> TAKE c \in Data(d, map, K, f)
  <2>1. PICK p \in Outside(d, K, f) : ~At(d, p).folder /\ c \in ClustersOf(map, At(d, p))
    BY DEF Data
  <2>2. Owned(map, At(d, p))
    BY <2>1 DEF Apart
  <2> QED
    BY <2>1, <2>2, OwnedClusters
<1> HIDE DEF g
<1>4. ASSUME NEW c \in K PROVE Around(EntriesOn(g, c), f) = Around(EntriesOn(d, c), f)
  <2>1. CASE g[c] = d[c]
    <3>1. EntriesOn(g, c) = EntriesOn(d, c)
      BY <1>1, <2>1, EntriesAre
    <3> QED
      BY <3>1
  <2>2. ASSUME NEW k \in DOMAIN q, q[k].at = c, g[c] = q[k].content
        PROVE  Around(EntriesOn(g, c), f) = Around(EntriesOn(d, c), f)
    <3>1. PICK t : q[k].content = Table(t) /\ Around(t, f) = Around(EntriesOn(d, c), f)
      BY <2>2 DEF Spares
    <3>2. EntriesOn(g, c) = t
      BY <1>1, <2>2, <3>1, EntriesAre
    <3> QED
      BY <3>1, <3>2
  <2> QED
    BY <1>1, <1>2, <2>1, <2>2
<1>5. ASSUME NEW c \in Data(d, map, K, f) PROVE g[c] = d[c]
  BY <1>2, <1>3 DEF Spares
<1>6. ASSUME NEW c \in Data(d, map, K, f) PROVE FatIn(g)[c] = map[c]
  <2>1. CASE g[FAT_CLUSTER_NUMBER] = d[FAT_CLUSTER_NUMBER]
    BY <2>1 DEF FatIn
  <2>2. ASSUME NEW k \in DOMAIN q, q[k].at = FAT_CLUSTER_NUMBER,
               g[FAT_CLUSTER_NUMBER] = q[k].content
        PROVE  FatIn(g)[c] = map[c]
    <3>1. PICK m : q[k].content = Fat(m) /\ m[c] = map[c]
      BY <2>2 DEF Spares
    <3>2. FatIn(g) = m
      BY <2>2, <3>1 DEF FatIn, Fat
    <3> QED
      BY <3>1, <3>2
  <2> QED
    BY <1>1, <1>2, <2>1, <2>2
<1> QED
  BY <1>4, <1>5, <1>6 DEF Spared, g

\* What disk d shows differs from what e with map shows only in f and what is below it.
Confined(d, e, map, f) ==
  \A v \in (View(d, FatIn(d)) \cup View(e, map)) \ (View(d, FatIn(d)) \cap View(e, map)) :
    v[2].cluster = f \/ v[1] \in BelowOn(d, {f}) \cup BelowOn(e, {f})

\* Two disks that have the same outside differ only in f and what is below it.
LEMMA SparedConfined ==
  ASSUME NEW d, NEW map, NEW K, NEW f, Apart(d, map, K, f),
         NEW g, Spared(g, FatIn(g), d, map, K, f), NEW h, NEW n, Spared(h, n, d, map, K, f)
  PROVE  Confined(g, h, n, f)
<1>1. ASSUME NEW v \in View(g, FatIn(g)), v \notin View(h, n)
      PROVE  v[2].cluster = f \/ v[1] \in BelowOn(g, {f})
  BY <1>1, SparedView
<1>2. ASSUME NEW v \in View(h, n), v \notin View(g, FatIn(g))
      PROVE  v[2].cluster = f \/ v[1] \in BelowOn(h, {f})
  BY <1>2, SparedView
<1> QED
  BY <1>1, <1>2 DEF Confined

\* The inductive invariant: the FAT to come is the one in memory, and however many of the
\* pending writes are done, what the disk shows is confined to what is operated on.
CrashKept ==
  power # "off" =>
    /\ Image[FAT_CLUSTER_NUMBER] = Fat(fat)
    /\ \A n \in 0 .. Len(queue) : Confined(ImageOf(disk, SubSeq(queue, 1, n)), Image, fat, busy)

\* A disk shows what it shows.
LEMMA SameConfined ==
  ASSUME NEW d, NEW map, FatIn(d) = map, NEW f
  PROVE  Confined(d, d, map, f)
BY DEF Confined

\* A disk of zeroes shows nothing.
LEMMA ZeroesShowNothing ==
  ASSUME NEW d, \A c \in Clusters : d[c] = Zeroes
  PROVE  Places(d) = {}
<1>1. \A c : EntriesOn(d, c) = NoEntries
  BY DEF EntriesOn, Zeroes, Table
<1>2. \A i \in Items : NoEntries[i] = NoEntry
  BY IndexRange DEF NoEntries
<1>3. \A i \in Items : \A c : ~EntriesOn(d, c)[i].used
  BY <1>1, <1>2, EntryValues
<1> QED
  BY <1>3 DEF Places

\* The image of no writes is the disk.
LEMMA NoWrites ==
  ASSUME NEW d \in [Clusters -> Stored]
  PROVE  ImageOf(d, <<>>) = d
<1>1. \A c \in Clusters : ImageOf(d, <<>>)[c] = d[c]
  BY Unwritten
<1>2. ImageOf(d, <<>>) = [c \in Clusters |-> ImageOf(d, <<>>)[c]]
  BY DEF ImageOf
<1> QED
  BY <1>1, <1>2

\* The invariant is about what the property is about.
LEMMA KeptIsConfined == DriverKept /\ TreeKept /\ CrashKept => CrashConfined
<1> SUFFICES ASSUME DriverKept, TreeKept, CrashKept PROVE CrashConfined
  OBVIOUS
<1>1. Confined(disk, Image, fat, busy) => CrashConfined
  BY DEF Confined, View, FatIn, CrashConfined, FatOnDisk
<1>2. disk \in [Clusters -> Stored] /\ queue \in Seq(Writes)
  BY DEF DriverKept, DriverTypes
<1>3. CASE power = "off"
  <2>1. \A c \in Clusters : disk[c] = Zeroes
    BY <1>3 DEF TreeKept
  <2>2. Image = disk
    BY <1>2, <1>3, ImageIs, NoWrites DEF TreeKept
  <2>3. Places(disk) = {} /\ Places(Image) = {}
    BY <2>1, <2>2, ZeroesShowNothing
  <2>4. View(disk, FatIn(disk)) = {} /\ View(Image, fat) = {}
    BY <2>3 DEF View
  <2>5. Confined(disk, Image, fat, busy)
    BY <2>4 DEF Confined
  <2> QED
    BY <1>1, <2>5
<1>4. CASE power # "off"
  <2>1. 0 \in 0 .. Len(queue) /\ SubSeq(queue, 1, 0) = <<>>
    BY <1>2
  <2>2. Confined(ImageOf(disk, <<>>), Image, fat, busy)
    BY <1>4, <2>1 DEF CrashKept
  <2> QED
    BY <1>1, <1>2, <2>2, NoWrites
<1> QED
  BY <1>3, <1>4

\* A write that is done leaves the others to come.
LEMMA FlushConfined ==
  ASSUME DriverKept, CrashKept, Flush
  PROVE  CrashKept'
<1>1. /\ disk \in [Clusters -> Stored] /\ queue \in Seq(Writes) /\ queue # <<>>
      /\ disk' = [disk EXCEPT ![Head(queue).at] = Head(queue).content]
      /\ queue' = Tail(queue) /\ fat' = fat /\ power # "off"
      /\ busy' = IF Len(queue) = 1 THEN 0 ELSE busy
  BY DEF DriverKept, DriverTypes, Flush
<1>2. Image' = Image
  <2>1. ImageOf(disk', queue') = ImageOf(disk, queue)
    BY <1>1, FlushedImage
  <2>2. Image' = ImageOf(disk', queue')
    BY DEF Image, ImageOf, WritesTo
  <2> QED
    BY <2>1, <2>2, ImageIs
<1>3. Image[FAT_CLUSTER_NUMBER] = Fat(fat)
  BY <1>1 DEF CrashKept
<1>4. queue' \in Seq(Writes) /\ Len(queue') = Len(queue) - 1 /\ Len(queue) \in Nat /\ Len(queue) >= 1
  BY <1>1
<1>5. ASSUME NEW n \in 0 .. Len(queue')
      PROVE  Confined(ImageOf(disk', SubSeq(queue', 1, n)), Image', fat', busy')
  <2> DEFINE q == SubSeq(queue, 1, n + 1)
  <2>1. n \in Nat /\ n + 1 \in 0 .. Len(queue) /\ n + 1 >= 1
    BY <1>4
  <2>2. /\ q \in Seq(Writes) /\ q # <<>> /\ Head(q) = Head(queue)
        /\ Tail(q) = SubSeq(queue', 1, n)
    BY <1>1, <2>1
  <2>3. ImageOf(disk', SubSeq(queue', 1, n)) = ImageOf(disk, q)
    <3> HIDE DEF q
    <3> QED
      BY <1>1, <2>2, FlushedImage
  <2>4. Confined(ImageOf(disk, q), Image, fat, busy)
    BY <1>1, <2>1 DEF CrashKept
  <2>5. CASE Len(queue) # 1
    BY <1>1, <1>2, <2>3, <2>4, <2>5
  <2>6. CASE Len(queue) = 1
    <3>1. n + 1 = Len(queue) /\ q = queue
      BY <1>1, <1>4, <2>1, <2>6
    <3>2. ImageOf(disk', SubSeq(queue', 1, n)) = Image
      BY <2>3, <3>1, ImageIs
    <3>3. FatIn(Image) = fat
      BY <1>3 DEF FatIn, Fat
    <3> QED
      BY <1>1, <1>2, <3>2, <3>3, SameConfined
  <2> QED
    BY <2>5, <2>6
<1> QED
  BY <1>1, <1>2, <1>3, <1>5 DEF CrashKept

\* An operation whose writes leave what is outside alone.
LEMMA OperationConfined ==
  ASSUME disk \in [Clusters -> Stored], NEW K, NEW f, Apart(disk, fat, K, f),
         \A c \in Data(disk, fat, K, f) : FatIn(disk)[c] = fat[c],
         queue' \in Seq(Writes), \A k \in DOMAIN queue' : Spares(queue'[k], disk, fat, K, f),
         Image'[FAT_CLUSTER_NUMBER] = Fat(fat'), disk' = disk, busy' = f
  PROVE  CrashKept'
<1> DEFINE q == queue'
<1>1. Image' = ImageOf(disk, q)
  BY DEF Image, ImageOf, WritesTo
<1>2. FatIn(ImageOf(disk, q)) = fat'
  BY <1>1 DEF FatIn, Fat
<1>3. ASSUME NEW n \in 0 .. Len(q)
      PROVE  Confined(ImageOf(disk, SubSeq(q, 1, n)), Image', fat', f)
  <2> DEFINE r == SubSeq(q, 1, n)
  <2> HIDE DEF q
  <2>1. r \in Seq(Writes) /\ \A k \in DOMAIN r : k \in DOMAIN q /\ r[k] = q[k]
    BY <1>3 DEF q
  <2>2. \A k \in DOMAIN q : Spares(q[k], disk, fat, K, f)
    BY DEF q
  <2> HIDE DEF r
  <2>3. Spared(ImageOf(disk, r), FatIn(ImageOf(disk, r)), disk, fat, K, f)
    BY <2>1, <2>2, WritesSpare
  <2>4. Spared(ImageOf(disk, q), FatIn(ImageOf(disk, q)), disk, fat, K, f)
    BY <2>2, WritesSpare DEF q
  <2> QED
    BY <1>1, <1>2, <2>3, <2>4, SparedConfined DEF q, r
<1> QED
  BY <1>3 DEF CrashKept

\* What is at or below a folder is the folder and what is below it.
LEMMA BelowOne ==
  ASSUME NEW d, NEW f \in Clusters
  PROVE  BelowOn(d, {f}) \subseteq {f} \cup BelowOn(d, SubfoldersOn(d, {f}))
<1> DEFINE S == SubfoldersOn(d, {f})
           C == BelowOn(d, S)
           X == {f} \cup C
<1>1. S \subseteq C /\ SubfoldersOn(d, C) \subseteq C
  <2>1. S \in SUBSET Clusters
    BY DEF SubfoldersOn
  <2> HIDE DEF S
  <2> QED
    BY <2>1, BelowIsLeast
<1>2. SubfoldersOn(d, X) \subseteq S \cup SubfoldersOn(d, C)
  <2> HIDE DEF C
  <2> QED
    BY DEF SubfoldersOn
<1>3. {f} \subseteq X /\ SubfoldersOn(d, X) \subseteq X
  BY <1>1, <1>2
<1> HIDE DEF X
<1>4. BelowOn(d, {f}) \subseteq X
  BY <1>3, BelowIsLeast
<1> QED
  BY <1>4 DEF X

\* What is below a folder that an entry of a live folder names: not the root, nor the live folder,
\* and no other entry outside names any of it.
LEMMA BelowPlace ==
  ASSUME NEW d, NEW map, Sound(d, map, Live(d)), NEW p \in PlacesIn(d, Live(d)), At(d, p).folder
  PROVE  LET B == BelowOn(d, {At(d, p).cluster})
         IN  /\ B \in SUBSET Live(d) /\ At(d, p).cluster \in B /\ SubfoldersOn(d, B) \subseteq B
             /\ ROOT_CLUSTER_NUMBER \notin B /\ p[1] \notin B
             /\ \A q \in PlacesIn(d, Live(d) \ B) :
                  q # p /\ At(d, q).folder => At(d, q).cluster \in Live(d) \ B
<1> DEFINE f == At(d, p).cluster
           B == BelowOn(d, {f})
<1>1. f \in Clusters /\ f >= 3 /\ f \in Live(d) /\ p[1] \in Live(d)
  <2>1. f \in Clusters /\ f >= 3
    BY OnePlace
  <2>2. f \in Live(d)
    BY <2>1, LiveIsLeast, PlaceLeads
  <2> QED
    BY <2>1, <2>2 DEF PlacesIn
<1>2. f \in SubfoldersOn(d, {p[1]})
  BY <1>1 DEF SubfoldersOn, PlacesIn, At
<1> HIDE DEF f
<1>3. /\ B \in SUBSET Live(d) /\ f \in B
      /\ SubfoldersOn(d, B) \subseteq B /\ B \subseteq {f} \cup SubfoldersOn(d, B)
  BY <1>1, BelowIsLeast, BelowStarts, LiveIsLeast
<1> HIDE DEF B
<1>4. ASSUME NEW q \in PlacesIn(d, Live(d)), At(d, q).cluster \in B, q # p
      PROVE  q[1] \in B
  <2>1. At(d, q).cluster # f
    BY <1>4, OnePlace DEF f
  <2>2. At(d, q).cluster \in SubfoldersOn(d, B)
    BY <1>3, <1>4, <2>1
  <2>3. PICK r \in PlacesIn(d, B) : At(d, r).folder /\ At(d, r).cluster = At(d, q).cluster
    BY <2>2, SubfolderPlace
  <2>4. r \in PlacesIn(d, Live(d)) /\ r[1] \in B
    BY <1>3 DEF PlacesIn
  <2>5. r = q
    BY <2>3, <2>4, OnePlace
  <2> QED
    BY <2>4, <2>5
<1>5. ROOT_CLUSTER_NUMBER \notin B
  <2>1. SUFFICES ASSUME ROOT_CLUSTER_NUMBER \in B PROVE FALSE
    OBVIOUS
  <2>2. ROOT_CLUSTER_NUMBER # f
    BY <1>1 DEF ROOT_CLUSTER_NUMBER
  <2>3. PICK r \in PlacesIn(d, B) : At(d, r).cluster = ROOT_CLUSTER_NUMBER
    BY <1>3, <2>1, <2>2, SubfolderPlace
  <2>4. r \in PlacesIn(d, Live(d))
    BY <1>3 DEF PlacesIn
  <2>5. At(d, r).cluster >= 3
    BY <2>4, OnePlace
  <2> QED
    BY <2>3, <2>5 DEF ROOT_CLUSTER_NUMBER
<1>6. p[1] \notin B
  <2> DEFINE C == BelowOn(d, SubfoldersOn(d, {f}))
  <2>1. SUFFICES ASSUME p[1] \in B PROVE FALSE
    OBVIOUS
  <2>2. SubfoldersOn(d, {f}) \in SUBSET Clusters
    BY DEF SubfoldersOn
  <2>3. SubfoldersOn(d, {f}) \subseteq C /\ SubfoldersOn(d, C) \subseteq C
    BY <2>2, BelowIsLeast
  <2>4. p[1] = f \/ p[1] \in C
    BY <1>1, <2>1, BelowOne DEF B
  <2>5. f \notin C
    BY <1>1, NoCycle
  <2> HIDE DEF C
  <2>6. p[1] # f
    BY <1>2, <2>3, <2>5
  <2>7. f \in SubfoldersOn(d, C)
    <3>1. {p[1]} \subseteq C
      BY <2>4, <2>6
    <3> QED
      BY <1>2, <3>1, SubfoldersGrow
  <2> QED
    BY <2>3, <2>5, <2>7
<1>7. ASSUME NEW q \in PlacesIn(d, Live(d) \ B), q # p, At(d, q).folder
      PROVE  At(d, q).cluster \in Live(d) \ B
  <2>1. q \in PlacesIn(d, Live(d)) /\ q[1] \notin B
    BY DEF PlacesIn
  <2>2. At(d, q).cluster \in Clusters
    BY <2>1, OnePlace
  <2>3. At(d, q).cluster \in Live(d)
    BY <1>7, <2>1, <2>2, LiveIsLeast, PlaceLeads
  <2>4. At(d, q).cluster \notin B
    BY <1>4, <1>7, <2>1
  <2> QED
    BY <2>3, <2>4
<1> QED
  BY <1>3, <1>5, <1>6, <1>7 DEF B, f

\* On a sound disk only entries about f lead from the live folders to f.
LEMMA ApartLive ==
  ASSUME NEW d, NEW map, Sound(d, map, Live(d)), NEW f \in Clusters
  PROVE  Apart(d, map, Live(d), f)
<1>1. \A p \in Outside(d, Live(d), f) : p \in PlacesIn(d, Live(d))
  BY DEF Outside
<1>2. \A p \in Outside(d, Live(d), f) : IF At(d, p).folder THEN At(d, p).cluster \in Live(d)
                                        ELSE Owned(map, At(d, p))
  <2> TAKE p \in Outside(d, Live(d), f)
  <2>1. p \in PlacesIn(d, Live(d))
    BY <1>1
  <2>2. At(d, p).cluster \in Clusters
    BY <2>1, OnePlace
  <2>3. At(d, p).folder => At(d, p).cluster \in Live(d)
    BY <2>1, <2>2, PlaceLeads DEF Sound
  <2>4. Owned(map, At(d, p))
    BY <2>1 DEF Sound, OwnChains
  <2> QED
    BY <2>3, <2>4
<1> QED
  BY <1>2 DEF Apart, Sound

\* And without what is below a folder only its own entry leads to it.
LEMMA ApartBelow ==
  ASSUME NEW d, NEW map, Sound(d, map, Live(d)), NEW p \in PlacesIn(d, Live(d)), At(d, p).folder
  PROVE  Apart(d, map, Live(d) \ BelowOn(d, {At(d, p).cluster}), At(d, p).cluster)
<1> DEFINE f == At(d, p).cluster
           B == BelowOn(d, {f})
           K == Live(d) \ B
<1>1. /\ ROOT_CLUSTER_NUMBER \notin B
      /\ \A q \in PlacesIn(d, K) : q # p /\ At(d, q).folder => At(d, q).cluster \in K
  BY BelowPlace
<1>2. f \in Clusters
  BY OnePlace
<1> HIDE DEF f, B
<1>3. K \in SUBSET Clusters /\ ROOT_CLUSTER_NUMBER \in K
  BY <1>1 DEF Sound
<1>4. \A q \in Outside(d, K, f) : IF At(d, q).folder THEN At(d, q).cluster \in K
                                  ELSE Owned(map, At(d, q))
  <2> TAKE q \in Outside(d, K, f)
  <2>1. q \in PlacesIn(d, K) /\ q \in PlacesIn(d, Live(d)) /\ q # p
    BY DEF Outside, PlacesIn, f
  <2>2. Owned(map, At(d, q))
    BY <2>1 DEF Sound, OwnChains
  <2> QED
    BY <1>1, <2>1, <2>2
<1> QED
  BY <1>2, <1>3, <1>4 DEF Apart, f, B

\* The clusters of the files outside are no folders, not empty, and not those of an entry that is
\* not outside.
LEMMA DataApart ==
  ASSUME NEW d, NEW map, Sound(d, map, Live(d)), NEW K \in SUBSET Live(d), NEW f,
         NEW c \in Data(d, map, K, f)
  PROVE  /\ c \in Clusters /\ c >= 3 /\ c # FAT_CLUSTER_NUMBER
         /\ c \notin Live(d) /\ c \notin EmptyClusters(map)
         /\ \A q \in PlacesIn(d, Live(d)) :
              q \notin Outside(d, K, f) => c \notin ClustersOf(map, At(d, q))
<1>1. PICK p \in Outside(d, K, f) : ~At(d, p).folder /\ c \in ClustersOf(map, At(d, p))
  BY DEF Data
<1>2. p \in PlacesIn(d, Live(d))
  BY DEF Outside, PlacesIn
<1>3. Owned(map, At(d, p))
  BY <1>2 DEF Sound, OwnChains
<1>4. c \in Clusters /\ c >= 3 /\ c \notin EmptyClusters(map)
  BY <1>1, <1>3, OwnedClusters
<1>5. c \notin Live(d)
  BY <1>1, <1>2, OnePlace
<1>6. c # FAT_CLUSTER_NUMBER
  BY <1>4 DEF FAT_CLUSTER_NUMBER
<1>7. ASSUME NEW q \in PlacesIn(d, Live(d)), q \notin Outside(d, K, f)
      PROVE  c \notin ClustersOf(map, At(d, q))
  <2>1. p # q
    BY <1>7
  <2>2. ClustersOf(map, At(d, p)) \cap ClustersOf(map, At(d, q)) = {}
    BY <1>2, <2>1 DEF Sound, OwnChains
  <2> QED
    BY <1>1, <2>2
<1> QED
  BY <1>4, <1>5, <1>6, <1>7

\* All the writes of q leave what is outside alone.
AllSpare(q, d, map, K, f) == \A k \in DOMAIN q : Spares(q[k], d, map, K, f)

\* So do all with one more that does.
LEMMA ThenSpares ==
  ASSUME NEW d, NEW map, NEW K, NEW f, NEW q \in Seq(Writes), AllSpare(q, d, map, K, f),
         NEW cluster, NEW content \in Stored,
         cluster \in Clusters => Spares([at |-> cluster, content |-> content], d, map, K, f)
  PROVE  AllSpare(Then(q, cluster, content), d, map, K, f)
<1>1. CASE cluster \notin Clusters
  BY <1>1 DEF Then, Put
<1>2. CASE cluster \in Clusters
  <2> DEFINE w == [at |-> cluster, content |-> content]
             r == q \o <<w>>
  <2>1. Then(q, cluster, content) = r /\ w \in Writes /\ Spares(w, d, map, K, f)
    BY <1>2 DEF Put, Writes, Then
  <2> HIDE DEF w
  <2>2. \A k \in DOMAIN r : r[k] = w \/ (k \in DOMAIN q /\ r[k] = q[k])
    BY <2>1
  <2> HIDE DEF r
  <2> QED
    BY <2>1, <2>2 DEF AllSpare
<1> QED
  BY <1>1, <1>2

\* No writes do.
LEMMA NoneSpare ==
  ASSUME NEW d, NEW map, NEW K, NEW f
  PROVE  AllSpare(<<>>, d, map, K, f)
BY DEF AllSpare

\* A table with the same about the others, a FAT with the same words for their data, and any
\* write to another cluster leave what is outside alone.
LEMMA TableSpares ==
  ASSUME NEW d, NEW map, Sound(d, map, Live(d)), NEW K \in SUBSET Live(d), NEW f,
         NEW c \in Live(d), NEW t, Around(t, f) = Around(EntriesOn(d, c), f)
  PROVE  Spares([at |-> c, content |-> Table(t)], d, map, K, f)
<1>1. c # FAT_CLUSTER_NUMBER
  BY LiveMarked
<1>2. c \notin Data(d, map, K, f)
  BY DataApart
<1> QED
  BY <1>1, <1>2 DEF Spares

\* A FAT.
LEMMA FatSpares ==
  ASSUME NEW d, NEW map, Sound(d, map, Live(d)), NEW K \in SUBSET Live(d), NEW f,
         NEW new, \A c \in Data(d, map, K, f) : new[c] = map[c]
  PROVE  Spares([at |-> FAT_CLUSTER_NUMBER, content |-> Fat(new)], d, map, K, f)
<1>1. FAT_CLUSTER_NUMBER \notin K
  BY LiveMarked
<1>2. FAT_CLUSTER_NUMBER \notin Data(d, map, K, f)
  BY DataApart
<1> QED
  BY <1>1, <1>2 DEF Spares

\* What the writes of an operation do for what it is not about.
Sparing(K, f) ==
  /\ Apart(disk, fat, K, f) /\ K \in SUBSET Live(disk)
  /\ queue' \in Seq(Writes) /\ AllSpare(queue', disk, fat, K, f)
  /\ disk[FAT_CLUSTER_NUMBER] = Fat(fat) => ImageOf(disk, queue')[FAT_CLUSTER_NUMBER] = Fat(fat')
  /\ disk' = disk /\ busy' = f

\* Then a machine that stops between them loses nothing of that.
LEMMA SparingConfined ==
  ASSUME DriverKept, TreeKept, CrashKept, Ready, NEW K, NEW f, Sparing(K, f)
  PROVE  CrashKept'
<1>1. disk \in [Clusters -> Stored] /\ Image = disk
  BY SoundAtRest
<1>2. disk[FAT_CLUSTER_NUMBER] = Fat(fat)
  BY <1>1 DEF CrashKept, Ready
<1>3. FatIn(disk) = fat
  BY <1>2 DEF FatIn, Fat
<1>4. Image' = ImageOf(disk, queue')
  BY DEF Sparing, Image, ImageOf, WritesTo
<1> QED
  BY <1>1, <1>2, <1>3, <1>4, OperationConfined DEF Sparing, AllSpare

-----------------------------------------------------------------------------
(* What the operations of careful clients do *)

\* The name of x is one that users give, and no entry of the folder c has it.
NewIn(c, x) ==
  /\ x.name \in Names /\ x.ext \in Exts
  /\ \A i \in Items : EntriesOn(disk, c)[i].used => ~Is(EntriesOn(disk, c)[i], x)

\* The clusters of a chain hold the parts of a content.
Holds(d, chain, content) == \A k \in DOMAIN chain : d[chain[k]] = Bytes(content, k)

\* Once the pending writes are done x is a folder with its name, or a file that has what was
\* written.
Made(x) ==
  /\ x.folder => /\ x.size = 0
                 /\ EntriesOn(ImageOf(disk, queue'), x.cluster)[0].name = x.name
                 /\ EntriesOn(ImageOf(disk, queue'), x.cluster)[1].name = ".."
  /\ ~x.folder => /\ x.size \in Sizes \ {0}
                  /\ \E content \in Contents :
                       Holds(ImageOf(disk, queue'), Chain(fat', x.cluster), content)

\* An operation that adds the entry x to the folder c.
Adding(c, x) ==
  /\ c \in Live(disk) /\ Cardinality(Holes(EntriesOn(disk, c))) > 1 /\ x \in EntryType /\ x.used
  /\ NewIn(c, x) /\ Made(x)
  /\ Links(disk, fat, ImageOf(disk, queue'), fat', c, x)
  /\ Sparing(Live(disk), x.cluster) /\ power' # "off"

\* The other entries of its table are there before and after.
LEMMA AddedAround ==
  ASSUME NEW t \in Tables, Tidy(t), Cardinality(Holes(t)) > 1, NEW e \in EntryType, e.used
  PROVE  Around(AddEntry(t, e), e.cluster) = Around(t, e.cluster)
<1> DEFINE hole == FirstHole(t)
           a    == AddEntry(t, e)
<1>1. /\ hole \in Items /\ ~t[hole].used /\ a[hole] = e
      /\ \A j \in Items : j # hole => a[j] = t[j]
  BY AddedIs
<1> HIDE DEF hole, a
<1>2. ASSUME NEW b \in Around(a, e.cluster) PROVE b \in Around(t, e.cluster)
  BY <1>1 DEF Around
<1>3. ASSUME NEW b \in Around(t, e.cluster) PROVE b \in Around(a, e.cluster)
  BY <1>1 DEF Around
<1> QED
  BY <1>2, <1>3 DEF a

\* In a tidy table no entry in use comes after the first hole.
LEMMA NoneVisible ==
  ASSUME NEW t, Tidy(t), NEW rq, Visible(t, rq) = {}, NEW i \in Items, t[i].used
  PROVE  ~Is(t[i], rq)
<1>1. i < FirstHole(t)
  <2>1. FirstHole(t) \in Nat /\ i \in Nat
    BY FirstHoleIs, IndexRange
  <2> QED
    BY <2>1 DEF Tidy
<1> QED
  BY <1>1 DEF Visible, Matches

\* A new folder.
LEMMA WriteFolderAdds ==
  ASSUME DriverKept, TreeKept, Ready, NEW rq, IsWriteRequest(rq), rq.parent \in Live(disk),
         Roomy(rq.parent), Visible(Entries(rq.parent), rq) = {},
         NEW start, start \in EmptyClusters(fat),
         WriteFolder(rq, start, fat), busy' = start, UNCHANGED <<disk, power>>
  PROVE  \E x : Adding(rq.parent, x) /\ x.ext = rq.ext /\ x.folder
<1> DEFINE L      == Live(disk)
           c      == rq.parent
           marked == [fat EXCEPT ![start] = FAT32_FAT_END_OF_FILE]
           other  == get_empty_cluster(marked)
           half   == [NoEntries EXCEPT ![0] = FolderEntry(rq.name, other)]
           table  == [half EXCEPT ![1] = FolderEntry("..", c)]
           x      == [FolderEntry(rq.name, start) EXCEPT !.ext = rq.ext]
           added  == AddEntry(Entries(c), x)
           q1     == Put(other, Table(half))
           q2     == Then(q1, start, Table(table))
           q3     == Then(q2, c, Table(added))
           q4     == Then(q3, FAT_CLUSTER_NUMBER, Fat(marked))
           e      == ImageOf(disk, q4)
<1>1. /\ disk \in [Clusters -> Stored] /\ fat \in FatMaps /\ Sound(disk, fat, L)
      /\ power = "on"
  BY SoundAtRest DEF Ready
<1>2. fat' = marked /\ queue' = q4
  BY DEF WriteFolder, init_directory_table, Then
<1>3. start \in Clusters /\ start >= 3 /\ start # FAT_CLUSTER_NUMBER /\ start \notin L /\ c \in L
  <2>1. start \in Clusters /\ start >= 3
    BY DEF EmptyClusters
  <2> QED
    BY <1>1, <2>1, LiveMarked DEF FAT_CLUSTER_NUMBER
<1>4. c \in Clusters /\ c # FAT_CLUSTER_NUMBER /\ c # start
  BY <1>1, <1>3, LiveMarked
<1>5. marked \in FatMaps /\ marked[start] = FAT32_FAT_END_OF_FILE
      /\ \A b \in Clusters : b # start => marked[b] = fat[b]
  BY <1>1, <1>3, FatsKept, FatWordValues DEF FatMaps
<1> HIDE DEF marked
<1>6. other \in Clusters \cup {NoCluster} /\ (other \in Clusters =>
        other # start /\ other \notin L /\ other \in EmptyClusters(fat))
  <2>1. CASE other \in EmptyClusters(marked)
    <3>1. other \in Clusters /\ other >= 3 /\ marked[other] = FAT32_FAT_EMPTY_ENTRY
      BY <2>1 DEF EmptyClusters
    <3>2. other # start
      BY <1>5, <3>1, ClusterRange DEF FAT32_FAT_EMPTY_ENTRY
    <3>3. other \in EmptyClusters(fat)
      BY <1>5, <3>1, <3>2 DEF EmptyClusters
    <3> QED
      BY <1>1, <3>1, <3>2, <3>3, LiveMarked
  <2>2. CASE other = NoCluster
    BY <2>2, ClusterRange
  <2> QED
    BY <2>1, <2>2, EmptyFound
<1> HIDE DEF other
<1>7. half \in Tables /\ table \in Tables /\ added \in Tables /\ x \in EntryType
      /\ x.used /\ x.folder /\ x.cluster = start /\ x.name = rq.name /\ x.ext = rq.ext
      /\ x.size = 0 /\ NewIn(c, x)
  <2>1. /\ FolderEntry(rq.name, other) \in EntryType /\ FolderEntry("..", c) \in EntryType
        /\ FolderEntry(rq.name, start) \in EntryType
    BY <1>3, <1>4, <1>6, EntryValues DEF IsWriteRequest, IsNameRequest
  <2>2. half \in Tables
    BY <2>1, EntryValues, TablesKept
  <2> HIDE DEF half
  <2>3. table \in Tables
    BY <2>1, <2>2, TablesKept
  <2>4. x \in EntryType
    BY <2>1 DEF EntryType, IsWriteRequest, IsNameRequest
  <2>5. x.used /\ x.folder /\ x.cluster = start /\ x.name = rq.name /\ x.ext = rq.ext /\ x.size = 0
    BY DEF FolderEntry
  <2> HIDE DEF x
  <2>8. NewIn(c, x)
    <3>1. Tidy(EntriesOn(disk, c)) /\ Visible(EntriesOn(disk, c), rq) = {}
      BY <1>1, <1>3 DEF Sound, Entries
    <3>2. \A i \in Items : EntriesOn(disk, c)[i].used => ~Is(EntriesOn(disk, c)[i], rq)
      BY <3>1, NoneVisible
    <3> QED
      BY <2>5, <3>2 DEF NewIn, Is, IsWriteRequest, IsNameRequest
  <2>6. added \in Tables
    BY <1>1, <2>4, EntriesTyped, TablesKept DEF Entries
  <2> QED
    BY <2>2, <2>3, <2>4, <2>5, <2>6, <2>8
<1>8. /\ \A i \in Items : ~table[i].used
      /\ table[0].used /\ table[1].cluster = c /\ Tidy(table)
      /\ table[0].name = rq.name /\ table[1].name = ".."
  <2>1. table[0] = FolderEntry(rq.name, other) /\ table[1] = FolderEntry("..", c)
        /\ \A i \in Items : table[i] = NoEntry
    BY IndexRange DEF NoEntries
  <2>2. table[0].used /\ table[1].cluster = c /\ table[0].name = rq.name /\ table[1].name = ".."
    BY <2>1 DEF FolderEntry
  <2> HIDE DEF table
  <2> QED
    BY <2>1, <2>2, OnlyHoles
<1> HIDE DEF half, table, added, x
<1>9. q1 \in Seq(Writes)
  BY <1>7, TableWrite
<1>10. /\ Table(table) \in Stored /\ Table(added) \in Stored /\ Fat(marked) \in Stored
       /\ Table(half) \in Stored
  BY <1>5, <1>7, StoredValues
<1>11. \A b \in Clusters : b # other => ImageOf(disk, q1)[b] = disk[b]
  <2>1. \A b \in Clusters : b # other => \A k \in DOMAIN q1 : q1[k].at # b
    BY DEF Put
  <2> QED
    BY <2>1, Unwritten
<1> HIDE DEF q1, c
<1>12. \A b \in Clusters :
         e[b] = IF b = FAT_CLUSTER_NUMBER THEN Fat(marked)
                ELSE IF b = c THEN Table(added)
                ELSE IF b = start THEN Table(table) ELSE ImageOf(disk, q1)[b]
  <2> TAKE b \in Clusters
  <2>1. q2 \in Seq(Writes)
    BY <1>9, <1>10, ThenTyped
  <2>2. /\ b = start => ImageOf(disk, q2)[b] = Table(table)
        /\ b # start => ImageOf(disk, q2)[b] = ImageOf(disk, q1)[b]
    BY <1>9, <1>10, WrittenLast
  <2> HIDE DEF q2
  <2>3. q3 \in Seq(Writes)
    BY <1>10, <2>1, ThenTyped
  <2>4. /\ b = c => ImageOf(disk, q3)[b] = Table(added)
        /\ b # c => ImageOf(disk, q3)[b] = ImageOf(disk, q2)[b]
    BY <1>10, <2>1, WrittenLast
  <2> HIDE DEF q3
  <2>5. /\ b = FAT_CLUSTER_NUMBER => e[b] = Fat(marked)
        /\ b # FAT_CLUSTER_NUMBER => e[b] = ImageOf(disk, q3)[b]
    BY <1>10, <2>3, WrittenLast
  <2> QED
    BY <2>2, <2>4, <2>5
<1> HIDE DEF e, q2, q3, q4
<1>13. \A b \in L : EntriesOn(e, b) = IF b = c THEN added ELSE EntriesOn(disk, b)
  <2> TAKE b \in L
  <2>1. b \in Clusters /\ b # FAT_CLUSTER_NUMBER /\ b # start /\ b # other
    BY <1>1, <1>3, <1>6, LiveMarked
  <2> QED
    BY <1>11, <1>12, <2>1, EntriesAre
<1>14. EntriesOn(e, start) = table
  BY <1>3, <1>4, <1>12, EntriesAre DEF c
<1>15. Owned(marked, x) /\ ClustersOf(marked, x) = {start}
  <2> DEFINE s == <<start>>
  <2>1. Linked(marked, s)
    BY <1>3, <1>5 DEF Linked
  <2>2. Chain(marked, s[1]) = s
    <3> HIDE DEF s
    <3> QED
      BY <2>1, ChainOf
  <2>3. Chain(marked, start) = s /\ Len(s) = 1 /\ s[1] = start /\ DOMAIN s = {1}
    BY <2>2
  <2>4. ClustersFor(x) = 1
    BY <1>7 DEF ClustersFor
  <2> HIDE DEF s
  <2> QED
    BY <1>7, <2>1, <2>3, <2>4 DEF Owned, ClustersOf
<1>16. Links(disk, fat, e, marked, c, x)
  BY <1>5, <1>7, <1>8, <1>13, <1>14, <1>15 DEF Links, added, Entries, c
<1>17. Cardinality(Holes(EntriesOn(disk, c))) > 1
  BY DEF Roomy, Entries, c
<1> HIDE DEF L
<1>18. c \in L /\ c \in Live(disk) /\ Sound(disk, fat, Live(disk)) /\ Live(disk) \in SUBSET Live(disk)
  BY <1>1, <1>3 DEF c, L
<1>19. \A b \in Data(disk, fat, L, start) :
         b \in Clusters /\ b \notin L /\ b # FAT_CLUSTER_NUMBER /\ b \notin EmptyClusters(fat)
  BY <1>18, DataApart DEF L
<1>20. AllSpare(q4, disk, fat, L, start)
  <2>1. AllSpare(q1, disk, fat, L, start)
    <3>1. other \in Clusters => Spares([at |-> other, content |-> Table(half)], disk, fat, L, start)
      <4> SUFFICES ASSUME other \in Clusters
                   PROVE  Spares([at |-> other, content |-> Table(half)], disk, fat, L, start)
        OBVIOUS
      <4>1. other \notin L /\ other \in EmptyClusters(fat)
        BY <1>6
      <4>2. other # FAT_CLUSTER_NUMBER /\ other \notin Data(disk, fat, L, start)
        BY <1>19, <4>1 DEF EmptyClusters, FAT_CLUSTER_NUMBER
      <4> QED
        BY <4>1, <4>2 DEF Spares
    <3>2. Then(<<>>, other, Table(half)) = q1
      <4>1. Put(other, Table(half)) \in Seq(Writes)
        BY <1>10, PutTyped
      <4> QED
        BY <4>1 DEF Then, q1
    <3>3. AllSpare(<<>>, disk, fat, L, start) /\ <<>> \in Seq(Writes)
      BY NoneSpare
    <3> QED
      BY <1>10, <3>1, <3>2, <3>3, ThenSpares
  <2>2. q2 \in Seq(Writes) /\ AllSpare(q2, disk, fat, L, start)
    <3>1. start \notin Data(disk, fat, L, start)
      BY <1>19
    <3>2. Spares([at |-> start, content |-> Table(table)], disk, fat, L, start)
      BY <1>3, <3>1 DEF Spares
    <3> QED
      BY <1>9, <1>10, <2>1, <3>2, ThenTyped, ThenSpares DEF q2
  <2>3. q3 \in Seq(Writes) /\ AllSpare(q3, disk, fat, L, start)
    <3>1. Around(added, start) = Around(EntriesOn(disk, c), start)
      <4>1. EntriesOn(disk, c) \in Tables /\ Tidy(EntriesOn(disk, c))
        BY <1>1, <1>18, EntriesTyped DEF Sound
      <4> QED
        BY <1>7, <1>17, <4>1, AddedAround DEF added, Entries
    <3>2. Spares([at |-> c, content |-> Table(added)], disk, fat, L, start)
      BY <1>18, <3>1, TableSpares DEF L
    <3> QED
      BY <1>10, <2>2, <3>2, ThenTyped, ThenSpares DEF q3
  <2>4. Spares([at |-> FAT_CLUSTER_NUMBER, content |-> Fat(marked)], disk, fat, L, start)
    <3>1. \A b \in Data(disk, fat, L, start) : marked[b] = fat[b]
      BY <1>5, <1>19
    <3> QED
      BY <1>18, <3>1, FatSpares DEF L
  <2> QED
    BY <1>10, <2>3, <2>4, ThenSpares DEF q4
<1>21. q4 \in Seq(Writes)
  <2>1. q2 \in Seq(Writes)
    BY <1>9, <1>10, ThenTyped DEF q2
  <2>2. q3 \in Seq(Writes)
    BY <1>10, <2>1, ThenTyped DEF q3
  <2> QED
    BY <1>10, <2>2, ThenTyped DEF q4
<1>22. e[FAT_CLUSTER_NUMBER] = Fat(marked)
  BY <1>12, ClusterRange DEF FAT_CLUSTER_NUMBER
<1>23. Apart(disk, fat, L, start)
  BY <1>3, <1>18, ApartLive DEF L
<1>24. Sparing(L, start)
  BY <1>2, <1>18, <1>20, <1>21, <1>22, <1>23 DEF Sparing, e, L
<1>25. Made(x)
  BY <1>2, <1>7, <1>8, <1>14 DEF Made, e
<1> QED
  BY <1>1, <1>2, <1>7, <1>25, <1>16, <1>17, <1>18, <1>24 DEF Adding, e, c, L

\* The clusters of a new chain are linked, to the end, and no other word changes.
LEMMA ChainLinked ==
  ASSUME NEW map, NEW s \in Seq(Clusters), s # <<>>, \A k \in DOMAIN s : s[k] >= 3,
         \A k, l \in DOMAIN s : s[k] = s[l] => k = l
  PROVE  /\ Linked(LinkChain(map, s, Len(s)), s)
         /\ \A c \in Clusters : (\A k \in DOMAIN s : s[k] # c) => LinkChain(map, s, Len(s))[c] = map[c]
<1> DEFINE n == Len(s)
           new == LinkChain(map, s, n)
<1>1. n \in Nat /\ n > 0 /\ DOMAIN s = 1 .. n /\ \A k \in DOMAIN s : s[k] \in Clusters
  OBVIOUS
<1>2. ASSUME NEW c \in Clusters, \A k \in DOMAIN s : s[k] # c PROVE new[c] = map[c]
  BY <1>2 DEF LinkChain
<1>3. ASSUME NEW k \in DOMAIN s
      PROVE  new[s[k]] = IF k < n THEN s[k + 1] ELSE FAT32_FAT_END_OF_FILE
  <2> DEFINE l == CHOOSE l \in DOMAIN s : s[l] = s[k]
  <2>1. l \in DOMAIN s /\ s[l] = s[k]
    OBVIOUS
  <2>2. l = k
    <3> HIDE DEF l
    <3> QED
      BY <2>1
  <2>3. new[s[k]] = IF l < n THEN s[l + 1] ELSE IF l = n THEN FAT32_FAT_END_OF_FILE ELSE NoCluster
    BY <1>1 DEF LinkChain
  <2> HIDE DEF l
  <2> QED
    BY <1>1, <2>2, <2>3
<1> HIDE DEF new, n
<1>4. \A k \in 1 .. n - 1 : new[s[k]] = s[k + 1]
  BY <1>1, <1>3
<1>5. new[s[n]] = FAT32_FAT_END_OF_FILE
  BY <1>1, <1>3
<1> QED
  BY <1>1, <1>2, <1>4, <1>5 DEF Linked, n, new

\* A file that fits asks for one cluster at least, and for no more than there are.
LEMMA NeededClusters ==
  ASSUME NEW size \in Nat, size # 0, NEW m \in Nat, size <= CLUSTER_SIZE * m
  PROVE  LET needed == (size + CLUSTER_SIZE - 1) \div CLUSTER_SIZE
         IN  needed \in Nat /\ needed > 0 /\ needed <= m
<1> DEFINE w == CLUSTER_SIZE
           n == size + w - 1
           q == n \div w
           r == n % w
<1>1. w \in Nat /\ w > 0
  BY Fat32Assumption
<1>2. n \in Nat /\ n >= w
  BY <1>1
<1>3. q \in Nat /\ r \in 0 .. w - 1 /\ n = w * q + r
  <2>1. w \in Nat \ {0} /\ n \in Nat
    BY <1>1, <1>2
  <2> HIDE DEF w, n
  <2> QED
    BY <2>1, DivMod, Zenon
<1>4. size = n - w + 1 /\ size <= w * m
  BY <1>1
<1> HIDE DEF w, n, q, r
<1>5. q > 0
  <2>1. SUFFICES ASSUME q = 0 PROVE FALSE
    BY <1>3
  <2>2. w * 0 = 0
    BY <1>1
  <2>3. n = r
    BY <1>3, <2>1, <2>2
  <2> QED
    BY <1>1, <1>2, <1>3, <2>3
<1>6. q <= m
  <2>1. SUFFICES ASSUME q > m PROVE FALSE
    BY <1>3
  <2> DEFINE k == q - m - 1
  <2>2. k \in Nat /\ q = m + 1 + k
    BY <1>3, <2>1
  <2> HIDE DEF k
  <2>3. w * q = w * m + w + w * k
    BY <1>1, <2>2
  <2>4. w * k \in Nat /\ w * m \in Nat /\ w * q \in Nat
    BY <1>1, <1>3, <2>2
  <2>5. n >= w * m + w
    <3> DEFINE a == w * k
               b == w * m
               e == w * q
    <3>1. a \in Nat /\ b \in Nat /\ e = b + w + a /\ n = e + r
      BY <1>3, <2>3, <2>4
    <3> HIDE DEF a, e
    <3> QED
      BY <1>1, <1>3, <2>4, <3>1
  <2> DEFINE b == w * m
  <2>6. b \in Nat /\ n >= b + w /\ size <= b
    BY <1>4, <2>4, <2>5
  <2> HIDE DEF b
  <2> QED
    BY <1>1, <1>2, <1>4, <2>6
<1> QED
  BY <1>3, <1>5, <1>6 DEF q, n, w

\* A new file.
LEMMA WriteFileAdds ==
  ASSUME DriverKept, TreeKept, Ready, NEW rq, IsWriteRequest(rq), rq.parent \in Live(disk),
         Roomy(rq.parent), Visible(Entries(rq.parent), rq) = {},
         rq.size \in Sizes, rq.size # 0, rq.size <= CLUSTER_SIZE * Cardinality(EmptyClusters(fat)),
         NEW start, start \in EmptyClusters(fat),
         WriteFile(rq, start, fat), busy' = start, UNCHANGED <<disk, power>>
  PROVE  \E x : Adding(rq.parent, x) /\ x.ext = rq.ext /\ ~x.folder
<1> DEFINE L      == Live(disk)
           c      == rq.parent
           needed == (rq.size + CLUSTER_SIZE - 1) \div CLUSTER_SIZE
           chain  == NewChain(fat, start, needed)
           linked == LinkChain(fat, chain, needed)
           x      == [name |-> rq.name, ext |-> rq.ext, folder |-> FALSE, used |-> TRUE,
                      cluster |-> start, size |-> rq.size]
           added  == AddEntry(Entries(c), x)
           q1     == [k \in DOMAIN chain |-> [at |-> chain[k], content |-> Bytes(rq.content, k)]]
           q2     == Then(q1, c, Table(added))
           q3     == Then(q2, FAT_CLUSTER_NUMBER, Fat(linked))
           e      == ImageOf(disk, q3)
<1>1. /\ disk \in [Clusters -> Stored] /\ fat \in FatMaps /\ Sound(disk, fat, L)
      /\ power = "on"
  BY SoundAtRest DEF Ready
<1>2. fat' = linked /\ queue' = q3
  BY DEF WriteFile, Then
<1>3. x \in EntryType /\ x.used /\ ~x.folder /\ x.cluster = start /\ x.size \in Sizes \ {0}
      /\ x.name = rq.name /\ x.ext = rq.ext
  <2>1. start \in Clusters
    BY DEF EmptyClusters
  <2> QED
    BY <2>1 DEF IsWriteRequest, IsNameRequest, EntryType
<1>4. needed = ClustersFor(x)
  BY DEF ClustersFor
<1> DEFINE E == EmptyClusters(fat)
<1>5. /\ E \in SUBSET Clusters /\ IsFiniteSet(E) /\ start \in E
      /\ IsFiniteSet(E \ {start}) /\ Cardinality(E) = Cardinality(E \ {start}) + 1
      /\ Cardinality(E) \in Nat /\ Cardinality(E \ {start}) \in Nat
  <2>1. E \in SUBSET Clusters /\ E \ {start} \in SUBSET Clusters
    BY EmptyFound
  <2> HIDE DEF E
  <2>2. start \in E /\ IsFiniteSet(E) /\ IsFiniteSet(E \ {start})
        /\ Cardinality(E) \in Nat /\ Cardinality(E \ {start}) \in Nat
    BY <2>1, ClustersFinite DEF E
  <2>3. Cardinality(E \ {start}) = Cardinality(E) - 1
    BY <2>2, FS_RemoveElement
  <2> QED
    BY <2>1, <2>2, <2>3
<1>6. needed \in Nat /\ needed > 0 /\ needed <= Cardinality(E)
  <2>1. rq.size \in Nat
    BY DEF IsWriteRequest
  <2> QED
    BY <1>5, <2>1, NeededClusters
<1> HIDE DEF E, needed, x
<1>7. /\ chain \in Seq(Clusters) /\ chain # <<>> /\ Len(chain) = needed /\ chain[1] = start
      /\ \A k \in DOMAIN chain : chain[k] \in E
      /\ \A k, l \in DOMAIN chain : chain[k] = chain[l] => k = l
  <2>1. start \in Clusters
    BY <1>5
  <2>2. /\ chain \in Seq(Clusters) /\ Len(chain) > 0 /\ chain[1] = start
        /\ \A k \in 2 .. Len(chain) : chain[k] \in E \ {start}
        /\ \A k, l \in 1 .. Len(chain) : chain[k] = chain[l] => k = l
    BY <1>6, <2>1, NewChainIs DEF E
  <2>3. Len(chain) = needed
    <3>1. needed <= 1 + Cardinality(EmptyClusters(fat) \ {start})
      BY <1>5, <1>6 DEF E
    <3> QED
      BY <1>6, <2>1, <3>1, NewChainIs
  <2> HIDE DEF chain
  <2>4. ASSUME NEW k \in DOMAIN chain PROVE chain[k] \in E
    <3>1. k = 1 \/ k \in 2 .. Len(chain)
      BY <2>2
    <3> QED
      BY <1>5, <2>2, <3>1
  <2> QED
    BY <2>2, <2>3, <2>4
<1> HIDE DEF chain
<1>8. \A k \in DOMAIN chain : chain[k] >= 3 /\ chain[k] \in Clusters
  BY <1>7 DEF E, EmptyClusters
<1>9. /\ Linked(linked, chain)
      /\ \A b \in Clusters : (\A k \in DOMAIN chain : chain[k] # b) => linked[b] = fat[b]
  BY <1>7, <1>8, ChainLinked
<1>10. linked \in FatMaps
  BY <1>1, <1>7, LinkTyped
<1> HIDE DEF linked
<1>11. Owned(linked, x) /\ ClustersOf(linked, x) = {chain[k] : k \in DOMAIN chain}
       /\ Chain(linked, x.cluster) = chain
  <2>1. Chain(linked, chain[1]) = chain
    BY <1>9, ChainOf
  <2>2. Chain(linked, x.cluster) = chain
    BY <1>3, <1>7, <2>1
  <2> QED
    BY <1>3, <1>4, <1>7, <1>9, <2>2 DEF Owned, ClustersOf
<1>27. NewIn(c, x)
  <2>1. c \in L /\ Tidy(EntriesOn(disk, c)) /\ Visible(EntriesOn(disk, c), rq) = {}
    BY <1>1 DEF Sound, Entries
  <2>2. \A i \in Items : EntriesOn(disk, c)[i].used => ~Is(EntriesOn(disk, c)[i], rq)
    BY <2>1, NoneVisible
  <2> QED
    BY <1>3, <2>2 DEF NewIn, Is, IsWriteRequest, IsNameRequest
<1>12. added \in Tables /\ Table(added) \in Stored /\ Fat(linked) \in Stored
  <2>1. Entries(c) \in Tables
    BY <1>1, EntriesTyped DEF Entries
  <2>2. added \in Tables
    BY <1>3, <2>1, TablesKept
  <2> QED
    BY <1>10, <2>2, StoredValues
<1> HIDE DEF added
<1>13. q1 \in Seq(Writes) /\ DOMAIN q1 = DOMAIN chain /\ \A k \in DOMAIN q1 : q1[k].at = chain[k]
  <2>1. ASSUME NEW k \in 1 .. Len(chain)
        PROVE  [at |-> chain[k], content |-> Bytes(rq.content, k)] \in Writes
    <3>1. chain[k] \in Clusters /\ k \in Nat
      BY <1>7
    <3>2. Bytes(rq.content, k) \in Stored
      BY <3>1, StoredValues DEF IsWriteRequest
    <3> QED
      BY <3>1, <3>2 DEF Writes
  <2>2. q1 = [k \in 1 .. Len(chain) |-> [at |-> chain[k], content |-> Bytes(rq.content, k)]]
        /\ Len(chain) \in Nat /\ DOMAIN chain = 1 .. Len(chain)
    BY <1>7
  <2> HIDE DEF q1
  <2> QED
    BY <2>1, <2>2
<1>14. c \in L /\ \A b \in L : b \in Clusters /\ b # FAT_CLUSTER_NUMBER /\ b \notin E
  BY <1>1, LiveMarked DEF E
<1>15. \A b \in L : ImageOf(disk, q1)[b] = disk[b]
  <2> TAKE b \in L
  <2>1. b \in Clusters /\ \A k \in DOMAIN q1 : q1[k].at # b
    BY <1>7, <1>13, <1>14
  <2> HIDE DEF q1
  <2> QED
    BY <2>1, Unwritten
<1>28. \A k \in DOMAIN chain : ImageOf(disk, q1)[chain[k]] = Bytes(rq.content, k)
  <2> TAKE k \in DOMAIN chain
  <2>1. /\ k \in DOMAIN q1 /\ q1[k].at = chain[k] /\ q1[k].content = Bytes(rq.content, k)
        /\ \A l \in DOMAIN q1 : q1[l].at = chain[k] => l = k
    BY <1>7, <1>13
  <2>2. chain[k] \in Clusters /\ \A l \in DOMAIN q1 : l > k => q1[l].at # chain[k]
    <3>1. k \in Nat
      BY <1>7
    <3> HIDE DEF q1
    <3> QED
      BY <1>8, <2>1, <3>1
  <2> DEFINE b == chain[k]
  <2> HIDE DEF q1, b
  <2>3. b \in Clusters /\ k \in DOMAIN q1 /\ q1[k].at = b /\ \A l \in DOMAIN q1 : l > k => q1[l].at # b
    BY <2>1, <2>2 DEF b
  <2>4. ImageOf(disk, q1)[b] = q1[k].content
    BY <1>13, <2>3, ImageAt
  <2> QED
    BY <2>1, <2>4 DEF b
<1> HIDE DEF q1, c
<1>16. \A b \in L : (b = c => e[b] = Table(added)) /\ (b # c => e[b] = disk[b])
  <2> TAKE b \in L
  <2>0. b \in Clusters /\ b # FAT_CLUSTER_NUMBER
    BY <1>14
  <2>1. q2 \in Seq(Writes)
    BY <1>12, <1>13, ThenTyped
  <2>2. /\ b = c => ImageOf(disk, q2)[b] = Table(added)
        /\ b # c => ImageOf(disk, q2)[b] = ImageOf(disk, q1)[b]
    BY <1>12, <1>13, <2>0, WrittenLast
  <2> HIDE DEF q2
  <2>3. e[b] = ImageOf(disk, q2)[b]
    BY <1>12, <2>0, <2>1, WrittenLast
  <2> QED
    BY <1>15, <2>2, <2>3
<1>29. \A k \in DOMAIN chain : e[chain[k]] = Bytes(rq.content, k)
  <2> TAKE k \in DOMAIN chain
  <2> DEFINE b == chain[k]
  <2>0. b \in Clusters /\ b # FAT_CLUSTER_NUMBER /\ b # c
    <3>1. b \in E /\ b >= 3 /\ b \in Clusters
      BY <1>7, <1>8
    <3>2. c \in L /\ c \notin E
      BY <1>14
    <3> QED
      BY <3>1, <3>2 DEF FAT_CLUSTER_NUMBER
  <2>5. ImageOf(disk, q1)[b] = Bytes(rq.content, k)
    BY <1>28
  <2> HIDE DEF b
  <2>1. q2 \in Seq(Writes)
    BY <1>12, <1>13, ThenTyped
  <2>2. ImageOf(disk, q2)[b] = ImageOf(disk, q1)[b]
    BY <1>12, <1>13, <2>0, WrittenLast
  <2> HIDE DEF q2
  <2>3. e[b] = ImageOf(disk, q2)[b]
    BY <1>12, <2>0, <2>1, WrittenLast
  <2>4. e[b] = Bytes(rq.content, k)
    BY <2>2, <2>3, <2>5
  <2> QED
    BY <2>4 DEF b
<1> HIDE DEF e
<1>17. \A b \in L : EntriesOn(e, b) = IF b = c THEN added ELSE EntriesOn(disk, b)
  BY <1>14, <1>16, EntriesAre
<1>18. Links(disk, fat, e, linked, c, x)
  BY <1>3, <1>7, <1>9, <1>11, <1>17 DEF Links, added, Entries, E
<1>19. Cardinality(Holes(EntriesOn(disk, c))) > 1
  BY DEF Roomy, Entries, c
<1> HIDE DEF L
<1>20. c \in L /\ c \in Live(disk) /\ Sound(disk, fat, Live(disk)) /\ Live(disk) \in SUBSET Live(disk)
  BY <1>1, <1>14 DEF c, L
<1>21. \A b \in Data(disk, fat, L, start) : b \in Clusters /\ b \notin E
  BY <1>20, DataApart DEF L, E
<1>22. q2 \in Seq(Writes) /\ q3 \in Seq(Writes)
  <2>1. q2 \in Seq(Writes)
    BY <1>12, <1>13, ThenTyped DEF q2
  <2> QED
    BY <1>12, <2>1, ThenTyped DEF q3
<1>23. AllSpare(q3, disk, fat, L, start)
  <2>1. AllSpare(q1, disk, fat, L, start)
    <3>1. ASSUME NEW k \in DOMAIN q1 PROVE Spares(q1[k], disk, fat, L, start)
      <4>1. q1[k].at \in E
        BY <1>7, <1>13
      <4>2. q1[k].at \notin L /\ q1[k].at \notin Data(disk, fat, L, start)
        BY <1>14, <1>21, <4>1
      <4>3. q1[k].at # FAT_CLUSTER_NUMBER
        BY <4>1 DEF E, EmptyClusters, FAT_CLUSTER_NUMBER
      <4> QED
        BY <4>2, <4>3 DEF Spares
    <3> QED
      BY <3>1 DEF AllSpare
  <2>2. AllSpare(q2, disk, fat, L, start)
    <3>1. Around(added, start) = Around(EntriesOn(disk, c), start)
      <4>1. EntriesOn(disk, c) \in Tables /\ Tidy(EntriesOn(disk, c))
        BY <1>1, <1>20, EntriesTyped DEF Sound
      <4> QED
        BY <1>3, <1>19, <4>1, AddedAround DEF added, Entries
    <3>2. Spares([at |-> c, content |-> Table(added)], disk, fat, L, start)
      BY <1>20, <3>1, TableSpares DEF L
    <3> QED
      BY <1>12, <1>13, <2>1, <3>2, ThenSpares DEF q2
  <2>3. Spares([at |-> FAT_CLUSTER_NUMBER, content |-> Fat(linked)], disk, fat, L, start)
    <3>1. \A b \in Data(disk, fat, L, start) : linked[b] = fat[b]
      BY <1>7, <1>9, <1>21
    <3> QED
      BY <1>20, <3>1, FatSpares DEF L
  <2> QED
    BY <1>12, <1>22, <2>2, <2>3, ThenSpares DEF q3
<1>24. e[FAT_CLUSTER_NUMBER] = Fat(linked)
  <2>1. FAT_CLUSTER_NUMBER \in Clusters
    BY ClusterRange DEF FAT_CLUSTER_NUMBER
  <2> QED
    BY <1>12, <1>22, <2>1, WrittenHere DEF e, q3
<1>25. Apart(disk, fat, L, start)
  <2>1. start \in Clusters
    BY <1>5
  <2> QED
    BY <1>20, <2>1, ApartLive DEF L
<1>26. Sparing(L, start)
  BY <1>2, <1>20, <1>22, <1>23, <1>24, <1>25 DEF Sparing, e, L
<1>30. Made(x)
  <2>1. Holds(e, Chain(linked, x.cluster), rq.content)
    BY <1>11, <1>29 DEF Holds
  <2>2. Holds(ImageOf(disk, queue'), Chain(fat', x.cluster), rq.content)
    BY <1>2, <2>1 DEF e
  <2>3. rq.content \in Contents
    BY DEF IsWriteRequest
  <2> QED
    BY <1>3, <2>2, <2>3 DEF Made
<1> QED
  BY <1>1, <1>2, <1>3, <1>18, <1>19, <1>20, <1>26, <1>27, <1>30 DEF Adding, e, c, L

\* write, by careful clients.
LEMMA WriteAdds ==
  ASSUME DriverKept, TreeKept, NEW rq, IsWriteRequest(rq), rq.parent \in FolderClusters,
         rq.size # 0 => rq.size \in Sizes, NEW ret, CarefulWrite(rq, ret)
  PROVE  \/ UNCHANGED fsVars
         \/ \E x : Ready /\ Adding(rq.parent, x) /\ x.ext = rq.ext /\ x.folder = (rq.size = 0)
<1>1. Ready /\ rq.parent \in Live(disk)
  BY SoundAtRest DEF CarefulWrite, write
<1>2. CASE ret # 0
  BY <1>2 DEF CarefulWrite, write
<1>3. CASE ret = 0
  <2>1. /\ Roomy(rq.parent) /\ rq.size <= CLUSTER_SIZE * Cardinality(EmptyClusters(fat))
        /\ WriteRefusal(rq) = 0 /\ busy' = get_empty_cluster(fat)
        /\ UNCHANGED <<disk, power>>
    BY <1>3 DEF CarefulWrite, write
  <2>7. Visible(Entries(rq.parent), rq) = {}
    BY <2>1 DEF WriteRefusal
  <2>2. busy' \in EmptyClusters(fat)
    <3>1. get_empty_cluster(fat) # NoCluster
      BY <2>1, ClusterRange DEF WriteRefusal, NoCluster
    <3> QED
      BY <2>1, <3>1, EmptyFound
  <2>3. Spilled(Entries(rq.parent)) = {fat}
    <3>1. Holes(Entries(rq.parent)) # {}
      BY <2>1, FS_EmptySet DEF Roomy
    <3> QED
      BY <3>1 DEF Spilled, Full
  <2>4. \/ rq.size = 0 /\ WriteFolder(rq, busy', fat)
        \/ rq.size # 0 /\ WriteFile(rq, busy', fat)
    BY <1>3, <2>3 DEF CarefulWrite, write
  <2>5. CASE rq.size = 0
    BY <1>1, <2>1, <2>2, <2>4, <2>5, <2>7, WriteFolderAdds
  <2>6. CASE rq.size # 0
    <3>1. \E x : Adding(rq.parent, x) /\ x.ext = rq.ext /\ ~x.folder
      BY <1>1, <2>1, <2>2, <2>4, <2>6, <2>7, WriteFileAdds
    <3>2. PICK x : Adding(rq.parent, x) /\ x.ext = rq.ext /\ ~x.folder
      BY <3>1
    <3>3. x.folder \in BOOLEAN
      BY <3>2 DEF Adding, EntryType
    <3> QED
      BY <1>1, <2>6, <3>2, <3>3
  <2> QED
    BY <2>5, <2>6
<1> QED
  BY <1>2, <1>3

\* The tree is sound with it.
LEMMA AddingSound ==
  ASSUME DriverKept, TreeKept, Ready, NEW c, NEW x, Adding(c, x)
  PROVE  TreeKept'
<1> DEFINE e == ImageOf(disk, queue')
           X == Live(disk) \cup (IF x.folder THEN {x.cluster} ELSE {})
<1>1. disk \in [Clusters -> Stored] /\ Sound(disk, fat, Live(disk))
  BY SoundAtRest
<1>2. Sound(e, fat', X)
  <2> DEFINE new == fat'
  <2>1. /\ c \in Live(disk) /\ Cardinality(Holes(EntriesOn(disk, c))) > 1 /\ x \in EntryType /\ x.used
        /\ Links(disk, fat, e, new, c, x)
    BY DEF Adding
  <2> HIDE DEF e, new
  <2>2. Sound(e, new, X)
    BY <1>1, <2>1, LinkedSound
  <2> QED
    BY <2>2 DEF new
<1> QED
  BY <1>2, KeptBySoundness DEF Adding, Sparing

\* An operation that removes the entry at p, and all that is in the live folders but those of X.
Removing(p, X) ==
  /\ p \in PlacesIn(disk, Live(disk)) /\ X \in SUBSET Live(disk)
  /\ ROOT_CLUSTER_NUMBER \in X /\ p[1] \in X
  /\ Unlinks(disk, fat, ImageOf(disk, queue'), fat', X, p)
  /\ \E K : Sparing(K, At(disk, p).cluster)
  /\ power' # "off"

\* The other entries of its table are there before and after.
LEMMA RemovedAround ==
  ASSUME NEW t \in Tables, Tidy(t), NEW i \in Items, t[i].used
  PROVE  Around(RemoveEntry(t, i), t[i].cluster) = Around(t, t[i].cluster)
<1> DEFINE r == RemoveEntry(t, i)
           f == t[i].cluster
<1>1. /\ \A j \in Items : r[j].used => Origin(t, i, j) \in Items /\ r[j] = t[Origin(t, i, j)]
      /\ \A k \in Items : k # i => \E j \in Items : r[j] = t[k]
  BY RemovedIs
<1> HIDE DEF r
<1>2. ASSUME NEW b \in Around(r, f) PROVE b \in Around(t, f)
  BY <1>1 DEF Around
<1>3. ASSUME NEW b \in Around(t, f) PROVE b \in Around(r, f)
  BY <1>1 DEF Around
<1> QED
  BY <1>2, <1>3 DEF r

\* An entry is taken off its table: what is erased before is not in the folders X that stay, nor
\* in what is outside of K.
LEMMA UnlinkRemoves ==
  ASSUME disk \in [Clusters -> Stored], Sound(disk, fat, Live(disk)),
         NEW parent \in Live(disk), NEW i \in Items, Entries(parent)[i].used,
         NEW X \in SUBSET Live(disk), ROOT_CLUSTER_NUMBER \in X, parent \in X,
         \A q \in PlacesIn(disk, X) :
           q # <<parent, i>> /\ At(disk, q).folder => At(disk, q).cluster \in X,
         NEW zero \in Seq(Writes), \A k \in DOMAIN zero : zero[k].at \notin X,
         NEW new \in FatMaps,
         \A c \in Clusters : c \notin ClustersOf(fat, Entries(parent)[i]) => new[c] = fat[c],
         fat' = new, queue' = zero \o Unlink(parent, i, new), disk' = disk, power' # "off",
         busy' = Entries(parent)[i].cluster, NEW K \in SUBSET Live(disk),
         Apart(disk, fat, K, busy'), AllSpare(zero, disk, fat, K, busy')
  PROVE  Removing(<<parent, i>>, X)
<1> DEFINE L    == Live(disk)
           p    == <<parent, i>>
           left == RemoveEntry(Entries(parent), i)
           q2   == Then(zero, parent, Table(left))
           q3   == Then(q2, FAT_CLUSTER_NUMBER, Fat(new))
           e    == ImageOf(disk, q3)
<1>1. left \in Tables /\ Table(left) \in Stored /\ Fat(new) \in Stored
  <2>1. Entries(parent) \in Tables /\ i \in Indices
    BY EntriesTyped, IndexRange DEF Entries
  <2>2. left \in Tables
    BY <2>1, TablesKept
  <2> QED
    BY <2>2, StoredValues
<1>2. queue' = q3
  <2>1. Put(parent, Table(left)) \in Seq(Writes) /\ Put(FAT_CLUSTER_NUMBER, Fat(new)) \in Seq(Writes)
    BY <1>1, PutTyped
  <2> DEFINE r == Put(parent, Table(left))
             s == Put(FAT_CLUSTER_NUMBER, Fat(new))
  <2>2. Unlink(parent, i, new) = r \o s /\ q3 = (zero \o r) \o s
    BY DEF Unlink, Then
  <2> HIDE DEF r, s, q3
  <2>3. zero \o (r \o s) = (zero \o r) \o s
    BY <2>1 DEF r, s
  <2> QED
    BY <2>2, <2>3
<1> HIDE DEF left
<1>3. p \in PlacesIn(disk, L) /\ p[1] = parent /\ p[2] = i /\ At(disk, p) = Entries(parent)[i]
  BY DEF PlacesIn, At, Entries
<1> HIDE DEF p
<1>4. \A b \in X : b \in Clusters /\ b # FAT_CLUSTER_NUMBER
  BY LiveMarked
<1>5. \A b \in X : (b = parent => e[b] = Table(left)) /\ (b # parent => e[b] = disk[b])
  <2> TAKE b \in X
  <2>1. ImageOf(disk, zero)[b] = disk[b]
    BY <1>4, Unwritten, SMTT(30)
  <2>2. q2 \in Seq(Writes)
    BY <1>1, ThenTyped
  <2>3. /\ b = parent => ImageOf(disk, q2)[b] = Table(left)
        /\ b # parent => ImageOf(disk, q2)[b] = ImageOf(disk, zero)[b]
    BY <1>1, <1>4, WrittenLast
  <2> HIDE DEF q2
  <2>4. e[b] = ImageOf(disk, q2)[b]
    BY <1>1, <1>4, <2>2, WrittenLast
  <2> QED
    BY <2>1, <2>3, <2>4
<1> HIDE DEF e
<1>6. \A b \in X : EntriesOn(e, b) = IF b = p[1] THEN RemoveEntry(EntriesOn(disk, b), p[2])
                                    ELSE EntriesOn(disk, b)
  <2> TAKE b \in X
  <2>1. CASE b = parent
    BY <1>3, <1>4, <1>5, <2>1, EntriesAre DEF left, Entries
  <2>2. CASE b # parent
    BY <1>3, <1>4, <1>5, <2>2, EntriesAre
  <2> QED
    BY <2>1, <2>2
<1>7. Unlinks(disk, fat, e, new, X, p)
  BY <1>3, <1>6 DEF Unlinks, p
<1> DEFINE f == At(disk, p).cluster
<1>8. /\ f = busy' /\ p \notin Outside(disk, K, f) /\ p \in PlacesIn(disk, L)
      /\ L = Live(disk) /\ Sound(disk, fat, Live(disk))
      /\ K \in SUBSET Live(disk) /\ parent \in Live(disk)
  BY <1>3 DEF Outside
<1> HIDE DEF L, f
<1>9. q2 \in Seq(Writes) /\ q3 \in Seq(Writes)
  <2>1. q2 \in Seq(Writes)
    BY <1>1, ThenTyped DEF q2
  <2> QED
    BY <1>1, <2>1, ThenTyped DEF q3
<1>10. AllSpare(q3, disk, fat, K, f)
  <2>1. AllSpare(zero, disk, fat, K, f)
    BY <1>8
  <2>2. AllSpare(q2, disk, fat, K, f)
    <3>1. Around(left, f) = Around(EntriesOn(disk, parent), f)
      <4>1. EntriesOn(disk, parent) \in Tables /\ Tidy(EntriesOn(disk, parent))
        BY EntriesTyped DEF Sound
      <4> QED
        BY <1>3, <4>1, RemovedAround DEF left, Entries, f
    <3>2. Spares([at |-> parent, content |-> Table(left)], disk, fat, K, f)
      BY <1>8, <3>1, TableSpares
    <3> QED
      BY <1>1, <2>1, <3>2, ThenSpares DEF q2
  <2>3. Spares([at |-> FAT_CLUSTER_NUMBER, content |-> Fat(new)], disk, fat, K, f)
    <3>1. ASSUME NEW b \in Data(disk, fat, K, f) PROVE new[b] = fat[b]
      <4>1. b \in Clusters /\ b \notin ClustersOf(fat, At(disk, p))
        BY <1>8, DataApart
      <4> QED
        BY <1>3, <4>1
    <3> QED
      BY <1>8, <3>1, FatSpares
  <2> QED
    BY <1>1, <1>9, <2>2, <2>3, ThenSpares DEF q3
<1>11. e[FAT_CLUSTER_NUMBER] = Fat(new)
  <2>1. FAT_CLUSTER_NUMBER \in Clusters
    BY ClusterRange DEF FAT_CLUSTER_NUMBER
  <2> QED
    BY <1>1, <1>9, <2>1, WrittenHere DEF e, q3
<1>12. Sparing(K, f)
  BY <1>2, <1>8, <1>9, <1>10, <1>11 DEF Sparing, e
<1>13. p[1] \in X
  BY <1>3
<1> QED
  BY <1>2, <1>7, <1>8, <1>12, <1>13 DEF Removing, e, p, f

\* The entry that delete or delete_all finds is one in use, with a chain of its own.
LEMMA FoundEntry ==
  ASSUME disk \in [Clusters -> Stored], Sound(disk, fat, Live(disk)), NEW rq,
         rq.parent \in Live(disk), rq.name \in Names, Matches(Entries(rq.parent), rq) # {}
  PROVE  LET i == Min(Matches(Entries(rq.parent), rq))
             e == Entries(rq.parent)[i]
             p == <<rq.parent, i>>
         IN  /\ i \in Items /\ e.used
             /\ p \in PlacesIn(disk, Live(disk)) /\ At(disk, p) = e
             /\ Owned(fat, e) /\ e.cluster \in ClustersOf(fat, e)
<1> DEFINE t == Entries(rq.parent)
           i == Min(Matches(t, rq))
           p == <<rq.parent, i>>
<1>1. t \in Tables /\ Tidy(t)
  BY EntriesTyped DEF Entries, Sound
<1>2. i \in Items /\ i \in Matches(t, rq)
  BY MatchFound, SMTT(30)
<1>3. t[i].name \in Names
  BY <1>2 DEF Matches, Is
<1>4. t[i].name # NoName
  <2>1. NoName \notin Names
    BY Fat32Assumption, SMT
  <2> QED
    BY <1>3, <2>1, Zenon
<1> HIDE DEF i
<1>5. t[i].used
  BY <1>1, <1>2, <1>4, NamedIsUsed
<1>6. p \in PlacesIn(disk, Live(disk)) /\ At(disk, p) = t[i]
  BY <1>2, <1>5 DEF PlacesIn, At, Entries
<1>7. Owned(fat, t[i])
  <2>1. \A q \in PlacesIn(disk, Live(disk)) : Owned(fat, At(disk, q))
    BY DEF Sound, OwnChains
  <2> HIDE DEF p
  <2> QED
    BY <1>6, <2>1
<1>8. t[i].cluster \in ClustersOf(fat, t[i])
  BY <1>7, OwnedClusters
<1> QED
  BY <1>2, <1>5, <1>6, <1>7, <1>8 DEF i

\* delete, of a file or an empty folder.
LEMMA DeleteRemoves ==
  ASSUME DriverKept, TreeKept, NEW rq, rq.parent \in FolderClusters, rq.name \in Names,
         NEW ret, delete(rq, ret)
  PROVE  \/ UNCHANGED fsVars
         \/ Ready /\ \E p, X : /\ Removing(p, X) /\ X = Live(disk) \ ClustersOf(fat, At(disk, p))
                               /\ At(disk, p).folder => is_folder_empty(At(disk, p).cluster)
                               /\ \A c \in ClustersOf(fat, At(disk, p)) : fat'[c] = FAT32_FAT_EMPTY_ENTRY
<1> DEFINE t == Entries(rq.parent)
           i == Min(Matches(t, rq))
           L == Live(disk)
<1>1. Ready /\ power = "on"
  BY DEF delete, Ready
<1>2. disk \in [Clusters -> Stored] /\ fat \in FatMaps /\ Sound(disk, fat, L) /\ rq.parent \in L
  BY <1>1, SoundAtRest
<1>3. CASE UNCHANGED fsVars
  BY <1>3
<1>4. CASE /\ Matches(t, rq) # {} /\ (t[i].folder => is_folder_empty(t[i].cluster))
           /\ DeleteEntry(rq.parent, i) /\ UNCHANGED disk
  <2> DEFINE x     == t[i]
             C     == ClustersOf(fat, x)
             chain == Chain(fat, x.cluster)
             freed == FreeChain(fat, x.cluster)
             p     == <<rq.parent, i>>
             X     == L \ C
  <2>1. /\ i \in Items /\ x.used /\ p \in PlacesIn(disk, L) /\ At(disk, p) = x
        /\ Owned(fat, x) /\ x.cluster \in C
    BY <1>2, <1>4, FoundEntry
  <2>2. Linked(fat, chain) /\ chain[1] = x.cluster /\ chain \in Seq(C)
    <3>1. Linked(fat, chain) /\ chain[1] = x.cluster /\ C = {chain[k] : k \in DOMAIN chain}
      BY <2>1 DEF Owned, ClustersOf
    <3> HIDE DEF chain, C
    <3>2. chain \in Seq(Clusters)
      BY <3>1 DEF Linked
    <3> QED
      BY <3>1, <3>2
  <2>3. Ends(fat, x.cluster)
    BY <2>2, ChainOf, SMTT(30)
  <2>4. /\ fat' = freed /\ UNCHANGED power /\ busy' = x.cluster
        /\ queue' = Erase(chain) \o Unlink(rq.parent, i, freed)
    BY <1>4, <2>3 DEF DeleteEntry
  <2>5. freed \in FatMaps /\ (\A c \in Clusters : c \notin C => freed[c] = fat[c])
        /\ (\A c \in C : freed[c] = FAT32_FAT_EMPTY_ENTRY)
    <3>1. freed \in FatMaps
      BY <1>2, FatsKept
    <3>2. \A c \in C : c \in Clusters
      BY <2>1, OwnedClusters
    <3> QED
      BY <3>1, <3>2 DEF FreeChain, ClustersOf
  <2> HIDE DEF t, i, C, chain, freed
  <2>6. Erase(chain) \in Seq(Writes) /\ \A k \in DOMAIN Erase(chain) :
          Erase(chain)[k].at \in C /\ Erase(chain)[k].content = Zeroes
    <3>1. Erase(chain) \in Seq({w \in Writes : w.at \in C /\ w.content = Zeroes})
      BY <2>2, EraseTyped
    <3> QED
      BY <3>1
  <2>7. \A c \in C : c \in L => x.folder /\ c = x.cluster
    <3> HIDE DEF p
    <3> QED
      BY <1>2, <2>1, OnePlace DEF C
  <2>8. ROOT_CLUSTER_NUMBER \in X
    <3>1. \A c \in C : c >= 3
      BY <2>1, OwnedClusters DEF C
    <3> QED
      BY <1>2, <3>1 DEF Sound, ROOT_CLUSTER_NUMBER
  <2>9. rq.parent \in X
    <3>1. SUFFICES ASSUME rq.parent \in C PROVE FALSE
      BY <1>2
    <3>2. x.folder /\ rq.parent = x.cluster
      BY <1>2, <2>7, <3>1
    <3>3. ~t[i].used
      BY <1>4, <2>1, <3>2 DEF is_folder_empty, t
    <3> QED
      BY <2>1, <3>3
  <2>10. ASSUME NEW q \in PlacesIn(disk, X), q # p, At(disk, q).folder
         PROVE  At(disk, q).cluster \in X
    <3>1. q \in PlacesIn(disk, L)
      BY DEF PlacesIn
    <3> HIDE DEF p
    <3>2. At(disk, q).cluster \in Clusters
      BY <1>2, <3>1, OnePlace
    <3>3. At(disk, q).cluster \in L
      BY <1>2, <2>10, <3>1, <3>2, PlaceLeads DEF Sound
    <3>4. At(disk, q).cluster \notin C
      <4>1. /\ ClustersOf(fat, At(disk, q)) \cap ClustersOf(fat, At(disk, p)) = {}
            /\ Owned(fat, At(disk, q))
        BY <1>2, <2>1, <2>10, <3>1 DEF Sound, OwnChains
      <4>2. At(disk, q).cluster \in ClustersOf(fat, At(disk, q))
        BY <4>1, OwnedClusters
      <4> QED
        BY <2>1, <4>1, <4>2 DEF C
    <3> QED
      BY <3>3, <3>4
  <2>11. X \in SUBSET L /\ \A k \in DOMAIN Erase(chain) : Erase(chain)[k].at \notin X
    BY <2>6
  <2> HIDE DEF X, L
  <2>12. Entries(rq.parent)[i].used /\ C = ClustersOf(fat, Entries(rq.parent)[i])
    BY <2>1 DEF t, C
  <2>13. disk' = disk /\ power' # "off" /\ busy' = Entries(rq.parent)[i].cluster
    BY <1>1, <1>4, <2>4 DEF t
  <2> DEFINE f == x.cluster
  <2> HIDE DEF x, p
  <2>14. f \in Clusters /\ busy' = f /\ Sound(disk, fat, Live(disk)) /\ L = Live(disk)
         /\ p \in PlacesIn(disk, Live(disk)) /\ p \notin Outside(disk, L, f)
         /\ C = ClustersOf(fat, At(disk, p)) /\ L \in SUBSET Live(disk)
    <3>1. f \in Clusters
      BY <2>1, OwnedClusters DEF C
    <3> QED
      BY <1>2, <2>1, <2>4, <3>1 DEF C, L, Outside
  <2>15. Apart(disk, fat, L, f)
    BY <2>14, ApartLive
  <2>16. AllSpare(Erase(chain), disk, fat, L, f)
    <3>1. ASSUME NEW k \in DOMAIN Erase(chain) PROVE Spares(Erase(chain)[k], disk, fat, L, f)
      <4> DEFINE w == Erase(chain)[k]
      <4>1. w \in Writes /\ w.at \in C /\ w.content = Zeroes
        BY <2>6
      <4> HIDE DEF w
      <4>2. w.at \notin Data(disk, fat, L, f)
        BY <2>14, <4>1, DataApart
      <4>3. w.at # FAT_CLUSTER_NUMBER
        <5>1. w.at >= 3
          BY <2>1, <4>1, OwnedClusters DEF C
        <5> QED
          BY <5>1 DEF FAT_CLUSTER_NUMBER
      <4>4. ASSUME w.at \in L PROVE Spares(w, disk, fat, L, f)
        <5>1. x.folder /\ w.at = f
          BY <2>7, <4>1, <4>4
        <5>2. \A j \in Items : ~EntriesOn(disk, f)[j].used
          BY <1>4, <5>1 DEF is_folder_empty, Entries, x
        <5>3. \A j \in Items : ~NoEntries[j].used
          BY IndexRange, EntryValues DEF NoEntries
        <5>4. Around(NoEntries, f) = {} /\ Around(EntriesOn(disk, f), f) = {}
          BY <5>2, <5>3 DEF Around
        <5>5. w.content = Table(NoEntries)
          BY <4>1 DEF Zeroes
        <5> HIDE DEF f
        <5> QED
          BY <4>2, <4>3, <5>1, <5>4, <5>5 DEF Spares
      <4>5. ASSUME w.at \notin L PROVE Spares(w, disk, fat, L, f)
        BY <4>2, <4>3, <4>5 DEF Spares
      <4>6. Spares(w, disk, fat, L, f)
        BY <4>4, <4>5
      <4> QED
        BY <4>6 DEF w
    <3> HIDE DEF f
    <3> QED
      BY <3>1, Zenon DEF AllSpare
  <2>17. Removing(<<rq.parent, i>>, X)
    <3>1. /\ Apart(disk, fat, L, busy') /\ AllSpare(Erase(chain), disk, fat, L, busy')
          /\ L \in SUBSET Live(disk) /\ X \in SUBSET Live(disk) /\ rq.parent \in Live(disk)
      BY <1>2, <2>11, <2>14, <2>15, <2>16
    <3>2. \A q \in PlacesIn(disk, X) :
            q # <<rq.parent, i>> /\ At(disk, q).folder => At(disk, q).cluster \in X
      BY <2>10 DEF p
    <3>3. fat' = freed /\ queue' = Erase(chain) \o Unlink(rq.parent, i, freed)
          /\ \A c \in Clusters : c \notin ClustersOf(fat, Entries(rq.parent)[i]) => freed[c] = fat[c]
      BY <2>4, <2>5, <2>12
    <3> HIDE DEF f
    <3> QED
      BY <1>2, <2>1, <2>5, <2>6, <2>8, <2>9, <2>11, <2>12, <2>13, <2>14, <3>1, <3>2, <3>3, UnlinkRemoves
  <2>18. At(disk, p).folder => is_folder_empty(At(disk, p).cluster)
    BY <1>4, <2>1 DEF x
  <2>19. X = Live(disk) \ ClustersOf(fat, At(disk, p))
         /\ \A c \in ClustersOf(fat, At(disk, p)) : fat'[c] = FAT32_FAT_EMPTY_ENTRY
    BY <2>4, <2>5, <2>14 DEF X
  <2> QED
    BY <1>1, <2>17, <2>18, <2>19 DEF p
<1> QED
  BY <1>3, <1>4 DEF delete

\* delete_all, which never meets a cycle of folders here.
LEMMA DeleteAllRemoves ==
  ASSUME DriverKept, TreeKept, NEW rq, rq.parent \in FolderClusters, rq.name \in Names,
         NEW ret, delete_all(rq, ret)
  PROVE  \/ UNCHANGED fsVars
         \/ Ready /\ \E p, X : Removing(p, X)
<1> DEFINE t == Entries(rq.parent)
           i == Min(Matches(t, rq))
           L == Live(disk)
           x == t[i]
           p == <<rq.parent, i>>
           B == Below({x.cluster})
<1>1. Ready /\ power = "on"
  BY DEF delete_all, Ready
<1>2. disk \in [Clusters -> Stored] /\ fat \in FatMaps /\ Sound(disk, fat, L) /\ rq.parent \in L
  BY <1>1, SoundAtRest
<1>3. CASE UNCHANGED fsVars
  BY <1>3
<1>4. CASE /\ Matches(t, rq) # {} /\ UNCHANGED disk /\ busy' = x.cluster
           /\ IF x.folder /\ Loops(x.cluster)
              THEN DeleteAllLoops(rq.parent, i) ELSE DeleteAllEntry(rq.parent, i)
  <2> DEFINE freed == [c \in Clusters |-> IF c = x.cluster THEN FAT32_FAT_EMPTY_ENTRY ELSE fat[c]]
  <2>1. /\ i \in Items /\ x.used /\ p \in PlacesIn(disk, L) /\ At(disk, p) = x
        /\ Owned(fat, x) /\ x.cluster \in ClustersOf(fat, x)
    BY <1>2, <1>4, FoundEntry
  <2>2. freed \in FatMaps /\ \A c \in Clusters : c \notin ClustersOf(fat, x) => freed[c] = fat[c]
    <3>1. freed \in FatMaps
      BY <1>2, FatsKept
    <3> QED
      BY <2>1, <3>1
  <2> HIDE DEF freed
  <2>3. \A q \in PlacesIn(disk, L) : ~At(disk, q).folder => At(disk, q).cluster \in Clusters \ L
    <3> TAKE q \in PlacesIn(disk, L)
    <3>1. At(disk, q).cluster \in ClustersOf(fat, At(disk, q))
      <4>1. Owned(fat, At(disk, q))
        BY <1>2 DEF Sound, OwnChains
      <4> QED
        BY <4>1, OwnedClusters
    <3> QED
      BY <1>2, <3>1, OnePlace
  <2> DEFINE f == x.cluster
  <2>4. f \in Clusters /\ busy' = f /\ f = Entries(rq.parent)[i].cluster /\ L = Live(disk)
        /\ \A K : p \notin Outside(disk, K, f)
    BY <1>4, <2>1, OwnedClusters DEF Outside
  <2>5. CASE x.folder
    <3>1. /\ B \in SUBSET L /\ x.cluster \in B /\ SubfoldersOn(disk, B) \subseteq B
          /\ ROOT_CLUSTER_NUMBER \notin B /\ rq.parent \notin B
          /\ \A q \in PlacesIn(disk, L \ B) :
               q # p /\ At(disk, q).folder => At(disk, q).cluster \in L \ B
      <4>1. p[1] = rq.parent
        OBVIOUS
      <4> HIDE DEF p, t, i
      <4> QED
        BY <1>2, <2>1, <2>5, <4>1, BelowPlace DEF Below
    <3> HIDE DEF p, i, B, L, f
    <3>2. ~Loops(x.cluster)
      <4>1. \A c \in B : c \notin BelowOn(disk, SubfoldersOn(disk, {c}))
        BY <1>2, <3>1, NoCycle DEF L
      <4> QED
        BY <4>1 DEF Loops, B, Below
    <3>3. /\ fat' = freed /\ UNCHANGED power
          /\ queue' = delete_all_folder(x.cluster) \o Unlink(rq.parent, i, freed)
      BY <1>4, <2>5, <3>2 DEF DeleteAllEntry, freed
    <3> DEFINE Y == {At(disk, q).cluster : q \in {r \in PlacesIn(disk, B) : ~At(disk, r).folder}}
    <3>4. PICK s \in Seq(B \cup Y) : delete_all_folder(x.cluster) = Erase(s)
      <4>1. B \in SUBSET AnyCluster
        BY <1>2, <3>1 DEF Sound, AnyCluster
      <4>2. ASSUME NEW c \in B, NEW j \in Items, Entries(c)[j].used
            PROVE  IF Entries(c)[j].folder THEN Entries(c)[j].cluster \in B
                   ELSE Entries(c)[j].cluster \in Y
        <5> DEFINE r == <<c, j>>
        <5>1. At(disk, r) = Entries(c)[j] /\ r \in PlacesIn(disk, L) /\ r \in PlacesIn(disk, B)
          BY <3>1, <4>2 DEF PlacesIn, At, Entries
        <5> HIDE DEF r
        <5>2. CASE Entries(c)[j].folder
          <6>1. At(disk, r).cluster \in Clusters
            BY <1>2, <5>1, OnePlace DEF L
          <6>2. B \in SUBSET Clusters
            BY <1>2, <3>1 DEF Sound
          <6>3. At(disk, r).cluster \in B
            BY <3>1, <5>1, <5>2, <6>1, <6>2, PlaceLeads
          <6> QED
            BY <5>1, <5>2, <6>3
        <5>3. CASE ~Entries(c)[j].folder
          BY <5>1, <5>3
        <5> QED
          BY <5>2, <5>3
      <4> HIDE DEF Y
      <4> QED
        BY <1>2, <3>1, <4>1, <4>2, ErasedAre
    <3> DEFINE X == L \ B
    <3>5. X \in SUBSET Live(disk) /\ ROOT_CLUSTER_NUMBER \in X /\ rq.parent \in X
      BY <1>2, <2>4, <3>1 DEF Sound
    <3>6. \A q \in PlacesIn(disk, X) :
            q # <<rq.parent, i>> /\ At(disk, q).folder => At(disk, q).cluster \in X
      BY <3>1 DEF p
    <3>7. Apart(disk, fat, X, busy')
      <4>1. At(disk, p).cluster = f /\ At(disk, p).folder /\ B = BelowOn(disk, {f})
            /\ p \in PlacesIn(disk, Live(disk))
        BY <2>1, <2>4, <2>5 DEF B, Below, f
      <4>2. Apart(disk, fat, Live(disk) \ BelowOn(disk, {At(disk, p).cluster}), At(disk, p).cluster)
        BY <1>2, <2>4, <4>1, ApartBelow
      <4> QED
        BY <2>4, <4>1, <4>2
    <3>8. ASSUME NEW b \in B \cup Y
          PROVE  b \notin X /\ b \notin Data(disk, fat, X, busy') /\ b # FAT_CLUSTER_NUMBER
      <4>1. CASE b \in B
        <5>1. b \in Live(disk) /\ b \notin X
          BY <2>4, <3>1, <4>1
        <5> HIDE DEF X
        <5> QED
          BY <1>2, <2>4, <3>5, <5>1, DataApart, LiveMarked
      <4>2. CASE b \in Y
        <5>1. PICK q \in PlacesIn(disk, B) : ~At(disk, q).folder /\ At(disk, q).cluster = b
          BY <4>2
        <5>2. q \in PlacesIn(disk, Live(disk)) /\ q \notin Outside(disk, X, busy')
          BY <2>4, <3>1 DEF PlacesIn, Outside
        <5>3. Owned(fat, At(disk, q))
          BY <1>2, <2>4, <5>2 DEF Sound, OwnChains
        <5>4. b \in ClustersOf(fat, At(disk, q)) /\ b >= 3
          BY <5>1, <5>3, OwnedClusters
        <5>5. b \notin L
          BY <2>3, <2>4, <5>1, <5>2
        <5>6. b # FAT_CLUSTER_NUMBER
          BY <5>4 DEF FAT_CLUSTER_NUMBER
        <5>7. b \notin Data(disk, fat, X, busy')
          <6> HIDE DEF X
          <6> QED
            BY <1>2, <2>4, <3>5, <5>2, <5>4, DataApart
        <5> QED
          BY <5>5, <5>6, <5>7
      <4> QED
        BY <4>1, <4>2
    <3> HIDE DEF X, Y
    <3>9. Erase(s) \in Seq(Writes) /\ \A k \in DOMAIN Erase(s) : Erase(s)[k].at \in B \cup Y
      <4>1. Erase(s) \in Seq({w \in Writes : w.at \in B \cup Y /\ w.content = Zeroes})
        BY EraseTyped
      <4> QED
        BY <4>1
    <3>10. /\ \A k \in DOMAIN Erase(s) : Erase(s)[k].at \notin X
           /\ AllSpare(Erase(s), disk, fat, X, busy')
      BY <3>8, <3>9 DEF AllSpare, Spares
    <3>11. power' # "off" /\ disk' = disk /\ fat' = freed
           /\ queue' = Erase(s) \o Unlink(rq.parent, i, freed)
      BY <1>1, <1>4, <3>3, <3>4
    <3>12. busy' = Entries(rq.parent)[i].cluster
      BY <2>4
    <3>13. Removing(<<rq.parent, i>>, X)
      BY <1>2, <2>1, <2>2, <2>4, <3>5, <3>6, <3>7, <3>9, <3>10, <3>11, <3>12, UnlinkRemoves
    <3> QED
      BY <1>1, <3>13
  <2>6. CASE ~x.folder
    <3> DEFINE s == <<x.cluster>>
    <3>1. /\ fat' = freed /\ UNCHANGED power
          /\ queue' = Erase(s) \o Unlink(rq.parent, i, freed)
      BY <1>4, <2>6 DEF DeleteAllEntry, freed
    <3>2. s \in Seq(Clusters \ L)
      BY <2>1, <2>3, <2>6
    <3> DEFINE X == L
    <3>3. Erase(s) \in Seq(Writes) /\ \A k \in DOMAIN Erase(s) : Erase(s)[k].at \notin X
      <4>1. Erase(s) \in Seq({w \in Writes : w.at \in Clusters \ L /\ w.content = Zeroes})
        BY <3>2, EraseTyped
      <4> HIDE DEF s, L
      <4> QED
        BY <4>1
    <3>4. X \in SUBSET L /\ ROOT_CLUSTER_NUMBER \in X /\ rq.parent \in X
      BY <1>2 DEF Sound
    <3>5. \A q \in PlacesIn(disk, X) :
            q # <<rq.parent, i>> /\ At(disk, q).folder => At(disk, q).cluster \in X
      <4> HIDE DEF i
      <4> TAKE q \in PlacesIn(disk, X)
      <4>1. At(disk, q).cluster \in Clusters
        BY <1>2, OnePlace
      <4> QED
        BY <1>2, <4>1, PlaceLeads DEF Sound
    <3>7. Apart(disk, fat, X, busy')
      BY <1>2, <2>4, ApartLive
    <3>8. p \notin Outside(disk, X, busy') /\ p \in PlacesIn(disk, Live(disk)) /\ X \in SUBSET Live(disk)
      BY <2>1, <2>4
    <3>9. f \in Clusters \ L /\ f # FAT_CLUSTER_NUMBER /\ f \notin Data(disk, fat, X, busy')
      <4>1. f \in ClustersOf(fat, At(disk, p)) /\ f >= 3
        BY <2>1, OwnedClusters
      <4>2. f # FAT_CLUSTER_NUMBER
        BY <4>1 DEF FAT_CLUSTER_NUMBER
      <4>3. f \in Clusters \ L
        BY <2>1, <2>3, <2>6
      <4> HIDE DEF f, X, p, L
      <4> QED
        BY <1>2, <2>4, <3>8, <4>1, <4>2, <4>3, DataApart
    <3>10. Erase(s) \in Seq({w \in Writes : w.at \in {f} /\ w.content = Zeroes})
      <4>1. s \in Seq({f})
        OBVIOUS
      <4> HIDE DEF s
      <4> QED
        BY <4>1, EraseTyped
    <3>11. AllSpare(Erase(s), disk, fat, X, busy')
      <4> HIDE DEF s
      <4>1. \A k \in DOMAIN Erase(s) : Erase(s)[k].at = f
        BY <3>10
      <4> HIDE DEF f, L
      <4> QED
        BY <3>8, <3>9, <4>1 DEF AllSpare, Spares
    <3> HIDE DEF X, s, i, L, f
    <3>6. power' # "off" /\ disk' = disk
      BY <1>1, <1>4, <3>1
    <3>12. Removing(<<rq.parent, i>>, X)
      BY <1>2, <2>1, <2>2, <2>4, <3>1, <3>3, <3>4, <3>5, <3>6, <3>7, <3>8, <3>11, UnlinkRemoves
    <3> QED
      BY <1>1, <3>12
  <2> QED
    BY <2>5, <2>6
<1> QED
  BY <1>3, <1>4 DEF delete_all

\* What is left is sound.
LEMMA RemovingSound ==
  ASSUME DriverKept, TreeKept, Ready, NEW p, NEW X, Removing(p, X)
  PROVE  TreeKept' /\ Sound(ImageOf(disk, queue'), fat', X)
<1> DEFINE e   == ImageOf(disk, queue')
           new == fat'
<1>1. disk \in [Clusters -> Stored] /\ Sound(disk, fat, Live(disk))
  BY SoundAtRest
<1>2. /\ p \in PlacesIn(disk, Live(disk)) /\ X \in SUBSET Live(disk)
      /\ ROOT_CLUSTER_NUMBER \in X /\ p[1] \in X /\ Unlinks(disk, fat, e, new, X, p)
  BY DEF Removing
<1>3. Sound(e, fat', X)
  <2> HIDE DEF e, new
  <2>1. Sound(e, new, X)
    BY <1>1, <1>2, UnlinkedSound
  <2> QED
    BY <2>1 DEF new
<1>4. disk' = disk /\ power' # "off"
  BY DEF Removing, Sparing
<1> QED
  BY <1>3, <1>4, KeptBySoundness

\* The folder a move goes to is a live one.
LEMMA DestinationLive ==
  ASSUME NEW map, Sound(disk, map, Live(disk)), NEW tar, tar.parent \in Live(disk)
  PROVE  Destination(tar) \in Live(disk)
<1> DEFINE t == Entries(tar.parent)
           j == Min(TargetHits(tar))
           p == <<tar.parent, j>>
<1>1. CASE IntoFolder(tar)
  <2>1. TargetHits(tar) # {} /\ t[j].folder /\ Destination(tar) = t[j].cluster
    BY <1>1 DEF IntoFolder, Destination
  <2>2. TargetHits(tar) \in SUBSET Nat
    BY IndexRange DEF TargetHits, Visible, Matches
  <2>3. j \in TargetHits(tar)
    BY <2>1, <2>2, MinIsLeast
  <2> HIDE DEF j
  <2>4. j \in Items /\ j < FirstHole(t)
    BY <2>3 DEF TargetHits, Visible, Matches
  <2>5. t[j].used
    BY <2>4, FirstHoleIs
  <2>6. p \in PlacesIn(disk, Live(disk)) /\ At(disk, p) = t[j]
    BY <2>4, <2>5 DEF PlacesIn, At, Entries
  <2> HIDE DEF p, t
  <2>7. At(disk, p).cluster \in Clusters
    BY <2>6, OnePlace
  <2> QED
    BY <2>1, <2>6, <2>7, LiveIsLeast, PlaceLeads
<1>2. CASE ~IntoFolder(tar)
  BY <1>2 DEF Destination
<1> QED
  BY <1>1, <1>2

\* The live folders have the names they had on disk e, but for the one that is x.
Heads(e, x) ==
  \A b \in Live(disk) :
    /\ EntriesOn(e, b)[0].name = IF x.folder /\ b = x.cluster THEN x.name
                                 ELSE EntriesOn(disk, b)[0].name
    /\ EntriesOn(e, b)[1].name = EntriesOn(disk, b)[1].name

\* An operation that moves the entry at p to the folder c as x.
Moving(p, c, x) ==
  /\ p \in PlacesIn(disk, Live(disk))
  /\ c \in Live(disk) /\ Cardinality(Holes(EntriesOn(disk, c))) > 1 /\ x \in EntryType /\ x.used
  /\ Moves(disk, ImageOf(disk, queue'), p, c, x) /\ NewIn(c, x)
  /\ \A b \in Clusters \ Live(disk) : ImageOf(disk, queue')[b] = disk[b]
  /\ x.folder => c \notin BelowOn(disk, {x.cluster})
  /\ Sparing(Live(disk), x.cluster) /\ fat' = fat /\ power' # "off"
  /\ Heads(ImageOf(disk, queue'), x)

\* move, to another folder.
LEMMA MoveMoves ==
  ASSUME DriverKept, TreeKept, NEW src, NEW tar, src.parent \in FolderClusters,
         tar.parent \in FolderClusters, IsNameRequest(src), IsNameRequest(tar),
         NEW ret, CarefulMove(src, tar, ret)
  PROVE  UNCHANGED fsVars \/ \E p, c, x : Ready /\ Moving(p, c, x) /\ x.ext \in {src.ext, tar.ext}
<1>1. Ready /\ power = "on"
  BY DEF CarefulMove, move, Ready
<1>2. /\ disk \in [Clusters -> Stored] /\ fat \in FatMaps /\ Sound(disk, fat, Live(disk))
      /\ src.parent \in Live(disk) /\ tar.parent \in Live(disk)
  BY <1>1, SoundAtRest
<1>3. CASE UNCHANGED fsVars
  BY <1>3
<1>4. CASE ret = 0 /\ MoveEntry(src, tar) /\ UNCHANGED <<disk, fat, power>>
  <2> DEFINE L     == Live(disk)
             i     == Min(SourceIndices(src))
             old   == Source(src)
             c     == Destination(tar)
             new   == IF IntoFolder(tar) THEN old ELSE [old EXCEPT !.name = tar.name, !.ext = tar.ext]
             moved == [Entries(old.cluster) EXCEPT ![0].name = new.name, ![0].ext = new.ext,
                                                   ![1].cluster = c]
             left  == RemoveEntry(Entries(src.parent), i)
             added == AddEntry(Entries(c), new)
             p     == <<src.parent, i>>
             q1    == IF old.folder THEN Put(old.cluster, Table(moved)) ELSE <<>>
             q2    == Then(q1, src.parent, Table(left))
             q3    == Then(q2, c, Table(added))
             e     == ImageOf(disk, q3)
  <2>1. /\ Roomy(c) /\ i \in Items /\ c # src.parent
        /\ SourceIndices(src) # {} /\ ~Full(Entries(c)) /\ old.cluster # c
        /\ old.folder => c \notin Below({old.cluster})
        /\ Visible(Entries(c), IF IntoFolder(tar) THEN src ELSE tar) = {}
    BY <1>4, ClusterRange DEF CarefulMove, move, MoveRefusal
  <2>2. queue' = q3
    <3> DEFINE there == [Entries(c) EXCEPT ![FirstHole(Entries(c))] = new]
    <3>1. queue' = (q1 \o Put(src.parent, Table(left))) \o Put(c, Table(there))
      BY <1>4 DEF MoveEntry
    <3>2. added = there
      BY <2>1 DEF AddEntry
    <3> HIDE DEF q1, left, there, added, c
    <3> QED
      BY <3>1, <3>2 DEF Then
  <2>3. old = Entries(src.parent)[i]
    BY DEF Source
  <2>4. \A b : Entries(b) \in Tables
    BY <1>2, EntriesTyped DEF Entries
  <2>30. Is(old, src)
    <3>1. i \in SourceIndices(src)
      BY <2>1, SourceFound
    <3> HIDE DEF i, old
    <3> QED
      BY <2>3, <3>1 DEF SourceIndices
  <2>5. old.used
    <3>1. i \in SourceIndices(src)
      BY <2>1, SourceFound
    <3>2. old.name \in Names
      BY <2>3, <3>1 DEF SourceIndices, Is, IsNameRequest
    <3>3. NoName \notin Names
      BY Fat32Assumption, SMT
    <3>4. old.name # NoName
      BY <3>2, <3>3, Zenon
    <3>5. Tidy(Entries(src.parent))
      BY <1>2 DEF Sound, Entries
    <3> HIDE DEF i, old
    <3> QED
      BY <2>1, <2>3, <2>4, <3>4, <3>5, NamedIsUsed
  <2> HIDE DEF i, old, c
  <2>6. old \in EntryType
    <3>1. i \in Indices
      BY <2>1, IndexRange
    <3> QED
      BY <2>3, <2>4, <3>1 DEF Tables
  <2>7. new \in EntryType /\ new.used /\ SameObject(old, new) /\ new.ext \in {src.ext, tar.ext}
    <3>1. CASE IntoFolder(tar)
      BY <2>5, <2>6, <2>30, <3>1 DEF SameObject, Is
    <3>2. CASE ~IntoFolder(tar)
      BY <2>5, <2>6, <3>2 DEF SameObject, EntryType, IsNameRequest
    <3> QED
      BY <3>1, <3>2
  <2>8. c \in L
    BY <1>2, DestinationLive DEF c
  <2>31. NewIn(c, new)
    <3> DEFINE rq == IF IntoFolder(tar) THEN src ELSE tar
    <3>1. new.name = rq.name /\ new.ext = rq.ext /\ rq.name \in Names /\ rq.ext \in Exts
      <4>1. CASE IntoFolder(tar)
        BY <2>30, <4>1 DEF Is, IsNameRequest
      <4>2. CASE ~IntoFolder(tar)
        BY <2>6, <4>2 DEF EntryType, IsNameRequest
      <4> QED
        BY <4>1, <4>2
    <3>2. Tidy(EntriesOn(disk, c)) /\ Visible(EntriesOn(disk, c), rq) = {}
      BY <1>2, <2>1, <2>8 DEF Sound, Entries
    <3> HIDE DEF rq, new
    <3>3. \A j \in Items : EntriesOn(disk, c)[j].used => ~Is(EntriesOn(disk, c)[j], rq)
      BY <3>2, NoneVisible
    <3> QED
      BY <3>1, <3>3 DEF NewIn, Is
  <2> HIDE DEF new
  <2>9. p \in PlacesIn(disk, L) /\ At(disk, p) = old /\ p[1] = src.parent /\ p[2] = i
    BY <1>2, <2>1, <2>3, <2>5 DEF PlacesIn, At, Entries
  <2> HIDE DEF p
  <2>10. \A b \in L : b \in Clusters
    BY <1>2 DEF Sound
  <2>11. /\ moved \in Tables /\ (\A j \in Items : moved[j] = Entries(old.cluster)[j])
         /\ moved[0].used = Entries(old.cluster)[0].used /\ moved[1].cluster = c
         /\ moved[0].name = new.name /\ moved[1].name = Entries(old.cluster)[1].name
    <3>1. new.name \in Names \cup {NoName, ".", ".."} /\ new.ext \in Exts
      BY <2>7 DEF EntryType
    <3>2. c \in AnyCluster
      BY <2>8, <2>10 DEF AnyCluster
    <3>3. moved \in Tables
      BY <2>4, <3>1, <3>2, TableRenamed
    <3> DEFINE t == Entries(old.cluster)
    <3>4. moved = [t EXCEPT ![0].name = new.name, ![0].ext = new.ext, ![1].cluster = c] /\ t \in Tables
      BY <2>4
    <3> HIDE DEF t, moved
    <3>5. t[0] \in EntryType /\ t[1] \in EntryType
      BY <3>4, IndexRange DEF Tables
    <3>6. (\A j \in Items : moved[j] = t[j]) /\ moved[0].used = t[0].used /\ moved[1].cluster = c
          /\ moved[0].name = new.name /\ moved[1].name = t[1].name
      BY <3>4, <3>5, IndexRange DEF Tables, EntryType
    <3> QED
      BY <3>3, <3>6 DEF t
  <2> HIDE DEF moved
  <2>12. left \in Tables /\ added \in Tables
    <3>1. i \in Indices
      BY <2>1, IndexRange
    <3> QED
      BY <2>4, <2>7, <3>1, TablesKept
  <2> HIDE DEF left, added
  <2>13. Table(moved) \in Stored /\ Table(left) \in Stored /\ Table(added) \in Stored
    BY <2>11, <2>12, StoredValues
  <2>14. q1 \in Seq(Writes)
    BY <2>13, PutTyped
  <2>15. \A b \in Clusters :
           ImageOf(disk, q1)[b] = IF old.folder /\ b = old.cluster THEN Table(moved) ELSE disk[b]
    <3> TAKE b \in Clusters
    <3>1. CASE old.folder /\ b = old.cluster
      <4>1. q1 = <<[at |-> b, content |-> Table(moved)]>>
        BY <3>1 DEF Put
      <4>2. /\ 1 \in DOMAIN q1 /\ q1[1].at = b /\ q1[1].content = Table(moved)
            /\ \A k \in DOMAIN q1 : ~(k > 1)
        BY <4>1
      <4> HIDE DEF q1
      <4> QED
        BY <2>14, <3>1, <4>2, ImageAt
    <3>2. CASE ~(old.folder /\ b = old.cluster)
      <4>1. \A k \in DOMAIN q1 : q1[k].at # b
        BY <3>2 DEF Put
      <4> HIDE DEF q1
      <4> QED
        BY <3>2, <4>1, Unwritten
    <3> QED
      BY <3>1, <3>2
  <2> HIDE DEF q1
  <2>16. \A b \in Clusters :
           /\ b = c => e[b] = Table(added)
           /\ b # c /\ b = src.parent => e[b] = Table(left)
           /\ b # c /\ b # src.parent => e[b] = ImageOf(disk, q1)[b]
    <3> TAKE b \in Clusters
    <3>1. q2 \in Seq(Writes)
      BY <2>13, <2>14, ThenTyped
    <3>2. /\ b = src.parent => ImageOf(disk, q2)[b] = Table(left)
          /\ b # src.parent => ImageOf(disk, q2)[b] = ImageOf(disk, q1)[b]
      BY <2>13, <2>14, WrittenHere, WrittenLast
    <3> HIDE DEF q2
    <3>3. /\ b = c => e[b] = Table(added)
          /\ b # c => e[b] = ImageOf(disk, q2)[b]
      BY <2>13, <3>1, WrittenHere, WrittenLast
    <3> QED
      BY <3>2, <3>3
  <2> HIDE DEF e
  <2>17. EntriesOn(e, src.parent) = left /\ EntriesOn(e, c) = added
    BY <1>2, <2>1, <2>8, <2>10, <2>16, EntriesAre
  <2>18. ASSUME NEW b \in L \ {src.parent, c}
         PROVE  /\ \A j \in Items : EntriesOn(e, b)[j] = EntriesOn(disk, b)[j]
                /\ EntriesOn(e, b)[0].used = EntriesOn(disk, b)[0].used
                /\ EntriesOn(e, b)[1].cluster =
                     IF new.folder /\ b = new.cluster THEN c ELSE EntriesOn(disk, b)[1].cluster
                /\ EntriesOn(e, b)[0].name =
                     IF new.folder /\ b = new.cluster THEN new.name ELSE EntriesOn(disk, b)[0].name
                /\ EntriesOn(e, b)[1].name = EntriesOn(disk, b)[1].name
    <3>1. b \in Clusters /\ e[b] = ImageOf(disk, q1)[b]
      BY <2>10, <2>16, <2>18
    <3>2. (old.folder <=> new.folder) /\ old.cluster = new.cluster
      BY <2>6, <2>7 DEF SameObject
    <3>3. CASE old.folder /\ b = old.cluster
      <4>1. EntriesOn(e, b) = moved
        BY <2>15, <3>1, <3>3, EntriesAre
      <4> QED
        BY <2>11, <3>2, <3>3, <4>1 DEF Entries
    <3>4. CASE ~(old.folder /\ b = old.cluster)
      <4>1. EntriesOn(e, b) = EntriesOn(disk, b)
        BY <2>15, <3>1, <3>4, EntriesAre
      <4> QED
        BY <3>2, <3>4, <4>1
    <3> QED
      BY <3>3, <3>4
  <2>19. Moves(disk, e, p, c, new)
    <3>1. new.folder => new.cluster # c
      BY <2>1, <2>7 DEF SameObject
    <3>2. EntriesOn(e, p[1]) = RemoveEntry(EntriesOn(disk, p[1]), p[2])
      BY <2>9, <2>17 DEF left, Entries
    <3>3. EntriesOn(e, c) = AddEntry(EntriesOn(disk, c), new)
      BY <2>17 DEF added, Entries
    <3> QED
      BY <2>1, <2>7, <2>9, <2>18, <3>1, <3>2, <3>3 DEF Moves
  <2>20. Cardinality(Holes(EntriesOn(disk, c))) > 1
    BY <2>1 DEF Roomy, Entries
  <2> DEFINE f == new.cluster
  <2> HIDE DEF L, f
  <2>21. /\ f = old.cluster /\ f = new.cluster /\ f \in Clusters
         /\ L = Live(disk) /\ L \in SUBSET Live(disk)
         /\ Sound(disk, fat, Live(disk)) /\ busy' = f /\ src.parent \in L /\ c \in L
         /\ old.folder => old.cluster \in L /\ c \notin BelowOn(disk, {f})
    <3>1. f = old.cluster /\ f = new.cluster
      BY <2>7 DEF SameObject, f
    <3>2. L = Live(disk) /\ SubfoldersOn(disk, L) \subseteq L /\ L \in SUBSET Clusters
      BY <1>2 DEF L, Sound
    <3>3. f \in Clusters
      <4>1. p \in PlacesIn(disk, Live(disk)) /\ Sound(disk, fat, Live(disk)) /\ At(disk, p).cluster = f
        BY <1>2, <2>9, <3>1, <3>2
      <4> HIDE DEF f
      <4>2. At(disk, p).cluster \in Clusters
        BY <4>1, OnePlace
      <4> QED
        BY <4>1, <4>2
    <3>4. old.folder => old.cluster \in L
      BY <2>9, <3>1, <3>2, <3>3, PlaceLeads
    <3>5. old.folder => c \notin BelowOn(disk, {f})
      BY <2>1, <3>1 DEF Below
    <3>6. busy' = f
      BY <1>4, <3>1 DEF MoveEntry, old
    <3> QED
      BY <1>2, <2>8, <3>1, <3>2, <3>3, <3>4, <3>5, <3>6
  <2>22. q2 \in Seq(Writes) /\ q3 \in Seq(Writes)
    <3>1. q2 \in Seq(Writes)
      BY <2>13, <2>14, ThenTyped
    <3> QED
      BY <2>13, <3>1, ThenTyped
  <2>23. AllSpare(q3, disk, fat, L, f)
    <3>1. AllSpare(q1, disk, fat, L, f)
      <4>1. CASE old.folder
        <5>1. Around(moved, f) = Around(EntriesOn(disk, old.cluster), f)
          BY <2>11 DEF Around, Entries
        <5>2. Spares([at |-> old.cluster, content |-> Table(moved)], disk, fat, L, f)
          BY <2>21, <4>1, <5>1, TableSpares
        <5>3. Then(<<>>, old.cluster, Table(moved)) = q1
          <6>1. Put(old.cluster, Table(moved)) \in Seq(Writes)
            BY <2>13, PutTyped
          <6> QED
            BY <4>1, <6>1 DEF Then, q1
        <5>4. AllSpare(<<>>, disk, fat, L, f) /\ <<>> \in Seq(Writes)
          BY NoneSpare
        <5> QED
          BY <2>13, <5>2, <5>3, <5>4, ThenSpares
      <4>2. CASE ~old.folder
        <5>1. q1 = <<>>
          BY <4>2 DEF q1
        <5> QED
          BY <5>1, NoneSpare
      <4> QED
        BY <4>1, <4>2
    <3>2. AllSpare(q2, disk, fat, L, f)
      <4>1. Around(left, f) = Around(EntriesOn(disk, src.parent), f)
        <5> DEFINE t == EntriesOn(disk, src.parent)
        <5>1. t \in Tables /\ Tidy(t) /\ t = Entries(src.parent)
          BY <1>2, EntriesTyped DEF Sound, Entries
        <5>2. i \in Items /\ t[i].used /\ t[i].cluster = f /\ left = RemoveEntry(t, i)
          BY <2>1, <2>3, <2>5, <2>21, <5>1 DEF left
        <5> HIDE DEF t
        <5>3. Around(RemoveEntry(t, i), t[i].cluster) = Around(t, t[i].cluster)
          BY <5>1, <5>2, RemovedAround
        <5> QED
          BY <5>2, <5>3 DEF t
      <4>2. Spares([at |-> src.parent, content |-> Table(left)], disk, fat, L, f)
        BY <2>21, <4>1, TableSpares
      <4> QED
        BY <2>13, <2>14, <3>1, <4>2, ThenSpares
    <3>3. Spares([at |-> c, content |-> Table(added)], disk, fat, L, f)
      <4>1. Around(added, f) = Around(EntriesOn(disk, c), f)
        <5> DEFINE t == EntriesOn(disk, c)
        <5>1. t \in Tables /\ Tidy(t) /\ t = Entries(c) /\ Cardinality(Holes(t)) > 1
          BY <1>2, <2>20, <2>21, EntriesTyped DEF Sound, Entries
        <5>2. added = AddEntry(t, new)
          BY <5>1 DEF added
        <5> HIDE DEF t
        <5>3. Around(AddEntry(t, new), new.cluster) = Around(t, new.cluster)
          BY <2>7, <5>1, AddedAround
        <5> QED
          BY <2>21, <5>2, <5>3 DEF t
      <4> QED
        BY <2>21, <4>1, TableSpares
    <3> QED
      BY <2>13, <2>22, <3>2, <3>3, ThenSpares
  <2>24. e[FAT_CLUSTER_NUMBER] = disk[FAT_CLUSTER_NUMBER]
    <3>1. FAT_CLUSTER_NUMBER \in Clusters /\ FAT_CLUSTER_NUMBER # c /\ FAT_CLUSTER_NUMBER # src.parent
          /\ (old.folder => FAT_CLUSTER_NUMBER # old.cluster)
      BY <2>21, LiveMarked, ClusterRange DEF FAT_CLUSTER_NUMBER
    <3> QED
      BY <2>15, <2>16, <3>1
  <2>25. power' # "off" /\ disk' = disk /\ fat' = fat
    BY <1>1, <1>4
  <2>26. Apart(disk, fat, L, f)
    BY <2>21, ApartLive
  <2> HIDE DEF q3
  <2>27. Sparing(L, f)
    BY <2>2, <2>21, <2>22, <2>23, <2>24, <2>25, <2>26 DEF Sparing, e
  <2>28. new.folder => c \notin BelowOn(disk, {new.cluster})
    BY <2>7, <2>21 DEF SameObject
  <2>32. \A b \in Clusters \ L : e[b] = disk[b]
    BY <2>15, <2>16, <2>21
  <2>33. src.parent # new.cluster \/ ~new.folder
    <3>1. CASE new.folder
      <4>1. At(disk, p).folder /\ At(disk, p).cluster = new.cluster /\ p \in PlacesIn(disk, Live(disk))
        BY <2>7, <2>9, <2>21, <3>1 DEF SameObject
      <4> QED
        BY <2>9, <2>21, <4>1, BelowPlace
    <3> QED
      BY <3>1
  <2>34. Heads(e, new)
    <3>1. new.folder => new.cluster # c
      BY <2>1, <2>7 DEF SameObject
    <3>2. EntriesOn(e, c)[0] = EntriesOn(disk, c)[0] /\ EntriesOn(e, c)[1] = EntriesOn(disk, c)[1]
      <4>1. EntriesOn(disk, c) \in Tables /\ Tidy(EntriesOn(disk, c))
        BY <1>2, <2>8, EntriesTyped DEF Sound, L
      <4> QED
        BY <2>7, <2>17, <2>20, <4>1, AddedIs DEF added, Entries
    <3>3. /\ EntriesOn(e, src.parent)[0] = EntriesOn(disk, src.parent)[0]
          /\ EntriesOn(e, src.parent)[1] = EntriesOn(disk, src.parent)[1]
      <4>1. EntriesOn(disk, src.parent) \in Tables /\ Tidy(EntriesOn(disk, src.parent))
            /\ EntriesOn(disk, src.parent)[i].used
        BY <1>2, <2>3, <2>5, EntriesTyped DEF Sound, Entries
      <4> QED
        BY <2>1, <2>17, <4>1, RemovedIs DEF left, Entries
    <3> QED
      BY <2>18, <2>33, <3>1, <3>2, <3>3 DEF Heads, L
  <2>29. Moving(p, c, new)
    BY <2>34, <2>2, <2>7, <2>9, <2>19, <2>20, <2>21, <2>25, <2>27, <2>28, <2>31, <2>32 DEF Moving, e
  <2> QED
    BY <1>1, <2>7, <2>29
<1> QED
  BY <1>3, <1>4 DEF CarefulMove, move

\* The tree is sound after it.
LEMMA MovingSound ==
  ASSUME DriverKept, TreeKept, Ready, NEW p, NEW c, NEW x, Moving(p, c, x)
  PROVE  TreeKept' /\ Sound(ImageOf(disk, queue'), fat, Live(disk))
<1> DEFINE e == ImageOf(disk, queue')
<1>1. disk \in [Clusters -> Stored] /\ Sound(disk, fat, Live(disk))
  BY SoundAtRest
<1>2. /\ p \in PlacesIn(disk, Live(disk)) /\ c \in Live(disk)
      /\ Cardinality(Holes(EntriesOn(disk, c))) > 1 /\ x \in EntryType /\ x.used
      /\ Moves(disk, e, p, c, x) /\ fat' = fat /\ disk' = disk /\ power' # "off"
  BY DEF Moving, Sparing
<1> HIDE DEF e
<1>3. Sound(e, fat, Live(disk))
  BY <1>1, <1>2, MovedSound
<1> QED
  BY <1>2, <1>3, KeptBySoundness DEF e

\* A disk whose root holds nothing shows nothing.
LEMMA EmptyRoot ==
  ASSUME NEW d, \A i \in Items : ~EntriesOn(d, ROOT_CLUSTER_NUMBER)[i].used
  PROVE  Places(d) = {}
<1>1. SubfoldersOn(d, {ROOT_CLUSTER_NUMBER}) = {}
  BY DEF SubfoldersOn
<1>2. Live(d) \subseteq {ROOT_CLUSTER_NUMBER}
  BY <1>1, LiveIsLeast
<1>3. PlacesIn(d, Live(d)) = {}
  BY <1>2 DEF PlacesIn, At
<1> QED
  BY <1>3, PlacesAre

\* Power-up of a machine with a disk of zeroes makes a root with nothing in it.
LEMMA BootStarts ==
  ASSUME DriverKept, TreeKept, initialize_filesystem_fat32
  PROVE  TreeKept' /\ CrashKept' /\ Places(Image') = {}
<1> DEFINE map  == [fat EXCEPT ![0] = CLUSTER_0_VALUE, ![1] = CLUSTER_1_VALUE,
                               ![2] = FAT32_FAT_END_OF_FILE]
           root == [NoEntries EXCEPT ![0] = FolderEntry(".", ROOT_CLUSTER_NUMBER),
                                     ![1] = FolderEntry("..", ROOT_CLUSTER_NUMBER)]
           q1   == Put(BOOT_SECTOR, Signature)
           q2   == Then(q1, FAT_CLUSTER_NUMBER, Fat(map))
           q3   == Then(q2, ROOT_CLUSTER_NUMBER, Table(root))
           e    == ImageOf(disk, q3)
           X    == {ROOT_CLUSTER_NUMBER}
<1>1. disk = [c \in Clusters |-> Zeroes] /\ queue = <<>> /\ disk' = disk /\ power' = "on"
  BY DEF initialize_filesystem_fat32, TreeKept
<1>2. is_empty_storage
  <2>1. disk[BOOT_SECTOR] = Zeroes
    BY <1>1, ClusterRange DEF BOOT_SECTOR
  <2>2. Zeroes.kind = "table" /\ Signature.kind = "signature"
    BY DEF Zeroes, Table, Signature
  <2> QED
    BY <2>1, <2>2 DEF is_empty_storage
<1>3. fat' = map /\ queue' = q3
  BY <1>2 DEF initialize_filesystem_fat32, create_fat32, Then
<1>4. map \in FatMaps
  <2>1. CLUSTER_1_VALUE = FAT32_FAT_END_OF_FILE
    BY SMT DEF CLUSTER_1_VALUE, FAT32_FAT_END_OF_FILE
  <2> QED
    BY <2>1, FatWordValues DEF FatMaps, DriverKept, DriverTypes
<1> HIDE DEF map
<1>5. root \in Tables /\ root[0].used /\ \A i \in Items : root[i] = NoEntry
  <2>1. FolderEntry(".", ROOT_CLUSTER_NUMBER) \in EntryType
        /\ FolderEntry("..", ROOT_CLUSTER_NUMBER) \in EntryType
    BY EntryValues, ClusterRange DEF ROOT_CLUSTER_NUMBER
  <2>2. root \in Tables
    BY <2>1, EntryValues DEF Tables
  <2>3. root[0] = FolderEntry(".", ROOT_CLUSTER_NUMBER) /\ \A i \in Items : root[i] = NoEntry
    BY IndexRange DEF NoEntries
  <2> HIDE DEF root
  <2>4. root[0].used
    BY <2>3 DEF FolderEntry
  <2> QED
    BY <2>2, <2>3, <2>4
<1> HIDE DEF root
<1>6. q1 \in Seq(Writes) /\ Fat(map) \in Stored /\ Table(root) \in Stored
  BY <1>4, <1>5, StoredValues, PutTyped
<1> HIDE DEF q1
<1>7. ROOT_CLUSTER_NUMBER \in Clusters
  BY ClusterRange DEF ROOT_CLUSTER_NUMBER
<1>8. e[ROOT_CLUSTER_NUMBER] = Table(root)
  <2>1. q2 \in Seq(Writes)
    BY <1>6, ThenTyped
  <2> HIDE DEF q2
  <2> QED
    BY <1>6, <1>7, <2>1, WrittenHere, WrittenLast
<1> HIDE DEF e
<1>9. EntriesOn(e, ROOT_CLUSTER_NUMBER) = root
  BY <1>7, <1>8, EntriesAre
<1>10. Tidy(root) /\ \A i \in Items : ~root[i].used
  BY <1>5, OnlyHoles
<1>11. PlacesIn(e, X) = {} /\ SubfoldersOn(e, X) = {}
  BY <1>9, <1>10 DEF PlacesIn, SubfoldersOn, At
<1>12. Sound(e, map, X)
  BY <1>5, <1>7, <1>9, <1>10, <1>11 DEF Sound, OwnChains
<1>13. power' # "off"
  BY <1>1
<1>14. TreeKept'
  BY <1>1, <1>3, <1>12, <1>13, KeptBySoundness DEF e
<1>15. queue' \in Seq(Writes) /\ \A k \in DOMAIN queue' :
         queue'[k].at = ROOT_CLUSTER_NUMBER => queue'[k].content = Table(root)
  <2> DEFINE w1 == [at |-> BOOT_SECTOR, content |-> Signature]
             w2 == [at |-> FAT_CLUSTER_NUMBER, content |-> Fat(map)]
             w3 == [at |-> ROOT_CLUSTER_NUMBER, content |-> Table(root)]
  <2>1. BOOT_SECTOR \in Clusters /\ FAT_CLUSTER_NUMBER \in Clusters
    BY ClusterRange DEF BOOT_SECTOR, FAT_CLUSTER_NUMBER
  <2>2. q3 \in Seq({w1, w2, w3})
    <3>1. /\ Put(BOOT_SECTOR, Signature) = <<w1>> /\ Put(FAT_CLUSTER_NUMBER, Fat(map)) = <<w2>>
          /\ Put(ROOT_CLUSTER_NUMBER, Table(root)) = <<w3>>
      BY <1>7, <2>1 DEF Put
    <3>2. q3 = (<<w1>> \o <<w2>>) \o <<w3>>
      BY <3>1 DEF Then, q1
    <3> HIDE DEF w1, w2, w3, q3
    <3> QED
      BY <3>2
  <2>3. /\ w1.at # ROOT_CLUSTER_NUMBER /\ w2.at # ROOT_CLUSTER_NUMBER
        /\ w3.content = Table(root)
    BY DEF BOOT_SECTOR, FAT_CLUSTER_NUMBER, ROOT_CLUSTER_NUMBER
  <2>4. q3 \in Seq(Writes)
    <3>1. q2 \in Seq(Writes)
      BY <1>6, ThenTyped
    <3> HIDE DEF q2
    <3> QED
      BY <1>6, <3>1, ThenTyped
  <2> HIDE DEF w1, w2, w3
  <2> HIDE DEF q3
  <2>5. \A k \in DOMAIN q3 : q3[k] \in {w1, w2, w3}
    BY <2>2
  <2> QED
    BY <1>3, <2>3, <2>4, <2>5
<1>16. Image' = ImageOf(disk, queue')
  BY <1>1 DEF Image, ImageOf, WritesTo
<1>17. Image'[FAT_CLUSTER_NUMBER] = Fat(fat')
  <2>1. FAT_CLUSTER_NUMBER \in Clusters /\ FAT_CLUSTER_NUMBER # ROOT_CLUSTER_NUMBER
    BY ClusterRange DEF FAT_CLUSTER_NUMBER, ROOT_CLUSTER_NUMBER
  <2>2. q2 \in Seq(Writes)
    BY <1>6, ThenTyped
  <2>3. ImageOf(disk, q2)[FAT_CLUSTER_NUMBER] = Fat(map)
    BY <1>6, <2>1, WrittenHere
  <2> HIDE DEF q2
  <2>4. ImageOf(disk, q3)[FAT_CLUSTER_NUMBER] = Fat(map)
    BY <1>6, <2>1, <2>2, <2>3, WrittenLast
  <2> QED
    BY <1>3, <1>16, <2>4
<1>18. ASSUME NEW r \in Seq(Writes), \A k \in DOMAIN r : k \in DOMAIN queue' /\ r[k] = queue'[k]
       PROVE  Places(ImageOf(disk, r)) = {}
  <2> DEFINE g == ImageOf(disk, r)
  <2>1. g[ROOT_CLUSTER_NUMBER] = disk[ROOT_CLUSTER_NUMBER]
        \/ \E k \in DOMAIN r : r[k].at = ROOT_CLUSTER_NUMBER /\ g[ROOT_CLUSTER_NUMBER] = r[k].content
    BY <1>7, ImageFrom
  <2> HIDE DEF g
  <2>2. g[ROOT_CLUSTER_NUMBER] = Table(root) \/ g[ROOT_CLUSTER_NUMBER] = Zeroes
    BY <1>1, <1>7, <1>15, <1>18, <2>1
  <2>3. EntriesOn(g, ROOT_CLUSTER_NUMBER) = root \/ EntriesOn(g, ROOT_CLUSTER_NUMBER) = NoEntries
    BY <1>7, <2>2, EntriesAre DEF Zeroes
  <2>4. \A i \in Items : ~NoEntries[i].used
    BY IndexRange, EntryValues DEF NoEntries
  <2> QED
    BY <1>10, <2>3, <2>4, EmptyRoot DEF g
<1>19. ASSUME NEW n \in 0 .. Len(queue')
       PROVE  Confined(ImageOf(disk', SubSeq(queue', 1, n)), Image', fat', busy')
  <2> DEFINE q == queue'
             r == SubSeq(q, 1, n)
  <2>1. q \in Seq(Writes)
    BY <1>15
  <2> HIDE DEF q
  <2>2. r \in Seq(Writes) /\ \A k \in DOMAIN r : k \in DOMAIN q /\ r[k] = q[k]
    BY <1>19, <2>1 DEF q
  <2> HIDE DEF r
  <2>3. Places(ImageOf(disk, r)) = {} /\ Places(ImageOf(disk, q)) = {}
    BY <1>18, <2>1, <2>2 DEF q
  <2>4. View(ImageOf(disk, r), FatIn(ImageOf(disk, r))) = {} /\ View(ImageOf(disk, q), fat') = {}
    BY <2>3 DEF View
  <2>5. Confined(ImageOf(disk, r), ImageOf(disk, q), fat', busy')
    BY <2>4 DEF Confined
  <2> QED
    BY <1>1, <1>16, <2>5 DEF q, r
<1>20. CrashKept'
  BY <1>17, <1>19 DEF CrashKept
<1>21. Places(Image') = {}
  <2> DEFINE q == queue'
  <2>1. q \in Seq(Writes) /\ q = queue'
    BY <1>15
  <2> HIDE DEF q
  <2>2. Places(ImageOf(disk, q)) = {}
    BY <1>18, <2>1
  <2> QED
    BY <1>16, <2>1, <2>2
<1> QED
  BY <1>14, <1>20, <1>21

\* A write that is done.
LEMMA FlushSound ==
  ASSUME DriverKept, TreeKept, Flush
  PROVE  TreeKept'
<1>1. disk \in [Clusters -> Stored] /\ queue \in Seq(Writes) /\ queue # <<>>
  BY DEF DriverKept, DriverTypes, Flush
<1>2. ImageOf(disk', queue') = ImageOf(disk, queue)
  BY <1>1, FlushedImage DEF Flush
<1>3. Image' = ImageOf(disk', queue')
  BY DEF Image, ImageOf, WritesTo
<1>4. Image' = Image
  BY <1>2, <1>3, ImageIs
<1> QED
  BY <1>4 DEF TreeKept, Flush

-----------------------------------------------------------------------------
(* What careful clients can rely on *)

\* Before power-up there is a disk of zeroes.
LEMMA TreeStart == Init => TreeKept
BY DEF Init, Fat32Init, TreeKept

\* A machine that is off has nothing pending.
LEMMA CrashStart == Init => CrashKept
BY DEF Init, Fat32Init, CrashKept

\* A step that changes nothing of the driver leaves this as it is.
LEMMA CrashStays == CrashKept /\ UNCHANGED fsVars => CrashKept'
BY DEF CrashKept, fsVars, Image

\* An operation of delete: the folder is empty, and the chain is freed.
Deleting(p, X) ==
  /\ Removing(p, X) /\ X = Live(disk) \ ClustersOf(fat, At(disk, p))
  /\ At(disk, p).folder => is_folder_empty(At(disk, p).cluster)
  /\ \A c \in ClustersOf(fat, At(disk, p)) : fat'[c] = FAT32_FAT_EMPTY_ENTRY

\* What careful clients do to the disk.
Operation ==
  \/ \E c, x : Adding(c, x)
  \/ \E p, X : Deleting(p, X)
  \/ \E p, X : Removing(p, X) /\ \E rq \in NameRequests(FolderClusters) : delete_all(rq, 0)
  \/ \E p, c, x : Moving(p, c, x)

\* Every step of careful clients but power-up and a write done is one of these, or refused.
LEMMA CarefulOperates ==
  ASSUME DriverKept, TreeKept, CarefulNext
  PROVE  initialize_filesystem_fat32 \/ Flush \/ UNCHANGED fsVars \/ (Ready /\ Operation)
<1>1. FolderClusters \in SUBSET AnyCluster
  BY ParentsTyped DEF DriverKept, DriverTypes, AnyCluster
<1>2. ASSUME NEW rq \in WriteRequests(FolderClusters), CarefulWrite(rq, WriteRefusal(rq))
      PROVE  UNCHANGED fsVars \/ (Ready /\ Operation)
  <2>1. IsWriteRequest(rq) /\ rq.parent \in FolderClusters /\ rq.size \in Sizes
    BY <1>1, RequestsTyped DEF WriteRequests
  <2>2. UNCHANGED fsVars \/ \E x : Ready /\ Adding(rq.parent, x)
    BY <1>2, <2>1, WriteAdds
  <2> QED
    BY <2>2 DEF Operation
<1>3. ASSUME NEW rq \in NameRequests(FolderClusters), NEW ret, delete(rq, ret)
      PROVE  UNCHANGED fsVars \/ (Ready /\ Operation)
  <2>1. rq.parent \in FolderClusters /\ rq.name \in Names
    BY DEF NameRequests
  <2>2. UNCHANGED fsVars \/ (Ready /\ \E p, X : Deleting(p, X))
    BY <1>3, <2>1, DeleteRemoves DEF Deleting
  <2> QED
    BY <2>2 DEF Operation
<1>4. ASSUME NEW rq \in NameRequests(FolderClusters), NEW ret, delete_all(rq, ret)
      PROVE  UNCHANGED fsVars \/ (Ready /\ Operation)
  <2>1. rq.parent \in FolderClusters /\ rq.name \in Names
    BY DEF NameRequests
  <2>2. UNCHANGED fsVars \/ (Ready /\ \E p, X : Removing(p, X))
    BY <1>4, <2>1, DeleteAllRemoves
  <2>3. CASE ret = 0
    BY <1>4, <2>2, <2>3 DEF Operation
  <2>4. CASE ret # 0
    BY <1>4, <2>4 DEF delete_all
  <2> QED
    BY <2>3, <2>4
<1>5. ASSUME NEW src \in NameRequests(FolderClusters), NEW tar \in NameRequests(FolderClusters),
             CarefulMove(src, tar, MoveRefusal(src, tar))
      PROVE  UNCHANGED fsVars \/ (Ready /\ Operation)
  <2>1. /\ IsNameRequest(src) /\ IsNameRequest(tar)
        /\ src.parent \in FolderClusters /\ tar.parent \in FolderClusters
    BY <1>1, RequestsTyped DEF NameRequests
  <2>2. UNCHANGED fsVars \/ \E p, c, x : Ready /\ Moving(p, c, x)
    BY <1>5, <2>1, MoveMoves
  <2> QED
    BY <2>2 DEF Operation
<1> QED
  BY <1>2, <1>3, <1>4, <1>5 DEF CarefulNext

\* Each of these keeps the tree, and what a machine that stops leaves is confined.
LEMMA OperationKeeps ==
  ASSUME DriverKept, TreeKept, CrashKept, Ready, Operation
  PROVE  TreeKept' /\ CrashKept'
<1>1. ASSUME NEW c, NEW x, Adding(c, x) PROVE TreeKept' /\ CrashKept'
  <2>1. Sparing(Live(disk), x.cluster)
    BY <1>1 DEF Adding
  <2> QED
    BY <1>1, <2>1, AddingSound, SparingConfined
<1>2. ASSUME NEW p, NEW X, Removing(p, X) PROVE TreeKept' /\ CrashKept'
  <2>1. PICK K : Sparing(K, At(disk, p).cluster)
    BY <1>2 DEF Removing
  <2> QED
    BY <1>2, <2>1, RemovingSound, SparingConfined
<1>3. ASSUME NEW p, NEW c, NEW x, Moving(p, c, x) PROVE TreeKept' /\ CrashKept'
  <2>1. Sparing(Live(disk), x.cluster)
    BY <1>3 DEF Moving
  <2> QED
    BY <1>3, <2>1, MovingSound, SparingConfined
<1> QED
  BY <1>1, <1>2, <1>3 DEF Operation, Deleting

\* Careful clients keep types and FAT, as all do.
LEMMA CarefulKeeps == DriverKept /\ [CarefulNext]_systemVars => DriverKept'
<1> SUFFICES ASSUME DriverKept, [CarefulNext]_systemVars PROVE DriverKept'
  OBVIOUS
<1>1. FolderClusters \in SUBSET AnyCluster
  BY ParentsTyped DEF DriverKept, DriverTypes, AnyCluster
<1>2. CASE initialize_filesystem_fat32
  BY <1>2, BootKeeps
<1>3. CASE Flush
  BY <1>3, FlushKeepsFat
<1>4. ASSUME NEW rq \in WriteRequests(FolderClusters), CarefulWrite(rq, WriteRefusal(rq))
      PROVE  DriverKept'
  <2>1. IsWriteRequest(rq) /\ rq.parent \in FolderClusters
    BY <1>1, RequestsTyped DEF WriteRequests
  <2> QED
    BY <1>4, <2>1, WriteKeeps DEF CarefulWrite
<1>5. ASSUME NEW rq \in NameRequests(FolderClusters), NEW ret, delete(rq, ret)
      PROVE  DriverKept'
  <2>1. rq.parent \in FolderClusters /\ rq.name \in Names
    BY DEF NameRequests
  <2> QED
    BY <1>5, <2>1, DeleteKeeps
<1>6. ASSUME NEW rq \in NameRequests(FolderClusters), NEW ret, delete_all(rq, ret)
      PROVE  DriverKept'
  <2>1. rq.parent \in FolderClusters /\ rq.name \in Names
    BY DEF NameRequests
  <2> QED
    BY <1>6, <2>1, DeleteAllKeeps
<1>7. ASSUME NEW src \in NameRequests(FolderClusters), NEW tar \in NameRequests(FolderClusters),
             CarefulMove(src, tar, MoveRefusal(src, tar))
      PROVE  DriverKept'
  <2>1. /\ IsNameRequest(src) /\ IsNameRequest(tar)
        /\ src.parent \in FolderClusters /\ tar.parent \in FolderClusters
    BY <1>1, RequestsTyped DEF NameRequests
  <2> QED
    BY <1>7, <2>1, MoveKeeps DEF CarefulMove
<1>8. CASE UNCHANGED systemVars
  BY <1>8 DEF systemVars, fsVars, DriverKept, DriverTypes, FatKept
<1> QED
  BY <1>2, <1>3, <1>4, <1>5, <1>6, <1>7, <1>8 DEF CarefulNext

\* Every step of the machine and of careful clients keeps types, FAT, tree and confinement.
LEMMA CarefulStep ==
  DriverKept /\ TreeKept /\ CrashKept /\ [CarefulNext]_systemVars
    => (DriverKept /\ TreeKept /\ CrashKept)'
<1> SUFFICES ASSUME DriverKept, TreeKept, CrashKept, [CarefulNext]_systemVars
             PROVE  DriverKept' /\ TreeKept' /\ CrashKept'
  OBVIOUS
<1>1. DriverKept'
  BY CarefulKeeps
<1>2. CASE UNCHANGED fsVars
  BY <1>1, <1>2, TreeStays, CrashStays
<1>3. CASE initialize_filesystem_fat32
  BY <1>1, <1>3, BootStarts
<1>4. CASE Flush
  BY <1>1, <1>4, FlushSound, FlushConfined
<1>5. CASE Ready /\ Operation
  BY <1>1, <1>5, OperationKeeps
<1>6. CASE UNCHANGED systemVars
  BY <1>2, <1>6 DEF systemVars
<1> QED
  BY <1>1, <1>2, <1>3, <1>4, <1>5, <1>6, CarefulOperates

\* On a disk of zeroes there are none.
LEMMA NoPlaces ==
  ASSUME TreeKept, power = "off"
  PROVE  Places(Image) = {}
<1>1. \A c \in Clusters : ImageOf(disk, queue)[c] = Zeroes
  BY Unwritten DEF TreeKept
<1> QED
  BY <1>1, ImageIs, ZeroesShowNothing

\* The disk of a machine that runs is sound; before that nothing is on it.
LEMMA PlacesSound ==
  ASSUME TreeKept, NEW p \in Places(Image)
  PROVE  Sound(Image, fat, Live(Image)) /\ p \in PlacesIn(Image, Live(Image))
BY NoPlaces, PlacesAre DEF TreeKept

\* What the invariant says of chains.
LEMMA KeptIsChainsOwn == TreeKept => ChainsOwn
<1> SUFFICES ASSUME TreeKept, NEW p \in Places(Image)
             PROVE  LET e == At(Image, p)
                    IN  /\ Ends(fat, e.cluster)
                        /\ Len(Chain(fat, e.cluster)) = ClustersFor(e)
                        /\ \A c \in ClustersOf(fat, e) : c >= 3
                        /\ \A q \in Places(Image) \ {p} :
                             ClustersOf(fat, e) \cap ClustersOf(fat, At(Image, q)) = {}
  BY DEF ChainsOwn
<1>1. p \in PlacesIn(Image, Live(Image)) /\ Sound(Image, fat, Live(Image))
  BY PlacesSound
<1>2. /\ Owned(fat, At(Image, p))
      /\ \A q \in Places(Image) \ {p} :
           ClustersOf(fat, At(Image, p)) \cap ClustersOf(fat, At(Image, q)) = {}
  BY <1>1, PlacesAre DEF Sound, OwnChains
<1>3. Ends(fat, At(Image, p).cluster)
  BY <1>2, ChainOf DEF Owned
<1>4. \A c \in ClustersOf(fat, At(Image, p)) : c >= 3
  BY <1>2, OwnedClusters
<1> QED
  BY <1>2, <1>3, <1>4 DEF Owned

\* What it says of the way up.
LEMMA KeptIsParentLinks == TreeKept => ParentLinks
<1> SUFFICES ASSUME TreeKept, NEW p \in Places(Image), At(Image, p).folder
             PROVE  EntriesOn(Image, At(Image, p).cluster)[1].cluster = p[1]
  BY DEF ParentLinks
<1> QED
  BY PlacesSound DEF Sound

\* What a request for all there can be of an entry copies: the whole chain.
LEMMA CopiesChain ==
  ASSUME NEW e, Owned(fat, e)
  PROVE  copy_long_cluster(e.cluster, CLUSTER_SIZE * CLUSTER_MAP_SIZE) = Chain(fat, e.cluster)
<1> DEFINE s == Chain(fat, e.cluster)
           w == CLUSTER_SIZE
           m == CLUSTER_MAP_SIZE
<1>1. s \in Seq(Clusters) /\ Len(s) \in Nat /\ Len(s) <= m /\ m \in Nat
  <2>1. Linked(fat, s)
    BY DEF Owned
  <2> HIDE DEF s
  <2>2. Len(s) <= m
    BY <2>1, LinkedShort
  <2>3. s \in Seq(Clusters)
    BY <2>1 DEF Linked
  <2> QED
    BY <2>2, <2>3, ClusterRange
<1>2. (w * m) % w = 0 /\ (w * m) \div w = m
  <2>1. w \in Nat \ {0} /\ m \in Int /\ 0 \in 0 .. w - 1
    BY Fat32Assumption, <1>1
  <2> HIDE DEF w, m
  <2>2. w * m + 0 = w * m
    BY <2>1
  <2>3. (w * m + 0) % w = 0 /\ (w * m + 0) \div w = m
    BY <2>1, ModUnique
  <2> QED
    BY <2>2, <2>3
<1>3. copy_long_cluster(e.cluster, w * m) = SubSeq(s, 1, Min({m, Len(s)}))
  BY <1>2, Zenon DEF copy_long_cluster
<1> HIDE DEF s, w, m
<1>4. Min({m, Len(s)}) = Len(s)
  <2>1. {m, Len(s)} \in SUBSET Nat
    BY <1>1
  <2>2. Min({m, Len(s)}) \in {m, Len(s)} /\ \A y \in {m, Len(s)} : Min({m, Len(s)}) <= y
    BY <2>1, MinIsLeast
  <2> QED
    BY <1>1, <2>2
<1>5. SubSeq(s, 1, Len(s)) = s
  BY <1>1
<1> QED
  BY <1>3, <1>4, <1>5 DEF s, w, m

\* The only entry of a folder with its name is what read and read_directory find.
LEMMA OnlyHit ==
  ASSUME disk \in [Clusters -> Stored], Sound(disk, fat, Live(disk)),
         NEW p \in Places(disk), NEW rq, rq.parent = p[1], rq.name = At(disk, p).name,
         \A q \in Places(disk) \ {p} : q[1] = p[1] => At(disk, q).name # At(disk, p).name
  PROVE  /\ Entries(p[1])[0].used /\ ReadIndices(Entries(p[1]), rq) = {p[2]}
         /\ Min({p[2]}) = p[2] /\ Entries(p[1])[p[2]] = At(disk, p)
<1> DEFINE t == Entries(p[1])
           i == p[2]
<1>1. /\ p \in PlacesIn(disk, Live(disk)) /\ p[1] \in Live(disk) /\ i \in Items
      /\ p = <<p[1], i>> /\ At(disk, p) = t[i] /\ t[i].used
  BY PlacesAre DEF PlacesIn, At, Entries
<1>2. t[0].used /\ Tidy(t)
  BY <1>1 DEF Sound, Entries
<1>3. i < FirstHole(t)
  <2>1. ~(i >= FirstHole(t))
    BY <1>1, <1>2 DEF Tidy
  <2>2. FirstHole(t) \in Nat /\ i \in Nat
    BY <1>1, FirstHoleIs, IndexRange
  <2> HIDE DEF i
  <2> QED
    BY <2>1, <2>2
<1>4. i \in ReadIndices(t, rq)
  BY <1>1, <1>3 DEF ReadIndices
<1>5. ASSUME NEW j \in ReadIndices(t, rq), j # i PROVE FALSE
  <2> DEFINE q == <<p[1], j>>
  <2>1. j \in Items /\ j < FirstHole(t) /\ t[j].name = At(disk, p).name
    BY DEF ReadIndices
  <2>2. t[j].used
    BY <2>1, FirstHoleIs
  <2>3. q \in PlacesIn(disk, Live(disk)) /\ At(disk, q) = t[j] /\ q[1] = p[1] /\ q # p
    BY <1>1, <1>5, <2>1, <2>2 DEF PlacesIn, At, Entries
  <2>4. q \in Places(disk) \ {p}
    BY <2>3, PlacesAre
  <2> QED
    BY <2>1, <2>3, <2>4
<1>6. Min({i}) = i
  <2>1. i \in Nat
    BY <1>1, IndexRange
  <2> HIDE DEF i
  <2> QED
    BY <2>1, MinIsLeast
<1> QED
  BY <1>1, <1>2, <1>4, <1>5, <1>6

\* What it says of reading.
LEMMA KeptIsFilesReadBack == DriverKept /\ TreeKept => FilesReadBack
<1> DEFINE rq(e, p) == [parent |-> p[1], name |-> e.name, ext |-> e.ext,
                        size |-> CLUSTER_SIZE * CLUSTER_MAP_SIZE]
           done(e)  == [ret |-> 0, clusters |-> Chain(fat, e.cluster)]
<1> SUFFICES ASSUME DriverKept, TreeKept, Ready, NEW p \in Places(disk),
                    \A q \in Places(disk) \ {p} : q[1] = p[1] => At(disk, q).name # At(disk, p).name
             PROVE  LET e == At(disk, p)
                    IN  IF e.folder THEN read_directory(rq(e, p)) = done(e)
                        ELSE /\ read(rq(e, p)) = done(e)
                             /\ read_directory(rq(e, p)) = [ret |-> 1, clusters |-> <<>>]
  BY DEF FilesReadBack
<1> DEFINE e == At(disk, p)
           r == rq(e, p)
           t == Entries(p[1])
<1>1. disk \in [Clusters -> Stored] /\ Sound(disk, fat, Live(disk))
  BY SoundAtRest
<1>2. Owned(fat, e)
  BY <1>1, PlacesAre DEF Sound, OwnChains
<1>3. copy_long_cluster(e.cluster, r.size) = Chain(fat, e.cluster)
  BY <1>2, CopiesChain
<1>4. r.parent = p[1] /\ r.name = e.name /\ r.ext = e.ext
  OBVIOUS
<1> HIDE DEF r
<1>5. /\ t[0].used /\ ReadIndices(t, r) = {p[2]} /\ t[Min(ReadIndices(t, r))] = e
  BY <1>1, <1>4, OnlyHit
<1>6. read(r) = done(e)
  BY <1>3, <1>4, <1>5 DEF read
<1>7. read_directory(r) = IF e.folder THEN done(e) ELSE [ret |-> 1, clusters |-> <<>>]
  BY <1>3, <1>4, <1>5 DEF read_directory
<1> QED
  BY <1>6, <1>7 DEF r

-----------------------------------------------------------------------------
(* Clusters that are marked and belong to nothing *)

\* The live folders are among those of Z if what these name is.
LEMMA LiveWithin ==
  ASSUME NEW d, NEW Z, ROOT_CLUSTER_NUMBER \in Z,
         \A p \in PlacesIn(d, Live(d)) : p[1] \in Z /\ At(d, p).folder => At(d, p).cluster \in Z
  PROVE  Live(d) \subseteq Z
<1> DEFINE X == Live(d) \cap Z
<1>1. ROOT_CLUSTER_NUMBER \in X
  BY LiveIsLeast
<1>2. ASSUME NEW b \in SubfoldersOn(d, X) PROVE b \in X
  <2>1. PICK p \in PlacesIn(d, X) : At(d, p).folder /\ At(d, p).cluster = b
    BY SubfolderPlace
  <2>2. p \in PlacesIn(d, Live(d)) /\ p[1] \in Z
    BY <2>1 DEF PlacesIn
  <2>3. b \in Clusters
    BY <1>2 DEF SubfoldersOn
  <2>4. b \in Live(d)
    BY <2>1, <2>2, <2>3, LiveIsLeast, PlaceLeads
  <2> QED
    BY <2>1, <2>2, <2>4
<1> HIDE DEF X
<1>3. Live(d) \subseteq X
  BY <1>1, <1>2, LiveIsLeast
<1> QED
  BY <1>3 DEF X

\* An entry in use of a live folder stands at a place, and leads to a live folder if to any.
LEMMA EntryStands ==
  ASSUME NEW e, NEW c \in Live(e), NEW i \in Items, EntriesOn(e, c)[i].used
  PROVE  /\ <<c, i>> \in PlacesIn(e, Live(e)) /\ At(e, <<c, i>>) = EntriesOn(e, c)[i]
         /\ EntriesOn(e, c)[i].folder /\ EntriesOn(e, c)[i].cluster \in Clusters
              => EntriesOn(e, c)[i].cluster \in Live(e)
<1>1. <<c, i>> \in PlacesIn(e, Live(e)) /\ At(e, <<c, i>>) = EntriesOn(e, c)[i]
  BY DEF PlacesIn, At
<1> QED
  BY <1>1, LiveIsLeast, PlaceLeads

\* No cluster is lost if those of every entry are freed, or are still those of an entry, and if
\* what is newly marked belongs to one.
LEMMA LeaksNoMore ==
  ASSUME NEW d, NEW map, OwnChains(d, map, PlacesIn(d, Live(d))), NEW e, NEW new,
         \A q \in PlacesIn(d, Live(d)) :
           \/ \A c \in ClustersOf(map, At(d, q)) : new[c] = FAT32_FAT_EMPTY_ENTRY
           \/ /\ \A c \in ClustersOf(map, At(d, q)) : new[c] = map[c]
              /\ \E r \in PlacesIn(e, Live(e)) : SameObject(At(d, q), At(e, r)),
         \A c \in Clusters :
           c >= 3 /\ new[c] # map[c] =>
             \/ new[c] = FAT32_FAT_EMPTY_ENTRY
             \/ \E r \in PlacesIn(e, Live(e)) : c \in ClustersOf(new, At(e, r))
  PROVE  LeakedOn(e, new) \subseteq LeakedOn(d, map)
<1> SUFFICES ASSUME NEW c \in LeakedOn(e, new) PROVE c \in LeakedOn(d, map)
  OBVIOUS
<1>1. /\ c \in Clusters /\ c >= 3 /\ new[c] # FAT32_FAT_EMPTY_ENTRY
      /\ \A r \in PlacesIn(e, Live(e)) : c \notin ClustersOf(new, At(e, r))
  BY PlacesAre DEF LeakedOn
<1>2. new[c] = map[c]
  BY <1>1
<1>3. ASSUME NEW q \in PlacesIn(d, Live(d)), c \in ClustersOf(map, At(d, q)) PROVE FALSE
  <2>1. /\ \A b \in ClustersOf(map, At(d, q)) : new[b] = map[b]
        /\ \E r \in PlacesIn(e, Live(e)) : SameObject(At(d, q), At(e, r))
    BY <1>1, <1>3
  <2>2. PICK r \in PlacesIn(e, Live(e)) : SameObject(At(d, q), At(e, r))
    BY <2>1
  <2>3. Owned(map, At(d, q))
    BY DEF OwnChains
  <2>4. ClustersOf(new, At(e, r)) = ClustersOf(map, At(d, q))
    BY <2>1, <2>2, <2>3, OwnedKept
  <2> QED
    BY <1>1, <1>3, <2>2, <2>4
<1> QED
  BY <1>1, <1>2, <1>3, PlacesAre DEF LeakedOn

\* A new entry loses none.
LEMMA LinkedLeaks ==
  ASSUME NEW d \in [Clusters -> Stored], NEW map, Sound(d, map, Live(d)),
         NEW c \in Live(d), Cardinality(Holes(EntriesOn(d, c))) > 1,
         NEW x \in EntryType, x.used, NEW e, NEW new, Links(d, map, e, new, c, x)
  PROVE  LeakedOn(e, new) \subseteq LeakedOn(d, map)
<1> DEFINE L == Live(d)
           P == PlacesIn(d, L)
           t == EntriesOn(d, c)
           hole == FirstHole(t)
<1>1. OwnChains(d, map, P) /\ t \in Tables /\ Tidy(t)
  BY EntriesTyped DEF Sound
<1>2. /\ \A b \in L : EntriesOn(e, b) = IF b = c THEN AddEntry(t, x) ELSE EntriesOn(d, b)
      /\ ClustersOf(new, x) \subseteq EmptyClusters(map)
      /\ \A b \in Clusters : b \notin ClustersOf(new, x) => new[b] = map[b]
  BY DEF Links
<1> HIDE DEF t
<1>3. /\ hole \in Items /\ ~t[hole].used /\ AddEntry(t, x)[hole] = x
      /\ \A j \in Items : j # hole => AddEntry(t, x)[j] = t[j]
  BY <1>1, AddedIs DEF t
<1> HIDE DEF hole
<1>4. ASSUME NEW q \in P PROVE q[1] \in L /\ q[2] \in Items /\ At(d, q).used
                               /\ EntriesOn(e, q[1])[q[2]] = At(d, q)
  <2>1. q[1] \in L /\ q[2] \in Items /\ At(d, q).used /\ At(d, q) = EntriesOn(d, q[1])[q[2]]
    BY DEF PlacesIn, At
  <2>2. CASE q[1] = c
    <3>1. At(d, q) = t[q[2]]
      BY <2>1, <2>2 DEF t
    <3>2. q[2] # hole
      BY <1>3, <2>1, <3>1
    <3> QED
      BY <1>2, <1>3, <2>1, <2>2, <3>1, <3>2
  <2>3. CASE q[1] # c
    BY <1>2, <2>1, <2>3
  <2> QED
    BY <2>1, <2>2, <2>3
<1>5. L \subseteq Live(e)
  <2>1. ASSUME NEW q \in P, q[1] \in Live(e), At(d, q).folder PROVE At(d, q).cluster \in Live(e)
    <3>1. At(d, q).cluster \in Clusters
      BY OnePlace
    <3> QED
      BY <1>4, <2>1, <3>1, EntryStands
  <2>2. ROOT_CLUSTER_NUMBER \in Live(e)
    BY LiveIsLeast
  <2> QED
    BY <2>1, <2>2, LiveWithin
<1>6. ASSUME NEW q \in P
      PROVE  /\ \A b \in ClustersOf(map, At(d, q)) : new[b] = map[b]
             /\ \E r \in PlacesIn(e, Live(e)) : SameObject(At(d, q), At(e, r))
  <2>1. Owned(map, At(d, q))
    BY <1>1 DEF OwnChains
  <2>2. \A b \in ClustersOf(map, At(d, q)) : b \in Clusters /\ b \notin EmptyClusters(map)
    BY <2>1, OwnedClusters
  <2>3. <<q[1], q[2]>> \in PlacesIn(e, Live(e)) /\ At(e, <<q[1], q[2]>>) = At(d, q)
    BY <1>4, <1>5, EntryStands
  <2> QED
    BY <1>2, <2>2, <2>3 DEF SameObject
<1>7. ASSUME NEW b \in Clusters, new[b] # map[b]
      PROVE  \E r \in PlacesIn(e, Live(e)) : b \in ClustersOf(new, At(e, r))
  <2>1. b \in ClustersOf(new, x)
    BY <1>2, <1>7
  <2>2. EntriesOn(e, c)[hole] = x /\ c \in Live(e)
    BY <1>2, <1>3, <1>5
  <2>3. <<c, hole>> \in PlacesIn(e, Live(e)) /\ At(e, <<c, hole>>) = x
    BY <1>3, <2>2, EntryStands
  <2> QED
    BY <2>1, <2>3
<1> QED
  BY <1>1, <1>6, <1>7, LeaksNoMore

\* Nor does an entry removed whose chain is freed.
LEMMA UnlinkedLeaks ==
  ASSUME NEW d \in [Clusters -> Stored], NEW map, Sound(d, map, Live(d)),
         NEW p \in PlacesIn(d, Live(d)), NEW e, NEW new,
         Unlinks(d, map, e, new, Live(d) \ ClustersOf(map, At(d, p)), p),
         p[1] \notin ClustersOf(map, At(d, p)),
         At(d, p).folder => \A i \in Items : ~EntriesOn(d, At(d, p).cluster)[i].used,
         \A c \in ClustersOf(map, At(d, p)) : new[c] = FAT32_FAT_EMPTY_ENTRY
  PROVE  LeakedOn(e, new) \subseteq LeakedOn(d, map)
<1> DEFINE L == Live(d)
           P == PlacesIn(d, L)
           C == ClustersOf(map, At(d, p))
           t == EntriesOn(d, p[1])
           i == p[2]
<1>1. OwnChains(d, map, P) /\ t \in Tables /\ Tidy(t) /\ p[1] \in L /\ i \in Items /\ t[i].used
      /\ At(d, p) = t[i]
  BY EntriesTyped DEF Sound, PlacesIn, At
<1>2. /\ \A b \in L \ C : EntriesOn(e, b) = IF b = p[1] THEN RemoveEntry(t, i) ELSE EntriesOn(d, b)
      /\ \A b \in Clusters : b \notin C => new[b] = map[b]
  BY DEF Unlinks
<1>3. Owned(map, At(d, p)) /\ At(d, p).cluster \in C
  <2>1. Owned(map, At(d, p))
    BY <1>1 DEF OwnChains
  <2> QED
    BY <2>1, OwnedClusters
<1> HIDE DEF t, i, C
<1>4. \A k \in Items : k # i => \E j \in Items : RemoveEntry(t, i)[j] = t[k]
  BY <1>1, RemovedIs
<1>5. ASSUME NEW q \in P, q # p
      PROVE  /\ q[1] \in L /\ q[1] \notin C /\ At(d, q).used
             /\ \E j \in Items : EntriesOn(e, q[1])[j] = At(d, q)
  <2>1. q = <<q[1], q[2]>> /\ p = <<p[1], i>>
        /\ q[1] \in L /\ q[2] \in Items /\ At(d, q).used /\ At(d, q) = EntriesOn(d, q[1])[q[2]]
    BY DEF PlacesIn, At, i
  <2>2. q[1] \notin C
    <3>1. SUFFICES ASSUME q[1] \in C PROVE FALSE
      OBVIOUS
    <3>2. At(d, p).folder /\ q[1] = At(d, p).cluster
      BY <2>1, <3>1, OnePlace DEF C
    <3> QED
      BY <2>1, <3>2
  <2>3. CASE q[1] = p[1]
    <3>1. q[2] # i /\ At(d, q) = t[q[2]]
      BY <1>5, <2>1, <2>3 DEF t
    <3> QED
      BY <1>2, <1>4, <2>1, <2>2, <2>3, <3>1
  <2>4. CASE q[1] # p[1]
    BY <1>2, <2>1, <2>2, <2>4
  <2> QED
    BY <2>1, <2>2, <2>3, <2>4
<1>6. L \subseteq Live(e) \cup C
  <2>1. ASSUME NEW q \in P, q[1] \in Live(e) \cup C, At(d, q).folder
        PROVE  At(d, q).cluster \in Live(e) \cup C
    <3>1. CASE q = p
      BY <1>3, <3>1
    <3>2. CASE q # p
      <4>1. q[1] \in Live(e) /\ At(d, q).used
        BY <1>5, <2>1, <3>2
      <4>2. PICK j \in Items : EntriesOn(e, q[1])[j] = At(d, q)
        BY <1>5, <3>2
      <4>3. At(d, q).cluster \in Clusters
        BY OnePlace
      <4> QED
        BY <2>1, <4>1, <4>2, <4>3, EntryStands
    <3> QED
      BY <3>1, <3>2
  <2>2. ROOT_CLUSTER_NUMBER \in Live(e) \cup C
    BY LiveIsLeast
  <2> QED
    BY <2>1, <2>2, LiveWithin
<1>7. ASSUME NEW q \in P, q # p
      PROVE  /\ \A b \in ClustersOf(map, At(d, q)) : new[b] = map[b]
             /\ \E r \in PlacesIn(e, Live(e)) : SameObject(At(d, q), At(e, r))
  <2>1. Owned(map, At(d, q)) /\ ClustersOf(map, At(d, q)) \cap C = {}
    BY <1>1, <1>7 DEF OwnChains, C
  <2>2. \A b \in ClustersOf(map, At(d, q)) : b \in Clusters /\ b \notin C
    BY <2>1, OwnedClusters
  <2>3. q[1] \in Live(e) /\ At(d, q).used
    BY <1>5, <1>6, <1>7
  <2>4. PICK j \in Items : EntriesOn(e, q[1])[j] = At(d, q)
    BY <1>5, <1>7
  <2>5. <<q[1], j>> \in PlacesIn(e, Live(e)) /\ At(e, <<q[1], j>>) = At(d, q)
    BY <2>3, <2>4, EntryStands
  <2> QED
    BY <1>2, <2>2, <2>5 DEF SameObject
<1>8. \A c \in ClustersOf(map, At(d, p)) : new[c] = FAT32_FAT_EMPTY_ENTRY
  OBVIOUS
<1>9. \A c \in Clusters : new[c] # map[c] => new[c] = FAT32_FAT_EMPTY_ENTRY
  BY <1>2, <1>8 DEF C
<1> QED
  BY <1>1, <1>7, <1>8, <1>9, LeaksNoMore

\* Nor one that moves.
LEMMA MovedLeaks ==
  ASSUME NEW d \in [Clusters -> Stored], NEW map, Sound(d, map, Live(d)),
         NEW p \in PlacesIn(d, Live(d)),
         NEW c \in Live(d), Cardinality(Holes(EntriesOn(d, c))) > 1,
         NEW x \in EntryType, x.used, NEW e, Moves(d, e, p, c, x),
         x.folder => c \notin BelowOn(d, {x.cluster})
  PROVE  LeakedOn(e, map) \subseteq LeakedOn(d, map)
<1> DEFINE L == Live(d)
           P == PlacesIn(d, L)
           t == EntriesOn(d, p[1])
           i == p[2]
           u == EntriesOn(d, c)
           hole == FirstHole(u)
<1>1. /\ OwnChains(d, map, P) /\ t \in Tables /\ Tidy(t) /\ p[1] \in L /\ i \in Items /\ t[i].used
      /\ p = <<p[1], i>> /\ u \in Tables /\ Tidy(u)
  BY EntriesTyped DEF Sound, PlacesIn, At
<1>2. /\ SameObject(At(d, p), x) /\ c # p[1]
      /\ EntriesOn(e, p[1]) = RemoveEntry(t, i) /\ EntriesOn(e, c) = AddEntry(u, x)
      /\ \A b \in L \ {p[1], c}, j \in Items : EntriesOn(e, b)[j] = EntriesOn(d, b)[j]
  BY DEF Moves
<1> HIDE DEF t, u
<1>3. /\ hole \in Items /\ ~u[hole].used /\ AddEntry(u, x)[hole] = x
      /\ \A j \in Items : j # hole => AddEntry(u, x)[j] = u[j]
  BY <1>1, AddedIs DEF u
<1> HIDE DEF hole, i
<1>4. \A k \in Items : k # i => \E j \in Items : RemoveEntry(t, i)[j] = t[k]
  BY <1>1, RemovedIs
<1>5. ASSUME NEW q \in P, q # p
      PROVE  q[1] \in L /\ At(d, q).used /\ \E j \in Items : EntriesOn(e, q[1])[j] = At(d, q)
  <2>1. q = <<q[1], q[2]>>
        /\ q[1] \in L /\ q[2] \in Items /\ At(d, q).used /\ At(d, q) = EntriesOn(d, q[1])[q[2]]
    BY DEF PlacesIn, At
  <2>2. CASE q[1] = p[1]
    <3>1. q[2] # i /\ At(d, q) = t[q[2]]
      BY <1>1, <1>5, <2>1, <2>2 DEF t
    <3> QED
      BY <1>2, <1>4, <2>1, <2>2, <3>1
  <2>3. CASE q[1] = c
    <3>1. At(d, q) = u[q[2]]
      BY <2>1, <2>3 DEF u
    <3>2. q[2] # hole
      BY <1>3, <2>1, <3>1
    <3> QED
      BY <1>2, <1>3, <2>1, <2>3, <3>1, <3>2
  <2>4. CASE q[1] # p[1] /\ q[1] # c
    BY <1>2, <2>1, <2>4
  <2> QED
    BY <2>1, <2>2, <2>3, <2>4
<1>6. ASSUME NEW q \in P, q # p, q[1] \in Live(e), At(d, q).folder
      PROVE  At(d, q).cluster \in Live(e)
  <2>1. At(d, q).used
    BY <1>5, <1>6
  <2>2. PICK j \in Items : EntriesOn(e, q[1])[j] = At(d, q)
    BY <1>5, <1>6
  <2>3. At(d, q).cluster \in Clusters
    BY OnePlace
  <2> QED
    BY <1>6, <2>1, <2>2, <2>3, EntryStands
<1> DEFINE f == x.cluster
           B == IF x.folder THEN BelowOn(d, {f}) ELSE {}
<1>7. f \in Clusters /\ At(d, p).cluster = f /\ (At(d, p).folder <=> x.folder)
  BY <1>2, OnePlace DEF SameObject
<1>8. c \notin B /\ (x.folder => f \in B) /\ SubfoldersOn(d, B) \subseteq B
  <2>1. {f} \in SUBSET Clusters
    BY <1>7
  <2>2. f \in BelowOn(d, {f}) /\ SubfoldersOn(d, BelowOn(d, {f})) \subseteq BelowOn(d, {f})
    BY <2>1, BelowIsLeast
  <2>3. SubfoldersOn(d, {}) = {}
    BY DEF SubfoldersOn
  <2> QED
    BY <2>2, <2>3
<1> HIDE DEF B
<1>9. ROOT_CLUSTER_NUMBER \in Live(e)
  BY LiveIsLeast
<1>10. L \subseteq Live(e) \cup B
  <2>1. ASSUME NEW q \in P, q[1] \in Live(e) \cup B, At(d, q).folder
        PROVE  At(d, q).cluster \in Live(e) \cup B
    <3>1. CASE q = p
      BY <1>7, <1>8, <2>1, <3>1
    <3>2. CASE q[1] \in B
      <4>1. At(d, q).cluster \in Clusters
        BY OnePlace
      <4>2. At(d, q).cluster \in SubfoldersOn(d, B)
        BY <2>1, <3>2, <4>1 DEF SubfoldersOn, PlacesIn, At
      <4> QED
        BY <1>8, <4>2
    <3>3. CASE q # p /\ q[1] \in Live(e)
      BY <1>6, <2>1, <3>3
    <3> QED
      BY <2>1, <3>1, <3>2, <3>3
  <2> QED
    BY <1>9, <2>1, LiveWithin
<1>11. c \in Live(e)
  BY <1>8, <1>10
<1>12. /\ <<c, hole>> \in PlacesIn(e, Live(e)) /\ At(e, <<c, hole>>) = x
       /\ x.folder => f \in Live(e)
  BY <1>2, <1>3, <1>7, <1>11, EntryStands
<1>13. L \subseteq Live(e)
  <2>1. ASSUME NEW q \in P, q[1] \in Live(e), At(d, q).folder PROVE At(d, q).cluster \in Live(e)
    BY <1>6, <1>7, <1>12, <2>1
  <2> QED
    BY <1>9, <2>1, LiveWithin
<1>14. ASSUME NEW q \in P
       PROVE  \E r \in PlacesIn(e, Live(e)) : SameObject(At(d, q), At(e, r))
  <2>1. CASE q = p
    BY <1>2, <1>12, <2>1
  <2>2. CASE q # p
    <3>1. q[1] \in Live(e) /\ At(d, q).used
      BY <1>5, <1>13, <2>2
    <3>2. PICK j \in Items : EntriesOn(e, q[1])[j] = At(d, q)
      BY <1>5, <2>2
    <3>3. <<q[1], j>> \in PlacesIn(e, Live(e)) /\ At(e, <<q[1], j>>) = At(d, q)
      BY <3>1, <3>2, EntryStands
    <3> QED
      BY <3>3 DEF SameObject
  <2> QED
    BY <2>1, <2>2
<1> QED
  BY <1>1, <1>14, LeaksNoMore

\* No step of careful clients but delete_all loses clusters.
LEMMA OperationLeaks ==
  ASSUME DriverKept, TreeKept, Ready, Operation
  PROVE  \/ LeakedOn(Image', fat') \subseteq LeakedOn(disk, fat)
         \/ \E rq \in NameRequests(FolderClusters) : delete_all(rq, 0)
<1> DEFINE e == ImageOf(disk, queue')
           new == fat'
<1>1. disk \in [Clusters -> Stored] /\ Sound(disk, fat, Live(disk))
  BY SoundAtRest
<1>2. ASSUME disk' = disk PROVE Image' = e
  BY <1>2 DEF Image, ImageOf, WritesTo
<1>3. ASSUME NEW c, NEW x, Adding(c, x) PROVE LeakedOn(Image', fat') \subseteq LeakedOn(disk, fat)
  <2>1. /\ c \in Live(disk) /\ Cardinality(Holes(EntriesOn(disk, c))) > 1 /\ x \in EntryType /\ x.used
        /\ Links(disk, fat, e, new, c, x) /\ disk' = disk
    BY <1>3 DEF Adding, Sparing
  <2> HIDE DEF e, new
  <2>2. LeakedOn(e, new) \subseteq LeakedOn(disk, fat)
    BY <1>1, <2>1, LinkedLeaks
  <2> QED
    BY <1>2, <2>1, <2>2 DEF new
<1>4. ASSUME NEW p, NEW X, Deleting(p, X) PROVE LeakedOn(Image', fat') \subseteq LeakedOn(disk, fat)
  <2>1. /\ p \in PlacesIn(disk, Live(disk)) /\ p[1] \in X
        /\ X = Live(disk) \ ClustersOf(fat, At(disk, p))
        /\ Unlinks(disk, fat, e, new, X, p)
        /\ At(disk, p).folder => \A i \in Items : ~EntriesOn(disk, At(disk, p).cluster)[i].used
        /\ \A c \in ClustersOf(fat, At(disk, p)) : new[c] = FAT32_FAT_EMPTY_ENTRY
    BY <1>4 DEF Deleting, Removing, is_folder_empty, Entries
  <2>2. disk' = disk
    BY <1>4 DEF Deleting, Removing, Sparing
  <2> HIDE DEF e, new
  <2>3. p[1] \notin ClustersOf(fat, At(disk, p))
    BY <2>1
  <2>4. Unlinks(disk, fat, e, new, Live(disk) \ ClustersOf(fat, At(disk, p)), p)
    BY <2>1
  <2>5. LeakedOn(e, new) \subseteq LeakedOn(disk, fat)
    BY <1>1, <2>1, <2>3, <2>4, UnlinkedLeaks
  <2> QED
    BY <1>2, <2>2, <2>5 DEF new
<1>5. ASSUME NEW p, NEW c, NEW x, Moving(p, c, x)
      PROVE  LeakedOn(Image', fat') \subseteq LeakedOn(disk, fat)
  <2>1. /\ p \in PlacesIn(disk, Live(disk)) /\ c \in Live(disk)
        /\ Cardinality(Holes(EntriesOn(disk, c))) > 1 /\ x \in EntryType /\ x.used
        /\ Moves(disk, e, p, c, x)
    BY <1>5 DEF Moving
  <2>2. fat' = fat /\ disk' = disk
    BY <1>5 DEF Moving, Sparing
  <2> HIDE DEF e
  <2>3. x.folder => c \notin BelowOn(disk, {x.cluster})
    BY <1>5 DEF Moving
  <2>4. LeakedOn(e, fat) \subseteq LeakedOn(disk, fat)
    BY <1>1, <2>1, <2>3, MovedLeaks
  <2> QED
    BY <1>2, <2>2, <2>4
<1> QED
  BY <1>3, <1>4, <1>5 DEF Operation

\* So no step loses clusters but one of delete_all.
LEMMA StepLeaks ==
  DriverKept /\ TreeKept /\ [CarefulNext]_systemVars =>
    [Ready => \E later \in {Image'} :
       \/ LeakedOn(later, fat') \subseteq LeakedOn(disk, fat)
       \/ \E rq \in NameRequests(FolderClusters) : delete_all(rq, 0)]_fsVars
<1> SUFFICES ASSUME DriverKept, TreeKept, CarefulNext, ~UNCHANGED fsVars, Ready
             PROVE  \/ LeakedOn(Image', fat') \subseteq LeakedOn(disk, fat)
                    \/ \E rq \in NameRequests(FolderClusters) : delete_all(rq, 0)
  BY DEF systemVars
<1>1. ~initialize_filesystem_fat32 /\ ~Flush
  BY DEF Ready, initialize_filesystem_fat32, Flush
<1> QED
  BY <1>1, CarefulOperates, OperationLeaks

\* With careful clients no two files or folders ever share a cluster, and each has a chain
\* of its own that ends where its size says.
THEOREM CarefulChainsOwn == CarefulSpec => []ChainsOwn
BY StartKept, TreeStart, CrashStart, CarefulStep, KeptIsChainsOwn, PTL DEF CarefulSpec

\* With careful clients ".." always leads to the folder that holds a folder.
THEOREM CarefulParentLinks == CarefulSpec => []ParentLinks
BY StartKept, TreeStart, CrashStart, CarefulStep, KeptIsParentLinks, PTL DEF CarefulSpec

\* With careful clients whatever has a name of its own in its folder is read back by it, whole:
\* files by read, folders by read_directory.
THEOREM CarefulFilesReadBack == CarefulSpec => []FilesReadBack
BY StartKept, TreeStart, CrashStart, CarefulStep, KeptIsFilesReadBack, PTL DEF CarefulSpec

\* Wherever the machine stops between two writes of an operation, what the disk shows and what
\* it will show differ only in the file or folder operated on and in what is in it.
THEOREM CarefulCrashConfined == CarefulSpec => []CrashConfined
BY StartKept, TreeStart, CrashStart, CarefulStep, KeptIsConfined, PTL DEF CarefulSpec

\* Only delete_all leaves clusters marked in the FAT that belong to nothing.
THEOREM CarefulOnlyDeleteAllLeaks == CarefulSpec => OnlyDeleteAllLeaks
BY StartKept, TreeStart, CrashStart, CarefulStep, StepLeaks, PTL DEF CarefulSpec, OnlyDeleteAllLeaks

-----------------------------------------------------------------------------
(* The objects of a disk *)

\* An object: its path, and its entry.
LabelSet == (Names \cup {NoName, ".", ".."}) \X Exts

Objects == Seq(LabelSet) \X EntryType

Label(e) == <<e.name, e.ext>>

RootObject == << <<>>, FolderEntry(NoName, ROOT_CLUSTER_NUMBER)>>

\* The object that entry i of a folder object is about.
Inside(d, o, i) ==
  <<Append(o[1], Label(EntriesOn(d, o[2].cluster)[i])), EntriesOn(d, o[2].cluster)[i]>>

\* A set of objects that has the root and what is in its folders.
Closed(d, Z) ==
  /\ RootObject \in Z
  /\ \A o \in Z, i \in Items :
       o[2].folder /\ EntriesOn(d, o[2].cluster)[i].used => Inside(d, o, i) \in Z

\* The root and what is in the folders of S.
Within(d, S) ==
  {RootObject} \cup {x \in Objects : \E o \in S, i \in Items :
                        o[2].folder /\ EntriesOn(d, o[2].cluster)[i].used /\ x = Inside(d, o, i)}

\* The root and what is in a folder are objects.
LEMMA ObjectsTyped ==
  ASSUME NEW d \in [Clusters -> Stored]
  PROVE  /\ RootObject \in Objects
         /\ \A o \in Objects, i \in Items : Inside(d, o, i) \in Objects
<1>1. RootObject \in Objects
  <2>1. FolderEntry(NoName, ROOT_CLUSTER_NUMBER) \in EntryType
    BY EntryValues, ClusterRange DEF ROOT_CLUSTER_NUMBER
  <2>2. <<>> \in Seq(LabelSet)
    OBVIOUS
  <2> QED
    BY <2>1, <2>2 DEF RootObject, Objects
<1>2. ASSUME NEW o \in Objects, NEW i \in Items PROVE Inside(d, o, i) \in Objects
  <2> DEFINE e == EntriesOn(d, o[2].cluster)[i]
  <2>1. e \in EntryType
    BY EntriesTyped, IndexRange DEF Tables
  <2> HIDE DEF e
  <2>2. Label(e) \in LabelSet
    BY <2>1 DEF EntryType, Label, LabelSet
  <2>3. o[1] \in Seq(LabelSet)
    BY DEF Objects
  <2> HIDE DEF LabelSet
  <2>4. Append(o[1], Label(e)) \in Seq(LabelSet)
    BY <2>2, <2>3
  <2>5. <<Append(o[1], Label(e)), e>> \in Objects
    BY <2>1, <2>4 DEF Objects
  <2> QED
    BY <2>5 DEF Inside, e
<1> QED
  BY <1>1, <1>2

\* The objects of a disk, level by level.
Depth == CLUSTER_MAP_SIZE - 3

ObjectLevels(d) ==
  {b \in [0 .. Depth -> SUBSET Objects] :
     /\ b[0] = {RootObject}
     /\ \A n \in 0 .. Depth - 1 : b[n + 1] = Within(d, b[n])
     /\ ObjectsOn(d) = b[Depth]}

\* There are such levels.
LEMMA ObjectSteps ==
  ASSUME NEW d \in [Clusters -> Stored]
  PROVE  ObjectLevels(d) # {}
<1> DEFINE N == Depth
           D == SUBSET Objects
           F == [p \in (0 .. N) \X D |-> Within(d, p[2])]
           root == << <<>>, FolderEntry(NoName, ROOT_CLUSTER_NUMBER)>>
           inside(o) == {<<Append(o[1], <<e.name, e.ext>>), e>> :
                           e \in {EntriesOn(d, o[2].cluster)[i] : i \in Items}}
           step(S) == {root} \cup UNION {{x \in inside(o) : x[2].used} : o \in {a \in S : a[2].folder}}
           Rec(h) == h = [n \in 0 .. N |-> IF n = 0 THEN {root} ELSE step(h[n - 1])]
           b == CHOOSE h : Rec(h)
<1>0. N \in Nat
  BY ClusterRange DEF Depth
<1>1. {RootObject} \in D /\ RootObject = root
  BY ObjectsTyped DEF RootObject
<1>2. \A X \in D : Within(d, X) \in D /\ Within(d, X) = step(X)
  <2> TAKE X \in D
  <2>1. Within(d, X) \in D
    BY ObjectsTyped DEF Within
  <2>2. ASSUME NEW x \in Within(d, X), x # RootObject PROVE x \in step(X)
    <3>1. PICK o \in X, i \in Items :
            o[2].folder /\ EntriesOn(d, o[2].cluster)[i].used /\ x = Inside(d, o, i)
      BY <2>2 DEF Within
    <3>2. x \in inside(o) /\ x[2].used
      BY <3>1 DEF Inside, Label
    <3> QED
      BY <3>1, <3>2
  <2>3. ASSUME NEW x \in step(X), x # root PROVE x \in Within(d, X)
    <3>1. PICK o \in X : o[2].folder /\ x \in inside(o) /\ x[2].used
      BY <2>3
    <3>2. PICK i \in Items :
            x = <<Append(o[1], <<EntriesOn(d, o[2].cluster)[i].name, EntriesOn(d, o[2].cluster)[i].ext>>),
                  EntriesOn(d, o[2].cluster)[i]>>
      BY <3>1, SMTT(30)
    <3>3. x = Inside(d, o, i) /\ EntriesOn(d, o[2].cluster)[i].used
      BY <3>1, <3>2 DEF Inside, Label
    <3>4. x \in Objects
      BY <3>3, ObjectsTyped
    <3> QED
      BY <3>1, <3>3, <3>4 DEF Within
  <2>4. RootObject \in Within(d, X) /\ root \in step(X)
    BY DEF Within
  <2> HIDE DEF step, inside, root
  <2> QED
    BY <1>1, <2>1, <2>2, <2>3, <2>4
<1> HIDE DEF N, D, step, inside, root
<1>3. F \in StepMaps(N, D)
  BY <1>2 DEF StepMaps
<1>4. PICK f \in [0 .. N -> D] : Iterates(f, N, {RootObject}, F)
  <2> HIDE DEF F
  <2> QED
    BY <1>0, <1>1, <1>3, Iterated
<1>5. Rec(f)
  <2>1. ASSUME NEW n \in 0 .. N PROVE f[n] = IF n = 0 THEN {root} ELSE step(f[n - 1])
    <3>1. CASE n = 0
      BY <1>1, <1>4, <3>1 DEF Iterates
    <3>2. CASE n # 0
      <4>1. n - 1 \in 0 .. N - 1 /\ n - 1 \in 0 .. N /\ (n - 1) + 1 = n
        BY <1>0, <3>2
      <4>2. f[n] = F[<<n - 1, f[n - 1]>>] /\ f[n - 1] \in D
        BY <1>4, <4>1 DEF Iterates
      <4>3. F[<<n - 1, f[n - 1]>>] = Within(d, f[n - 1])
        BY <4>1, <4>2
      <4> QED
        BY <1>2, <3>2, <4>2, <4>3
    <3> QED
      BY <3>1, <3>2
  <2> QED
    BY <2>1
<1>6. Rec(b)
  BY <1>5
<1>7. ObjectsOn(d) = b[N]
  BY DEF ObjectsOn, N, Depth, step, inside, root
<1> HIDE DEF b, F
<1>8. /\ 0 \in 0 .. N
      /\ \A n \in 0 .. N - 1 : n \in 0 .. N /\ n + 1 \in 0 .. N /\ n + 1 # 0 /\ (n + 1) - 1 = n
  BY <1>0
<1>9. b[0] = {RootObject} /\ \A n \in 0 .. N - 1 : b[n + 1] = step(b[n])
  BY <1>1, <1>6, <1>8
<1>10. \A n \in 0 .. N : b[n] \in D
  <2> DEFINE A == {n \in 0 .. N : b[n] \in D}
  <2>1. A \in SUBSET (0 .. N) /\ 0 \in A
    BY <1>1, <1>8, <1>9
  <2>2. \A n \in 0 .. N - 1 : n \in A => n + 1 \in A
    BY <1>2, <1>8, <1>9
  <2> HIDE DEF A
  <2>3. A = 0 .. N
    BY <1>0, <2>1, <2>2, AllUpTo
  <2> QED
    BY <2>3 DEF A
<1>11. b \in [0 .. N -> D]
  BY <1>6, <1>10
<1>12. \A n \in 0 .. N - 1 : b[n + 1] = Within(d, b[n])
  BY <1>2, <1>8, <1>9, <1>10
<1> QED
  BY <1>7, <1>9, <1>11, <1>12 DEF N, D, ObjectLevels

\* The objects of a disk are among those of every set that has the root and what is in its folders.
LEMMA ObjectsLeast ==
  ASSUME NEW d \in [Clusters -> Stored]
  PROVE  /\ ObjectsOn(d) \in SUBSET Objects /\ RootObject \in ObjectsOn(d)
         /\ \A Z : Closed(d, Z) => ObjectsOn(d) \subseteq Z
<1>0. PICK b : b \in ObjectLevels(d)
  BY ObjectSteps
<1>1. /\ b \in [0 .. Depth -> SUBSET Objects]
      /\ b[0] = {RootObject}
      /\ \A n \in 0 .. Depth - 1 : b[n + 1] = Within(d, b[n])
      /\ ObjectsOn(d) = b[Depth]
  BY <1>0 DEF ObjectLevels
<1>2. Depth \in Nat /\ Depth >= 1
  BY ClusterRange DEF Depth
<1>3. 0 \in 0 .. Depth /\ Depth \in 0 .. Depth /\ Depth - 1 \in 0 .. Depth - 1 /\ (Depth - 1) + 1 = Depth
      /\ \A n \in 0 .. Depth - 1 : n \in 0 .. Depth /\ n + 1 \in 0 .. Depth
  BY <1>2
<1>4. RootObject \in b[Depth]
  BY <1>1, <1>3 DEF Within
<1>5. ASSUME NEW Z, Closed(d, Z) PROVE b[Depth] \subseteq Z
  <2> DEFINE A == {n \in 0 .. Depth : b[n] \subseteq Z}
  <2>1. A \in SUBSET (0 .. Depth) /\ 0 \in A
    BY <1>1, <1>3, <1>5 DEF Closed
  <2>2. ASSUME NEW n \in 0 .. Depth - 1, n \in A PROVE n + 1 \in A
    BY <1>1, <1>3, <1>5, <2>2 DEF Closed, Within
  <2> HIDE DEF A
  <2>3. A = 0 .. Depth
    BY <1>2, <2>1, <2>2, AllUpTo
  <2> QED
    BY <1>3, <2>3 DEF A
<1> QED
  BY <1>1, <1>3, <1>4, <1>5

\* The last of a sequence and what is before it.
LEMMA AppendParts ==
  ASSUME NEW S, NEW s \in Seq(S), NEW t \in Seq(S), NEW x \in S, NEW y \in S
  PROVE  /\ Append(s, x) \in Seq(S) /\ Append(s, x) # <<>> /\ Len(Append(s, x)) = Len(s) + 1
         /\ Append(s, x) = Append(t, y) => s = t /\ x = y
<1>1. Append(s, x) \in Seq(S) /\ Append(s, x) # <<>> /\ Len(Append(s, x)) = Len(s) + 1
  OBVIOUS
<1>2. ASSUME Append(s, x) = Append(t, y) PROVE s = t /\ x = y
  <2>1. Len(s) + 1 = Len(t) + 1 /\ Len(s) \in Nat /\ Len(t) \in Nat
    BY <1>2
  <2>2. Len(s) = Len(t)
    BY <2>1
  <2>3. Append(s, x)[Len(s) + 1] = x /\ Append(t, y)[Len(t) + 1] = y
    OBVIOUS
  <2>4. \A k \in 1 .. Len(s) : Append(s, x)[k] = s[k] /\ Append(t, y)[k] = t[k]
    BY <2>2
  <2>5. \A k \in 1 .. Len(s) : s[k] = t[k]
    BY <1>2, <2>4
  <2>6. s = t
    BY <2>2, <2>5
  <2> QED
    BY <1>2, <2>2, <2>3, <2>6
<1> QED
  BY <1>1, <1>2

\* So sequences that are one when something is appended are one.
LEMMA AppendUnique ==
  ASSUME NEW S, NEW s \in Seq(S), NEW t \in Seq(S), NEW x \in S, NEW y \in S,
         Append(s, x) = Append(t, y)
  PROVE  s = t /\ x = y
BY AppendParts

\* What an object inside another is.
LEMMA InsideIs ==
  ASSUME NEW d \in [Clusters -> Stored], NEW o \in Objects, NEW i \in Items
  PROVE  LET e == EntriesOn(d, o[2].cluster)[i]
         IN  /\ Inside(d, o, i)[1] = Append(o[1], Label(e)) /\ Inside(d, o, i)[2] = e
             /\ Inside(d, o, i) = <<Append(o[1], Label(e)), e>>
             /\ o[1] \in Seq(LabelSet) /\ Label(e) \in LabelSet /\ e \in EntryType
             /\ e = At(d, <<o[2].cluster, i>>)
<1>1. EntriesOn(d, o[2].cluster)[i] \in EntryType
  BY EntriesTyped, IndexRange DEF Tables
<1>2. Label(EntriesOn(d, o[2].cluster)[i]) \in LabelSet
  BY <1>1 DEF EntryType, Label, LabelSet
<1>3. o[1] \in Seq(LabelSet)
  BY DEF Objects
<1> QED
  BY <1>1, <1>2, <1>3 DEF Inside, At

\* The root has no name, and is no place.
LEMMA RootIs ==
  /\ RootObject[1] = <<>> /\ RootObject[2].folder /\ RootObject[2].cluster = ROOT_CLUSTER_NUMBER
  /\ RootObject[2].size = 0 /\ ROOT_CLUSTER_NUMBER = 2
BY DEF RootObject, FolderEntry, ROOT_CLUSTER_NUMBER

\* An object: of a live folder if it is one.
Leading(d, o) == o \in Objects /\ (o[2].folder => o[2].cluster \in Live(d))

\* What is in such a folder stands at a place, and leads to a live one too.
LEMMA InsideLeads ==
  ASSUME NEW d \in [Clusters -> Stored], NEW map, Sound(d, map, Live(d)), NEW o, Leading(d, o),
         o[2].folder, NEW i \in Items, EntriesOn(d, o[2].cluster)[i].used
  PROVE  /\ <<o[2].cluster, i>> \in PlacesIn(d, Live(d))
         /\ Inside(d, o, i)[2] = At(d, <<o[2].cluster, i>>)
         /\ Leading(d, Inside(d, o, i))
<1> DEFINE p == <<o[2].cluster, i>>
<1>1. o \in Objects /\ o[2].cluster \in Live(d)
  BY DEF Leading
<1>2. p \in PlacesIn(d, Live(d)) /\ At(d, p) = EntriesOn(d, o[2].cluster)[i]
  BY <1>1, EntryStands
<1>3. Inside(d, o, i)[2] = At(d, p) /\ Inside(d, o, i) \in Objects
  BY <1>1, InsideIs, ObjectsTyped
<1> HIDE DEF p
<1>4. At(d, p).folder => At(d, p).cluster \in Live(d)
  BY <1>2, OnePlace, PlaceLeads, LiveIsLeast
<1> QED
  BY <1>2, <1>3, <1>4 DEF Leading, p

\* An object of some level is of the level its path is long, and of all after that.
LEMMA LevelsGrow ==
  ASSUME NEW d \in [Clusters -> Stored], NEW b \in ObjectLevels(d), NEW n \in 0 .. Depth, NEW o \in b[n]
  PROVE  /\ o \in ObjectsOn(d) /\ Len(o[1]) \in 0 .. n /\ o \in b[Len(o[1])]
         /\ o \in Objects
<1>1. /\ b \in [0 .. Depth -> SUBSET Objects] /\ b[0] = {RootObject}
      /\ \A m \in 0 .. Depth - 1 : b[m + 1] = Within(d, b[m])
      /\ ObjectsOn(d) = b[Depth]
  BY DEF ObjectLevels
<1>2. Depth \in Nat
  BY ClusterRange DEF Depth
<1>3. 0 \in 0 .. Depth /\ Depth \in 0 .. Depth
      /\ \A m \in 0 .. Depth - 1 : m \in 0 .. Depth /\ m + 1 \in 0 .. Depth
  BY <1>2
<1>4. \A m \in 0 .. Depth - 1 : b[m] \subseteq b[m + 1]
  <2> DEFINE A == {m \in 0 .. Depth : m < Depth => b[m] \subseteq b[m + 1]}
  <2>1. A \in SUBSET (0 .. Depth) /\ 0 \in A
    <3>1. 0 < Depth => 0 \in 0 .. Depth - 1
      BY <1>2
    <3>2. 0 < Depth => b[0] \subseteq b[0 + 1]
      BY <1>1, <3>1 DEF Within
    <3> QED
      BY <1>3, <3>2
  <2>2. ASSUME NEW m \in 0 .. Depth - 1, m \in A PROVE m + 1 \in A
    <3>1. m < Depth /\ m + 1 \in 0 .. Depth
      BY <1>2
    <3>2. b[m] \subseteq b[m + 1]
      BY <2>2, <3>1
    <3>3. CASE m + 1 < Depth
      <4>1. m + 1 \in 0 .. Depth - 1
        BY <1>2, <3>1, <3>3
      <4>2. b[m + 1] = Within(d, b[m]) /\ b[(m + 1) + 1] = Within(d, b[m + 1])
        BY <1>1, <4>1
      <4>3. b[m + 1] \subseteq b[(m + 1) + 1]
        BY <3>2, <4>2 DEF Within
      <4> QED
        BY <3>1, <4>3
    <3> QED
      BY <3>1, <3>3
  <2> HIDE DEF A
  <2>3. A = 0 .. Depth
    BY <1>2, <2>1, <2>2, AllUpTo
  <2>4. \A m \in 0 .. Depth - 1 : m < Depth /\ m \in A
    BY <1>2, <2>3
  <2> QED
    BY <2>4 DEF A
<1>5. \A m \in 0 .. Depth : b[m] \subseteq b[Depth]
  <2> DEFINE A == {m \in 0 .. Depth : \A k \in 0 .. m : b[k] \subseteq b[m]}
  <2>1. A \in SUBSET (0 .. Depth) /\ 0 \in A
    BY <1>3
  <2>2. ASSUME NEW m \in 0 .. Depth - 1, m \in A PROVE m + 1 \in A
    <3>1. \A k \in 0 .. m + 1 : k = m + 1 \/ k \in 0 .. m
      BY <1>2
    <3>2. b[m] \subseteq b[m + 1] /\ \A k \in 0 .. m : b[k] \subseteq b[m]
      BY <1>4, <2>2
    <3> QED
      BY <1>3, <3>1, <3>2
  <2> HIDE DEF A
  <2>3. A = 0 .. Depth
    BY <1>2, <2>1, <2>2, AllUpTo
  <2>4. Depth \in A
    BY <1>3, <2>3
  <2> QED
    BY <2>4 DEF A
<1>6. \A m \in 0 .. Depth : \A x \in b[m] : Len(x[1]) \in 0 .. m /\ x \in b[Len(x[1])]
  <2> DEFINE A == {m \in 0 .. Depth : \A x \in b[m] : Len(x[1]) \in 0 .. m /\ x \in b[Len(x[1])]}
  <2>0. Len(RootObject[1]) = 0
    BY RootIs
  <2>1. A \in SUBSET (0 .. Depth) /\ 0 \in A
    <3>1. \A x \in b[0] : Len(x[1]) = 0
      BY <1>1, <2>0
    <3> QED
      BY <1>3, <3>1
  <2>2. ASSUME NEW m \in 0 .. Depth - 1, m \in A PROVE m + 1 \in A
    <3>1. ASSUME NEW x \in b[m + 1] PROVE Len(x[1]) \in 0 .. m + 1 /\ x \in b[Len(x[1])]
      <4>1. CASE x = RootObject
        <5>1. Len(x[1]) = 0 /\ x \in b[0]
          BY <1>1, <2>0, <4>1
        <5> QED
          BY <1>2, <5>1
      <4>2. CASE x # RootObject
        <5>1. x \in Within(d, b[m])
          BY <1>1
        <5>2. PICK a \in b[m], i \in Items :
                a[2].folder /\ EntriesOn(d, a[2].cluster)[i].used /\ x = Inside(d, a, i) /\ x \in Objects
          BY <4>2, <5>1 DEF Within
        <5>3. Len(a[1]) \in 0 .. m /\ a \in b[Len(a[1])] /\ a \in Objects
          BY <1>1, <1>3, <2>2
        <5>4. x[1] = Append(a[1], Label(EntriesOn(d, a[2].cluster)[i])) /\ a[1] \in Seq(LabelSet)
          BY <5>2, <5>3, InsideIs
        <5>5. Len(x[1]) = Len(a[1]) + 1
          BY <5>4
        <5>6. Len(a[1]) \in 0 .. Depth - 1 /\ Len(a[1]) + 1 \in 0 .. m + 1
          BY <1>2, <5>3
        <5>7. x \in Within(d, b[Len(a[1])])
          BY <5>2, <5>3 DEF Within
        <5>8. x \in b[Len(a[1]) + 1]
          BY <1>1, <5>6, <5>7
        <5> QED
          BY <5>5, <5>6, <5>8
      <4> QED
        BY <4>1, <4>2
    <3> QED
      BY <1>3, <3>1
  <2> HIDE DEF A
  <2>3. A = 0 .. Depth
    BY <1>2, <2>1, <2>2, AllUpTo
  <2> QED
    BY <2>3 DEF A
<1> QED
  BY <1>1, <1>5, <1>6

\* The folders that a folder object is in: as many as its path is long.
Above(d, o, A) ==
  /\ \A c \in A : c \in Live(d) /\ c >= 3 /\ o[2].cluster \in BelowOn(d, {c})
  /\ Cardinality(A) = Len(o[1])

\* Another one is one deeper.
LEMMA DeeperByOne ==
  ASSUME NEW d \in [Clusters -> Stored], NEW map, Sound(d, map, Live(d)), NEW o, Leading(d, o),
         o[2].folder, NEW i \in Items, EntriesOn(d, o[2].cluster)[i].used,
         NEW A \in SUBSET Clusters, Above(d, o, A)
  PROVE  LET y == Inside(d, o, i)
             B == A \cup {y[2].cluster}
         IN  /\ B \in SUBSET Clusters /\ Cardinality(B) = Len(o[1]) + 1 /\ Len(y[1]) = Len(o[1]) + 1
             /\ \A c \in B : c >= 3
             /\ y[2].folder => Above(d, y, B)
<1> DEFINE p == <<o[2].cluster, i>>
           y == Inside(d, o, i)
           f == o[2].cluster
           B == A \cup {y[2].cluster}
<1>1. p \in PlacesIn(d, Live(d)) /\ y[2] = At(d, p) /\ Leading(d, y) /\ o \in Objects /\ f \in Live(d)
  BY InsideLeads DEF Leading
<1>2. Len(y[1]) = Len(o[1]) + 1 /\ Len(o[1]) \in Nat
  <2>1. y[1] = Append(o[1], Label(EntriesOn(d, o[2].cluster)[i])) /\ o[1] \in Seq(LabelSet)
    BY <1>1, InsideIs
  <2> QED
    BY <2>1
<1>3. y[2].cluster >= 3 /\ y[2].cluster \in Clusters
      /\ (y[2].cluster \in Live(d) => y[2].folder)
  <2>1. At(d, p).cluster >= 3 /\ At(d, p).cluster \in Clusters
    BY <1>1, OnePlace
  <2>2. At(d, p).cluster \in ClustersOf(map, At(d, p))
    BY <1>1, OwnedClusters DEF Sound, OwnChains
  <2>3. At(d, p).cluster \in Live(d) => At(d, p).folder
    BY <1>1, <2>2, OnePlace
  <2> QED
    BY <1>1, <2>1, <2>3
<1>4. y[2].folder => y[2].cluster \in SubfoldersOn(d, {f})
  <2>1. EntriesOn(d, f)[i] = y[2]
    BY <1>1 DEF At
  <2> QED
    BY <1>3, <2>1 DEF SubfoldersOn
<1> HIDE DEF y, p, f
<1>5. y[2].cluster \notin A
  <2> SUFFICES ASSUME y[2].cluster \in A PROVE FALSE
    OBVIOUS
  <2> DEFINE c == y[2].cluster
  <2>1. c \in Live(d) /\ f \in BelowOn(d, {c})
    BY DEF Above, f
  <2>2. c \in SubfoldersOn(d, {f})
    BY <1>3, <1>4, <2>1
  <2>3. SubfoldersOn(d, {f}) \in SUBSET Clusters /\ {c} \in SUBSET Clusters
    BY <1>3 DEF SubfoldersOn
  <2>4. {c} \subseteq BelowOn(d, SubfoldersOn(d, {f}))
        /\ SubfoldersOn(d, BelowOn(d, SubfoldersOn(d, {f}))) \subseteq BelowOn(d, SubfoldersOn(d, {f}))
    BY <2>2, <2>3, BelowIsLeast
  <2> DEFINE W == BelowOn(d, SubfoldersOn(d, {f}))
  <2>5. BelowOn(d, {c}) \subseteq W
    <3>1. {c} \subseteq W /\ SubfoldersOn(d, W) \subseteq W
      BY <2>4
    <3> HIDE DEF W, c
    <3>2. {c} \in SUBSET Clusters
      BY <2>3
    <3> QED
      BY <3>1, <3>2, BelowIsLeast
  <2> QED
    BY <1>1, <2>1, <2>5, NoCycle
<1>6. B \in SUBSET Clusters /\ Cardinality(B) = Cardinality(A) + 1
  BY <1>3, <1>5, ClustersFinite, FS_AddElement
<1>7. \A c \in B : c >= 3
  BY <1>3 DEF Above
<1>8. ASSUME y[2].folder PROVE Above(d, y, B)
  <2>1. y[2].cluster \in Live(d)
    BY <1>1, <1>8 DEF Leading
  <2>2. ASSUME NEW c \in A PROVE y[2].cluster \in BelowOn(d, {c})
    <3>1. f \in BelowOn(d, {c}) /\ {c} \in SUBSET Clusters
      BY DEF Above, f
    <3>2. SubfoldersOn(d, {f}) \subseteq SubfoldersOn(d, BelowOn(d, {c}))
      BY <3>1, SubfoldersGrow
    <3>3. SubfoldersOn(d, BelowOn(d, {c})) \subseteq BelowOn(d, {c})
      BY <3>1, BelowIsLeast
    <3> QED
      BY <1>4, <1>8, <3>2, <3>3
  <2>3. y[2].cluster \in BelowOn(d, {y[2].cluster})
    <3>1. {y[2].cluster} \in SUBSET Clusters
      BY <1>3
    <3> QED
      BY <3>1, BelowIsLeast, SMTT(30)
  <2>4. Cardinality(B) = Len(y[1])
    BY <1>2, <1>6 DEF Above
  <2> QED
    BY <1>3, <2>1, <2>2, <2>3, <2>4 DEF Above
<1>9. Cardinality(B) = Len(o[1]) + 1
  BY <1>6 DEF Above
<1> QED
  BY <1>2, <1>6, <1>7, <1>8, <1>9 DEF y

\* So the folder objects that have something in them are of a level before the last.
LEMMA NotTooDeep ==
  ASSUME NEW d \in [Clusters -> Stored], NEW map, Sound(d, map, Live(d)), NEW o \in ObjectsOn(d)
  PROVE  /\ Leading(d, o)
         /\ \A i \in Items : o[2].folder /\ EntriesOn(d, o[2].cluster)[i].used => Len(o[1]) + 1 <= Depth
<1> DEFINE Deep(x) == x[2].folder => \E A \in SUBSET Clusters : Above(d, x, A)
           Z == {x \in Objects : Leading(d, x) /\ Deep(x)}
<1>1. RootObject \in Z
  <2>1. Leading(d, RootObject)
    BY ObjectsTyped, RootIs, LiveIsLeast DEF Leading
  <2>2. Above(d, RootObject, {})
    BY RootIs, FS_EmptySet DEF Above
  <2> QED
    BY <2>1, <2>2, ObjectsTyped
<1>2. ASSUME NEW x \in Z, NEW i \in Items, x[2].folder, EntriesOn(d, x[2].cluster)[i].used
      PROVE  Inside(d, x, i) \in Z
  <2>1. PICK A \in SUBSET Clusters : Above(d, x, A)
    BY <1>2
  <2>2. Leading(d, x) /\ Leading(d, Inside(d, x, i)) /\ Inside(d, x, i) \in Objects
    BY <1>2, InsideLeads DEF Leading
  <2> DEFINE y == Inside(d, x, i)
             B == A \cup {y[2].cluster}
  <2>3. B \in SUBSET Clusters /\ (y[2].folder => Above(d, y, B))
    <3> HIDE DEF Deep
    <3> QED
      BY <1>2, <2>1, <2>2, DeeperByOne
  <2>4. Deep(y)
    BY <2>3
  <2> QED
    BY <2>2, <2>4
<1>3. o \in Z
  <2> HIDE DEF Z
  <2>1. Closed(d, Z)
    BY <1>1, <1>2 DEF Closed
  <2> QED
    BY <2>1, ObjectsLeast
<1>4. ASSUME NEW i \in Items, o[2].folder, EntriesOn(d, o[2].cluster)[i].used
      PROVE  Len(o[1]) + 1 <= Depth
  <2>1. PICK A \in SUBSET Clusters : Above(d, o, A)
    BY <1>3, <1>4
  <2> DEFINE B == A \cup {Inside(d, o, i)[2].cluster}
  <2>2. B \in SUBSET Clusters /\ Cardinality(B) = Len(o[1]) + 1 /\ \A c \in B : c >= 3
    <3>1. Leading(d, o)
      BY <1>3
    <3>2. LET y == Inside(d, o, i)
              C == A \cup {y[2].cluster}
          IN  /\ C \in SUBSET Clusters /\ Cardinality(C) = Len(o[1]) + 1 /\ Len(y[1]) = Len(o[1]) + 1
              /\ \A c \in C : c >= 3
              /\ y[2].folder => Above(d, y, C)
      <4> HIDE DEF Z, Deep
      <4> QED
        BY <1>4, <2>1, <3>1, DeeperByOne
    <3> QED
      BY <3>2
  <2> HIDE DEF B
  <2>3. B \subseteq 3 .. CLUSTER_MAP_SIZE - 1
    BY <2>2, ClusterRange DEF Clusters
  <2>4. CLUSTER_MAP_SIZE \in Nat /\ CLUSTER_MAP_SIZE >= 4
    BY ClusterRange
  <2>5. /\ IsFiniteSet(3 .. CLUSTER_MAP_SIZE - 1)
        /\ Cardinality(3 .. CLUSTER_MAP_SIZE - 1) = CLUSTER_MAP_SIZE - 3
    BY <2>4, FS_Interval
  <2>6. Cardinality(B) <= CLUSTER_MAP_SIZE - 3
    BY <2>3, <2>5, FS_Subset
  <2> QED
    BY <2>2, <2>6 DEF Depth
<1> QED
  BY <1>3, <1>4

\* Whatever is in a folder of the tree is in the tree: there are levels enough.
LEMMA ObjectsClosed ==
  ASSUME NEW d \in [Clusters -> Stored], NEW map, Sound(d, map, Live(d))
  PROVE  Closed(d, ObjectsOn(d))
<1>0. PICK b : b \in ObjectLevels(d)
  BY ObjectSteps
<1>1. /\ b \in [0 .. Depth -> SUBSET Objects] /\ b[0] = {RootObject}
      /\ \A m \in 0 .. Depth - 1 : b[m + 1] = Within(d, b[m])
      /\ ObjectsOn(d) = b[Depth]
  BY <1>0, SMTT(30) DEF ObjectLevels
<1>2. Depth \in Nat
  BY ClusterRange DEF Depth
<1>3. ASSUME NEW o \in ObjectsOn(d), NEW i \in Items, o[2].folder, EntriesOn(d, o[2].cluster)[i].used
      PROVE  Inside(d, o, i) \in ObjectsOn(d)
  <2>1. Depth \in 0 .. Depth /\ o \in b[Depth]
    BY <1>1, <1>2
  <2>2. Len(o[1]) \in 0 .. Depth /\ o \in b[Len(o[1])] /\ o \in Objects
    BY <1>0, <2>1, LevelsGrow
  <2>3. Len(o[1]) \in 0 .. Depth - 1 /\ Len(o[1]) + 1 \in 0 .. Depth
    BY <1>2, <1>3, <2>2, NotTooDeep
  <2>4. Inside(d, o, i) \in Within(d, b[Len(o[1])])
    BY <1>3, <2>2, ObjectsTyped DEF Within
  <2>5. Inside(d, o, i) \in b[Len(o[1]) + 1]
    BY <1>1, <2>3, <2>4
  <2> QED
    BY <1>0, <2>3, <2>5, LevelsGrow
<1> QED
  BY <1>3, ObjectsLeast DEF Closed

\* The object o is what stands at place p, in the folder object a.
StandsIn(d, o, a, p) ==
  /\ a \in ObjectsOn(d) /\ p \in PlacesIn(d, Live(d))
  /\ a[2].folder /\ p[1] = a[2].cluster
  /\ o[1] = Append(a[1], Label(At(d, p))) /\ o[2] = At(d, p)

\* Every object but the root stands somewhere, in one that is nearer to the root.
LEMMA ObjectStands ==
  ASSUME NEW d \in [Clusters -> Stored], NEW map, Sound(d, map, Live(d)), NEW o \in ObjectsOn(d)
  PROVE  /\ o \in Objects /\ Leading(d, o)
         /\ o = RootObject \/ \E a, p : StandsIn(d, o, a, p)
<1> DEFINE From(x) == \E a \in ObjectsOn(d), i \in Items :
                        a[2].folder /\ EntriesOn(d, a[2].cluster)[i].used /\ x = Inside(d, a, i)
           X == {RootObject} \cup {x \in Objects : From(x)}
<1>1. ObjectsOn(d) \in SUBSET Objects /\ Closed(d, ObjectsOn(d))
  BY ObjectsLeast, ObjectsClosed
<1>2. X \subseteq ObjectsOn(d)
  BY <1>1 DEF Closed
<1>3. Closed(d, X)
  <2>1. ASSUME NEW x \in X, NEW i \in Items, x[2].folder, EntriesOn(d, x[2].cluster)[i].used
        PROVE  Inside(d, x, i) \in X
    <3>1. x \in ObjectsOn(d) /\ x \in Objects
      BY <1>1, <1>2
    <3>2. From(Inside(d, x, i)) /\ Inside(d, x, i) \in Objects
      BY <2>1, <3>1, ObjectsTyped
    <3> QED
      BY <3>2
  <2>2. RootObject \in X
    OBVIOUS
  <2> HIDE DEF X
  <2> QED
    BY <2>1, <2>2 DEF Closed
<1>4. o \in X
  BY <1>3, ObjectsLeast
<1>5. o \in Objects /\ Leading(d, o)
  BY <1>1, NotTooDeep
<1>6. ASSUME o # RootObject PROVE \E a, p : StandsIn(d, o, a, p)
  <2>1. PICK a \in ObjectsOn(d), i \in Items :
          a[2].folder /\ EntriesOn(d, a[2].cluster)[i].used /\ o = Inside(d, a, i)
    BY <1>4, <1>6
  <2>2. a \in Objects /\ Leading(d, a)
    BY <1>1, NotTooDeep
  <2> DEFINE p == <<a[2].cluster, i>>
  <2>3. p \in PlacesIn(d, Live(d)) /\ o[2] = At(d, p)
    BY <2>1, <2>2, InsideLeads
  <2>4. o[1] = Append(a[1], Label(At(d, p))) /\ p[1] = a[2].cluster
    BY <2>1, <2>2, InsideIs
  <2> HIDE DEF p
  <2> QED
    BY <2>1, <2>3, <2>4 DEF StandsIn
<1> QED
  BY <1>4, <1>5, <1>6

\* And whatever stands in a folder object is an object.
LEMMA StandingObject ==
  ASSUME NEW d \in [Clusters -> Stored], NEW map, Sound(d, map, Live(d)), NEW a \in ObjectsOn(d),
         NEW p \in PlacesIn(d, Live(d)), a[2].folder, p[1] = a[2].cluster
  PROVE  /\ <<Append(a[1], Label(At(d, p))), At(d, p)>> \in ObjectsOn(d)
         /\ StandsIn(d, <<Append(a[1], Label(At(d, p))), At(d, p)>>, a, p)
<1>1. p = <<a[2].cluster, p[2]>> /\ p[2] \in Items /\ At(d, p).used
  BY DEF PlacesIn
<1>2. EntriesOn(d, a[2].cluster)[p[2]] = At(d, p)
  BY <1>1 DEF At
<1>3. Inside(d, a, p[2]) \in ObjectsOn(d)
  BY <1>1, <1>2, ObjectsClosed DEF Closed
<1>4. Inside(d, a, p[2]) = <<Append(a[1], Label(At(d, p))), At(d, p)>>
  BY <1>2 DEF Inside
<1> QED
  BY <1>3, <1>4 DEF StandsIn

\* What holds of the root, and of what stands in an object of which it holds, holds of all.
LEMMA ObjectInduction ==
  ASSUME NEW d \in [Clusters -> Stored], NEW map, Sound(d, map, Live(d)), NEW Z,
         RootObject \in Z,
         \A a \in ObjectsOn(d) \cap Z : \A p \in PlacesIn(d, Live(d)) :
           a[2].folder /\ p[1] = a[2].cluster => <<Append(a[1], Label(At(d, p))), At(d, p)>> \in Z
  PROVE  ObjectsOn(d) \subseteq Z
<1> DEFINE Y == ObjectsOn(d) \cap Z
<1>1. ASSUME NEW a \in Y, NEW i \in Items, a[2].folder, EntriesOn(d, a[2].cluster)[i].used
      PROVE  Inside(d, a, i) \in Y
  <2> DEFINE p == <<a[2].cluster, i>>
  <2>1. p \in PlacesIn(d, Live(d)) /\ EntriesOn(d, a[2].cluster)[i] = At(d, p)
    BY <1>1, ObjectStands, InsideLeads DEF At
  <2>2. p[1] = a[2].cluster
    OBVIOUS
  <2>3. Inside(d, a, i) = <<Append(a[1], Label(At(d, p))), At(d, p)>>
    BY <2>1 DEF Inside
  <2> HIDE DEF p
  <2> QED
    BY <1>1, <2>1, <2>2, <2>3, StandingObject
<1>2. Closed(d, Y)
  <2> HIDE DEF Y
  <2>1. RootObject \in Y
    BY ObjectsLeast DEF Y
  <2> QED
    BY <1>1, <2>1 DEF Closed
<1> HIDE DEF Y
<1>3. ObjectsOn(d) \subseteq Y
  BY <1>2, ObjectsLeast
<1> QED
  BY <1>3 DEF Y

\* The pieces of an object and of its path.
LEMMA PlaceTyped ==
  ASSUME NEW d \in [Clusters -> Stored], NEW X, NEW p \in PlacesIn(d, X)
  PROVE  At(d, p) \in EntryType /\ Label(At(d, p)) \in LabelSet /\ p[1] \in X /\ p[2] \in Items
         /\ At(d, p).used /\ p = <<p[1], p[2]>>
<1>1. p[1] \in X /\ p[2] \in Items /\ At(d, p).used /\ p = <<p[1], p[2]>>
  BY DEF PlacesIn
<1>2. At(d, p) \in EntryType
  BY <1>1, EntriesTyped, IndexRange DEF Tables, At
<1> QED
  BY <1>1, <1>2 DEF EntryType, Label, LabelSet

\* Two objects that lead to one cluster are one.
LEMMA ObjectOnce ==
  ASSUME NEW d \in [Clusters -> Stored], NEW map, Sound(d, map, Live(d)),
         NEW o \in ObjectsOn(d), NEW x \in ObjectsOn(d), o[2].cluster = x[2].cluster
  PROVE  o = x
<1> DEFINE Z == {y \in ObjectsOn(d) : \A z \in ObjectsOn(d) : z[2].cluster = y[2].cluster => z = y}
<1>1. RootObject \in Z
  <2>1. RootObject \in ObjectsOn(d)
    BY ObjectsLeast
  <2>2. ASSUME NEW z \in ObjectsOn(d), z # RootObject PROVE z[2].cluster # RootObject[2].cluster
    <3>1. PICK a, p : StandsIn(d, z, a, p)
      BY <2>2, ObjectStands
    <3>2. z[2].cluster >= 3 /\ z[2].cluster \in Nat
      BY <3>1, OnePlace, ClusterRange DEF StandsIn
    <3> QED
      BY <3>2, RootIs
  <2> QED
    BY <2>1, <2>2
<1>2. ASSUME NEW a \in ObjectsOn(d) \cap Z, NEW p \in PlacesIn(d, Live(d)),
             a[2].folder, p[1] = a[2].cluster
      PROVE  <<Append(a[1], Label(At(d, p))), At(d, p)>> \in Z
  <2> DEFINE y == <<Append(a[1], Label(At(d, p))), At(d, p)>>
  <2>1. y \in ObjectsOn(d) /\ y[2] = At(d, p)
    BY <1>2, StandingObject
  <2>2. ASSUME NEW z \in ObjectsOn(d), z[2].cluster = y[2].cluster PROVE z = y
    <3>1. z # RootObject
      BY <1>1, <2>1, <2>2, RootIs, OnePlace
    <3>2. PICK b, q : StandsIn(d, z, b, q)
      BY <3>1, ObjectStands
    <3>3. p = q
      BY <2>1, <2>2, <3>2, OnePlace DEF StandsIn
    <3>4. b = a
      BY <1>2, <3>2, <3>3 DEF StandsIn
    <3>5. z \in Objects
      BY ObjectStands
    <3>6. z = <<z[1], z[2]>>
      BY <3>5 DEF Objects
    <3> QED
      BY <3>2, <3>3, <3>4, <3>6 DEF StandsIn
  <2> HIDE DEF y
  <2>3. y \in Z
    BY <2>1, <2>2
  <2> QED
    BY <2>3 DEF y
<1>3. ObjectsOn(d) \subseteq Z
  <2> HIDE DEF Z
  <2> QED
    BY <1>1, <1>2, ObjectInduction
<1> QED
  BY <1>3

\* No folder has two entries of one name and extension.
OneName(d) ==
  \A p, q \in PlacesIn(d, Live(d)) :
    p[1] = q[1] /\ Label(At(d, p)) = Label(At(d, q)) => p = q

\* Then two objects with one path are one.
LEMMA PathOnce ==
  ASSUME NEW d \in [Clusters -> Stored], NEW map, Sound(d, map, Live(d)), OneName(d),
         NEW o \in ObjectsOn(d), NEW x \in ObjectsOn(d), o[1] = x[1]
  PROVE  o = x
<1> DEFINE Z == {y \in ObjectsOn(d) : \A z \in ObjectsOn(d) : z[1] = y[1] => z = y}
<1>0. \A z \in ObjectsOn(d) : z \in Objects /\ z[1] \in Seq(LabelSet) /\ z = <<z[1], z[2]>>
  <2> TAKE z \in ObjectsOn(d)
  <2>1. z \in Objects
    BY ObjectStands
  <2> QED
    BY <2>1 DEF Objects
<1>1. RootObject \in Z
  <2>1. RootObject \in ObjectsOn(d)
    BY ObjectsLeast
  <2>2. ASSUME NEW z \in ObjectsOn(d), z # RootObject PROVE z[1] # RootObject[1]
    <3>1. PICK a, p : StandsIn(d, z, a, p)
      BY <2>2, ObjectStands
    <3>2. a[1] \in Seq(LabelSet) /\ Label(At(d, p)) \in LabelSet
      BY <1>0, <3>1, PlaceTyped DEF StandsIn
    <3>3. z[1] # <<>>
      BY <3>1, <3>2, AppendParts DEF StandsIn
    <3> QED
      BY <3>3, RootIs
  <2> QED
    BY <2>1, <2>2
<1>2. ASSUME NEW a \in ObjectsOn(d) \cap Z, NEW p \in PlacesIn(d, Live(d)),
             a[2].folder, p[1] = a[2].cluster
      PROVE  <<Append(a[1], Label(At(d, p))), At(d, p)>> \in Z
  <2> DEFINE y == <<Append(a[1], Label(At(d, p))), At(d, p)>>
  <2>1. y \in ObjectsOn(d) /\ y[2] = At(d, p) /\ y[1] = Append(a[1], Label(At(d, p)))
    BY <1>2, StandingObject
  <2>0. a[1] \in Seq(LabelSet) /\ Label(At(d, p)) \in LabelSet
    BY <1>0, PlaceTyped
  <2>2. ASSUME NEW z \in ObjectsOn(d), z[1] = y[1] PROVE z = y
    <3>1. z # RootObject
      <4>1. y[1] # <<>>
        BY <2>0, <2>1, AppendParts
      <4> QED
        BY <2>2, <4>1, RootIs
    <3>2. PICK b, q : StandsIn(d, z, b, q)
      BY <3>1, ObjectStands
    <3>3. b[1] \in Seq(LabelSet) /\ Label(At(d, q)) \in LabelSet
      BY <1>0, <3>2, PlaceTyped DEF StandsIn
    <3>4. Append(b[1], Label(At(d, q))) = Append(a[1], Label(At(d, p)))
      BY <2>1, <2>2, <3>2 DEF StandsIn
    <3>5. b[1] = a[1] /\ Label(At(d, q)) = Label(At(d, p))
      <4> DEFINE l == Label(At(d, q))
                 m == Label(At(d, p))
      <4>1. b[1] \in Seq(LabelSet) /\ a[1] \in Seq(LabelSet) /\ l \in LabelSet /\ m \in LabelSet
        BY <2>0, <3>3
      <4>2. Append(b[1], l) = Append(a[1], m)
        BY <3>4
      <4> HIDE DEF l, m
      <4>3. b[1] = a[1] /\ l = m
        BY <4>1, <4>2, AppendUnique
      <4> QED
        BY <4>3 DEF l, m
    <3>6. b = a
      BY <1>2, <3>2, <3>5 DEF StandsIn
    <3>7. p = q
      BY <1>2, <3>2, <3>5, <3>6 DEF StandsIn, OneName
    <3> QED
      BY <1>0, <3>2, <3>6, <3>7 DEF StandsIn
  <2> HIDE DEF y
  <2>3. y \in Z
    BY <2>1, <2>2
  <2> QED
    BY <2>3 DEF y
<1>3. ObjectsOn(d) \subseteq Z
  <2> HIDE DEF Z
  <2> QED
    BY <1>1, <1>2, ObjectInduction
<1> QED
  BY <1>3

\* The only member of a set.
LEMMA TheOne ==
  ASSUME NEW x, NEW S, S = {x}
  PROVE  The(S) = x
BY DEF The

\* The tree of a disk: an object's path has what a user sees of the object.
LEMMA TreeIs ==
  ASSUME NEW d \in [Clusters -> Stored], NEW map, Sound(d, map, Live(d)), OneName(d)
  PROVE  /\ TreeOn(d, map) = [path \in {o[1] : o \in ObjectsOn(d)} |-> TreeOn(d, map)[path]]
         /\ \A o \in ObjectsOn(d) : TreeOn(d, map)[o[1]] = Object(d, map, o[2])
<1> DEFINE value(path) == The({Object(d, map, o[2]) : o \in {x \in ObjectsOn(d) : x[1] = path}})
           t == [path \in {o[1] : o \in ObjectsOn(d)} |-> value(path)]
<1>1. TreeOn(d, map) = t
  <2>1. {[path \in {o[1] : o \in objects} |->
           The({Object(d, map, o[2]) : o \in {x \in objects : x[1] = path}})] :
          objects \in {ObjectsOn(d)}} = {t}
    OBVIOUS
  <2> QED
    BY <2>1, TheOne DEF TreeOn
<1>2. ASSUME NEW o \in ObjectsOn(d) PROVE value(o[1]) = Object(d, map, o[2])
  <2>1. {x \in ObjectsOn(d) : x[1] = o[1]} = {o}
    BY PathOnce
  <2>2. {Object(d, map, y[2]) : y \in {x \in ObjectsOn(d) : x[1] = o[1]}} = {Object(d, map, o[2])}
    BY <2>1
  <2> QED
    BY <2>2, TheOne
<1> HIDE DEF value
<1>3. \A o \in ObjectsOn(d) : t[o[1]] = Object(d, map, o[2])
  BY <1>2
<1>4. t = [path \in {o[1] : o \in ObjectsOn(d)} |-> t[path]]
  OBVIOUS
<1> QED
  BY <1>1, <1>3, <1>4

-----------------------------------------------------------------------------
(* What operations carry over from one disk to the next *)

\* What stands on disk e but at N stood on disk d, in the same folder and not at P; and what stood there
\* still stands where its folder is.
Carried(d, e, P, N) ==
  /\ \A q \in PlacesIn(e, Live(e)) \ N :
       \E r \in PlacesIn(d, Live(d)) \ P : r[1] = q[1] /\ At(d, r) = At(e, q)
  /\ \A r \in PlacesIn(d, Live(d)) \ P :
       r[1] \in Live(e) => \E q \in PlacesIn(e, Live(e)) : q[1] = r[1] /\ At(e, q) = At(d, r)

\* Nothing goes and x comes, into the folder c.
Comes(d, e, c, x) == \E n \in PlacesIn(e, Live(e)) : At(e, n) = x /\ n[1] = c /\ Carried(d, e, {}, {n})

\* A new entry adds a place.
LEMMA LinkedCarried ==
  ASSUME NEW d \in [Clusters -> Stored], NEW map, Sound(d, map, Live(d)),
         NEW c \in Live(d), Cardinality(Holes(EntriesOn(d, c))) > 1,
         NEW x \in EntryType, x.used, NEW e, NEW new, Links(d, map, e, new, c, x)
  PROVE  Comes(d, e, c, x)
<1> DEFINE L == Live(d)
           P == PlacesIn(d, L)
           t == EntriesOn(d, c)
           hole == FirstHole(t)
           n == <<c, hole>>
<1>1. OwnChains(d, map, P) /\ t \in Tables /\ Tidy(t)
  BY EntriesTyped DEF Sound
<1>2. /\ \A b \in L : EntriesOn(e, b) = IF b = c THEN AddEntry(t, x) ELSE EntriesOn(d, b)
      /\ x.folder => \A i \in Items : ~EntriesOn(e, x.cluster)[i].used
  BY DEF Links
<1> HIDE DEF t
<1>3. /\ hole \in Items /\ ~t[hole].used /\ AddEntry(t, x)[hole] = x
      /\ \A j \in Items : j # hole => AddEntry(t, x)[j] = t[j]
  BY <1>1, AddedIs DEF t
<1> HIDE DEF hole
<1>4. ASSUME NEW q \in P PROVE q[1] \in L /\ q[2] \in Items /\ At(d, q).used
                               /\ EntriesOn(e, q[1])[q[2]] = At(d, q)
  <2>1. q[1] \in L /\ q[2] \in Items /\ At(d, q).used /\ At(d, q) = EntriesOn(d, q[1])[q[2]]
    BY DEF PlacesIn, At
  <2>2. CASE q[1] = c
    <3>1. At(d, q) = t[q[2]]
      BY <2>1, <2>2 DEF t
    <3>2. q[2] # hole
      BY <1>3, <2>1, <3>1
    <3> QED
      BY <1>2, <1>3, <2>1, <2>2, <3>1, <3>2
  <2>3. CASE q[1] # c
    BY <1>2, <2>1, <2>3
  <2> QED
    BY <2>1, <2>2, <2>3
<1>5. L \subseteq Live(e)
  <2>1. ASSUME NEW q \in P, q[1] \in Live(e), At(d, q).folder PROVE At(d, q).cluster \in Live(e)
    <3>1. At(d, q).cluster \in Clusters
      BY OnePlace
    <3> QED
      BY <1>4, <2>1, <3>1, EntryStands
  <2>2. ROOT_CLUSTER_NUMBER \in Live(e)
    BY LiveIsLeast
  <2> QED
    BY <2>1, <2>2, LiveWithin
<1>6. n \in PlacesIn(e, Live(e)) /\ At(e, n) = x /\ n[1] = c
  <2>1. EntriesOn(e, c)[hole] = x /\ c \in Live(e)
    BY <1>2, <1>3, <1>5
  <2> QED
    BY <1>3, <2>1, EntryStands
<1>7. ASSUME NEW r \in P PROVE \E q \in PlacesIn(e, Live(e)) : q[1] = r[1] /\ At(e, q) = At(d, r)
  <2>1. <<r[1], r[2]>> \in PlacesIn(e, Live(e)) /\ At(e, <<r[1], r[2]>>) = At(d, r)
    BY <1>4, <1>5, <1>7, EntryStands
  <2> QED
    BY <2>1
<1>8. ASSUME NEW q \in PlacesIn(e, Live(e)), q # n
      PROVE  \E r \in P : r[1] = q[1] /\ At(d, r) = At(e, q)
  <2>1. q = <<q[1], q[2]>> /\ q[1] \in Live(e) /\ q[2] \in Items
        /\ EntriesOn(e, q[1])[q[2]].used /\ At(e, q) = EntriesOn(e, q[1])[q[2]]
    BY DEF PlacesIn, At
  <2>2. q[1] \in L
    <3>1. Sound(e, new, L \cup (IF x.folder THEN {x.cluster} ELSE {}))
      BY LinkedSound
    <3>2. Live(e) \subseteq L \cup (IF x.folder THEN {x.cluster} ELSE {})
      BY <3>1, LiveIsLeast DEF Sound
    <3> QED
      BY <1>2, <2>1, <3>2
  <2>3. EntriesOn(e, q[1])[q[2]] = EntriesOn(d, q[1])[q[2]]
    <3>1. CASE q[1] = c
      <4>1. q[2] # hole
        BY <1>8, <2>1, <3>1
      <4> QED
        BY <1>2, <1>3, <2>1, <2>2, <3>1, <4>1 DEF t
    <3>2. CASE q[1] # c
      BY <1>2, <2>2, <3>2
    <3> QED
      BY <3>1, <3>2
  <2>4. <<q[1], q[2]>> \in P /\ At(d, <<q[1], q[2]>>) = At(e, q)
    BY <2>1, <2>2, <2>3, EntryStands
  <2> QED
    BY <2>4
<1> HIDE DEF n, P
<1>9. Carried(d, e, {}, {n})
  BY <1>7, <1>8 DEF Carried, P
<1> QED
  BY <1>6, <1>9 DEF Comes

\* An entry that is removed takes its place with it, and those of the folders that are no more.
LEMMA UnlinkedCarried ==
  ASSUME NEW d \in [Clusters -> Stored], NEW map, Sound(d, map, Live(d)),
         NEW p \in PlacesIn(d, Live(d)), NEW X \in SUBSET Live(d),
         ROOT_CLUSTER_NUMBER \in X, p[1] \in X,
         NEW e, NEW new, Unlinks(d, map, e, new, X, p)
  PROVE  Live(e) \subseteq X /\ Carried(d, e, {p}, {})
<1> DEFINE L == Live(d)
           P == PlacesIn(d, L)
           Q == PlacesIn(e, Live(e))
           t == EntriesOn(d, p[1])
           i == p[2]
<1>1. /\ p = <<p[1], i>> /\ i \in Items /\ t[i].used /\ At(d, p) = t[i]
  BY DEF PlacesIn, At
<1>2. t \in Tables /\ Tidy(t)
  BY EntriesTyped DEF Sound
<1>3. /\ \A j \in Items : RemoveEntry(t, i)[j].used =>
           Origin(t, i, j) \in Items /\ Origin(t, i, j) # i /\ RemoveEntry(t, i)[j] = t[Origin(t, i, j)]
      /\ \A k \in Items : k # i => \E j \in Items : RemoveEntry(t, i)[j] = t[k]
  BY <1>1, <1>2, RemovedIs
<1>4. \A c \in X : EntriesOn(e, c) = IF c = p[1] THEN RemoveEntry(t, i) ELSE EntriesOn(d, c)
  BY DEF Unlinks
<1>5. Live(e) \subseteq X
  <2>1. Sound(e, new, X)
    BY UnlinkedSound
  <2> QED
    BY <2>1, LiveIsLeast DEF Sound
<1> HIDE DEF i, t, L
<1>6. ASSUME NEW q \in Q PROVE \E r \in P : r # p /\ r[1] = q[1] /\ At(d, r) = At(e, q)
  <2>1. q = <<q[1], q[2]>> /\ q[1] \in X /\ q[1] \in L /\ q[2] \in Items
        /\ EntriesOn(e, q[1])[q[2]].used /\ At(e, q) = EntriesOn(e, q[1])[q[2]]
    BY <1>5 DEF PlacesIn, At, L
  <2>2. CASE q[1] = p[1]
    <3> DEFINE j == Origin(t, i, q[2])
    <3>1. EntriesOn(e, q[1]) = RemoveEntry(t, i)
      BY <1>4, <2>1, <2>2
    <3>2. j \in Items /\ j # i /\ At(e, q) = t[j]
      BY <1>3, <2>1, <3>1
    <3>3. EntriesOn(d, p[1])[j] = At(e, q) /\ At(e, q).used
      BY <2>1, <3>2 DEF t
    <3> HIDE DEF j
    <3>4. <<p[1], j>> \in P /\ At(d, <<p[1], j>>) = At(e, q)
      BY <2>1, <2>2, <3>2, <3>3, EntryStands DEF L
    <3>5. <<p[1], j>> # p
      BY <1>1, <3>2
    <3> QED
      BY <2>2, <3>4, <3>5
  <2>3. CASE q[1] # p[1]
    <3>1. EntriesOn(d, q[1])[q[2]] = At(e, q) /\ At(e, q).used
      BY <1>4, <2>1, <2>3
    <3>2. <<q[1], q[2]>> \in P /\ At(d, <<q[1], q[2]>>) = At(e, q)
      BY <2>1, <3>1, EntryStands DEF L
    <3> QED
      BY <2>1, <2>3, <3>2
  <2> QED
    BY <2>2, <2>3
<1>7. ASSUME NEW r \in P, r # p, r[1] \in Live(e)
      PROVE  \E q \in Q : q[1] = r[1] /\ At(e, q) = At(d, r)
  <2>1. r = <<r[1], r[2]>> /\ r[1] \in X /\ r[2] \in Items /\ At(d, r).used
        /\ At(d, r) = EntriesOn(d, r[1])[r[2]]
    BY <1>5, <1>7 DEF PlacesIn, At
  <2>2. \E j \in Items : EntriesOn(e, r[1])[j] = At(d, r)
    <3>1. CASE r[1] = p[1]
      <4>1. r[2] # i /\ At(d, r) = t[r[2]]
        BY <1>1, <1>7, <2>1, <3>1 DEF t
      <4> QED
        BY <1>3, <1>4, <2>1, <3>1, <4>1
    <3>2. CASE r[1] # p[1]
      BY <1>4, <2>1, <3>2
    <3> QED
      BY <3>1, <3>2
  <2>3. PICK j \in Items : EntriesOn(e, r[1])[j] = At(d, r)
    BY <2>2
  <2>4. <<r[1], j>> \in Q /\ At(e, <<r[1], j>>) = At(d, r)
    BY <1>7, <2>1, <2>3, EntryStands
  <2> QED
    BY <2>4
<1> HIDE DEF P, Q
<1>8. Carried(d, e, {p}, {})
  BY <1>6, <1>7 DEF Carried, P, Q, L
<1> QED
  BY <1>5, <1>8

\* What stood at p goes and x comes, into the folder c.
Goes(d, e, p, c, x) ==
  \E n : /\ Carried(d, e, {p}, {n}) /\ At(e, n) = x /\ n[1] = c
         /\ c \in Live(e) => n \in PlacesIn(e, Live(e))

\* An entry that moves has another place.
LEMMA MovedCarried ==
  ASSUME NEW d \in [Clusters -> Stored], NEW map, Sound(d, map, Live(d)),
         NEW p \in PlacesIn(d, Live(d)),
         NEW c \in Live(d), Cardinality(Holes(EntriesOn(d, c))) > 1,
         NEW x \in EntryType, x.used, NEW e, Moves(d, e, p, c, x)
  PROVE  Goes(d, e, p, c, x)
<1> DEFINE L == Live(d)
           P == PlacesIn(d, L)
           Q == PlacesIn(e, Live(e))
           t == EntriesOn(d, p[1])
           u == EntriesOn(d, c)
           i == p[2]
           n == <<c, FirstHole(u)>>
<1>1. /\ p = <<p[1], i>> /\ p[1] \in L /\ i \in Items /\ t[i].used /\ At(d, p) = t[i]
  BY DEF PlacesIn, At
<1>2. t \in Tables /\ Tidy(t) /\ u \in Tables /\ Tidy(u)
  BY EntriesTyped, <1>1 DEF Sound
<1>3. /\ \A j \in Items : RemoveEntry(t, i)[j].used =>
           Origin(t, i, j) \in Items /\ Origin(t, i, j) # i /\ RemoveEntry(t, i)[j] = t[Origin(t, i, j)]
      /\ \A k \in Items : k # i => \E j \in Items : RemoveEntry(t, i)[j] = t[k]
  BY <1>1, <1>2, RemovedIs
<1>4. /\ FirstHole(u) \in Items /\ ~u[FirstHole(u)].used /\ AddEntry(u, x)[FirstHole(u)] = x
      /\ \A j \in Items : j # FirstHole(u) => AddEntry(u, x)[j] = u[j]
  BY <1>2, AddedIs
<1>5. /\ c # p[1]
      /\ EntriesOn(e, p[1]) = RemoveEntry(t, i) /\ EntriesOn(e, c) = AddEntry(u, x)
      /\ \A b \in L, j \in Items : b # p[1] /\ b # c => EntriesOn(e, b)[j] = EntriesOn(d, b)[j]
  BY DEF Moves
<1>6. Live(e) \subseteq L
  <2>1. Sound(e, map, L)
    BY MovedSound
  <2> QED
    BY <2>1, LiveIsLeast DEF Sound
<1>7. At(e, n) = x /\ n[1] = c /\ (c \in Live(e) => n \in Q)
  BY <1>4, <1>5 DEF At, PlacesIn
<1> HIDE DEF i, t, u, L
<1>8. ASSUME NEW q \in Q, q # n PROVE \E r \in P : r # p /\ r[1] = q[1] /\ At(d, r) = At(e, q)
  <2>1. q = <<q[1], q[2]>> /\ q[1] \in L /\ q[2] \in Items
        /\ EntriesOn(e, q[1])[q[2]].used /\ At(e, q) = EntriesOn(e, q[1])[q[2]]
    BY <1>6 DEF PlacesIn, At
  <2>2. CASE q[1] = p[1]
    <3> DEFINE j == Origin(t, i, q[2])
    <3>1. EntriesOn(e, q[1]) = RemoveEntry(t, i)
      BY <1>5, <2>2
    <3>2. j \in Items /\ j # i /\ At(e, q) = t[j]
      BY <1>3, <2>1, <3>1
    <3>3. EntriesOn(d, p[1])[j] = At(e, q) /\ At(e, q).used
      BY <2>1, <3>2 DEF t
    <3> HIDE DEF j
    <3>4. <<p[1], j>> \in P /\ At(d, <<p[1], j>>) = At(e, q)
      BY <1>1, <3>2, <3>3, EntryStands DEF L
    <3>5. <<p[1], j>> # p
      BY <1>1, <3>2
    <3> QED
      BY <2>2, <3>4, <3>5
  <2>3. CASE q[1] # p[1]
    <3>1. EntriesOn(d, q[1])[q[2]] = EntriesOn(e, q[1])[q[2]]
      <4>1. CASE q[1] = c
        <5>1. q[2] # FirstHole(u)
          BY <1>8, <2>1, <4>1
        <5> QED
          BY <1>4, <1>5, <2>1, <4>1, <5>1 DEF u
      <4>2. CASE q[1] # c
        BY <1>5, <2>1, <2>3, <4>2
      <4> QED
        BY <4>1, <4>2
    <3>2. <<q[1], q[2]>> \in P /\ At(d, <<q[1], q[2]>>) = At(e, q)
      BY <2>1, <3>1, EntryStands DEF L
    <3> QED
      BY <2>1, <2>3, <3>2
  <2> QED
    BY <2>2, <2>3
<1>9. ASSUME NEW r \in P, r # p, r[1] \in Live(e)
      PROVE  \E q \in Q : q[1] = r[1] /\ At(e, q) = At(d, r)
  <2>1. r = <<r[1], r[2]>> /\ r[1] \in L /\ r[2] \in Items /\ At(d, r).used
        /\ At(d, r) = EntriesOn(d, r[1])[r[2]]
    BY DEF PlacesIn, At
  <2>2. \E j \in Items : EntriesOn(e, r[1])[j] = At(d, r)
    <3>1. CASE r[1] = p[1]
      <4>1. r[2] # i /\ At(d, r) = t[r[2]]
        BY <1>1, <1>9, <2>1, <3>1 DEF t
      <4> QED
        BY <1>3, <1>5, <2>1, <3>1, <4>1
    <3>2. CASE r[1] = c
      <4>1. At(d, r) = u[r[2]]
        BY <2>1, <3>2 DEF u
      <4>2. r[2] # FirstHole(u)
        BY <1>4, <2>1, <4>1
      <4> QED
        BY <1>4, <1>5, <2>1, <3>2, <4>1, <4>2
    <3>3. CASE r[1] # p[1] /\ r[1] # c
      BY <1>5, <2>1, <3>3
    <3> QED
      BY <3>1, <3>2, <3>3
  <2>3. PICK j \in Items : EntriesOn(e, r[1])[j] = At(d, r)
    BY <2>2
  <2>4. <<r[1], j>> \in Q /\ At(e, <<r[1], j>>) = At(d, r)
    BY <1>9, <2>1, <2>3, EntryStands
  <2> QED
    BY <2>4
<1> HIDE DEF P, Q, n
<1>10. Carried(d, e, {p}, {n})
  BY <1>8, <1>9 DEF Carried, P, Q, L
<1> QED
  BY <1>7, <1>10 DEF Q, Goes

-----------------------------------------------------------------------------
(* Paths *)

\* Sequences of one length with the same members are one.
LEMMA SameSequence ==
  ASSUME NEW S, NEW s \in Seq(S), NEW t \in Seq(S), Len(s) = Len(t),
         \A k \in 1 .. Len(s) : s[k] = t[k]
  PROVE  s = t
OBVIOUS

\* The prefixes of a longer sequence are it and those of the shorter one.
LEMMA PrefixAppend ==
  ASSUME NEW S, NEW p \in Seq(S), NEW s \in Seq(S), NEW x \in S
  PROVE  Tree!IsPrefix(p, Append(s, x)) <=> p = Append(s, x) \/ Tree!IsPrefix(p, s)
<1> DEFINE q == Append(s, x)
<1>1. q \in Seq(S) /\ Len(q) = Len(s) + 1 /\ Len(s) \in Nat /\ Len(p) \in Nat
      /\ \A k \in 1 .. Len(s) : q[k] = s[k]
  OBVIOUS
<1> HIDE DEF q
<1>2. CASE Len(p) <= Len(s)
  <2>1. SubSeq(q, 1, Len(p)) \in Seq(S) /\ SubSeq(s, 1, Len(p)) \in Seq(S)
        /\ Len(SubSeq(q, 1, Len(p))) = Len(p) /\ Len(SubSeq(s, 1, Len(p))) = Len(p)
        /\ \A k \in 1 .. Len(p) : SubSeq(q, 1, Len(p))[k] = q[k] /\ SubSeq(s, 1, Len(p))[k] = s[k]
    BY <1>1, <1>2
  <2>2. SubSeq(q, 1, Len(p)) = SubSeq(s, 1, Len(p))
    <3>1. \A k \in 1 .. Len(p) : SubSeq(q, 1, Len(p))[k] = SubSeq(s, 1, Len(p))[k]
      BY <1>1, <1>2, <2>1
    <3> QED
      BY <2>1, <3>1
  <2>3. p # q
    BY <1>1, <1>2
  <2> QED
    BY <1>1, <1>2, <2>2, <2>3 DEF Tree!IsPrefix, q
<1>3. CASE Len(p) = Len(q)
  <2>1. SubSeq(q, 1, Len(p)) = q
    <3>1. SubSeq(q, 1, Len(q)) \in Seq(S) /\ Len(SubSeq(q, 1, Len(q))) = Len(q)
          /\ \A k \in 1 .. Len(q) : SubSeq(q, 1, Len(q))[k] = q[k]
      BY <1>1
    <3> QED
      BY <1>1, <1>3, <3>1
  <2>2. ~Tree!IsPrefix(p, s)
    BY <1>1, <1>3 DEF Tree!IsPrefix
  <2> QED
    BY <1>1, <1>3, <2>1, <2>2 DEF Tree!IsPrefix, q
<1>4. CASE Len(p) > Len(q)
  <2>1. p # q /\ ~Tree!IsPrefix(p, s) /\ ~Tree!IsPrefix(p, q)
    BY <1>1, <1>4 DEF Tree!IsPrefix
  <2> QED
    BY <2>1 DEF q
<1> QED
  BY <1>1, <1>2, <1>3, <1>4

\* A sequence is a prefix of itself, only the empty one of the empty one.
LEMMA PrefixSelf ==
  ASSUME NEW S, NEW p \in Seq(S)
  PROVE  /\ Tree!IsPrefix(p, p) /\ Tree!Suffix(p, p) = <<>>
         /\ Tree!IsPrefix(p, <<>>) => p = <<>>
<1>1. SubSeq(p, 1, Len(p)) = p
  <2>1. SubSeq(p, 1, Len(p)) \in Seq(S) /\ Len(SubSeq(p, 1, Len(p))) = Len(p)
        /\ \A k \in 1 .. Len(p) : SubSeq(p, 1, Len(p))[k] = p[k]
    OBVIOUS
  <2> QED
    BY <2>1
<1>2. SubSeq(p, Len(p) + 1, Len(p)) = <<>>
  OBVIOUS
<1>3. ASSUME Tree!IsPrefix(p, <<>>) PROVE p = <<>>
  <2>1. Len(p) = 0
    BY <1>3 DEF Tree!IsPrefix
  <2> QED
    BY <2>1
<1> QED
  BY <1>1, <1>2, <1>3 DEF Tree!IsPrefix, Tree!Suffix

\* What is behind a prefix.
LEMMA SuffixIs ==
  ASSUME NEW S, NEW p \in Seq(S), NEW s \in Seq(S), Tree!IsPrefix(p, s)
  PROVE  Tree!Suffix(p, s) \in Seq(S) /\ p \o Tree!Suffix(p, s) = s
<1>1. Len(p) \in Nat /\ Len(s) \in Nat /\ Len(p) <= Len(s) /\ SubSeq(s, 1, Len(p)) = p
  BY DEF Tree!IsPrefix
<1> DEFINE r == SubSeq(s, Len(p) + 1, Len(s))
<1>2. r \in Seq(S) /\ Len(r) = Len(s) - Len(p) /\ \A k \in 1 .. Len(r) : r[k] = s[Len(p) + k]
  BY <1>1
<1>3. \A k \in 1 .. Len(p) : p[k] = s[k]
  BY <1>1
<1> HIDE DEF r
<1>4. p \o r = s
  <2> DEFINE w == p \o r
  <2>1. w \in Seq(S) /\ Len(w) = Len(s)
    BY <1>1, <1>2
  <2>2. ASSUME NEW k \in 1 .. Len(s) PROVE w[k] = s[k]
    <3>1. CASE k <= Len(p)
      BY <1>1, <1>2, <1>3, <3>1
    <3>2. CASE k > Len(p)
      <4>1. w[k] = r[k - Len(p)] /\ k - Len(p) \in 1 .. Len(r) /\ Len(p) + (k - Len(p)) = k
        BY <1>1, <1>2, <3>2
      <4> QED
        BY <1>2, <4>1
    <3>3. k <= Len(p) \/ k > Len(p)
      BY <1>1
    <3> QED
      BY <3>1, <3>2, <3>3
  <2> HIDE DEF w
  <2>3. w = s
    BY <2>1, <2>2, SameSequence
  <2> QED
    BY <2>3 DEF w
<1> QED
  BY <1>2, <1>4 DEF Tree!Suffix, r

\* And in a sequence with one more behind it.
LEMMA SuffixAppend ==
  ASSUME NEW S, NEW p \in Seq(S), NEW s \in Seq(S), Tree!IsPrefix(p, s), NEW x \in S
  PROVE  Tree!Suffix(p, Append(s, x)) = Append(Tree!Suffix(p, s), x)
<1>1. Len(p) \in Nat /\ Len(s) \in Nat /\ Len(p) <= Len(s)
  BY DEF Tree!IsPrefix
<1> DEFINE r == SubSeq(s, Len(p) + 1, Len(s))
<1>2. r \in Seq(S) /\ Len(r) = Len(s) - Len(p) /\ \A k \in 1 .. Len(r) : r[k] = s[Len(p) + k]
  BY <1>1
<1> HIDE DEF r
<1> DEFINE q == Append(s, x)
           u == SubSeq(q, Len(p) + 1, Len(q))
<1>5. Len(q) = Len(s) + 1 /\ q \in Seq(S) /\ q[Len(s) + 1] = x /\ \A k \in 1 .. Len(s) : q[k] = s[k]
  OBVIOUS
<1> HIDE DEF q
<1>6. u \in Seq(S) /\ Len(u) = Len(r) + 1 /\ \A k \in 1 .. Len(u) : u[k] = q[Len(p) + k]
  BY <1>1, <1>2, <1>5
<1> HIDE DEF u
<1>7. u = Append(r, x)
  <2>1. Append(r, x) \in Seq(S) /\ Len(Append(r, x)) = Len(r) + 1 /\ Append(r, x)[Len(r) + 1] = x
        /\ \A k \in 1 .. Len(r) : Append(r, x)[k] = r[k]
    BY <1>2
  <2>2. ASSUME NEW k \in 1 .. Len(u) PROVE u[k] = Append(r, x)[k]
    <3>1. CASE k \in 1 .. Len(r)
      <4>1. Len(p) + k \in 1 .. Len(s)
        BY <1>1, <1>2, <3>1
      <4> QED
        BY <1>2, <1>5, <1>6, <2>1, <3>1, <4>1
    <3>2. CASE k = Len(r) + 1
      <4>1. Len(p) + k = Len(s) + 1
        BY <1>1, <1>2, <3>2
      <4> QED
        BY <1>5, <1>6, <2>1, <3>2, <4>1
    <3>3. k \in 1 .. Len(r) \/ k = Len(r) + 1
      <4>1. Len(r) \in Nat /\ Len(u) = Len(r) + 1
        BY <1>2, <1>6
      <4> QED
        BY <4>1
    <3> QED
      BY <3>1, <3>2, <3>3
  <2> QED
    BY <1>6, <2>1, <2>2
<1>8. Tree!Suffix(p, s) = r /\ Tree!Suffix(p, q) = u
  BY DEF Tree!Suffix, r, u
<1> QED
  BY <1>7, <1>8 DEF q

\* A sequence is a prefix of it and what is put behind it.
LEMMA ThenIs ==
  ASSUME NEW S, NEW s \in Seq(S), NEW r \in Seq(S)
  PROVE  /\ s \o r \in Seq(S) /\ Tree!IsPrefix(s, s \o r) /\ Tree!Suffix(s, s \o r) = r /\ s \o <<>> = s
<1> DEFINE q == s \o r
<1>1. q \in Seq(S) /\ Len(q) = Len(s) + Len(r) /\ Len(s) \in Nat /\ Len(r) \in Nat
      /\ (\A k \in 1 .. Len(s) : q[k] = s[k]) /\ \A k \in 1 .. Len(r) : q[Len(s) + k] = r[k]
  OBVIOUS
<1>3. s \o <<>> = s
  OBVIOUS
<1> HIDE DEF q
<1>4. SubSeq(q, 1, Len(s)) = s
  <2>1. SubSeq(q, 1, Len(s)) \in Seq(S) /\ Len(SubSeq(q, 1, Len(s))) = Len(s)
        /\ \A k \in 1 .. Len(s) : SubSeq(q, 1, Len(s))[k] = q[k]
    BY <1>1
  <2> QED
    BY <1>1, <2>1
<1>5. SubSeq(q, Len(s) + 1, Len(q)) = r
  <2>1. SubSeq(q, Len(s) + 1, Len(q)) \in Seq(S) /\ Len(SubSeq(q, Len(s) + 1, Len(q))) = Len(r)
        /\ \A k \in 1 .. Len(r) : SubSeq(q, Len(s) + 1, Len(q))[k] = q[Len(s) + k]
    BY <1>1
  <2> QED
    BY <1>1, <2>1
<1> QED
  BY <1>1, <1>3, <1>4, <1>5 DEF Tree!IsPrefix, Tree!Suffix, q

\* And one more.
LEMMA ThenAppend ==
  ASSUME NEW S, NEW s \in Seq(S), NEW r \in Seq(S), NEW x \in S
  PROVE  s \o Append(r, x) = Append(s \o r, x)
OBVIOUS

-----------------------------------------------------------------------------
(* The objects after an operation *)

\* An object has a path and an entry, and leads to a live folder if it is one.
LEMMA ObjectTyped ==
  ASSUME NEW d \in [Clusters -> Stored], NEW map, Sound(d, map, Live(d)), NEW o \in ObjectsOn(d)
  PROVE  /\ o = <<o[1], o[2]>> /\ o[1] \in Seq(LabelSet) /\ o[2] \in EntryType
         /\ o[2].folder => o[2].cluster \in Live(d)
<1>1. o \in Objects /\ Leading(d, o)
  BY ObjectStands
<1> QED
  BY <1>1 DEF Objects, Leading

\* Every live folder is that of an object.
LEMMA LiveObject ==
  ASSUME NEW d \in [Clusters -> Stored], NEW map, Sound(d, map, Live(d)), NEW c \in Live(d)
  PROVE  \E a \in ObjectsOn(d) : a[2].folder /\ a[2].cluster = c
<1> DEFINE Z == {b \in Live(d) : \E a \in ObjectsOn(d) : a[2].folder /\ a[2].cluster = b}
<1>1. ROOT_CLUSTER_NUMBER \in Z
  BY RootIs, ObjectsLeast, LiveIsLeast
<1>2. ASSUME NEW p \in PlacesIn(d, Live(d)), p[1] \in Z, At(d, p).folder PROVE At(d, p).cluster \in Z
  <2>1. PICK a \in ObjectsOn(d) : a[2].folder /\ a[2].cluster = p[1]
    BY <1>2
  <2> DEFINE o == <<Append(a[1], Label(At(d, p))), At(d, p)>>
  <2>2. o \in ObjectsOn(d) /\ o[2] = At(d, p)
    BY <2>1, StandingObject
  <2> HIDE DEF o
  <2>3. o[2].cluster \in Live(d)
    BY <1>2, <2>2, ObjectTyped
  <2> QED
    BY <1>2, <2>2, <2>3
<1> HIDE DEF Z
<1>3. Live(d) \subseteq Z
  BY <1>1, <1>2, LiveWithin
<1> QED
  BY <1>3 DEF Z

\* The object that stands at a place in an object, and its path.
There(a, x) == <<Append(a[1], Label(x)), x>>

\* It is one.
LEMMA ThereIs ==
  ASSUME NEW d \in [Clusters -> Stored], NEW map, Sound(d, map, Live(d)), NEW a \in ObjectsOn(d),
         NEW p \in PlacesIn(d, Live(d)), a[2].folder, p[1] = a[2].cluster
  PROVE  /\ There(a, At(d, p)) \in ObjectsOn(d) /\ There(a, At(d, p))[1] = Append(a[1], Label(At(d, p)))
         /\ There(a, At(d, p))[2] = At(d, p)
         /\ a[1] \in Seq(LabelSet) /\ Label(At(d, p)) \in LabelSet
<1>1. There(a, At(d, p)) \in ObjectsOn(d)
  BY StandingObject DEF There
<1>2. a[1] \in Seq(LabelSet) /\ Label(At(d, p)) \in LabelSet
  BY ObjectTyped, PlaceTyped
<1> QED
  BY <1>1, <1>2 DEF There

\* With a place more there is an object more.
LEMMA LinkedObjects ==
  ASSUME NEW d \in [Clusters -> Stored], NEW map, Sound(d, map, Live(d)),
         NEW e \in [Clusters -> Stored], NEW new, Sound(e, new, Live(e)),
         NEW n \in PlacesIn(e, Live(e)), NEW x, At(e, n) = x, Carried(d, e, {}, {n}),
         NEW a \in ObjectsOn(d), a[2].folder, a[2].cluster = n[1],
         x.folder => \A q \in PlacesIn(e, Live(e)) : q[1] # x.cluster
  PROVE  ObjectsOn(e) = ObjectsOn(d) \cup {There(a, x)}
<1>1. ObjectsOn(d) \subseteq ObjectsOn(e)
  <2>1. RootObject \in ObjectsOn(e)
    BY ObjectsLeast
  <2>2. ASSUME NEW b \in ObjectsOn(d) \cap ObjectsOn(e), NEW r \in PlacesIn(d, Live(d)),
               b[2].folder, r[1] = b[2].cluster
        PROVE  There(b, At(d, r)) \in ObjectsOn(e)
    <3>1. r[1] \in Live(e)
      BY <2>2, ObjectTyped
    <3>2. PICK q \in PlacesIn(e, Live(e)) : q[1] = r[1] /\ At(e, q) = At(d, r)
      BY <3>1 DEF Carried
    <3>3. There(b, At(e, q)) \in ObjectsOn(e)
      BY <2>2, <3>2, ThereIs
    <3> QED
      BY <3>2, <3>3
  <2> QED
    BY <2>1, <2>2, ObjectInduction DEF There
<1>2. There(a, x) \in ObjectsOn(e)
  BY <1>1, ThereIs
<1> DEFINE Z == ObjectsOn(d) \cup {There(a, x)}
<1>3. ASSUME NEW b \in ObjectsOn(e) \cap Z, NEW q \in PlacesIn(e, Live(e)),
             b[2].folder, q[1] = b[2].cluster
      PROVE  There(b, At(e, q)) \in Z
  <2>1. b \in ObjectsOn(d)
    <3>1. There(a, x)[2] = x
      BY DEF There
    <3> QED
      BY <1>3, <3>1
  <2>2. CASE q = n
    <3>1. b = a
      BY <1>3, <2>1, <2>2, ObjectOnce
    <3> QED
      BY <2>2, <3>1
  <2>3. CASE q # n
    <3>1. PICK r \in PlacesIn(d, Live(d)) : r[1] = q[1] /\ At(d, r) = At(e, q)
      BY <2>3 DEF Carried
    <3>2. There(b, At(d, r)) \in ObjectsOn(d)
      BY <1>3, <2>1, <3>1, ThereIs
    <3> QED
      BY <3>1, <3>2
  <2> QED
    BY <2>2, <2>3
<1>4. ObjectsOn(e) \subseteq Z
  <2>1. RootObject \in Z
    BY ObjectsLeast
  <2> HIDE DEF Z
  <2> QED
    BY <1>3, <2>1, ObjectInduction DEF There
<1> QED
  BY <1>1, <1>2, <1>4

\* What is at or inside the object with path pp, and what is not.
Inner(d, pp) == {o \in ObjectsOn(d) : Tree!IsPrefix(pp, o[1])}
Outer(d, pp) == {o \in ObjectsOn(d) : ~Tree!IsPrefix(pp, o[1])}

\* What stands at p, in the object a, has path pp.
PathIs(d, a, p, pp) ==
  /\ a \in ObjectsOn(d) /\ a[2].folder
  /\ p \in PlacesIn(d, Live(d)) /\ p[1] = a[2].cluster
  /\ pp = Append(a[1], Label(At(d, p)))

\* What stands at p is inside, what stands elsewhere has another path.
Splits(d, a, p, pp) ==
  /\ pp \in Seq(LabelSet) /\ RootObject \in Outer(d, pp)
  /\ There(a, At(d, p)) \in Inner(d, pp) /\ There(a, At(d, p))[1] = pp
  /\ \A o \in ObjectsOn(d) : o[1] = pp => o = There(a, At(d, p))
  /\ \A b \in ObjectsOn(d) : \A q \in PlacesIn(d, Live(d)) :
       b[2].folder /\ q[1] = b[2].cluster =>
         /\ q = p => b = a
         /\ q # p => There(b, At(d, q))[1] # pp

\* So it is where no folder has two entries of one name.
LEMMA InnerIs ==
  ASSUME NEW d \in [Clusters -> Stored], NEW map, Sound(d, map, Live(d)), OneName(d),
         NEW a, NEW p, NEW pp, PathIs(d, a, p, pp)
  PROVE  Splits(d, a, p, pp)
<1>0. /\ a \in ObjectsOn(d) /\ p \in PlacesIn(d, Live(d)) /\ a[2].folder /\ p[1] = a[2].cluster
      /\ pp = Append(a[1], Label(At(d, p)))
  BY DEF PathIs
<1>1. /\ There(a, At(d, p)) \in ObjectsOn(d) /\ There(a, At(d, p))[1] = pp
      /\ There(a, At(d, p))[2] = At(d, p)
      /\ a[1] \in Seq(LabelSet) /\ Label(At(d, p)) \in LabelSet
  BY <1>0, ThereIs
<1>2. pp \in Seq(LabelSet) /\ pp # <<>>
  BY <1>0, <1>1, AppendParts
<1>3. RootObject \in Outer(d, pp)
  BY <1>2, PrefixSelf, RootIs, ObjectsLeast DEF Outer
<1>4. There(a, At(d, p)) \in Inner(d, pp)
  BY <1>1, <1>2, PrefixSelf DEF Inner
<1>5. \A o \in ObjectsOn(d) : o[1] = pp => o = There(a, At(d, p))
  BY <1>1, PathOnce
<1>6. ASSUME NEW b \in ObjectsOn(d), NEW q \in PlacesIn(d, Live(d)), b[2].folder, q[1] = b[2].cluster
      PROVE  /\ q = p => b = a
             /\ q # p => There(b, At(d, q))[1] # pp
  <2>1. CASE q = p
    BY <1>0, <1>6, <2>1, ObjectOnce
  <2>2. CASE q # p
    <3>1. There(b, At(d, q)) \in ObjectsOn(d) /\ There(b, At(d, q))[2] = At(d, q)
      BY <1>6, ThereIs
    <3>2. At(d, q).cluster # At(d, p).cluster
      BY <1>0, <2>2, OnePlace
    <3>3. There(b, At(d, q)) # There(a, At(d, p))
      BY <1>1, <3>1, <3>2
    <3> QED
      BY <1>5, <2>2, <3>1, <3>3
  <2> QED
    BY <2>1, <2>2
<1> QED
  BY <1>1, <1>2, <1>3, <1>4, <1>5, <1>6 DEF Splits

\* An object in another is inside if the other is, or is the one itself.
LEMMA InnerGrows ==
  ASSUME NEW d \in [Clusters -> Stored], NEW map, Sound(d, map, Live(d)),
         NEW b \in ObjectsOn(d), NEW q \in PlacesIn(d, Live(d)), b[2].folder, q[1] = b[2].cluster,
         NEW pp \in Seq(LabelSet)
  PROVE  There(b, At(d, q)) \in Inner(d, pp) <=> There(b, At(d, q))[1] = pp \/ b \in Inner(d, pp)
<1>1. /\ There(b, At(d, q)) \in ObjectsOn(d) /\ There(b, At(d, q))[1] = Append(b[1], Label(At(d, q)))
      /\ b[1] \in Seq(LabelSet) /\ Label(At(d, q)) \in LabelSet
  BY ThereIs
<1> DEFINE l == Label(At(d, q))
           s == b[1]
<1> HIDE DEF l, s
<1>2. Tree!IsPrefix(pp, Append(s, l)) <=> pp = Append(s, l) \/ Tree!IsPrefix(pp, s)
  BY <1>1, PrefixAppend DEF l, s
<1> QED
  BY <1>1, <1>2 DEF Inner, l, s

\* With a place less there is less of what was there, and nothing else.
LEMMA UnlinkedObjects ==
  ASSUME NEW d \in [Clusters -> Stored], NEW map, Sound(d, map, Live(d)), OneName(d),
         NEW e \in [Clusters -> Stored], NEW new, Sound(e, new, Live(e)),
         NEW p, Carried(d, e, {p}, {}), NEW a, NEW pp, PathIs(d, a, p, pp)
  PROVE  ObjectsOn(e) = Outer(d, pp)
<1>1. /\ pp \in Seq(LabelSet) /\ RootObject \in Outer(d, pp)
      /\ There(a, At(d, p)) \in Inner(d, pp) /\ There(a, At(d, p))[1] = pp
      /\ \A o \in ObjectsOn(d) : o[1] = pp => o = There(a, At(d, p))
      /\ \A b \in ObjectsOn(d) : \A q \in PlacesIn(d, Live(d)) :
           b[2].folder /\ q[1] = b[2].cluster =>
             /\ q = p => b = a
             /\ q # p => There(b, At(d, q))[1] # pp
  BY InnerIs DEF Splits
<1>2. ASSUME NEW b \in ObjectsOn(e) \cap Outer(d, pp), NEW q \in PlacesIn(e, Live(e)),
             b[2].folder, q[1] = b[2].cluster
      PROVE  There(b, At(e, q)) \in Outer(d, pp)
  <2>1. PICK r \in PlacesIn(d, Live(d)) : r # p /\ r[1] = q[1] /\ At(d, r) = At(e, q)
    BY DEF Carried
  <2>2. b \in ObjectsOn(d) /\ b \notin Inner(d, pp)
    BY <1>2 DEF Outer, Inner
  <2>3. There(b, At(d, r)) \in ObjectsOn(d)
    BY <1>2, <2>1, <2>2, ThereIs
  <2>4. There(b, At(d, r)) \notin Inner(d, pp)
    BY <1>1, <1>2, <2>1, <2>2, InnerGrows
  <2> QED
    BY <2>1, <2>3, <2>4 DEF Outer, Inner
<1>3. ObjectsOn(e) \subseteq Outer(d, pp)
  BY <1>1, <1>2, ObjectInduction DEF There
<1> DEFINE Z == Inner(d, pp) \cup ObjectsOn(e)
<1>4. ASSUME NEW b \in ObjectsOn(d) \cap Z, NEW r \in PlacesIn(d, Live(d)),
             b[2].folder, r[1] = b[2].cluster
      PROVE  There(b, At(d, r)) \in Z
  <2>1. SUFFICES ASSUME There(b, At(d, r)) \notin Inner(d, pp) PROVE There(b, At(d, r)) \in ObjectsOn(e)
    OBVIOUS
  <2>2. b \in ObjectsOn(e) /\ There(b, At(d, r))[1] # pp
    BY <1>1, <1>4, <2>1, InnerGrows
  <2>3. r[1] \in Live(e)
    BY <1>4, <2>2, ObjectTyped
  <2>4. r # p
    BY <1>1, <1>4, <2>2
  <2>5. PICK q \in PlacesIn(e, Live(e)) : q[1] = r[1] /\ At(e, q) = At(d, r)
    BY <2>3, <2>4 DEF Carried
  <2>6. There(b, At(e, q)) \in ObjectsOn(e)
    BY <1>4, <2>2, <2>5, ThereIs
  <2> QED
    BY <2>5, <2>6
<1>5. ObjectsOn(d) \subseteq Z
  <2>1. RootObject \in Z
    BY ObjectsLeast
  <2> HIDE DEF Z
  <2> QED
    BY <1>4, <2>1, ObjectInduction DEF There
<1> QED
  BY <1>3, <1>5 DEF Outer, Inner

\* What becomes of an object inside the one with path pp, when that goes to the path `to' as x.
Shifted(pp, to, x, o) == <<to \o Tree!Suffix(pp, o[1]), IF o[1] = pp THEN x ELSE o[2]>>

\* It is the same object elsewhere; what stands in it goes with it.
Shifts(d, a, p, pp, to, x) ==
  /\ Shifted(pp, to, x, There(a, At(d, p))) = <<to, x>>
  /\ \A o \in Inner(d, pp) : /\ Shifted(pp, to, x, o)[1] = to \o Tree!Suffix(pp, o[1])
                             /\ SameObject(o[2], Shifted(pp, to, x, o)[2])
  /\ \A o \in Inner(d, pp) : \A r \in PlacesIn(d, Live(d)) :
       o[2].folder /\ r[1] = o[2].cluster =>
         /\ r # p
         /\ There(o, At(d, r)) \in Inner(d, pp)
         /\ Shifted(pp, to, x, There(o, At(d, r))) = There(Shifted(pp, to, x, o), At(d, r))

\* So it is where no folder has two entries of one name.
LEMMA ShiftedIs ==
  ASSUME NEW d \in [Clusters -> Stored], NEW map, Sound(d, map, Live(d)), OneName(d),
         NEW a, NEW p, NEW pp, PathIs(d, a, p, pp),
         NEW x \in EntryType, SameObject(At(d, p), x), NEW to \in Seq(LabelSet)
  PROVE  Shifts(d, a, p, pp, to, x)
<1>1. Splits(d, a, p, pp)
  BY InnerIs
<1>2. /\ pp \in Seq(LabelSet) /\ There(a, At(d, p))[1] = pp
      /\ \A o \in ObjectsOn(d) : o[1] = pp => o = There(a, At(d, p))
  BY <1>1 DEF Splits
<1>3. Shifted(pp, to, x, There(a, At(d, p))) = <<to, x>>
  <2>1. Tree!Suffix(pp, pp) = <<>> /\ to \o <<>> = to
    BY <1>2, PrefixSelf
  <2> QED
    BY <1>2, <2>1 DEF Shifted
<1>4. ASSUME NEW o \in Inner(d, pp)
      PROVE  /\ Shifted(pp, to, x, o)[1] = to \o Tree!Suffix(pp, o[1])
             /\ SameObject(o[2], Shifted(pp, to, x, o)[2])
  <2>1. o \in ObjectsOn(d)
    BY DEF Inner
  <2>2. o[1] = pp => o[2] = At(d, p)
    BY <1>2, <2>1 DEF There
  <2> QED
    BY <2>2 DEF Shifted, SameObject
<1>5. ASSUME NEW o \in Inner(d, pp), NEW r \in PlacesIn(d, Live(d)), o[2].folder, r[1] = o[2].cluster
      PROVE  /\ r # p
             /\ There(o, At(d, r)) \in Inner(d, pp)
             /\ Shifted(pp, to, x, There(o, At(d, r))) = There(Shifted(pp, to, x, o), At(d, r))
  <2>1. o \in ObjectsOn(d) /\ Tree!IsPrefix(pp, o[1])
    BY DEF Inner
  <2>2. There(o, At(d, r)) \in Inner(d, pp)
    BY <1>2, <1>5, <2>1, InnerGrows
  <2>3. /\ There(o, At(d, r))[1] = Append(o[1], Label(At(d, r))) /\ There(o, At(d, r))[2] = At(d, r)
        /\ o[1] \in Seq(LabelSet) /\ Label(At(d, r)) \in LabelSet
    BY <1>5, <2>1, ThereIs
  <2> DEFINE l == Label(At(d, r))
             s == o[1]
             v == Tree!Suffix(pp, s)
  <2>4. pp # Append(s, l)
    <3>1. Len(pp) \in Nat /\ Len(s) \in Nat /\ Len(pp) <= Len(s) /\ Len(Append(s, l)) = Len(s) + 1
      BY <1>2, <2>1, <2>3, AppendParts DEF Tree!IsPrefix
    <3> QED
      BY <3>1
  <2>5. r # p
    <3>1. r = p => o = a
      BY <1>1, <1>5, <2>1 DEF Splits
    <3> QED
      BY <1>2, <2>3, <2>4, <3>1
  <2>0. Tree!IsPrefix(pp, s)
    BY <2>1
  <2> HIDE DEF l, s
  <2>6. /\ v \in Seq(LabelSet)
        /\ Tree!Suffix(pp, Append(s, l)) = Append(v, l)
    BY <1>2, <2>0, <2>3, SuffixIs, SuffixAppend DEF l, s
  <2> HIDE DEF v
  <2>7. to \o Append(v, l) = Append(to \o v, l)
    BY <2>3, <2>6, ThenAppend DEF l
  <2>8. /\ There(o, At(d, r))[1] = Append(s, l) /\ There(o, At(d, r))[2] = At(d, r)
        /\ There(o, At(d, r))[1] # pp /\ Shifted(pp, to, x, o)[1] = to \o v
    BY <1>4, <2>3, <2>4 DEF l, s, v
  <2>9. Shifted(pp, to, x, There(o, At(d, r))) = <<to \o Append(v, l), At(d, r)>>
    BY <2>6, <2>8 DEF Shifted
  <2>10. There(Shifted(pp, to, x, o), At(d, r)) = <<Append(to \o v, l), At(d, r)>>
    BY <2>8 DEF There, l
  <2> QED
    BY <2>2, <2>5, <2>7, <2>9, <2>10
<1> QED
  BY <1>3, <1>4, <1>5 DEF Shifts

\* All objects after that.
WithShifted(d, pp, to, x) == Outer(d, pp) \cup {Shifted(pp, to, x, o) : o \in Inner(d, pp)}

\* What stood at p, in the object a and with path pp, stands at n as x, in b and with the path `to'.
Relocates(d, map, e, new, a, p, pp, b, x, n, to) ==
  /\ d \in [Clusters -> Stored] /\ Sound(d, map, Live(d)) /\ OneName(d)
  /\ e \in [Clusters -> Stored] /\ Sound(e, new, Live(e))
  /\ PathIs(d, a, p, pp) /\ b \in Outer(d, pp) /\ b[2].folder
  /\ x \in EntryType /\ SameObject(At(d, p), x)
  /\ n[1] = b[2].cluster /\ At(e, n) = x
  /\ n[1] \in Live(e) => n \in PlacesIn(e, Live(e))
  /\ Carried(d, e, {p}, {n}) /\ to = Append(b[1], Label(x))

\* With a place elsewhere the object that stood there, and all in it, is elsewhere.
LEMMA MovedObjects ==
  ASSUME NEW d, NEW map, NEW e, NEW new, NEW a, NEW p, NEW pp, NEW b, NEW x, NEW n, NEW to,
         Relocates(d, map, e, new, a, p, pp, b, x, n, to)
  PROVE  /\ to \in Seq(LabelSet)
         /\ ObjectsOn(e) = WithShifted(d, pp, to, x)
<1> SUFFICES ASSUME d \in [Clusters -> Stored], Sound(d, map, Live(d)), OneName(d),
                    e \in [Clusters -> Stored], Sound(e, new, Live(e)), PathIs(d, a, p, pp),
                    b \in Outer(d, pp), b[2].folder, x \in EntryType, SameObject(At(d, p), x),
                    n[1] = b[2].cluster, At(e, n) = x, n[1] \in Live(e) => n \in PlacesIn(e, Live(e)),
                    Carried(d, e, {p}, {n}), to = Append(b[1], Label(x))
             PROVE  /\ to \in Seq(LabelSet)
                    /\ ObjectsOn(e) = WithShifted(d, pp, to, x)
  BY DEF Relocates
<1>1. Splits(d, a, p, pp)
  BY InnerIs
<1>2. /\ pp \in Seq(LabelSet) /\ RootObject \in Outer(d, pp)
      /\ There(a, At(d, p)) \in Inner(d, pp) /\ There(a, At(d, p))[1] = pp
      /\ \A o \in ObjectsOn(d) : o[1] = pp => o = There(a, At(d, p))
  BY <1>1 DEF Splits
<1>3. \A g \in ObjectsOn(d) : \A q \in PlacesIn(d, Live(d)) :
        g[2].folder /\ q[1] = g[2].cluster /\ q # p => There(g, At(d, q))[1] # pp
  BY <1>1 DEF Splits
<1>4. b \in ObjectsOn(d) /\ b \notin Inner(d, pp) /\ b[1] \in Seq(LabelSet) /\ Label(x) \in LabelSet
  <2>1. b \in ObjectsOn(d) /\ b \notin Inner(d, pp)
    BY DEF Outer, Inner
  <2>2. Label(x) \in LabelSet
    BY DEF EntryType, Label, LabelSet
  <2> QED
    BY <2>1, <2>2, ObjectTyped
<1>5. to \in Seq(LabelSet)
  BY <1>4, AppendParts
<1> DEFINE F(o) == Shifted(pp, to, x, o)
           T == There(a, At(d, p))
           I == Inner(d, pp)
           Z == Outer(d, pp) \cup {F(o) : o \in I}
<1>6. /\ F(T) = <<to, x>>
      /\ \A o \in I : SameObject(o[2], F(o)[2])
      /\ \A o \in I : \A r \in PlacesIn(d, Live(d)) :
           o[2].folder /\ r[1] = o[2].cluster =>
             r # p /\ There(o, At(d, r)) \in I /\ F(There(o, At(d, r))) = There(F(o), At(d, r))
  <2>1. Shifts(d, a, p, pp, to, x)
    BY <1>5, ShiftedIs
  <2> QED
    BY <2>1 DEF Shifts
<1>7. There(b, x) = <<to, x>> /\ T \in I
  BY <1>2 DEF There
<1> HIDE DEF F, T
<1>8. ASSUME NEW g \in ObjectsOn(e) \cap Z, NEW q \in PlacesIn(e, Live(e)),
             g[2].folder, q[1] = g[2].cluster
      PROVE  There(g, At(e, q)) \in Z
  <2>1. CASE q = n
    <3>1. CASE g \in Outer(d, pp)
      <4>1. g = b
        BY <1>4, <1>8, <2>1, <3>1, ObjectOnce DEF Outer
      <4> QED
        BY <1>6, <1>7, <2>1, <4>1
    <3>2. CASE g \in {F(o) : o \in I}
      <4>1. PICK o \in I : g = F(o)
        BY <3>2
      <4>2. o[2].cluster = b[2].cluster /\ o \in ObjectsOn(d)
        BY <1>6, <1>8, <2>1, <4>1 DEF SameObject, Inner
      <4>3. o = b
        BY <1>4, <4>2, ObjectOnce
      <4> QED
        BY <1>4, <4>1, <4>3
    <3> QED
      BY <1>8, <3>1, <3>2
  <2>2. CASE q # n
    <3>1. PICK r \in PlacesIn(d, Live(d)) : r # p /\ r[1] = q[1] /\ At(d, r) = At(e, q)
      BY <2>2 DEF Carried
    <3>2. CASE g \in Outer(d, pp)
      <4>1. g \in ObjectsOn(d) /\ g \notin I
        BY <3>2 DEF Outer, Inner
      <4>2. There(g, At(d, r)) \in ObjectsOn(d) /\ There(g, At(d, r))[1] # pp
        BY <1>3, <1>8, <3>1, <4>1, ThereIs
      <4>3. There(g, At(d, r)) \notin I
        BY <1>2, <1>8, <3>1, <4>1, <4>2, InnerGrows
      <4>4. There(g, At(d, r)) \in Outer(d, pp)
        BY <4>2, <4>3 DEF Outer, Inner
      <4> QED
        BY <3>1, <4>4
    <3>3. CASE g \in {F(o) : o \in I}
      <4>1. PICK o \in I : g = F(o)
        BY <3>3
      <4>2. o[2].folder /\ r[1] = o[2].cluster
        BY <1>6, <1>8, <3>1, <4>1 DEF SameObject
      <4>3. There(o, At(d, r)) \in I /\ F(There(o, At(d, r))) = There(g, At(d, r))
        BY <1>6, <4>1, <4>2
      <4> QED
        BY <3>1, <4>3
    <3> QED
      BY <1>8, <3>2, <3>3
  <2> QED
    BY <2>1, <2>2
<1>9. ObjectsOn(e) \subseteq Z
  <2>1. RootObject \in Z
    BY <1>2
  <2> HIDE DEF Z
  <2> QED
    BY <1>8, <2>1, ObjectInduction DEF There
<1> DEFINE Y == I \cup ObjectsOn(e)
<1>10. ASSUME NEW g \in ObjectsOn(d) \cap Y, NEW r \in PlacesIn(d, Live(d)),
              g[2].folder, r[1] = g[2].cluster
       PROVE  There(g, At(d, r)) \in Y
  <2>1. CASE g \in I
    BY <1>6, <1>10, <2>1
  <2>2. CASE g \in ObjectsOn(e) /\ g \notin I /\ r = p
    <3>1. g = a
      BY <1>1, <1>10, <2>2 DEF Splits
    <3> QED
      BY <1>7, <2>2, <3>1 DEF T
  <2>3. CASE g \in ObjectsOn(e) /\ g \notin I /\ r # p
    <3>1. r[1] \in Live(e)
      BY <1>10, <2>3, ObjectTyped
    <3>2. PICK q \in PlacesIn(e, Live(e)) : q[1] = r[1] /\ At(e, q) = At(d, r)
      BY <2>3, <3>1 DEF Carried
    <3>3. There(g, At(e, q)) \in ObjectsOn(e)
      BY <1>10, <2>3, <3>2, ThereIs
    <3> QED
      BY <3>2, <3>3
  <2> QED
    BY <1>10, <2>1, <2>2, <2>3
<1>11. ObjectsOn(d) \subseteq Y
  <2>1. RootObject \in Y
    BY ObjectsLeast
  <2> HIDE DEF Y, I
  <2> QED
    BY <1>10, <2>1, ObjectInduction DEF There
<1>12. Outer(d, pp) \subseteq ObjectsOn(e)
  BY <1>11 DEF Outer, Inner
<1>13. <<to, x>> \in ObjectsOn(e)
  <2>1. b \in ObjectsOn(e)
    BY <1>12
  <2>2. n \in PlacesIn(e, Live(e))
    BY <2>1, ObjectTyped
  <2> QED
    BY <1>7, <2>1, <2>2, ThereIs
<1> DEFINE W == Outer(d, pp) \cup {o \in I : F(o) \in ObjectsOn(e)}
<1>14. ASSUME NEW g \in ObjectsOn(d) \cap W, NEW r \in PlacesIn(d, Live(d)),
              g[2].folder, r[1] = g[2].cluster
       PROVE  There(g, At(d, r)) \in W
  <2>0. There(g, At(d, r)) \in ObjectsOn(d)
    BY <1>14, ThereIs
  <2>1. CASE g \in I
    <3>1. /\ There(g, At(d, r)) \in I /\ F(There(g, At(d, r))) = There(F(g), At(d, r)) /\ r # p
          /\ SameObject(g[2], F(g)[2])
      BY <1>6, <1>14, <2>1
    <3>2. F(g) \in ObjectsOn(e)
      BY <1>14, <2>1 DEF Outer, Inner
    <3>3. F(g)[2].folder /\ F(g)[2].cluster = r[1]
      BY <1>14, <3>1 DEF SameObject
    <3>4. r[1] \in Live(e)
      BY <3>2, <3>3, ObjectTyped
    <3>5. PICK q \in PlacesIn(e, Live(e)) : q[1] = r[1] /\ At(e, q) = At(d, r)
      BY <3>1, <3>4 DEF Carried
    <3>6. There(F(g), At(e, q)) \in ObjectsOn(e)
      BY <3>2, <3>3, <3>5, ThereIs
    <3> QED
      BY <3>1, <3>5, <3>6
  <2>2. CASE g \notin I
    <3>1. CASE There(g, At(d, r)) \in I
      <4>1. There(g, At(d, r))[1] = pp
        BY <1>2, <1>14, <2>2, <3>1, InnerGrows
      <4>2. There(g, At(d, r)) = T
        BY <1>2, <2>0, <4>1 DEF T
      <4> QED
        BY <1>6, <1>7, <1>13, <4>2
    <3>2. CASE There(g, At(d, r)) \notin I
      BY <2>0, <3>2 DEF Outer, Inner
    <3> QED
      BY <3>1, <3>2
  <2> QED
    BY <2>1, <2>2
<1>15. ObjectsOn(d) \subseteq W
  <2>1. RootObject \in W
    BY <1>2
  <2> HIDE DEF W, I
  <2> QED
    BY <1>14, <2>1, ObjectInduction DEF There
<1>16. {F(o) : o \in I} \subseteq ObjectsOn(e)
  BY <1>15 DEF Outer, Inner
<1>17. ObjectsOn(e) = Outer(d, pp) \cup {F(o) : o \in I}
  BY <1>9, <1>12, <1>16
<1> HIDE DEF Inner, Outer
<1> QED
  BY <1>5, <1>17 DEF F, WithShifted

-----------------------------------------------------------------------------
(* The tree of a disk *)

\* The entries of a folder differ in name or extension, and a folder has no size.
Labelled(d) ==
  /\ OneName(d)
  /\ \A p \in PlacesIn(d, Live(d)) : At(d, p).folder => At(d, p).size = 0

\* No entry of the folder c has the name and the extension of x.
Fresh(d, c, x) == \A r \in PlacesIn(d, Live(d)) : r[1] = c => Label(At(d, r)) # Label(x)

\* So it stays if what is new is so.
LEMMA CarriedNames ==
  ASSUME NEW d, NEW map, Labelled(d), NEW e, NEW new, Sound(e, new, Live(e)),
         NEW P, NEW N, Carried(d, e, P, N), \A m, n \in N : m = n,
         \A n \in N : n \in PlacesIn(e, Live(e)) => /\ At(e, n).folder => At(e, n).size = 0
                                                    /\ Fresh(d, n[1], At(e, n))
  PROVE  Labelled(e)
<1> DEFINE Q == PlacesIn(e, Live(e))
<1>1. ASSUME NEW q \in Q, q \notin N
      PROVE  \E r \in PlacesIn(d, Live(d)) : r[1] = q[1] /\ At(d, r) = At(e, q)
  BY <1>1 DEF Carried
<1>2. ASSUME NEW p \in Q, NEW q \in Q, p[1] = q[1], Label(At(e, p)) = Label(At(e, q)) PROVE p = q
  <2>1. CASE p \in N /\ q \in N
    BY <2>1
  <2>2. CASE p \in N /\ q \notin N
    <3>1. PICK r \in PlacesIn(d, Live(d)) : r[1] = q[1] /\ At(d, r) = At(e, q)
      BY <1>1, <2>2
    <3>2. Fresh(d, p[1], At(e, p))
      BY <2>2
    <3> QED
      BY <1>2, <3>1, <3>2 DEF Fresh
  <2>3. CASE p \notin N /\ q \in N
    <3>1. PICK r \in PlacesIn(d, Live(d)) : r[1] = p[1] /\ At(d, r) = At(e, p)
      BY <1>1, <2>3
    <3>2. Fresh(d, q[1], At(e, q))
      BY <2>3
    <3> QED
      BY <1>2, <3>1, <3>2 DEF Fresh
  <2>4. CASE p \notin N /\ q \notin N
    <3>1. PICK r \in PlacesIn(d, Live(d)) : r[1] = p[1] /\ At(d, r) = At(e, p)
      BY <1>1, <2>4
    <3>2. PICK s \in PlacesIn(d, Live(d)) : s[1] = q[1] /\ At(d, s) = At(e, q)
      BY <1>1, <2>4
    <3>3. r = s
      BY <1>2, <3>1, <3>2 DEF Labelled, OneName
    <3>4. At(e, p).cluster = At(e, q).cluster
      BY <3>1, <3>2, <3>3
    <3> QED
      BY <3>4, OnePlace
  <2> QED
    BY <2>1, <2>2, <2>3, <2>4
<1>3. ASSUME NEW q \in Q, At(e, q).folder PROVE At(e, q).size = 0
  <2>1. CASE q \in N
    BY <1>3, <2>1
  <2>2. CASE q \notin N
    <3>1. PICK r \in PlacesIn(d, Live(d)) : At(d, r) = At(e, q)
      BY <1>1, <2>2
    <3> QED
      BY <1>3, <3>1 DEF Labelled
  <2> QED
    BY <2>1, <2>2
<1> QED
  BY <1>2, <1>3 DEF Labelled, OneName

\* What a folder is in the tree.
TreeFolder == [size |-> 0, bytes |-> <<>>]

\* It is what a folder object is.
LEMMA FolderIs ==
  ASSUME NEW d \in [Clusters -> Stored], NEW map, Sound(d, map, Live(d)), Labelled(d),
         NEW o \in ObjectsOn(d), o[2].folder
  PROVE  Object(d, map, o[2]) = TreeFolder /\ TreeOn(d, map)[o[1]] = TreeFolder
<1>1. o[2].size = 0
  <2>1. CASE o = RootObject
    BY <2>1, RootIs
  <2>2. CASE o # RootObject
    <3>1. PICK a, p : StandsIn(d, o, a, p)
      BY <2>2, ObjectStands
    <3> QED
      BY <3>1 DEF StandsIn, Labelled
  <2> QED
    BY <2>1, <2>2
<1>2. Object(d, map, o[2]) = TreeFolder
  BY <1>1 DEF Object, TreeFolder
<1> QED
  BY <1>2, TreeIs DEF Labelled

\* The paths of the objects of a disk.
PathsOn(d) == {o[1] : o \in ObjectsOn(d)}

\* The tree of a disk is a function on them.
LEMMA TreeDomain ==
  ASSUME NEW d \in [Clusters -> Stored], NEW map, Sound(d, map, Live(d)), Labelled(d)
  PROVE  /\ TreeOn(d, map) = [path \in PathsOn(d) |-> TreeOn(d, map)[path]]
         /\ DOMAIN TreeOn(d, map) = PathsOn(d)
         /\ \A o \in ObjectsOn(d) : TreeOn(d, map)[o[1]] = Object(d, map, o[2])
<1>1. /\ TreeOn(d, map) = [path \in PathsOn(d) |-> TreeOn(d, map)[path]]
      /\ \A o \in ObjectsOn(d) : TreeOn(d, map)[o[1]] = Object(d, map, o[2])
  BY TreeIs DEF Labelled, PathsOn
<1>2. DOMAIN TreeOn(d, map) = PathsOn(d)
  BY <1>1
<1> QED
  BY <1>1, <1>2

\* Whatever leads to an object is one.
LEMMA PathsClosed ==
  ASSUME NEW d \in [Clusters -> Stored], NEW map, Sound(d, map, Live(d)), NEW s \in Seq(LabelSet),
         NEW o \in ObjectsOn(d), Tree!IsPrefix(s, o[1])
  PROVE  s \in PathsOn(d)
<1> DEFINE Z == {x \in ObjectsOn(d) : Tree!IsPrefix(s, x[1]) => s \in PathsOn(d)}
<1>1. RootObject \in Z
  <2>1. RootObject \in ObjectsOn(d) /\ RootObject[1] = <<>>
    BY RootIs, ObjectsLeast
  <2>2. Tree!IsPrefix(s, <<>>) => s = <<>>
    BY PrefixSelf
  <2> QED
    BY <2>1, <2>2 DEF PathsOn
<1>2. ASSUME NEW a \in ObjectsOn(d) \cap Z, NEW p \in PlacesIn(d, Live(d)),
             a[2].folder, p[1] = a[2].cluster
      PROVE  There(a, At(d, p)) \in Z
  <2>1. There(a, At(d, p)) \in ObjectsOn(d)
    BY <1>2, ThereIs
  <2>2. ASSUME Tree!IsPrefix(s, There(a, At(d, p))[1]) PROVE s \in PathsOn(d)
    <3>1. s = There(a, At(d, p))[1] \/ Tree!IsPrefix(s, a[1])
      <4>1. There(a, At(d, p)) \in Inner(d, s)
        BY <2>1, <2>2 DEF Inner
      <4>2. There(a, At(d, p))[1] = s \/ a \in Inner(d, s)
        BY <1>2, <4>1, InnerGrows
      <4> QED
        BY <4>2 DEF Inner
    <3> QED
      BY <1>2, <2>1, <3>1 DEF PathsOn
  <2> QED
    BY <2>1, <2>2
<1>3. ObjectsOn(d) \subseteq Z
  <2> HIDE DEF Z
  <2> QED
    BY <1>1, <1>2, ObjectInduction DEF There
<1> QED
  BY <1>3

\* What no entry of a folder is called has a path that is none.
LEMMA FreshPath ==
  ASSUME NEW d \in [Clusters -> Stored], NEW map, Sound(d, map, Live(d)), Labelled(d),
         NEW a \in ObjectsOn(d), NEW x \in EntryType, Fresh(d, a[2].cluster, x)
  PROVE  Append(a[1], Label(x)) \notin PathsOn(d) /\ Append(a[1], Label(x)) \in Seq(LabelSet)
<1> DEFINE l == Label(x)
<1>1. a[1] \in Seq(LabelSet) /\ l \in LabelSet
  BY ObjectTyped DEF EntryType, Label, LabelSet
<1> HIDE DEF l
<1>2. Append(a[1], l) \in Seq(LabelSet) /\ Append(a[1], l) # <<>>
  BY <1>1, AppendParts
<1>3. ASSUME NEW o \in ObjectsOn(d), o[1] = Append(a[1], l) PROVE FALSE
  <2>1. o # RootObject
    BY <1>2, <1>3, RootIs
  <2>2. PICK b, p : StandsIn(d, o, b, p)
    BY <2>1, ObjectStands
  <2> DEFINE m == Label(At(d, p))
  <2>3. b \in ObjectsOn(d) /\ p \in PlacesIn(d, Live(d)) /\ p[1] = b[2].cluster /\ o[1] = Append(b[1], m)
    BY <2>2 DEF StandsIn
  <2>4. b[1] \in Seq(LabelSet) /\ m \in LabelSet
    BY <2>3, ObjectTyped, PlaceTyped
  <2> HIDE DEF m
  <2>5. Append(b[1], m) = Append(a[1], l)
    BY <1>3, <2>3
  <2>6. b[1] = a[1] /\ m = l
    BY <1>1, <2>4, <2>5, AppendUnique
  <2>7. b = a
    BY <2>3, <2>6, PathOnce DEF Labelled
  <2> QED
    BY <2>3, <2>6, <2>7 DEF Fresh, m, l
<1> QED
  BY <1>2, <1>3 DEF PathsOn, l

\* The labels and the files of the tree.
TreeLabels == Names \X Exts

FileOf(s, c) == [size  |-> s,
                 bytes |-> [k \in 1 .. (s + CLUSTER_SIZE - 1) \div CLUSTER_SIZE |-> Bytes(c, k)]]

TreeFiles == {FileOf(s, c) : s \in Sizes \ {0}, c \in Contents}

\* A tree with something more in one of its folders is one created in.
LEMMA CreateIs ==
  ASSUME NEW t, NEW u, NEW g \in Tree!Folders(t), NEW l \in TreeLabels,
         Append(g, l) \in DOMAIN u \ DOMAIN t, u[Append(g, l)] \in TreeFiles \cup {TreeFolder},
         u = [q \in DOMAIN t \cup {Append(g, l)} |-> IF q = Append(g, l) THEN u[Append(g, l)] ELSE t[q]]
  PROVE  Tree!Create(t, u)
<1> DEFINE Fits(p, n) ==
             /\ Append(p, n) \in DOMAIN u \ DOMAIN t
             /\ u[Append(p, n)] \in TreeFiles \cup {TreeFolder}
             /\ u = [q \in DOMAIN t \cup {Append(p, n)} |->
                       IF q = Append(p, n) THEN u[Append(p, n)] ELSE t[q]]
<1>1. Tree!Create(t, u) = \E p \in Tree!Folders(t), n \in TreeLabels : Fits(p, n)
  BY DEF Tree!Create, TreeFiles, FileOf, TreeFolder, TreeLabels
<1>2. Fits(g, l)
  OBVIOUS
<1> HIDE DEF Fits
<1> QED
  BY <1>1, <1>2

\* With an object more in a folder the tree is one with something created.
LEMMA LinkedTree ==
  ASSUME NEW d \in [Clusters -> Stored], NEW map, Sound(d, map, Live(d)), Labelled(d),
         NEW e \in [Clusters -> Stored], NEW map2, Sound(e, map2, Live(e)), Labelled(e),
         NEW a \in ObjectsOn(d), a[2].folder, NEW x \in EntryType, Fresh(d, a[2].cluster, x),
         ObjectsOn(e) = ObjectsOn(d) \cup {There(a, x)},
         Label(x) \in TreeLabels, Object(e, map2, x) \in TreeFiles \cup {TreeFolder},
         \A o \in ObjectsOn(d) : Object(e, map2, o[2]) = Object(d, map, o[2])
  PROVE  Tree!Create(TreeOn(d, map), TreeOn(e, map2))
<1> DEFINE t == TreeOn(d, map)
           u == TreeOn(e, map2)
           to == Append(a[1], Label(x))
<1>1. /\ t = [path \in PathsOn(d) |-> t[path]] /\ DOMAIN t = PathsOn(d)
      /\ \A o \in ObjectsOn(d) : t[o[1]] = Object(d, map, o[2])
  BY TreeDomain
<1>2. /\ u = [path \in PathsOn(e) |-> u[path]] /\ DOMAIN u = PathsOn(e)
      /\ \A o \in ObjectsOn(e) : u[o[1]] = Object(e, map2, o[2])
  BY TreeDomain
<1>3. to \notin PathsOn(d)
  BY FreshPath
<1>4. There(a, x)[1] = to /\ There(a, x)[2] = x
  BY DEF There
<1>5. t[a[1]] = TreeFolder
  BY FolderIs
<1> HIDE DEF t, u, to
<1>6. PathsOn(e) = PathsOn(d) \cup {to}
  BY <1>4 DEF PathsOn
<1>7. u[to] \in TreeFiles \cup {TreeFolder}
  BY <1>2, <1>4
<1>8. ASSUME NEW q \in PathsOn(d) PROVE u[q] = t[q]
  <2>1. PICK o \in ObjectsOn(d) : q = o[1]
    BY DEF PathsOn
  <2> QED
    BY <1>1, <1>2, <2>1
<1>9. u = [q \in PathsOn(d) \cup {to} |-> IF q = to THEN u[to] ELSE t[q]]
  <2>1. \A q \in PathsOn(d) \cup {to} : u[q] = IF q = to THEN u[to] ELSE t[q]
    BY <1>3, <1>8
  <2> QED
    BY <1>2, <1>6, <2>1
<1>10. a[1] \in Tree!Folders(t)
  BY <1>1, <1>5 DEF Tree!Folders, PathsOn, TreeFolder
<1>11. to \in DOMAIN u \ DOMAIN t
  BY <1>1, <1>2, <1>3, <1>6
<1> DEFINE g == a[1]
           l == Label(x)
<1>13. to = Append(g, l) /\ l \in TreeLabels
  BY DEF to
<1>14. g \in Tree!Folders(t)
  BY <1>10
<1> HIDE DEF g, l
<1>15. /\ Append(g, l) \in DOMAIN u \ DOMAIN t
       /\ u[Append(g, l)] \in TreeFiles \cup {TreeFolder}
       /\ u = [q \in DOMAIN t \cup {Append(g, l)} |-> IF q = Append(g, l) THEN u[Append(g, l)] ELSE t[q]]
  BY <1>1, <1>7, <1>9, <1>11, <1>13
<1>16. Tree!Create(t, u)
  BY <1>13, <1>14, <1>15, CreateIs
<1> QED
  BY <1>16 DEF t, u

\* Without an object and what is in it it is one with something removed.
LEMMA UnlinkedTree ==
  ASSUME NEW d \in [Clusters -> Stored], NEW map, Sound(d, map, Live(d)), Labelled(d),
         NEW e \in [Clusters -> Stored], NEW new, Sound(e, new, Live(e)), Labelled(e),
         NEW a, NEW p, NEW pp, PathIs(d, a, p, pp), ObjectsOn(e) = Outer(d, pp),
         \A o \in Outer(d, pp) : Object(e, new, o[2]) = Object(d, map, o[2])
  PROVE  Tree!Remove(TreeOn(d, map), TreeOn(e, new))
<1> DEFINE t == TreeOn(d, map)
           u == TreeOn(e, new)
<1>1. /\ t = [path \in PathsOn(d) |-> t[path]] /\ DOMAIN t = PathsOn(d)
      /\ \A o \in ObjectsOn(d) : t[o[1]] = Object(d, map, o[2])
  BY TreeDomain
<1>2. /\ u = [path \in PathsOn(e) |-> u[path]] /\ DOMAIN u = PathsOn(e)
      /\ \A o \in ObjectsOn(e) : u[o[1]] = Object(e, new, o[2])
  BY TreeDomain
<1> HIDE DEF t, u
<1>3. Splits(d, a, p, pp)
  BY InnerIs DEF Labelled
<1>4. pp \in Seq(LabelSet) /\ pp \in PathsOn(d) /\ pp # <<>> /\ Tree!IsPrefix(pp, pp)
  <2>1. /\ pp \in Seq(LabelSet) /\ RootObject \in Outer(d, pp) /\ There(a, At(d, p)) \in Inner(d, pp)
        /\ There(a, At(d, p))[1] = pp
    BY <1>3 DEF Splits
  <2>2. pp # <<>>
    BY <2>1, PrefixSelf, RootIs DEF Outer
  <2> QED
    BY <2>1, <2>2, PrefixSelf DEF Inner, PathsOn
<1>5. PathsOn(e) = PathsOn(d) \ Tree!Under(t, pp)
  BY <1>1 DEF PathsOn, Outer, Tree!Under
<1>6. ASSUME NEW q \in PathsOn(e) PROVE u[q] = t[q]
  <2>1. PICK o \in Outer(d, pp) : q = o[1]
    BY DEF PathsOn
  <2> QED
    BY <1>1, <1>2, <2>1 DEF Outer
<1>7. u = [q \in DOMAIN t \ Tree!Under(t, pp) |-> t[q]]
  BY <1>1, <1>2, <1>5, <1>6
<1>8. pp \in DOMAIN t \ DOMAIN u
  <2>1. pp \in Tree!Under(t, pp)
    BY <1>1, <1>4 DEF Tree!Under
  <2> QED
    BY <1>1, <1>2, <1>4, <1>5, <2>1
<1>9. Tree!Remove(t, u)
  BY <1>4, <1>7, <1>8 DEF Tree!Remove
<1> QED
  BY <1>9 DEF t, u

\* What stood at p, with path pp, stands in b as x, and is what it was; so is all else.
Renames(d, map, e, new, a, p, pp, b, x, to) ==
  /\ d \in [Clusters -> Stored] /\ Sound(d, map, Live(d)) /\ Labelled(d)
  /\ e \in [Clusters -> Stored] /\ Sound(e, new, Live(e)) /\ Labelled(e)
  /\ PathIs(d, a, p, pp) /\ b \in Outer(d, pp) /\ b[2].folder
  /\ x \in EntryType /\ SameObject(At(d, p), x)
  /\ Fresh(d, b[2].cluster, x) /\ Label(x) \in TreeLabels
  /\ to = Append(b[1], Label(x)) /\ ObjectsOn(e) = WithShifted(d, pp, to, x)
  /\ \A o \in Outer(d, pp) : Object(e, new, o[2]) = Object(d, map, o[2])
  /\ \A o \in Inner(d, pp) : Object(e, new, Shifted(pp, to, x, o)[2]) = Object(d, map, o[2])

\* With an object and all in it elsewhere it is one with something moved.
LEMMA MovedTree ==
  ASSUME NEW d, NEW map, NEW e, NEW new, NEW a, NEW p, NEW pp, NEW b, NEW x, NEW to,
         Renames(d, map, e, new, a, p, pp, b, x, to)
  PROVE  Tree!Move(TreeOn(d, map), TreeOn(e, new))
<1> SUFFICES ASSUME d \in [Clusters -> Stored], Sound(d, map, Live(d)), Labelled(d),
                    e \in [Clusters -> Stored], Sound(e, new, Live(e)), Labelled(e),
                    PathIs(d, a, p, pp), b \in Outer(d, pp), b[2].folder,
                    x \in EntryType, SameObject(At(d, p), x), Fresh(d, b[2].cluster, x),
                    Label(x) \in TreeLabels, to = Append(b[1], Label(x)),
                    ObjectsOn(e) = WithShifted(d, pp, to, x),
                    \A o \in Outer(d, pp) : Object(e, new, o[2]) = Object(d, map, o[2]),
                    \A o \in Inner(d, pp) :
                      Object(e, new, Shifted(pp, to, x, o)[2]) = Object(d, map, o[2])
             PROVE  Tree!Move(TreeOn(d, map), TreeOn(e, new))
  BY DEF Renames
<1> DEFINE t == TreeOn(d, map)
           u == TreeOn(e, new)
           F(o) == Shifted(pp, to, x, o)
           I == Inner(d, pp)
           U == Tree!Under(t, pp)
<1>1. /\ t = [path \in PathsOn(d) |-> t[path]] /\ DOMAIN t = PathsOn(d)
      /\ \A o \in ObjectsOn(d) : t[o[1]] = Object(d, map, o[2])
  BY TreeDomain
<1>2. /\ u = [path \in PathsOn(e) |-> u[path]] /\ DOMAIN u = PathsOn(e)
      /\ \A o \in ObjectsOn(e) : u[o[1]] = Object(e, new, o[2])
  BY TreeDomain
<1>3. b \in ObjectsOn(d) /\ ~Tree!IsPrefix(pp, b[1])
  BY DEF Outer
<1>4. t[b[1]] = TreeFolder
  BY <1>3, FolderIs
<1>5. to \notin PathsOn(d) /\ to \in Seq(LabelSet)
  BY <1>3, FreshPath
<1>6. Splits(d, a, p, pp)
  BY InnerIs DEF Labelled
<1>7. Shifts(d, a, p, pp, to, x)
  BY <1>5, ShiftedIs DEF Labelled
<1> HIDE DEF t, u, U
<1>8. /\ pp \in Seq(LabelSet) /\ RootObject \in Outer(d, pp) /\ There(a, At(d, p)) \in I
      /\ There(a, At(d, p))[1] = pp
  BY <1>6 DEF Splits
<1>9. pp \in PathsOn(d) /\ pp # <<>> /\ Tree!IsPrefix(pp, pp)
  <2>1. pp # <<>>
    BY <1>8, PrefixSelf, RootIs DEF Outer
  <2> QED
    BY <1>8, <2>1, PrefixSelf DEF Inner, PathsOn
<1>10. /\ F(There(a, At(d, p))) = <<to, x>>
       /\ \A o \in I : F(o)[1] = to \o Tree!Suffix(pp, o[1])
  BY <1>7 DEF Shifts
<1>20. ObjectsOn(e) = Outer(d, pp) \cup {F(o) : o \in I}
  BY DEF WithShifted
<1> HIDE DEF F
<1>11. ASSUME NEW o \in I
       PROVE  /\ o \in ObjectsOn(d) /\ F(o) \in ObjectsOn(e)
              /\ F(o)[1] \in Seq(LabelSet) /\ Tree!IsPrefix(to, F(o)[1])
              /\ pp \o Tree!Suffix(to, F(o)[1]) = o[1]
  <2>1. o \in ObjectsOn(d) /\ Tree!IsPrefix(pp, o[1]) /\ o[1] \in Seq(LabelSet)
    BY ObjectTyped DEF Inner
  <2> DEFINE s == o[1]
             v == Tree!Suffix(pp, s)
  <2> HIDE DEF s
  <2>2. v \in Seq(LabelSet) /\ pp \o v = s
    BY <1>8, <2>1, SuffixIs DEF s
  <2> HIDE DEF v
  <2>3. to \o v \in Seq(LabelSet) /\ Tree!IsPrefix(to, to \o v) /\ Tree!Suffix(to, to \o v) = v
    <3>1. to \in Seq(LabelSet)
      BY <1>5, SMTT(30)
    <3> HIDE DEF I
    <3> QED
      BY <2>2, <3>1, ThenIs, ZenonT(30)
  <2>4. F(o)[1] = to \o v
    BY <1>10 DEF v, s
  <2> QED
    BY <1>20, <2>1, <2>2, <2>3, <2>4 DEF s
<1>12. U = {o[1] : o \in I}
  BY <1>1 DEF U, Tree!Under, PathsOn, Inner
<1> HIDE DEF I
<1> DEFINE D == (DOMAIN t \ U) \cup {to \o Tree!Suffix(pp, r) : r \in U}
           G(q) == IF Tree!IsPrefix(to, q) THEN t[pp \o Tree!Suffix(to, q)] ELSE t[q]
<1>13. PathsOn(e) = D
  <2>1. DOMAIN t \ U = {o[1] : o \in Outer(d, pp)}
    BY <1>1 DEF U, Tree!Under, PathsOn, Outer
  <2>2. {to \o Tree!Suffix(pp, r) : r \in U} = {F(o)[1] : o \in I}
    <3>1. \A o \in I : F(o)[1] = to \o Tree!Suffix(pp, o[1])
      BY <1>10
    <3> QED
      BY <1>12, <3>1, Zenon
  <2>3. PathsOn(e) = {o[1] : o \in Outer(d, pp)} \cup {F(o)[1] : o \in I}
    BY <1>20 DEF PathsOn
  <2> QED
    BY <2>1, <2>2, <2>3
<1>14. ASSUME NEW q \in PathsOn(e) PROVE u[q] = G(q)
  <2>1. PICK g \in ObjectsOn(e) : q = g[1]
    BY DEF PathsOn
  <2>2. CASE g \in Outer(d, pp)
    <3>1. g \in ObjectsOn(d) /\ Object(e, new, g[2]) = Object(d, map, g[2])
      BY <2>2 DEF Outer
    <3>2. ~Tree!IsPrefix(to, q)
      BY <1>5, <2>1, <3>1, PathsClosed
    <3> QED
      BY <1>1, <1>2, <2>1, <3>1, <3>2
  <2>3. CASE g \in {F(o) : o \in I}
    <3>1. PICK o \in I : g = F(o)
      BY <2>3
    <3>2. Object(e, new, g[2]) = Object(d, map, o[2])
      BY <3>1 DEF F, I
    <3>3. t[o[1]] = Object(d, map, o[2]) /\ Tree!IsPrefix(to, q) /\ pp \o Tree!Suffix(to, q) = o[1]
      BY <1>1, <1>11, <2>1, <3>1
    <3> QED
      BY <1>2, <2>1, <3>2, <3>3
  <2> QED
    BY <1>20, <2>2, <2>3
<1> HIDE DEF D, G
<1>15. u = [q \in D |-> G(q)]
  BY <1>2, <1>13, <1>14
<1>16. pp \in DOMAIN t \ DOMAIN u
  <2>1. ASSUME pp \in PathsOn(e) PROVE FALSE
    <3>1. PICK g \in ObjectsOn(e) : pp = g[1]
      BY <2>1 DEF PathsOn
    <3>2. CASE g \in Outer(d, pp)
      BY <1>9, <3>1, <3>2 DEF Outer
    <3>3. CASE g \in {F(o) : o \in I}
      <4>1. Tree!IsPrefix(to, pp)
        BY <1>11, <3>1, <3>3
      <4>2. PICK o \in ObjectsOn(d) : pp = o[1]
        BY <1>9 DEF PathsOn
      <4> QED
        BY <1>5, <4>1, <4>2, PathsClosed
    <3> QED
      BY <1>20, <3>1, <3>2, <3>3
  <2> QED
    BY <1>1, <1>2, <1>9, <2>1
<1>17. to \in DOMAIN u \ DOMAIN t
  <2>1. F(There(a, At(d, p))) \in ObjectsOn(e)
    BY <1>8, <1>11
  <2>2. to \in PathsOn(e)
    <3>1. F(There(a, At(d, p)))[1] = to
      BY <1>10
    <3> HIDE DEF PathsOn
    <3>2. \A o \in ObjectsOn(e) : o[1] \in PathsOn(e)
      BY DEF PathsOn
    <3> QED
      BY <2>1, <3>1, <3>2
  <2> QED
    BY <1>1, <1>2, <1>5, <2>2
<1>18. b[1] \in Tree!Folders(t) /\ b[1] \notin Tree!Under(t, pp)
  BY <1>1, <1>3, <1>4 DEF Tree!Folders, PathsOn, TreeFolder, Tree!Under
<1>19. Tree!Move(t, u)
  <2> DEFINE l == Label(x)
  <2>1. l \in Names \X Exts /\ to = Append(b[1], l)
    BY DEF TreeLabels
  <2> HIDE DEF l
  <2>2. u = [q \in (DOMAIN t \ Tree!Under(t, pp))
                    \cup {to \o Tree!Suffix(pp, r) : r \in Tree!Under(t, pp)} |->
               IF Tree!IsPrefix(to, q) THEN t[pp \o Tree!Suffix(to, q)] ELSE t[q]]
    BY <1>15, SMTT(30) DEF D, G, U
  <2>3. Append(b[1], l) \in DOMAIN u \ DOMAIN t
        /\ u = [q \in (DOMAIN t \ Tree!Under(t, pp))
                      \cup {Append(b[1], l) \o Tree!Suffix(pp, r) : r \in Tree!Under(t, pp)} |->
                  IF Tree!IsPrefix(Append(b[1], l), q) THEN t[pp \o Tree!Suffix(Append(b[1], l), q)]
                  ELSE t[q]]
    BY <1>17, <2>1, <2>2
  <2> QED
    BY <1>9, <1>16, <1>18, <2>1, <2>3 DEF Tree!Move
<1> QED
  BY <1>19 DEF t, u

-----------------------------------------------------------------------------
(* What operations do to the tree *)

\* What is outside of what an operation is about is what it was.
LEMMA OutsideKept ==
  ASSUME DriverKept, TreeKept, CrashKept, Ready, NEW K, NEW f, Sparing(K, f),
         NEW p \in PlacesIn(disk, K), At(disk, p).cluster # f
  PROVE  Object(ImageOf(disk, queue'), fat', At(disk, p)) = Object(disk, fat, At(disk, p))
<1> DEFINE g   == ImageOf(disk, queue')
           x   == At(disk, p)
           new == fat'
<1>1. disk \in [Clusters -> Stored] /\ Image = disk
  BY SoundAtRest
<1>2. disk[FAT_CLUSTER_NUMBER] = Fat(fat)
  BY <1>1 DEF CrashKept, Ready
<1>3. FatIn(disk) = fat
  BY <1>2 DEF FatIn, Fat
<1>4. g[FAT_CLUSTER_NUMBER] = Fat(new)
  BY <1>2 DEF Sparing
<1>5. FatIn(g) = new
  BY <1>4 DEF FatIn, Fat
<1>6. Apart(disk, fat, K, f) /\ queue' \in Seq(Writes) /\ AllSpare(queue', disk, fat, K, f)
  BY DEF Sparing
<1>7. Spared(g, FatIn(g), disk, fat, K, f)
  <2> DEFINE q == queue'
  <2>1. q \in Seq(Writes) /\ \A k \in DOMAIN q : Spares(q[k], disk, fat, K, f)
    BY <1>6 DEF AllSpare
  <2> HIDE DEF q
  <2>2. Spared(ImageOf(disk, q), FatIn(ImageOf(disk, q)), disk, fat, K, f)
    BY <1>3, <1>6, <2>1, WritesSpare
  <2> QED
    BY <2>2 DEF q
<1>8. Spared(g, new, disk, fat, K, f)
  BY <1>5, <1>7
<1> HIDE DEF g, new
<1>9. p[1] \in K /\ x \in Around(EntriesOn(disk, p[1]), f)
  <2>1. p \in Outside(disk, K, f)
    BY DEF Outside
  <2> QED
    BY <2>1, OutsideAround DEF PlacesIn
<1>10. x \in Around(EntriesOn(g, p[1]), f)
  BY <1>8, <1>9 DEF Spared
<1> HIDE DEF x
<1>11. ~x.folder => Content(g, new, x) = Content(disk, fat, x)
  BY <1>6, <1>8, <1>9, <1>10, SparedEntries
<1>12. Object(g, new, x) = Object(disk, fat, x)
  BY <1>11 DEF Object
<1> QED
  BY <1>12 DEF g, x, new

\* The root is a folder.
LEMMA RootKept ==
  ASSUME NEW d, NEW map, NEW e, NEW new
  PROVE  Object(e, new, RootObject[2]) = Object(d, map, RootObject[2])
BY RootIs DEF Object

\* What is not removed keeps its content.
LEMMA OuterKept ==
  ASSUME DriverKept, TreeKept, CrashKept, Ready, Labelled(disk), NEW a, NEW p, NEW pp,
         PathIs(disk, a, p, pp), NEW K, Sparing(K, At(disk, p).cluster), NEW o \in Outer(disk, pp)
  PROVE  Object(ImageOf(disk, queue'), fat', o[2]) = Object(disk, fat, o[2])
<1> DEFINE f == At(disk, p).cluster
           Z == {o1 \in ObjectsOn(disk) :
                   o1 \in Outer(disk, pp) =>
                     /\ o1[2].folder => o1[2].cluster \in K
                     /\ Object(ImageOf(disk, queue'), fat', o1[2]) = Object(disk, fat, o1[2])}
<1>1. disk \in [Clusters -> Stored] /\ Sound(disk, fat, Live(disk))
  BY SoundAtRest
<1>2. Apart(disk, fat, K, f) /\ K \in SUBSET Live(disk)
  BY DEF Sparing
<1>3. RootObject \in Z
  <2>1. RootObject \in ObjectsOn(disk) /\ RootObject[2].cluster = ROOT_CLUSTER_NUMBER
    BY <1>1, RootIs, ObjectsLeast
  <2>2. RootObject[2].cluster \in K
    BY <1>2, <2>1 DEF Apart
  <2>3. Object(ImageOf(disk, queue'), fat', RootObject[2]) = Object(disk, fat, RootObject[2])
    BY RootKept
  <2> QED
    BY <2>1, <2>2, <2>3
<1>6. Splits(disk, a, p, pp) /\ p \in PlacesIn(disk, Live(disk))
  BY <1>1, InnerIs DEF Labelled, PathIs
<1>4. ASSUME NEW b \in ObjectsOn(disk) \cap Z, NEW q \in PlacesIn(disk, Live(disk)),
             b[2].folder, q[1] = b[2].cluster
      PROVE  There(b, At(disk, q)) \in Z
  <2>1. There(b, At(disk, q)) \in ObjectsOn(disk) /\ There(b, At(disk, q))[2] = At(disk, q)
    BY <1>1, <1>4, ThereIs DEF There
  <2>2. SUFFICES ASSUME There(b, At(disk, q)) \in Outer(disk, pp)
                 PROVE  /\ At(disk, q).folder => At(disk, q).cluster \in K
                        /\ Object(ImageOf(disk, queue'), fat', At(disk, q))
                             = Object(disk, fat, At(disk, q))
    BY <2>1
  <2>3. b \in Outer(disk, pp) /\ q # p
    <3>1. pp \in Seq(LabelSet) /\ There(a, At(disk, p))[1] = pp /\ (q = p => b = a)
      BY <1>4, <1>6 DEF Splits
    <3>2. ~(There(b, At(disk, q))[1] = pp \/ b \in Inner(disk, pp))
      BY <1>1, <1>4, <2>2, <3>1, InnerGrows DEF Inner, Outer
    <3> QED
      BY <1>4, <3>1, <3>2 DEF Inner, Outer
  <2>4. q \in PlacesIn(disk, K)
    BY <1>4, <2>3 DEF PlacesIn
  <2>5. At(disk, q).cluster # f
    BY <1>1, <1>6, <2>3, OnePlace DEF PathIs
  <2>6. q \in Outside(disk, K, f)
    BY <2>4, <2>5 DEF Outside
  <2> QED
    BY <1>2, <2>4, <2>5, <2>6, OutsideKept DEF Apart
<1>5. ObjectsOn(disk) \subseteq Z
  <2> HIDE DEF Z
  <2> QED
    BY <1>1, <1>3, <1>4, ObjectInduction DEF There
<1> QED
  BY <1>5 DEF Outer

\* A disk with writes done is one.
LEMMA ImageTyped ==
  ASSUME NEW d \in [Clusters -> Stored], NEW q \in Seq(Writes)
  PROVE  ImageOf(d, q) \in [Clusters -> Stored]
<1>1. ASSUME NEW c \in Clusters PROVE ImageOf(d, q)[c] \in Stored
  <2>1. CASE ImageOf(d, q)[c] = d[c]
    BY <2>1
  <2>2. ASSUME NEW k \in DOMAIN q, ImageOf(d, q)[c] = q[k].content PROVE ImageOf(d, q)[c] \in Stored
    <3>1. q[k] \in Writes
      OBVIOUS
    <3> QED
      BY <2>2, <3>1 DEF Writes
  <2> QED
    BY <2>1, <2>2, ImageFrom
<1>2. ImageOf(d, q) = [c \in Clusters |-> ImageOf(d, q)[c]]
  BY DEF ImageOf
<1> QED
  BY <1>1, <1>2

\* What an operation will have made of the disk.
LEMMA OperationImage ==
  ASSUME DriverKept, NEW K, NEW f, Sparing(K, f), TreeKept', power' # "off"
  PROVE  /\ Image' = ImageOf(disk, queue') /\ ImageOf(disk, queue') \in [Clusters -> Stored]
         /\ Sound(ImageOf(disk, queue'), fat', Live(ImageOf(disk, queue')))
<1>1. queue' \in Seq(Writes) /\ disk' = disk /\ disk \in [Clusters -> Stored]
  BY DEF Sparing, DriverKept, DriverTypes
<1>2. Image' = ImageOf(disk, queue')
  BY <1>1 DEF Image, ImageOf, WritesTo
<1>3. Sound(Image', fat', Live(Image'))
  BY DEF TreeKept
<1>4. ImageOf(disk, queue') \in [Clusters -> Stored]
  <2> DEFINE q == queue'
  <2> HIDE DEF q
  <2>1. ImageOf(disk, q) \in [Clusters -> Stored]
    BY <1>1, ImageTyped DEF q
  <2> QED
    BY <2>1 DEF q
<1> QED
  BY <1>2, <1>3, <1>4

\* A name new in a folder is one no entry there has.
LEMMA NewIsFresh ==
  ASSUME NEW c, NEW x, NewIn(c, x)
  PROVE  Fresh(disk, c, x) /\ Label(x) \in TreeLabels
BY DEF NewIn, Fresh, Is, Label, TreeLabels, PlacesIn, At

\* What is made is a folder or file of the tree.
LEMMA MadeObject ==
  ASSUME NEW x, Made(x), Owned(fat', x)
  PROVE  Object(ImageOf(disk, queue'), fat', x) \in TreeFiles \cup {TreeFolder}
<1> DEFINE e     == ImageOf(disk, queue')
           new   == fat'
           chain == Chain(new, x.cluster)
<1>1. CASE x.folder
  BY <1>1 DEF Made, Object, TreeFolder
<1>2. CASE ~x.folder
  <2>1. x.size \in Sizes \ {0}
    BY <1>2 DEF Made
  <2>2. PICK content \in Contents : Holds(e, chain, content)
    BY <1>2 DEF Made
  <2>3. Linked(new, chain) /\ Len(chain) = ClustersFor(x)
    BY DEF Owned
  <2> HIDE DEF e, new, chain
  <2>4. DOMAIN chain = 1 .. (x.size + CLUSTER_SIZE - 1) \div CLUSTER_SIZE
    BY <1>2, <2>3 DEF Linked, ClustersFor
  <2> DEFINE n == (x.size + CLUSTER_SIZE - 1) \div CLUSTER_SIZE
             b == [k \in 1 .. n |-> Bytes(content, k)]
  <2>5. [k \in DOMAIN chain |-> e[chain[k]]] = b
    <3> HIDE DEF n
    <3> QED
      BY <2>2, <2>4 DEF Holds, n
  <2>6. Content(e, new, x) = b
    BY <2>5 DEF Content, chain
  <2>7. Object(e, new, x) = [size |-> x.size, bytes |-> b]
    BY <1>2, <2>6 DEF Object
  <2> HIDE DEF b
  <2>8. [size |-> x.size, bytes |-> b] = FileOf(x.size, content)
    BY DEF FileOf, b, n
  <2>9. FileOf(x.size, content) \in TreeFiles
    BY <2>1, <2>2 DEF TreeFiles
  <2> QED
    BY <2>7, <2>8, <2>9 DEF e, new
<1> QED
  BY <1>1, <1>2

\* What one adds is created in the tree.
LEMMA AddingTree ==
  ASSUME DriverKept, TreeKept, CrashKept, Ready, Labelled(disk), NEW c, NEW x, Adding(c, x)
  PROVE  Labelled(Image') /\ Tree!Create(TreeOn(disk, fat), TreeOn(Image', fat'))
<1> DEFINE e   == ImageOf(disk, queue')
           new == fat'
<1>1. disk \in [Clusters -> Stored] /\ Sound(disk, fat, Live(disk))
  BY SoundAtRest
<1>2. /\ c \in Live(disk) /\ Cardinality(Holes(EntriesOn(disk, c))) > 1 /\ x \in EntryType /\ x.used
      /\ NewIn(c, x) /\ Made(x) /\ Links(disk, fat, e, new, c, x) /\ Sparing(Live(disk), x.cluster)
      /\ power' # "off"
  BY DEF Adding
<1>3. Image' = e /\ e \in [Clusters -> Stored] /\ Sound(e, new, Live(e))
  BY <1>2, AddingSound, OperationImage
<1>4. Fresh(disk, c, x) /\ Label(x) \in TreeLabels
  BY <1>2, NewIsFresh
<1>5. Owned(new, x) /\ ClustersOf(new, x) \subseteq EmptyClusters(fat)
      /\ (x.folder => \A i \in Items : ~EntriesOn(e, x.cluster)[i].used)
  BY <1>2 DEF Links
<1>6. x.folder => x.size = 0
  BY <1>2 DEF Made
<1>7. Object(e, new, x) \in TreeFiles \cup {TreeFolder}
  BY <1>2, <1>5, MadeObject
<1>8. ASSUME NEW o \in ObjectsOn(disk) PROVE Object(e, new, o[2]) = Object(disk, fat, o[2])
  <2>1. CASE o = RootObject
    BY <2>1, RootKept
  <2>2. CASE o # RootObject
    <3>1. PICK a, p : StandsIn(disk, o, a, p)
      BY <1>1, <2>2, ObjectStands
    <3>2. p \in PlacesIn(disk, Live(disk)) /\ o[2] = At(disk, p)
      BY <3>1 DEF StandsIn
    <3>3. x.cluster \in EmptyClusters(fat)
      BY <1>5, OwnedClusters
    <3>4. At(disk, p).cluster \notin EmptyClusters(fat)
      <4>1. Owned(fat, At(disk, p))
        BY <1>1, <3>2 DEF Sound, OwnChains
      <4> QED
        BY <4>1, OwnedClusters
    <3>5. Object(e, new, At(disk, p)) = Object(disk, fat, At(disk, p))
      BY <1>2, <3>2, <3>3, <3>4, OutsideKept
    <3> QED
      BY <3>2, <3>5
  <2> QED
    BY <2>1, <2>2
<1> HIDE DEF e, new
<1>15. /\ c \in Live(disk) /\ Cardinality(Holes(EntriesOn(disk, c))) > 1 /\ x \in EntryType /\ x.used
       /\ Links(disk, fat, e, new, c, x)
  BY <1>2
<1>16. Comes(disk, e, c, x)
  BY <1>1, <1>15, LinkedCarried
<1>9. PICK n \in PlacesIn(e, Live(e)) : At(e, n) = x /\ n[1] = c /\ Carried(disk, e, {}, {n})
  BY <1>16 DEF Comes
<1>10. Labelled(e)
  BY <1>3, <1>4, <1>6, <1>9, CarriedNames
<1>11. PICK a \in ObjectsOn(disk) : a[2].folder /\ a[2].cluster = c
  BY <1>1, <1>2, LiveObject
<1>12. x.folder => \A q \in PlacesIn(e, Live(e)) : q[1] # x.cluster
  BY <1>5 DEF PlacesIn, At
<1>13. ObjectsOn(e) = ObjectsOn(disk) \cup {There(a, x)}
  BY <1>1, <1>3, <1>9, <1>11, <1>12, LinkedObjects
<1>14. Tree!Create(TreeOn(disk, fat), TreeOn(e, new))
  BY <1>1, <1>2, <1>3, <1>4, <1>7, <1>8, <1>10, <1>11, <1>13, LinkedTree
<1> QED
  BY <1>3, <1>10, <1>14 DEF new

\* What one removes is removed from the tree.
LEMMA RemovingTree ==
  ASSUME DriverKept, TreeKept, CrashKept, Ready, Labelled(disk), NEW p, NEW X, Removing(p, X)
  PROVE  Labelled(Image') /\ Tree!Remove(TreeOn(disk, fat), TreeOn(Image', fat'))
<1> DEFINE e   == ImageOf(disk, queue')
           new == fat'
<1>1. disk \in [Clusters -> Stored] /\ Sound(disk, fat, Live(disk))
  BY SoundAtRest
<1>2. PICK K : Sparing(K, At(disk, p).cluster)
  BY DEF Removing
<1>3. Image' = e /\ e \in [Clusters -> Stored] /\ Sound(e, new, Live(e))
  BY <1>2, RemovingSound, OperationImage DEF Removing
<1>4. /\ p \in PlacesIn(disk, Live(disk)) /\ X \in SUBSET Live(disk)
      /\ ROOT_CLUSTER_NUMBER \in X /\ p[1] \in X /\ Unlinks(disk, fat, e, new, X, p)
  BY DEF Removing
<1>5. p[1] \in Live(disk)
  BY <1>4 DEF PlacesIn
<1>6. PICK a \in ObjectsOn(disk) : a[2].folder /\ a[2].cluster = p[1]
  BY <1>1, <1>5, LiveObject
<1> DEFINE pp == Append(a[1], Label(At(disk, p)))
<1>7. PathIs(disk, a, p, pp)
  BY <1>4, <1>6 DEF PathIs
<1> HIDE DEF pp
<1>8. \A o \in Outer(disk, pp) : Object(e, new, o[2]) = Object(disk, fat, o[2])
  BY <1>2, <1>7, OuterKept
<1> HIDE DEF e, new
<1>9. Carried(disk, e, {p}, {})
  BY <1>1, <1>4, UnlinkedCarried
<1>10. Labelled(e)
  BY <1>3, <1>9, CarriedNames
<1>11. ObjectsOn(e) = Outer(disk, pp)
  BY <1>1, <1>3, <1>7, <1>9, UnlinkedObjects DEF Labelled
<1>12. Tree!Remove(TreeOn(disk, fat), TreeOn(e, new))
  BY <1>1, <1>3, <1>7, <1>8, <1>10, <1>11, UnlinkedTree
<1> QED
  BY <1>3, <1>10, <1>12 DEF new

\* The folders in what stands at p are at or below it.
LEMMA InnerBelow ==
  ASSUME NEW d \in [Clusters -> Stored], NEW map, Sound(d, map, Live(d)), Labelled(d),
         NEW a, NEW p, NEW pp, PathIs(d, a, p, pp), NEW o \in Inner(d, pp), o[2].folder
  PROVE  At(d, p).folder /\ o[2].cluster \in BelowOn(d, {At(d, p).cluster})
<1> DEFINE f == At(d, p).cluster
           B == BelowOn(d, {f})
           Z == {x \in ObjectsOn(d) :
                   x \in Inner(d, pp) /\ x[2].folder => At(d, p).folder /\ x[2].cluster \in B}
<1>1. Splits(d, a, p, pp) /\ p \in PlacesIn(d, Live(d))
  BY InnerIs DEF Labelled, PathIs
<1>2. f \in B /\ SubfoldersOn(d, B) \subseteq B
  <2>1. f \in Clusters
    BY <1>1, OnePlace
  <2> HIDE DEF f
  <2> QED
    BY <2>1, BelowIsLeast
<1>3. RootObject \in Z
  BY <1>1, ObjectsLeast DEF Splits, Inner, Outer
<1> HIDE DEF B
<1>4. ASSUME NEW b \in ObjectsOn(d) \cap Z, NEW q \in PlacesIn(d, Live(d)),
             b[2].folder, q[1] = b[2].cluster
      PROVE  There(b, At(d, q)) \in Z
  <2>1. There(b, At(d, q)) \in ObjectsOn(d) /\ There(b, At(d, q))[2] = At(d, q)
    BY <1>4, ThereIs
  <2>2. SUFFICES ASSUME There(b, At(d, q)) \in Inner(d, pp), At(d, q).folder
                 PROVE  At(d, p).folder /\ At(d, q).cluster \in B
    BY <2>1
  <2>3. pp \in Seq(LabelSet)
    BY <1>1 DEF Splits
  <2>4. There(b, At(d, q))[1] = pp \/ b \in Inner(d, pp)
    BY <1>4, <2>2, <2>3, InnerGrows
  <2>5. CASE There(b, At(d, q))[1] = pp
    <3>1. q = p
      BY <1>1, <1>4, <2>5 DEF Splits
    <3> QED
      BY <1>2, <2>2, <3>1
  <2>6. CASE b \in Inner(d, pp)
    <3>1. At(d, p).folder /\ q[1] \in B
      BY <1>4, <2>6
    <3>2. At(d, q).cluster \in Clusters
      BY <1>4, OnePlace
    <3>3. At(d, q).cluster \in SubfoldersOn(d, B)
      BY <1>4, <2>2, <3>1, <3>2 DEF SubfoldersOn, PlacesIn, At
    <3> QED
      BY <1>2, <3>1, <3>3
  <2> QED
    BY <2>4, <2>5, <2>6
<1>5. ObjectsOn(d) \subseteq Z
  <2> HIDE DEF Z
  <2> QED
    BY <1>3, <1>4, ObjectInduction DEF There
<1> QED
  BY <1>5 DEF Inner, B

\* The content of a file is what it was where neither its chain nor what that holds changed.
LEMMA ContentKept ==
  ASSUME NEW d, NEW e, NEW map, NEW x, NEW y, SameObject(x, y),
         \A c \in ClustersOf(map, x) : e[c] = d[c]
  PROVE  Content(e, map, y) = Content(d, map, x)
BY DEF Content, ClustersOf, SameObject

\* So is what one moves.
LEMMA MovedKept ==
  ASSUME DriverKept, TreeKept, Ready, NEW p, NEW c, NEW x, Moving(p, c, x)
  PROVE  Object(ImageOf(disk, queue'), fat, x) = Object(disk, fat, At(disk, p))
<1> DEFINE e == ImageOf(disk, queue')
           y == At(disk, p)
<1>1. disk \in [Clusters -> Stored] /\ Sound(disk, fat, Live(disk)) /\ p \in PlacesIn(disk, Live(disk))
  BY SoundAtRest DEF Moving
<1>2. SameObject(y, x) /\ \A b \in Clusters \ Live(disk) : e[b] = disk[b]
  BY DEF Moving, Moves
<1>3. Owned(fat, y)
  BY <1>1 DEF Sound, OwnChains
<1>4. \A b \in ClustersOf(fat, y) : b \in Clusters /\ (b \in Live(disk) => y.folder)
  BY <1>1, <1>3, OnePlace, OwnedClusters
<1> HIDE DEF e, y
<1>5. ~y.folder => Content(e, fat, x) = Content(disk, fat, y)
  <2> SUFFICES ASSUME ~y.folder PROVE Content(e, fat, x) = Content(disk, fat, y)
    OBVIOUS
  <2>1. \A b \in ClustersOf(fat, y) : e[b] = disk[b]
    BY <1>2, <1>4
  <2> QED
    BY <1>2, <2>1, ContentKept
<1>6. Object(e, fat, x) = Object(disk, fat, y)
  BY <1>2, <1>5 DEF Object, SameObject
<1> QED
  BY <1>6 DEF e, y

\* So is what goes with it.
LEMMA InnerKept ==
  ASSUME DriverKept, TreeKept, CrashKept, Ready, Labelled(disk), NEW p, NEW c, NEW x, Moving(p, c, x),
         NEW a, NEW pp, PathIs(disk, a, p, pp), NEW to, NEW o \in Inner(disk, pp)
  PROVE  Object(ImageOf(disk, queue'), fat', Shifted(pp, to, x, o)[2]) = Object(disk, fat, o[2])
<1>1. disk \in [Clusters -> Stored] /\ Sound(disk, fat, Live(disk))
  BY SoundAtRest
<1>2. Splits(disk, a, p, pp)
  BY <1>1, InnerIs DEF Labelled
<1>3. fat' = fat /\ Sparing(Live(disk), x.cluster) /\ At(disk, p).cluster = x.cluster
      /\ p \in PlacesIn(disk, Live(disk))
  BY DEF Moving, Moves, SameObject
<1>4. o \in ObjectsOn(disk)
  BY DEF Inner
<1>5. CASE o[1] = pp
  <2>1. o[2] = At(disk, p) /\ Shifted(pp, to, x, o)[2] = x
    BY <1>2, <1>4, <1>5 DEF Splits, There, Shifted
  <2>2. Object(ImageOf(disk, queue'), fat, x) = Object(disk, fat, At(disk, p))
    BY MovedKept
  <2> QED
    BY <1>3, <2>1, <2>2
<1>6. CASE o[1] # pp
  <2>1. Shifted(pp, to, x, o)[2] = o[2]
    BY <1>6 DEF Shifted
  <2>2. o # RootObject
    BY <1>2 DEF Splits, Inner, Outer
  <2>3. PICK b, q : StandsIn(disk, o, b, q)
    BY <1>1, <1>4, <2>2, ObjectStands
  <2>4. q \in PlacesIn(disk, Live(disk)) /\ o[2] = At(disk, q)
    BY <2>3 DEF StandsIn
  <2>5. q # p
    <3>1. ASSUME q = p PROVE FALSE
      <4>1. b = a
        BY <1>2, <2>3, <3>1 DEF Splits, StandsIn
      <4>2. o[1] = pp
        BY <2>3, <3>1, <4>1 DEF StandsIn, PathIs
      <4> QED
        BY <1>6, <4>2
    <3> QED
      BY <3>1
  <2>6. At(disk, q).cluster # x.cluster
    BY <1>1, <1>3, <2>4, <2>5, OnePlace
  <2>7. Object(ImageOf(disk, queue'), fat', At(disk, q)) = Object(disk, fat, At(disk, q))
    BY <1>3, <2>4, <2>6, OutsideKept
  <2> QED
    BY <2>1, <2>4, <2>7
<1> QED
  BY <1>5, <1>6

\* What one moves is moved in the tree.
LEMMA MovingTree ==
  ASSUME DriverKept, TreeKept, CrashKept, Ready, Labelled(disk), NEW p, NEW c, NEW x, Moving(p, c, x)
  PROVE  Labelled(Image') /\ Tree!Move(TreeOn(disk, fat), TreeOn(Image', fat'))
<1> DEFINE e   == ImageOf(disk, queue')
           new == fat'
<1>1. disk \in [Clusters -> Stored] /\ Sound(disk, fat, Live(disk))
  BY SoundAtRest
<1>2. /\ p \in PlacesIn(disk, Live(disk)) /\ c \in Live(disk)
      /\ Cardinality(Holes(EntriesOn(disk, c))) > 1 /\ x \in EntryType /\ x.used
      /\ Moves(disk, e, p, c, x)
  BY DEF Moving
<1>3. /\ Sparing(Live(disk), x.cluster) /\ NewIn(c, x) /\ power' # "off"
      /\ x.folder => c \notin BelowOn(disk, {x.cluster})
  BY DEF Moving
<1>4. Image' = e /\ e \in [Clusters -> Stored] /\ Sound(e, new, Live(e))
  BY <1>3, MovingSound, OperationImage
<1>5. Fresh(disk, c, x) /\ Label(x) \in TreeLabels
  BY <1>3, NewIsFresh
<1>6. SameObject(At(disk, p), x)
  BY <1>2 DEF Moves
<1>7. p[1] \in Live(disk)
  BY <1>2 DEF PlacesIn
<1>8. PICK a \in ObjectsOn(disk) : a[2].folder /\ a[2].cluster = p[1]
  BY <1>1, <1>7, LiveObject
<1> DEFINE pp == Append(a[1], Label(At(disk, p)))
<1>9. PathIs(disk, a, p, pp)
  BY <1>2, <1>8 DEF PathIs
<1> HIDE DEF pp
<1>10. PICK b \in ObjectsOn(disk) : b[2].folder /\ b[2].cluster = c
  BY <1>1, <1>2, LiveObject
<1>11. b \in Outer(disk, pp)
  <2>1. ASSUME b \in Inner(disk, pp) PROVE FALSE
    <3>1. At(disk, p).folder /\ c \in BelowOn(disk, {At(disk, p).cluster})
      BY <1>1, <1>9, <1>10, <2>1, InnerBelow
    <3> QED
      BY <1>3, <1>6, <3>1 DEF SameObject
  <2> QED
    BY <1>10, <2>1 DEF Inner, Outer
<1> DEFINE to == Append(b[1], Label(x))
<1>12. to = Append(b[1], Label(x))
  OBVIOUS
<1> HIDE DEF to
<1>13. \A o \in Outer(disk, pp) : Object(e, new, o[2]) = Object(disk, fat, o[2])
  <2>1. Sparing(Live(disk), At(disk, p).cluster)
    BY <1>3, <1>6 DEF SameObject
  <2> QED
    BY <1>9, <2>1, OuterKept
<1>14. \A o \in Inner(disk, pp) : Object(e, new, Shifted(pp, to, x, o)[2]) = Object(disk, fat, o[2])
  BY <1>9, InnerKept
<1> HIDE DEF e, new
<1>15. Goes(disk, e, p, c, x)
  BY <1>1, <1>2, MovedCarried
<1>16. PICK n : /\ Carried(disk, e, {p}, {n}) /\ At(e, n) = x /\ n[1] = c
                /\ c \in Live(e) => n \in PlacesIn(e, Live(e))
  BY <1>15 DEF Goes
<1>17. x.folder => x.size = 0
  BY <1>2, <1>6 DEF Labelled, SameObject
<1>18. Labelled(e)
  BY <1>4, <1>5, <1>16, <1>17, CarriedNames
<1>19. ObjectsOn(e) = WithShifted(disk, pp, to, x)
  <2>1. Relocates(disk, fat, e, new, a, p, pp, b, x, n, to)
    BY <1>1, <1>2, <1>4, <1>6, <1>9, <1>10, <1>11, <1>12, <1>16 DEF Relocates, Labelled
  <2> QED
    BY <2>1, MovedObjects
<1>20. Tree!Move(TreeOn(disk, fat), TreeOn(e, new))
  <2>1. Renames(disk, fat, e, new, a, p, pp, b, x, to)
    BY <1>1, <1>2, <1>4, <1>5, <1>6, <1>9, <1>10, <1>11, <1>12, <1>13, <1>14, <1>18, <1>19
       DEF Renames
  <2> QED
    BY <2>1, MovedTree
<1> QED
  BY <1>4, <1>18, <1>20 DEF new

-----------------------------------------------------------------------------
(* The tree of careful clients *)

\* The disk that is to come is one.
LEMMA ImageIsDisk == DriverKept => Image \in [Clusters -> Stored]
BY ImageIs, ImageTyped DEF DriverKept, DriverTypes

\* A disk whose folders hold nothing has a tree of a root.
LEMMA EmptyTree ==
  ASSUME NEW d \in [Clusters -> Stored], NEW map, Places(d) = {}
  PROVE  Labelled(d) /\ TreeOn(d, map) = [path \in {<<>>} |-> TreeFolder]
<1>1. PlacesIn(d, Live(d)) = {}
  BY PlacesAre
<1>2. ASSUME NEW i \in Items PROVE ~EntriesOn(d, ROOT_CLUSTER_NUMBER)[i].used
  <2> DEFINE p == <<ROOT_CLUSTER_NUMBER, i>>
  <2>1. At(d, p) = EntriesOn(d, ROOT_CLUSTER_NUMBER)[i]
    BY DEF At
  <2>2. p \in Live(d) \X Items
    BY LiveIsLeast
  <2> HIDE DEF p
  <2> QED
    BY <1>1, <2>1, <2>2 DEF PlacesIn
<1>3. ObjectsOn(d) = {RootObject}
  <2>1. Closed(d, {RootObject})
    BY <1>2, RootIs DEF Closed
  <2> QED
    BY <2>1, ObjectsLeast
<1>4. Object(d, map, RootObject[2]) = TreeFolder
  BY RootIs DEF Object, TreeFolder
<1> DEFINE value(path) == The({Object(d, map, o[2]) : o \in {x \in ObjectsOn(d) : x[1] = path}})
           t == [path \in {o[1] : o \in ObjectsOn(d)} |-> value(path)]
<1>5. TreeOn(d, map) = t
  <2>1. {[path \in {o[1] : o \in objects} |->
           The({Object(d, map, o[2]) : o \in {x \in objects : x[1] = path}})] :
          objects \in {ObjectsOn(d)}} = {t}
    OBVIOUS
  <2> QED
    BY <2>1, TheOne DEF TreeOn
<1>6. {o[1] : o \in ObjectsOn(d)} = {<<>>}
  BY <1>3, RootIs
<1>7. value(<<>>) = TreeFolder
  <2>1. {x \in ObjectsOn(d) : x[1] = <<>>} = {RootObject}
    BY <1>3, RootIs
  <2>2. {Object(d, map, o[2]) : o \in {x \in ObjectsOn(d) : x[1] = <<>>}} = {TreeFolder}
    BY <1>4, <2>1
  <2> QED
    BY <2>2, TheOne
<1> HIDE DEF value
<1>8. t = [path \in {<<>>} |-> TreeFolder]
  BY <1>6, <1>7
<1>9. Labelled(d)
  BY <1>1 DEF Labelled, OneName
<1> QED
  BY <1>5, <1>8, <1>9

\* The inductive invariant: the entries of the folders of a machine that runs differ in name.
NamesKept == power # "off" => Labelled(Image)

\* A machine that is off has no folders.
LEMMA NamesStart == Init => NamesKept
BY DEF Init, Fat32Init, NamesKept

\* The tree there is.
LEMMA TreeNow ==
  ASSUME NEW d0, NEW map0
  PROVE  The({TreeOn(d, map) : d \in {d0}, map \in {map0}}) = TreeOn(d0, map0)
<1> DEFINE S == {TreeOn(d, map) : d \in {d0}, map \in {map0}}
           t == TreeOn(d0, map0)
<1>1. S = {t}
  OBVIOUS
<1> HIDE DEF S, t
<1>2. The(S) = t
  BY <1>1, TheOne
<1> QED
  BY <1>2 DEF S, t

\* A change of the tree of the disk is one of the tree.
LEMMA TreeSteps ==
  ASSUME \/ Tree!Refuse(TreeOn(Image, fat), TreeOn(Image', fat'))
         \/ Tree!Create(TreeOn(Image, fat), TreeOn(Image', fat'))
         \/ Tree!Remove(TreeOn(Image, fat), TreeOn(Image', fat'))
         \/ Tree!Move(TreeOn(Image, fat), TreeOn(Image', fat'))
  PROVE  Tree!Next
<1> DEFINE t == TreeOn(Image, fat)
           u == TreeOn(Image', fat')
<1>1. /\ The({TreeOn(d, map) : d \in {Image}, map \in {fat}}) = t
      /\ The({TreeOn(d, map) : d \in {Image'}, map \in {fat'}}) = u
  BY TreeNow
<1> HIDE DEF t, u
<1>2. Tree!Refuse(t, u) \/ Tree!Create(t, u) \/ Tree!Remove(t, u) \/ Tree!Move(t, u)
  BY DEF t, u
<1> QED
  BY <1>1, <1>2 DEF Tree!Next

\* A machine that starts has a tree of a root.
LEMMA MapStarts == Init => Tree!Init
<1> SUFFICES ASSUME Init PROVE Tree!Init
  OBVIOUS
<1>1. DriverKept /\ TreeKept /\ power = "off"
  BY StartKept, TreeStart DEF Init, Fat32Init
<1>2. TreeOn(Image, fat) = [path \in {<<>>} |-> TreeFolder]
  BY <1>1, ImageIsDisk, NoPlaces, EmptyTree
<1>3. The({TreeOn(d, map) : d \in {Image}, map \in {fat}}) = TreeOn(Image, fat)
  BY TreeNow
<1> QED
  BY <1>2, <1>3 DEF Tree!Init, TreeFolder

\* Every step of careful clients is a change of the tree, or none.
LEMMA MapSteps ==
  DriverKept /\ TreeKept /\ CrashKept /\ NamesKept /\ [CarefulNext]_systemVars => NamesKept' /\ Tree!Next
<1> SUFFICES ASSUME DriverKept, TreeKept, CrashKept, NamesKept, [CarefulNext]_systemVars
             PROVE  NamesKept' /\ Tree!Next
  OBVIOUS
<1>1. DriverKept'
  BY CarefulKeeps
<1>2. Tree!Refuse(TreeOn(Image, fat), TreeOn(Image, fat))
  BY DEF Tree!Refuse
<1>3. CASE UNCHANGED fsVars
  <2>1. Image' = Image /\ fat' = fat /\ power' = power
    BY <1>3 DEF fsVars, Image
  <2> QED
    BY <1>2, <2>1, TreeSteps DEF NamesKept
<1>4. CASE Flush
  <2>1. disk \in [Clusters -> Stored] /\ queue \in Seq(Writes) /\ queue # <<>>
    BY <1>4 DEF DriverKept, DriverTypes, Flush
  <2>2. ImageOf(disk', queue') = ImageOf(disk, queue)
    BY <1>4, <2>1, FlushedImage DEF Flush
  <2>3. Image' = ImageOf(disk', queue')
    BY DEF Image, ImageOf, WritesTo
  <2>4. Image' = Image /\ fat' = fat /\ power # "off"
    BY <1>4, <2>2, <2>3, ImageIs DEF Flush
  <2> QED
    BY <1>2, <2>4, TreeSteps DEF NamesKept
<1>5. CASE initialize_filesystem_fat32
  <2>1. power = "off"
    BY <1>5 DEF initialize_filesystem_fat32
  <2>2. TreeOn(Image, fat) = [path \in {<<>>} |-> TreeFolder]
    BY <2>1, ImageIsDisk, NoPlaces, EmptyTree
  <2>3. Places(Image') = {}
    BY <1>5, BootStarts
  <2>4. Image' \in [Clusters -> Stored]
    <3> DEFINE d == disk'
               q == queue'
    <3>1. d \in [Clusters -> Stored] /\ q \in Seq(Writes)
      BY <1>1 DEF DriverKept, DriverTypes
    <3>2. Image' = ImageOf(d, q)
      BY DEF Image, ImageOf, WritesTo
    <3> HIDE DEF d, q
    <3> QED
      BY <3>1, <3>2, ImageTyped
  <2>5. Labelled(Image') /\ TreeOn(Image', fat') = [path \in {<<>>} |-> TreeFolder]
    <3> DEFINE new == fat'
    <3> HIDE DEF new
    <3>1. Labelled(Image') /\ TreeOn(Image', new) = [path \in {<<>>} |-> TreeFolder]
      BY <2>3, <2>4, EmptyTree
    <3> QED
      BY <3>1 DEF new
  <2>6. Tree!Refuse(TreeOn(Image, fat), TreeOn(Image', fat'))
    BY <2>2, <2>5 DEF Tree!Refuse
  <2> QED
    BY <2>5, <2>6, TreeSteps DEF NamesKept
<1>6. CASE Ready /\ Operation
  <2>1. Image = disk /\ Labelled(disk)
    BY <1>6, SoundAtRest DEF NamesKept, Ready
  <2>2. ASSUME NEW c, NEW x, Adding(c, x) PROVE NamesKept' /\ Tree!Next
    BY <1>6, <2>1, <2>2, AddingTree, TreeSteps DEF NamesKept
  <2>3. ASSUME NEW p, NEW X, Removing(p, X) PROVE NamesKept' /\ Tree!Next
    BY <1>6, <2>1, <2>3, RemovingTree, TreeSteps DEF NamesKept
  <2>4. ASSUME NEW p, NEW c, NEW x, Moving(p, c, x) PROVE NamesKept' /\ Tree!Next
    BY <1>6, <2>1, <2>4, MovingTree, TreeSteps DEF NamesKept
  <2> QED
    BY <1>6, <2>2, <2>3, <2>4 DEF Operation, Deleting
<1>7. CASE UNCHANGED systemVars
  BY <1>3, <1>7 DEF systemVars
<1> QED
  BY <1>3, <1>4, <1>5, <1>6, <1>7, CarefulOperates

\* With careful clients the driver is a tree of files: write, delete, delete_all and move of fat32.c
\* each make one change of the tree, whole, or none, and neither power-up nor a write done makes any.
THEOREM CarefulImplementsFileTree == CarefulSpec => ImplementsFileTree
<1>1. Init => Tree!Init
  BY MapStarts
<1>2. DriverKept /\ TreeKept /\ CrashKept /\ NamesKept /\ [CarefulNext]_systemVars
        => (DriverKept /\ TreeKept /\ CrashKept /\ NamesKept)' /\ Tree!Next
  BY CarefulStep, MapSteps
<1> QED
  BY <1>1, <1>2, StartKept, TreeStart, CrashStart, NamesStart, PTL
     DEF CarefulSpec, ImplementsFileTree, Tree!Spec

=============================================================================
