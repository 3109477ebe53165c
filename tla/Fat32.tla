------------------------------- MODULE Fat32 -------------------------------
(***************************************************************************)
(* The FAT32 driver of fat32.c over a disk of clusters.  An operation runs *)
(* inside a syscall: it reads the disk, changes the FAT it keeps in memory *)
(* and issues its cluster writes one after the other.  Here the operation  *)
(* is one action that leaves the writes in `queue', in the order the code  *)
(* issues them, and Flush performs the first of them; nothing else runs    *)
(* until the queue is empty, but the machine can stop at any point of it.  *)
(*                                                                         *)
(* No operation reads a cluster after having issued a write to it, but     *)
(* delete_all_folder when two entries share a cluster, where the second    *)
(* visit finds zeroes and writes what the first one wrote.                 *)
(***************************************************************************)
EXTENDS Integers, SequencesExt

CONSTANTS CLUSTER_MAP_SIZE,  \* 512 in the build
          DIRECTORY_LENGTH,  \* CLUSTER_SIZE / sizeof(struct FAT32DirectoryEntry): 64
          CLUSTER_SIZE,      \* 2048
          SPILL,             \* words of the FAT in one directory entry: 8
          Names, Exts, NoExt,\* of the requests; NoExt is the extension of three zeroes
          Contents,          \* what users write in files
          Sizes              \* buffer_size of the requests

\* The name of an entry of zeroes.
NoName == ""

\* The values that mark a FAT word lie beyond the disk, and users give names.
ASSUME Fat32Assumption ==
  /\ CLUSTER_MAP_SIZE \in Nat /\ CLUSTER_MAP_SIZE > 3 /\ CLUSTER_MAP_SIZE <= 268435440
  /\ DIRECTORY_LENGTH \in Nat /\ DIRECTORY_LENGTH > 2
  /\ CLUSTER_SIZE \in Nat \ {0}
  /\ SPILL \in 1 .. CLUSTER_MAP_SIZE - 3
  /\ NoExt \in Exts
  /\ NoName \notin Names
  /\ Sizes \subseteq Nat

VARIABLES disk,  \* content of every cluster of the disk
          fat,   \* driver_state.fat_table
          queue, \* the cluster writes still to be done
          busy,  \* the first cluster of the file or folder they are about, 0 for none
          power  \* "off", "on", or "hung" in the driver

fsVars == <<disk, fat, queue, busy, power>>

BOOT_SECTOR           == 0
FAT_CLUSTER_NUMBER    == 1
ROOT_CLUSTER_NUMBER   == 2
FAT32_FAT_EMPTY_ENTRY == 0
CLUSTER_0_VALUE       == 268435440
CLUSTER_1_VALUE       == 268435455
FAT32_FAT_END_OF_FILE == 268435455

Clusters == 0 .. CLUSTER_MAP_SIZE - 1

\* get_empty_cluster's -1, and a FAT word that is the piece of a directory entry.
NoCluster == -1
JUNK      == -2

Indices == 0 .. DIRECTORY_LENGTH - 1
Items   == 2 .. DIRECTORY_LENGTH - 1

\* An entry: `used' is user_attribute = UATTR_NOT_EMPTY, `folder' is attribute =
\* ATTR_SUBDIRECTORY.
NoEntry == [name |-> NoName, ext |-> NoExt, folder |-> FALSE, used |-> FALSE, cluster |-> 0, size |-> 0]

FolderEntry(name, cluster) ==
  [name |-> name, ext |-> NoExt, folder |-> TRUE, used |-> TRUE, cluster |-> cluster, size |-> 0]

EntryType ==
  [name : Names \cup {NoName, ".", ".."}, ext : Exts, folder : BOOLEAN, used : BOOLEAN,
   cluster : Clusters \cup {NoCluster}, size : Nat]

\* What a cluster of the disk can hold.
Signature      == [kind |-> "signature"]
Fat(map)       == [kind |-> "fat", map |-> map]
Table(entries) == [kind |-> "table", entries |-> entries]
Bytes(c, part) == [kind |-> "bytes", of |-> c, part |-> part]

NoEntries == [i \in Indices |-> NoEntry]
Zeroes    == Table(NoEntries)

\* read_clusters into a directory table: neither the bytes of a file, nor the
\* signature, nor the FAT, nor what a failing read leaves pass for entries in use.
EntriesOn(d, cluster) ==
  IF cluster \in Clusters /\ d[cluster].kind = "table" THEN d[cluster].entries ELSE NoEntries

Entries(cluster) == EntriesOn(disk, cluster)

\* One write_clusters call; the disk ignores one beyond its last cluster.
Put(cluster, content) == IF cluster \in Clusters THEN <<[at |-> cluster, content |-> content]>> ELSE <<>>

Fat32Init ==
  /\ disk = [c \in Clusters |-> Zeroes]
  /\ fat = [c \in Clusters |-> FAT32_FAT_EMPTY_ENTRY]
  /\ queue = <<>>
  /\ busy = 0
  /\ power = "off"

-----------------------------------------------------------------------------
(* The disk and the machine *)

\* The first write of the queue reaches the disk.
Flush ==
  /\ power # "off"
  /\ queue # <<>>
  /\ disk' = [disk EXCEPT ![Head(queue).at] = Head(queue).content]
  /\ queue' = Tail(queue)
  /\ busy' = IF Len(queue) = 1 THEN 0 ELSE busy
  /\ UNCHANGED <<fat, power>>

\* The machine is switched off or reset: memory is lost, the disk stays.
Crash ==
  /\ power # "off"
  /\ fat' = [c \in Clusters |-> FAT32_FAT_EMPTY_ENTRY]
  /\ queue' = <<>>
  /\ busy' = 0
  /\ power' = "off"
  /\ UNCHANGED disk

is_empty_storage == disk[BOOT_SECTOR] # Signature

\* The three reserved words are set, the others are still zero after power-up.
create_fat32 ==
  LET map  == [fat EXCEPT ![0] = CLUSTER_0_VALUE, ![1] = CLUSTER_1_VALUE,
                          ![2] = FAT32_FAT_END_OF_FILE]
      root == [NoEntries EXCEPT ![0] = FolderEntry(".", ROOT_CLUSTER_NUMBER),
                                ![1] = FolderEntry("..", ROOT_CLUSTER_NUMBER)]
  IN  /\ fat' = map
      /\ queue' = Put(BOOT_SECTOR, Signature) \o Put(FAT_CLUSTER_NUMBER, Fat(map))
                    \o Put(ROOT_CLUSTER_NUMBER, Table(root))

\* A disk with a signature whose FAT was never written is read as all zeroes.
initialize_filesystem_fat32 ==
  /\ power = "off"
  /\ power' = "on"
  /\ \/ is_empty_storage /\ create_fat32
     \/ /\ ~is_empty_storage
        /\ fat' = IF disk[FAT_CLUSTER_NUMBER].kind = "fat" THEN disk[FAT_CLUSTER_NUMBER].map ELSE fat
        /\ UNCHANGED queue
  /\ UNCHANGED <<disk, busy>>

\* A syscall can begin.
Ready == power = "on" /\ queue = <<>>

-----------------------------------------------------------------------------
(* Chains of clusters *)

\* The words a walk from a cluster meets, up to the first that is no cluster.
Walk(map, cluster) ==
  LET words == Clusters \cup {cluster} \cup {map[c] : c \in Clusters}
      next  == [w \in words |-> IF w \in Clusters THEN map[w] ELSE w]
      walk[n \in 0 .. CLUSTER_MAP_SIZE] == IF n = 0 THEN cluster ELSE next[walk[n - 1]]
  IN  walk

Chain(map, cluster) ==
  LET walk == Walk(map, cluster)
      n    == Cardinality({walk[k] : k \in DOMAIN walk} \cap Clusters)
  IN  [k \in 1 .. n |-> walk[k - 1]]

\* Does the walk end as the loops over a chain expect it to?
Ends(map, cluster) == Walk(map, cluster)[CLUSTER_MAP_SIZE] = FAT32_FAT_END_OF_FILE

EmptyClusters(map) == {c \in Clusters : c >= 3 /\ map[c] = FAT32_FAT_EMPTY_ENTRY}

get_empty_cluster(map) == IF EmptyClusters(map) = {} THEN NoCluster ELSE Min(EmptyClusters(map))

\* The clusters that write takes for a file of n, and the FAT with their chain.
\* When the empty clusters do not suffice the last of them is followed by
\* get_empty_cluster's -1; what write then puts in the word before the FAT is in
\* nobody's state here.
NewChain(map, start, n) ==
  LET rest     == EmptyClusters(map) \ {start}
      place(c) == 2 + Cardinality({d \in rest : d < c})
  IN  [k \in 1 .. Min({n, 1 + Cardinality(rest)}) |->
         IF k = 1 THEN start ELSE CHOOSE c \in rest : place(c) = k]

\* Seeded fault: the end of the chain is not marked.
LinkUnended(map, chain, n) ==
  [c \in Clusters |->
     IF \E k \in 1 .. Len(chain) - 1 : chain[k] = c
     THEN chain[1 + CHOOSE k \in DOMAIN chain : chain[k] = c]
     ELSE map[c]]

LinkChain(map, chain, n) ==
  [c \in Clusters |->
     IF \E k \in DOMAIN chain : chain[k] = c
     THEN LET k == CHOOSE k \in DOMAIN chain : chain[k] = c
          IN  IF k < Len(chain) THEN chain[k + 1]
              ELSE IF k = n THEN FAT32_FAT_END_OF_FILE ELSE NoCluster
     ELSE map[c]]

\* Seeded fault: only the first cluster is freed.
FreeFirst(map, cluster) ==
  [c \in Clusters |-> IF c = cluster THEN FAT32_FAT_EMPTY_ENTRY ELSE map[c]]

FreeChain(map, cluster) ==
  [c \in Clusters |-> IF \E k \in DOMAIN Chain(map, cluster) : Chain(map, cluster)[k] = c
                      THEN FAT32_FAT_EMPTY_ENTRY ELSE map[c]]

-----------------------------------------------------------------------------
(* Directory tables *)

Holes(t) == {i \in Items : ~t[i].used}
Full(t)  == Holes(t) = {}

FirstHole(t) == IF Full(t) THEN DIRECTORY_LENGTH ELSE Min(Holes(t))

Is(e, rq) == e.name = rq.name /\ e.ext = rq.ext

\* The entries before the first hole that a request names, and all of them.
Matches(t, rq) == {i \in Items : Is(t[i], rq)}
Visible(t, rq) == LET hole == FirstHole(t) IN {i \in Matches(t, rq) : i < hole}

\* Seeded fault: nothing moves to where the entry was.
RemoveLeavingHole(t, i) == [t EXCEPT ![i] = NoEntry]

\* The entry before the first hole moves to index i.  In a full table
\* get_dir_last_index returns 255, an entry beyond the driver's memory: what is
\* there has not the mark of an entry in use, and is zeroed.
RemoveEntry(t, i) ==
  IF Full(t) THEN [t EXCEPT ![i] = NoEntry]
  ELSE LET last == FirstHole(t) - 1 IN [t EXCEPT ![i] = t[last], ![last] = NoEntry]

\* Is the folder empty, as delete sees it?
is_folder_empty(cluster) == \A i \in Items : ~Entries(cluster)[i].used

-----------------------------------------------------------------------------
(* read and read_directory: the return code, and the clusters copied to the  *)
(* buffer; get_curr_working_dir copies a table and looks at nothing.        *)

get_curr_working_dir(cluster) == Entries(cluster)

\* The first entry with the name, whatever its extension and kind, if no hole
\* comes before it.
ReadIndices(t, rq) == LET hole == FirstHole(t) IN {i \in Items : i < hole /\ t[i].name = rq.name}

copy_long_cluster(cluster, size) ==
  LET chain == Chain(fat, cluster)
  IN  IF size % CLUSTER_SIZE = 0
      THEN SubSeq(chain, 1, Min({size \div CLUSTER_SIZE, Len(chain)}))
      ELSE chain \* remaining_size passes below zero: it never stops the copy

read(rq) ==
  LET t    == Entries(rq.parent)
      hits == ReadIndices(t, rq)
      e    == t[Min(hits)]
  IN  IF ~t[0].used THEN [ret |-> -1, clusters |-> <<>>]
      ELSE IF hits = {} THEN [ret |-> 2, clusters |-> <<>>]
      ELSE IF e.ext # rq.ext THEN [ret |-> 1, clusters |-> <<>>]
      ELSE [ret |-> 0, clusters |-> copy_long_cluster(e.cluster, rq.size)]

\* It looks at the kind where read looks at the extension.
read_directory(rq) ==
  LET t    == Entries(rq.parent)
      hits == ReadIndices(t, rq)
      e    == t[Min(hits)]
  IN  IF ~t[0].used THEN [ret |-> -1, clusters |-> <<>>]
      ELSE IF hits = {} THEN [ret |-> 2, clusters |-> <<>>]
      ELSE IF ~e.folder THEN [ret |-> 1, clusters |-> <<>>]
      ELSE [ret |-> 0, clusters |-> copy_long_cluster(e.cluster, rq.size)]

-----------------------------------------------------------------------------
(* write: ret is the return code *)

WriteRefusal(rq) ==
  LET t == Entries(rq.parent)
  IN  IF ~t[0].used THEN 2
      ELSE IF Visible(t, rq) # {} THEN 1
      ELSE IF get_empty_cluster(fat) = NoCluster THEN -1
      ELSE 0

\* In a full directory entry_num stays -1 and the new entry overwrites the end of
\* the FAT, which lies before dir_table_buf: each of its words is zero or not.
Spilled(t) ==
  IF ~Full(t) THEN {fat}
  ELSE {[c \in Clusters |-> IF c < CLUSTER_MAP_SIZE - SPILL THEN fat[c] ELSE word[c]] :
          word \in [CLUSTER_MAP_SIZE - SPILL .. CLUSTER_MAP_SIZE - 1 -> {FAT32_FAT_EMPTY_ENTRY, JUNK}]}

\* Seeded fault: one index too low, over the last entry.
AddOverLast(t, e) == IF Full(t) THEN t ELSE [t EXCEPT ![Max({2, FirstHole(t) - 1})] = e]

AddEntry(t, e) == IF Full(t) THEN t ELSE [t EXCEPT ![FirstHole(t)] = e]

\* The table of a new folder, and the write of it on the way: one more empty cluster
\* is asked for, named in the entry about the folder itself, and gets the half done
\* table.
init_directory_table(name, parent, map) ==
  LET other == get_empty_cluster(map)
      half  == [NoEntries EXCEPT ![0] = FolderEntry(name, other)]
  IN  [written |-> Put(other, Table(half)),
       table   |-> [half EXCEPT ![1] = FolderEntry("..", parent)]]

WriteFolder(rq, start, map) ==
  LET marked == [map EXCEPT ![start] = FAT32_FAT_END_OF_FILE]
      new    == init_directory_table(rq.name, rq.parent, marked)
      e      == [FolderEntry(rq.name, start) EXCEPT !.ext = rq.ext]
  IN  /\ fat' = marked
      /\ queue' = new.written \o Put(start, Table(new.table))
                    \o Put(rq.parent, Table(AddEntry(Entries(rq.parent), e)))
                    \o Put(FAT_CLUSTER_NUMBER, Fat(marked))

WriteFile(rq, start, map) ==
  LET needed == (rq.size + CLUSTER_SIZE - 1) \div CLUSTER_SIZE
      chain  == NewChain(map, start, needed)
      linked == LinkChain(map, chain, needed)
      e      == [name |-> rq.name, ext |-> rq.ext, folder |-> FALSE, used |-> TRUE,
                 cluster |-> start, size |-> rq.size]
  IN  /\ fat' = linked
      /\ queue' = [k \in DOMAIN chain |-> [at |-> chain[k], content |-> Bytes(rq.content, k)]]
                    \o Put(rq.parent, Table(AddEntry(Entries(rq.parent), e)))
                    \o Put(FAT_CLUSTER_NUMBER, Fat(linked))

write(rq, ret) ==
  /\ Ready
  /\ ret = WriteRefusal(rq)
  /\ \/ ret # 0 /\ UNCHANGED fsVars
     \/ /\ ret = 0
        /\ busy' = get_empty_cluster(fat)
        /\ \E map \in Spilled(Entries(rq.parent)) :
             \/ rq.size = 0 /\ WriteFolder(rq, busy', map)
             \/ rq.size # 0 /\ WriteFile(rq, busy', map)
        /\ UNCHANGED <<disk, power>>

-----------------------------------------------------------------------------
(* delete *)

\* Seeded fault: the FAT is not written.
UnlinkTableOnly(parent, i, map) == Put(parent, Table(RemoveEntry(Entries(parent), i)))

\* Seeded fault: the table is written once more, before the last entry is copied.
UnlinkInTwo(parent, i, map) ==
  Put(parent, Table([Entries(parent) EXCEPT ![FirstHole(Entries(parent)) - 1] = NoEntry]))
    \o Put(parent, Table(RemoveEntry(Entries(parent), i))) \o Put(FAT_CLUSTER_NUMBER, Fat(map))

\* The table without the entry, then the FAT.
Unlink(parent, i, map) ==
  Put(parent, Table(RemoveEntry(Entries(parent), i))) \o Put(FAT_CLUSTER_NUMBER, Fat(map))

Erase(clusters) == FlattenSeq([k \in DOMAIN clusters |-> Put(clusters[k], Zeroes)])

\* The clusters of the chain are zeroed and freed on the way.  A walk that does
\* not end in FAT32_FAT_END_OF_FILE goes on through memory outside the FAT: it
\* may go on for ever, or meet that value.
DeleteEntry(parent, i) ==
  LET first == Entries(parent)[i].cluster
      freed == FreeChain(fat, first)
      zero  == Erase(Chain(fat, first))
  IN  /\ fat' = freed
      /\ busy' = first
      /\ \/ queue' = zero \o Unlink(parent, i, freed) /\ UNCHANGED power
         \/ ~Ends(fat, first) /\ queue' = zero /\ power' = "hung"

delete(rq, ret) ==
  /\ Ready
  /\ LET t    == Entries(rq.parent)
         hits == Matches(t, rq)
         i    == Min(hits)
     IN  \/ ~t[0].used /\ ret = -1 /\ UNCHANGED fsVars
         \/ t[0].used /\ hits = {} /\ ret = 1 /\ UNCHANGED fsVars
         \/ /\ t[0].used /\ hits # {}
            /\ t[i].folder /\ ~is_folder_empty(t[i].cluster)
            /\ ret = 2
            /\ UNCHANGED fsVars
         \/ /\ t[0].used /\ hits # {}
            /\ t[i].folder => is_folder_empty(t[i].cluster)
            /\ ret = 0
            /\ DeleteEntry(rq.parent, i)
            /\ UNCHANGED disk

-----------------------------------------------------------------------------
(* delete_all *)

SubfoldersOn(d, S) ==
  {f \in Clusters : \E c \in S, i \in Items :
                      LET e == EntriesOn(d, c)[i] IN e.used /\ e.folder /\ e.cluster = f}

\* The folders at or below those of S, by the entries after "." and "..".
BelowOn(d, S) ==
  LET below[n \in 0 .. CLUSTER_MAP_SIZE] ==
        IF n = 0 THEN S ELSE S \cup SubfoldersOn(d, below[n - 1])
  IN  below[CLUSTER_MAP_SIZE]

Below(S) == BelowOn(disk, S)

\* delete_all_folder comes back to where it was.
Loops(cluster) == \E c \in Below({cluster}) : c \in Below(SubfoldersOn(disk, {c}))

\* The first clusters of what a table names, g telling what there is of a folder.
Named(t, g) ==
  FlattenSeq([k \in 1 .. DIRECTORY_LENGTH - 2 |->
                IF ~t[k + 1].used THEN <<>>
                ELSE IF t[k + 1].folder THEN g[t[k + 1].cluster]
                ELSE <<t[k + 1].cluster>>])

\* delete_all_folder and delete_all_file: the first cluster of everything in the
\* folder, a folder after what it holds.  Nothing is freed in the FAT.
delete_all_folder(cluster) ==
  LET erased[n \in 0 .. CLUSTER_MAP_SIZE] ==
        [c \in Clusters \cup {NoCluster} |->
           IF n = 0 THEN <<>> ELSE Named(Entries(c), erased[n - 1]) \o <<c>>]
  IN  Erase(erased[CLUSTER_MAP_SIZE][cluster])

\* Of the whole chain only the first cluster is freed.
DeleteAllEntry(parent, i) ==
  LET e     == Entries(parent)[i]
      freed == [c \in Clusters |-> IF c = e.cluster THEN FAT32_FAT_EMPTY_ENTRY ELSE fat[c]]
      zero  == IF e.folder THEN delete_all_folder(e.cluster) ELSE Erase(<<e.cluster>>)
  IN  /\ fat' = freed
      /\ queue' = zero \o Unlink(parent, i, freed)
      /\ UNCHANGED power

\* The recursion goes round a cycle of folders until the kernel's stack is used
\* up, after having zeroed some of what it met.
DeleteAllLoops(parent, i) ==
  /\ Entries(parent)[i].folder /\ Loops(Entries(parent)[i].cluster)
  /\ \E zeroed \in SUBSET {c \in Clusters : c >= 3} : queue' = Erase(SetToSeq(zeroed))
  /\ power' = "hung"
  /\ UNCHANGED fat

delete_all(rq, ret) ==
  /\ Ready
  /\ LET t    == Entries(rq.parent)
         hits == Matches(t, rq)
         i    == Min(hits)
     IN  \/ ~t[0].used /\ ret = -1 /\ UNCHANGED fsVars
         \/ t[0].used /\ hits = {} /\ ret = 1 /\ UNCHANGED fsVars
         \/ /\ t[0].used /\ hits # {}
            /\ ret = 0
            /\ IF t[i].folder /\ Loops(t[i].cluster)
               THEN DeleteAllLoops(rq.parent, i) ELSE DeleteAllEntry(rq.parent, i)
            /\ busy' = t[i].cluster
            /\ UNCHANGED disk

-----------------------------------------------------------------------------
(* move *)

\* The source is looked for from index 0 on, so it can be the entry the folder
\* has about itself.
SourceIndices(src) == {i \in Indices : Is(Entries(src.parent)[i], src)}
Source(src)        == Entries(src.parent)[Min(SourceIndices(src))]

\* The entry that has the target's name, among those before the first hole.
TargetHits(tar) == Visible(Entries(tar.parent), tar)

IntoFolder(tar) == TargetHits(tar) # {} /\ Entries(tar.parent)[Min(TargetHits(tar))].folder

\* Where the entry goes: into the folder that has the target's name, or beside it.
Destination(tar) ==
  IF IntoFolder(tar) THEN Entries(tar.parent)[Min(TargetHits(tar))].cluster ELSE tar.parent

MoveRefusal(src, tar) ==
  LET dest == Entries(Destination(tar))
      name == IF IntoFolder(tar) THEN src ELSE tar
  IN  IF ~Entries(src.parent)[0].used THEN -1
      ELSE IF SourceIndices(src) = {} THEN 1
      ELSE IF Visible(dest, name) # {} THEN 2
      ELSE IF Full(dest) THEN 3
      ELSE IF Source(src).cluster = Destination(tar) THEN 4
      ELSE 0

\* Seeded fault: the moved folder keeps its "..".
MoveEntryOnly(src, tar) ==
  LET old  == Source(src)
      dest == Destination(tar)
      new  == IF IntoFolder(tar) THEN old ELSE [old EXCEPT !.name = tar.name, !.ext = tar.ext]
  IN  /\ queue' = Put(src.parent, Table(RemoveEntry(Entries(src.parent), Min(SourceIndices(src)))))
                    \o Put(dest, Table([Entries(dest) EXCEPT ![FirstHole(Entries(dest))] = new]))
      /\ busy' = old.cluster

\* Seeded fault: the table it leaves is not written.
MoveCopies(src, tar) ==
  LET dest == Destination(tar)
      new  == IF IntoFolder(tar) THEN Source(src) ELSE [Source(src) EXCEPT !.name = tar.name]
  IN  /\ queue' = Put(dest, Table([Entries(dest) EXCEPT ![FirstHole(Entries(dest))] = new]))
      /\ busy' = Source(src).cluster

\* A moved folder gets its new name and parent; then the table it leaves is
\* written, then the one it goes to, as it was read.
MoveEntry(src, tar) ==
  LET old   == Source(src)
      dest  == Destination(tar)
      new   == IF IntoFolder(tar) THEN old ELSE [old EXCEPT !.name = tar.name, !.ext = tar.ext]
      moved == [Entries(old.cluster) EXCEPT ![0].name = new.name, ![0].ext = new.ext,
                                            ![1].cluster = dest]
      t     == Entries(dest)
  IN  /\ queue' = (IF old.folder THEN Put(old.cluster, Table(moved)) ELSE <<>>)
                    \o Put(src.parent, Table(RemoveEntry(Entries(src.parent), Min(SourceIndices(src)))))
                    \o Put(dest, Table([t EXCEPT ![FirstHole(t)] = new]))
      /\ busy' = old.cluster

move(src, tar, ret) ==
  /\ Ready
  /\ ret = MoveRefusal(src, tar)
  /\ \/ ret # 0 /\ UNCHANGED fsVars
     \/ ret = 0 /\ MoveEntry(src, tar) /\ UNCHANGED <<disk, fat, power>>
=============================================================================
