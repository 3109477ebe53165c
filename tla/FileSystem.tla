----------------------------- MODULE FileSystem -----------------------------
(***************************************************************************)
(* The FAT32 driver with its clients and the machine around it: requests   *)
(* as the shell and the process manager make them, power-up and crashes.   *)
(***************************************************************************)
EXTENDS Fat32

CONSTANT MaxCalls \* bound of the model on the operations of FileSystemSpec

ASSUME FileSystemAssumption == MaxCalls \in Nat

VARIABLE calls \* operations done, where they are bounded

systemVars == <<fsVars, calls>>

Init == Fat32Init /\ calls = 0

-----------------------------------------------------------------------------
(* Requests.  The parent of a request is a folder the shell found on its way *)
(* from the root; the path of cp and mv can also be resolved through the     *)
(* entry a folder has about itself (get_final_parent_cluster).               *)

FolderClusters == Below({ROOT_CLUSTER_NUMBER})

Selves == {Entries(c)[0].cluster : c \in FolderClusters}

WriteRequests(parents) ==
  [parent : parents, name : Names, ext : Exts, size : Sizes, content : Contents]

NameRequests(parents) == [parent : parents, name : Names, ext : Exts]

Syscall ==
  \/ \E rq \in WriteRequests(FolderClusters \cup Selves) : write(rq, WriteRefusal(rq))
  \/ \E rq \in NameRequests(FolderClusters), ret \in -1 .. 2 : delete(rq, ret)
  \/ \E rq \in NameRequests(FolderClusters), ret \in -1 .. 1 : delete_all(rq, ret)
  \/ \E src, tar \in NameRequests(FolderClusters \cup Selves) :
       move(src, tar, MoveRefusal(src, tar))

FileSystemNext ==
  \/ /\ initialize_filesystem_fat32 \/ Flush \/ Crash
     /\ UNCHANGED calls
  \/ /\ calls < MaxCalls
     /\ Syscall
     /\ calls' = IF queue' = queue THEN calls ELSE calls + 1

FileSystemSpec == Init /\ [][FileSystemNext]_systemVars

\* While the machine runs an operation goes on: every write is done in the end.
FairFileSystemSpec == FileSystemSpec /\ WF_systemVars(Flush /\ UNCHANGED calls)

-----------------------------------------------------------------------------
(* Careful clients: a folder is never filled up, a file is written only when  *)
(* it fits, and a move goes to another folder that is not inside the source. *)
(* The machine runs on; what a crash would leave is what the disk holds.     *)

\* Another entry leaves a hole in the folder.
Roomy(folder) == Cardinality(Holes(Entries(folder))) > 1

CarefulWrite(rq, ret) ==
  /\ ret = 0 =>
       Roomy(rq.parent) /\ rq.size <= CLUSTER_SIZE * Cardinality(EmptyClusters(fat))
  /\ write(rq, ret)

CarefulMove(src, tar, ret) ==
  /\ ret = 0 =>
       /\ Roomy(Destination(tar))
       /\ Min(SourceIndices(src)) \in Items
       /\ Destination(tar) # src.parent
       /\ Source(src).folder => Destination(tar) \notin Below({Source(src).cluster})
  /\ move(src, tar, ret)

CarefulNext ==
  /\ \/ initialize_filesystem_fat32
     \/ Flush
     \/ \E rq \in WriteRequests(FolderClusters) : CarefulWrite(rq, WriteRefusal(rq))
     \/ \E rq \in NameRequests(FolderClusters), ret \in -1 .. 2 : delete(rq, ret)
     \/ \E rq \in NameRequests(FolderClusters), ret \in -1 .. 1 : delete_all(rq, ret)
     \/ \E src, tar \in NameRequests(FolderClusters) :
          CarefulMove(src, tar, MoveRefusal(src, tar))
  /\ UNCHANGED calls

CarefulSpec == Init /\ [][CarefulNext]_systemVars

-----------------------------------------------------------------------------
(* What is on the disk *)

\* The disk once the pending writes are done.
Image ==
  [c \in Clusters |->
     LET writes == {k \in DOMAIN queue : queue[k].at = c}
     IN  IF writes = {} THEN disk[c] ELSE queue[Max(writes)].content]

\* The FAT a machine started now would read.
FatOnDisk ==
  IF disk[FAT_CLUSTER_NUMBER].kind = "fat" THEN disk[FAT_CLUSTER_NUMBER].map
  ELSE [c \in Clusters |-> FAT32_FAT_EMPTY_ENTRY]

\* The places of the entries in use on disk d, from the root down.
Places(d) ==
  {p \in BelowOn(d, {ROOT_CLUSTER_NUMBER}) \X Items : EntriesOn(d, p[1])[p[2]].used}

At(d, p) == EntriesOn(d, p[1])[p[2]]

\* What the chain of an entry holds.
Content(d, map, e) == [k \in DOMAIN Chain(map, e.cluster) |-> d[Chain(map, e.cluster)[k]]]

ClustersOf(map, e) == {Chain(map, e.cluster)[k] : k \in DOMAIN Chain(map, e.cluster)}

ClustersFor(e) == IF e.folder THEN 1 ELSE (e.size + CLUSTER_SIZE - 1) \div CLUSTER_SIZE

-----------------------------------------------------------------------------
(* Properties *)

\* Type invariant of the driver's state.
Fat32TypeOK ==
  /\ \A c \in Clusters : disk[c].kind \in {"signature", "fat", "table", "bytes"}
  /\ \A c \in Clusters : disk[c].kind = "table" => disk[c].entries \in [Indices -> EntryType]
  /\ fat \in [Clusters -> Clusters \cup {NoCluster, JUNK, CLUSTER_0_VALUE, FAT32_FAT_END_OF_FILE}]
  /\ \A k \in DOMAIN queue : queue[k].at \in Clusters
  /\ busy \in Clusters \cup {NoCluster}
  /\ power \in {"off", "on", "hung"}

\* Whenever a syscall can begin the FAT in memory is the one on the disk: every
\* path through every operation writes it back, and power-up reads it, wherever
\* the machine stopped before (fat32.c 108, 287, 309, 392, 459).  A disk whose
\* formatting was cut short has no FAT.
FatCached ==
  Ready /\ disk[FAT_CLUSTER_NUMBER].kind = "fat" => disk[FAT_CLUSTER_NUMBER].map = fat

\* What the driver keeps is of the right kind, and is what the disk has.
DriverInv == Fat32TypeOK /\ FatCached

\* Every file and folder has a chain of its own: of the length its size asks for,
\* ended as it should be, and sharing no cluster with another, however holes in
\* the FAT were filled and directory entries moved about (fat32.c 296-306, 389).
ChainsOwn ==
  LET image == Image
      P     == Places(image)
  IN  \A p \in P :
        LET e == At(image, p)
        IN  /\ Ends(fat, e.cluster)
            /\ Len(Chain(fat, e.cluster)) = ClustersFor(e)
            /\ \A c \in ClustersOf(fat, e) : c >= 3
            /\ \A q \in P \ {p} : ClustersOf(fat, e) \cap ClustersOf(fat, At(image, q)) = {}

\* The entry ".." of every folder names the folder it is in, after moves too
\* (fat32.c 42, 607): the shell's prompt and cd .. walk up these.
ParentLinks ==
  LET image == Image
  IN  \A p \in Places(image) :
        At(image, p).folder => EntriesOn(image, At(image, p).cluster)[1].cluster = p[1]

\* A machine that stops between two writes of an operation has on its disk
\* everything the operation is not about, with its content, and nothing else:
\* what the disk shows and what it will show differ only in the file or folder
\* operated on and in what that folder holds (fat32.c 285-287, 391, 617).
CrashConfined ==
  LET view(d, map) == {<<p[1], At(d, p), IF At(d, p).folder THEN <<>> ELSE Content(d, map, At(d, p))>> :
                         p \in Places(d)}
      image == Image
      now   == view(disk, FatOnDisk)
      later == view(image, fat)
  IN  \A v \in (now \cup later) \ (now \cap later) :
        v[2].cluster = busy \/ v[1] \in BelowOn(disk, {busy}) \cup BelowOn(image, {busy})

\* Clusters marked in the FAT that belong to nothing.
LeakedOn(d, map) ==
  {c \in Clusters : c >= 3 /\ map[c] # FAT32_FAT_EMPTY_ENTRY}
    \ UNION {ClustersOf(map, At(d, p)) : p \in Places(d)}

\* No operation but delete_all loses clusters: delete frees the chain to its end
\* (fat32.c 381), and write marks no cluster it does not link (fat32.c 30, 297).
OnlyDeleteAllLeaks ==
  [][Ready => \E later \in {Image'} :
       \/ LeakedOn(later, fat') \subseteq LeakedOn(disk, fat)
       \/ \E rq \in NameRequests(FolderClusters) : delete_all(rq, 0)]_fsVars

\* Every file is read back by the name it was written with, and every folder read as
\* one, unless another entry of its parent has that name: no hole ever comes before
\* an entry (read and read_directory stop at the first one, fat32.c 173, 204).  A file
\* is not read as a folder; that read does take a folder for a file is left open.
FilesReadBack ==
  Ready => \A p \in Places(disk) :
    LET e  == At(disk, p)
        rq == [parent |-> p[1], name |-> e.name, ext |-> e.ext,
               size |-> CLUSTER_SIZE * CLUSTER_MAP_SIZE]
        done == [ret |-> 0, clusters |-> Chain(fat, e.cluster)]
    IN  (\A q \in Places(disk) \ {p} : q[1] = p[1] => At(disk, q).name # e.name)
          => IF e.folder THEN read_directory(rq) = done
             ELSE read(rq) = done /\ read_directory(rq) = [ret |-> 1, clusters |-> <<>>]

\* The driver implements a tree of files.
ObjectsOn(d) ==
  LET root == << <<>>, FolderEntry(NoName, ROOT_CLUSTER_NUMBER)>>
      inside(o) == {<<Append(o[1], <<e.name, e.ext>>), e>> :
                      e \in {EntriesOn(d, o[2].cluster)[i] : i \in Items}}
      objects[n \in 0 .. CLUSTER_MAP_SIZE - 3] ==
        IF n = 0 THEN {root}
        ELSE {root} \cup UNION {{x \in inside(o) : x[2].used} : o \in {a \in objects[n - 1] : a[2].folder}}
  IN  objects[CLUSTER_MAP_SIZE - 3]

The(S) == CHOOSE x \in S : TRUE

\* A file or folder as its user sees it.
Object(d, map, e) == [size |-> e.size, bytes |-> IF e.folder THEN <<>> ELSE Content(d, map, e)]

TreeOn(d, map) ==
  The({[path \in {o[1] : o \in objects} |->
          The({Object(d, map, o[2]) : o \in {x \in objects : x[1] = path}})] :
        objects \in {ObjectsOn(d)}})

Tree == INSTANCE FileTree WITH
  Labels <- Names \X Exts,
  Folder <- [size |-> 0, bytes |-> <<>>],
  Files  <- {[size  |-> s,
              bytes |-> [k \in 1 .. (s + CLUSTER_SIZE - 1) \div CLUSTER_SIZE |-> Bytes(c, k)]] :
               s \in Sizes \ {0}, c \in Contents},
  tree   <- The({TreeOn(d, map) : d \in {Image}, map \in {fat}})

\* Refinement: for careful clients every syscall is one change of the tree, and
\* the bytes of every file stay what they were.
ImplementsFileTree == Tree!Spec

-----------------------------------------------------------------------------
(* What the repository says of itself and the code does not do. *)

\* write "return 0: operasi berhasil", the operation succeeded, for "Membuat
\* sebuah file" (fat32.c 227-229): the folder has the new entry.
WriteStores ==
  [][\A rq \in WriteRequests(FolderClusters) :
       write(rq, 0) => \E later \in {Image'}, i \in Items : Is(EntriesOn(later, rq.parent)[i], rq)]_fsVars
=============================================================================
