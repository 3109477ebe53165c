---------------------------- MODULE ShellProofs ----------------------------
(***************************************************************************)
(* Two shells on one disk of any size, with any names, paths and numbers   *)
(* of commands.  Their commands are careful clients of the driver, and     *)
(* what they know of folders stays good enough (ShellKept): every step     *)
(* changes the tree of files as a file system may, whatever has become of  *)
(* the folder a command was started in.  So the prompt in every folder is  *)
(* the folder's path, and find, ls and cat show what is in the tree.       *)
(***************************************************************************)
EXTENDS Shell, FileSystemProofs

-----------------------------------------------------------------------------
(* What shells call things *)

\* A folder's entry about itself has the name its parent has for it, and the one about its
\* parent is called "..", the root's too; names are a user's, and have no extension.
Titled(d) ==
  /\ EntriesOn(d, ROOT_CLUSTER_NUMBER)[1].cluster = ROOT_CLUSTER_NUMBER
  /\ \A c \in Live(d) : EntriesOn(d, c)[1].name = ".."
  /\ \A p \in PlacesIn(d, Live(d)) :
       /\ At(d, p).name \in Names /\ At(d, p).ext = NoExt
       /\ At(d, p).folder => EntriesOn(d, At(d, p).cluster)[0].name = At(d, p).name

\* The live folders keep what their tables begin with, but that one which is x may have another
\* name and parent.
SameHeads(d, e, x) ==
  \A b \in Live(d) \cap Live(e) :
    /\ EntriesOn(e, b)[0].name = IF x.folder /\ b = x.cluster THEN x.name
                                 ELSE EntriesOn(d, b)[0].name
    /\ EntriesOn(e, b)[1].name = EntriesOn(d, b)[1].name
    /\ EntriesOn(e, b)[1].cluster # EntriesOn(d, b)[1].cluster => x.folder /\ b = x.cluster

\* So the names stay what they should be if those of a new entry x at n are.
LEMMA CarriedTitles ==
  ASSUME NEW d \in [Clusters -> Stored], NEW map, Sound(d, map, Live(d)), Titled(d),
         NEW e \in [Clusters -> Stored], NEW new, Sound(e, new, Live(e)), NEW P, NEW N, NEW x,
         Carried(d, e, P, N), SameHeads(d, e, x),
         x.folder => x.cluster # ROOT_CLUSTER_NUMBER,
         \A n \in N : At(e, n) = x /\ x.name \in Names /\ x.ext = NoExt,
         x.folder => \A r \in PlacesIn(d, Live(d)) : At(d, r).cluster = x.cluster => r \in P,
         x.folder /\ x.cluster \in Live(e) =>
           /\ EntriesOn(e, x.cluster)[0].name = x.name
           /\ EntriesOn(e, x.cluster)[1].name = "..",
         Live(e) \subseteq Live(d) \cup (IF x.folder THEN {x.cluster} ELSE {})
  PROVE  Titled(e)
<1>1. EntriesOn(e, ROOT_CLUSTER_NUMBER)[1].cluster = ROOT_CLUSTER_NUMBER
  BY LiveIsLeast DEF Titled, SameHeads
<1>2. ASSUME NEW c \in Live(e) PROVE EntriesOn(e, c)[1].name = ".."
  <2>1. CASE x.folder /\ c = x.cluster
    BY <1>2, <2>1
  <2>2. CASE ~(x.folder /\ c = x.cluster)
    <3>1. c \in Live(d)
      BY <2>2
    <3> QED
      BY <3>1 DEF Titled, SameHeads
  <2> QED
    BY <2>1, <2>2
<1>3. ASSUME NEW q \in PlacesIn(e, Live(e))
      PROVE  /\ At(e, q).name \in Names /\ At(e, q).ext = NoExt
             /\ At(e, q).folder => EntriesOn(e, At(e, q).cluster)[0].name = At(e, q).name
  <2>1. At(e, q).folder => At(e, q).cluster \in Live(e)
    BY OnePlace, PlaceLeads DEF Sound
  <2>2. CASE q \in N
    BY <2>1, <2>2
  <2>3. CASE q \notin N
    <3>1. PICK r \in PlacesIn(d, Live(d)) \ P : At(d, r) = At(e, q)
      BY <2>3 DEF Carried
    <3>2. At(d, r).name \in Names /\ At(d, r).ext = NoExt
          /\ (At(d, r).folder => EntriesOn(d, At(d, r).cluster)[0].name = At(d, r).name)
      BY DEF Titled
    <3>3. At(d, r).folder => At(d, r).cluster \in Live(d)
      BY OnePlace, PlaceLeads DEF Sound
    <3>4. ~(x.folder /\ At(d, r).cluster = x.cluster)
      BY <3>1
    <3> QED
      BY <2>1, <3>1, <3>2, <3>3, <3>4 DEF SameHeads
  <2> QED
    BY <2>2, <2>3
<1> QED
  BY <1>1, <1>2, <1>3 DEF Titled

\* What one adds.
LEMMA AddingTitles ==
  ASSUME DriverKept, TreeKept, Ready, Titled(disk), NEW c, NEW x, Adding(c, x), x.ext = NoExt
  PROVE  Titled(Image')
<1> DEFINE e   == ImageOf(disk, queue')
           new == fat'
<1>1. disk \in [Clusters -> Stored] /\ Sound(disk, fat, Live(disk))
  BY SoundAtRest
<1>2. /\ c \in Live(disk) /\ Cardinality(Holes(EntriesOn(disk, c))) > 1 /\ x \in EntryType /\ x.used
      /\ NewIn(c, x) /\ Made(x) /\ Links(disk, fat, e, new, c, x) /\ Sparing(Live(disk), x.cluster)
      /\ power' # "off"
  BY DEF Adding
<1>3. Image' = e /\ e \in [Clusters -> Stored] /\ Sound(e, new, Live(e))
  BY <1>2, AddingSound, OperationImage
<1>4. x.folder => /\ EntriesOn(e, x.cluster)[0].name = x.name
                  /\ EntriesOn(e, x.cluster)[1].name = ".."
  BY <1>2 DEF Made
<1> HIDE DEF e, new
<1>5. PICK n \in PlacesIn(e, Live(e)) : At(e, n) = x /\ n[1] = c /\ Carried(disk, e, {}, {n})
  <2>1. Comes(disk, e, c, x)
    BY <1>1, <1>2, LinkedCarried
  <2> QED
    BY <2>1 DEF Comes
<1>6. x.cluster \in EmptyClusters(fat)
  BY <1>2, OwnedClusters DEF Links
<1>7. x.cluster \notin Live(disk)
  BY <1>1, <1>6, LiveMarked
<1>8. \A r \in PlacesIn(disk, Live(disk)) : At(disk, r).cluster # x.cluster
  <2> TAKE r \in PlacesIn(disk, Live(disk))
  <2>1. Owned(fat, At(disk, r))
    BY <1>1 DEF Sound, OwnChains
  <2> QED
    BY <1>6, <2>1, OwnedClusters
<1>9. SameHeads(disk, e, x)
  <2>1. ASSUME NEW b \in Live(disk)
        PROVE  EntriesOn(e, b)[0] = EntriesOn(disk, b)[0] /\ EntriesOn(e, b)[1] = EntriesOn(disk, b)[1]
    <3>1. EntriesOn(disk, c) \in Tables /\ Tidy(EntriesOn(disk, c))
      BY <1>1, <1>2, EntriesTyped DEF Sound
    <3>2. AddEntry(EntriesOn(disk, c), x)[0] = EntriesOn(disk, c)[0]
          /\ AddEntry(EntriesOn(disk, c), x)[1] = EntriesOn(disk, c)[1]
      BY <1>2, <3>1, AddedIs
    <3>3. EntriesOn(e, b) = IF b = c THEN AddEntry(EntriesOn(disk, c), x) ELSE EntriesOn(disk, b)
      BY <1>2 DEF Links
    <3> QED
      BY <3>2, <3>3
  <2> QED
    BY <1>7, <2>1 DEF SameHeads
<1>10. Live(e) \subseteq Live(disk) \cup (IF x.folder THEN {x.cluster} ELSE {})
  <2> DEFINE X == Live(disk) \cup (IF x.folder THEN {x.cluster} ELSE {})
  <2>1. Sound(e, new, X)
    BY <1>1, <1>2, LinkedSound
  <2> HIDE DEF X
  <2>2. Live(e) \subseteq X
    BY <2>1, LiveIsLeast DEF Sound
  <2> QED
    BY <2>2 DEF X
<1>11. x.cluster # ROOT_CLUSTER_NUMBER
  BY <1>6 DEF EmptyClusters, ROOT_CLUSTER_NUMBER
<1>12. x.name \in Names
  BY <1>2 DEF NewIn
<1>13. Titled(e)
  BY <1>1, <1>3, <1>4, <1>5, <1>8, <1>9, <1>10, <1>11, <1>12, CarriedTitles
<1> QED
  BY <1>3, <1>13

\* What one removes.
LEMMA RemovingTitles ==
  ASSUME DriverKept, TreeKept, Ready, Titled(disk), NEW p, NEW X, Removing(p, X)
  PROVE  Titled(Image')
<1> DEFINE e   == ImageOf(disk, queue')
           new == fat'
           x   == NoEntry
<1>1. disk \in [Clusters -> Stored] /\ Sound(disk, fat, Live(disk))
  BY SoundAtRest
<1>2. PICK K : Sparing(K, At(disk, p).cluster)
  BY DEF Removing
<1>3. Image' = e /\ e \in [Clusters -> Stored] /\ Sound(e, new, Live(e))
  BY <1>2, RemovingSound, OperationImage DEF Removing
<1>4. /\ p \in PlacesIn(disk, Live(disk)) /\ X \in SUBSET Live(disk)
      /\ ROOT_CLUSTER_NUMBER \in X /\ p[1] \in X /\ Unlinks(disk, fat, e, new, X, p)
  BY DEF Removing
<1>5. ~x.folder
  BY DEF NoEntry
<1> HIDE DEF e, new, x
<1>6. Live(e) \subseteq X /\ Carried(disk, e, {p}, {})
  BY <1>1, <1>4, UnlinkedCarried
<1>7. SameHeads(disk, e, x)
  <2>1. ASSUME NEW b \in X
        PROVE  EntriesOn(e, b)[0] = EntriesOn(disk, b)[0] /\ EntriesOn(e, b)[1] = EntriesOn(disk, b)[1]
    <3> DEFINE t == EntriesOn(disk, p[1])
    <3>1. t \in Tables /\ Tidy(t) /\ p[2] \in Items /\ t[p[2]].used
      BY <1>1, <1>4, EntriesTyped DEF Sound, PlacesIn, At
    <3>2. EntriesOn(e, b) = IF b = p[1] THEN RemoveEntry(t, p[2]) ELSE EntriesOn(disk, b)
      BY <1>4 DEF Unlinks
    <3> HIDE DEF t
    <3>3. RemoveEntry(t, p[2])[0] = t[0] /\ RemoveEntry(t, p[2])[1] = t[1]
      BY <3>1, RemovedIs
    <3> QED
      BY <3>2, <3>3 DEF t
  <2> QED
    BY <1>5, <1>6, <2>1 DEF SameHeads
<1>8. Titled(e)
  BY <1>1, <1>3, <1>4, <1>5, <1>6, <1>7, CarriedTitles
<1> QED
  BY <1>3, <1>8

\* What one moves.
LEMMA MovingTitles ==
  ASSUME DriverKept, TreeKept, Ready, Titled(disk), NEW p, NEW c, NEW x, Moving(p, c, x),
         x.ext = NoExt
  PROVE  Titled(Image')
<1> DEFINE e   == ImageOf(disk, queue')
<1>1. disk \in [Clusters -> Stored] /\ Sound(disk, fat, Live(disk))
  BY SoundAtRest
<1>2. /\ p \in PlacesIn(disk, Live(disk)) /\ c \in Live(disk)
      /\ Cardinality(Holes(EntriesOn(disk, c))) > 1 /\ x \in EntryType /\ x.used
      /\ Moves(disk, e, p, c, x) /\ Heads(e, x) /\ x.name \in Names
      /\ Sparing(Live(disk), x.cluster) /\ power' # "off" /\ fat' = fat
  BY DEF Moving, NewIn
<1>3. Image' = e /\ e \in [Clusters -> Stored] /\ Sound(e, fat, Live(e)) /\ Sound(e, fat, Live(disk))
  BY <1>2, MovingSound, OperationImage
<1> HIDE DEF e
<1>4. SameObject(At(disk, p), x) /\ c # p[1] /\ p[1] \in Live(disk)
  BY <1>2 DEF Moves, PlacesIn
<1>5. Goes(disk, e, p, c, x)
  BY <1>1, <1>2, MovedCarried
<1>6. PICK n : Carried(disk, e, {p}, {n}) /\ At(e, n) = x
  BY <1>5 DEF Goes
<1>7. Live(e) \subseteq Live(disk)
  BY <1>3, LiveIsLeast DEF Sound
<1>8. /\ x.cluster >= 3 /\ x.cluster \in Clusters
      /\ \A r \in PlacesIn(disk, Live(disk)) : At(disk, r).cluster = x.cluster => r = p
  BY <1>1, <1>2, <1>4, OnePlace DEF SameObject
<1>9. EntriesOn(e, p[1])[1] = EntriesOn(disk, p[1])[1] /\ EntriesOn(e, c)[1] = EntriesOn(disk, c)[1]
  <2>1. EntriesOn(e, c)[1] = EntriesOn(disk, c)[1]
    <3>1. EntriesOn(disk, c) \in Tables /\ Tidy(EntriesOn(disk, c))
      BY <1>1, <1>2, EntriesTyped DEF Sound
    <3>2. EntriesOn(e, c) = AddEntry(EntriesOn(disk, c), x)
      BY <1>2 DEF Moves
    <3> QED
      BY <1>2, <3>1, <3>2, AddedIs
  <2>2. EntriesOn(e, p[1])[1] = EntriesOn(disk, p[1])[1]
    <3> DEFINE t == EntriesOn(disk, p[1])
    <3>1. t \in Tables /\ Tidy(t) /\ p[2] \in Items /\ t[p[2]].used
      BY <1>1, <1>2, EntriesTyped DEF Sound, PlacesIn, At
    <3>2. EntriesOn(e, p[1]) = RemoveEntry(t, p[2])
      BY <1>2 DEF Moves
    <3> HIDE DEF t
    <3>3. RemoveEntry(t, p[2])[1] = t[1]
      BY <3>1, RemovedIs
    <3> QED
      BY <3>2, <3>3 DEF t
  <2> QED
    BY <2>1, <2>2
<1>10. SameHeads(disk, e, x)
  <2> SUFFICES ASSUME NEW b \in Live(disk)
               PROVE  /\ EntriesOn(e, b)[0].name = IF x.folder /\ b = x.cluster THEN x.name
                                                    ELSE EntriesOn(disk, b)[0].name
                      /\ EntriesOn(e, b)[1].name = EntriesOn(disk, b)[1].name
                      /\ EntriesOn(e, b)[1].cluster # EntriesOn(disk, b)[1].cluster
                           => x.folder /\ b = x.cluster
    BY DEF SameHeads
  <2>1. CASE b \in {p[1], c}
    BY <1>2, <1>9, <2>1 DEF Heads
  <2>2. CASE b \notin {p[1], c}
    BY <1>2, <2>2 DEF Heads, Moves
  <2> QED
    BY <2>1, <2>2
<1>11. x.folder /\ x.cluster \in Live(e) =>
           /\ EntriesOn(e, x.cluster)[0].name = x.name
           /\ EntriesOn(e, x.cluster)[1].name = ".."
  BY <1>2, <1>7 DEF Heads, Titled
<1>12. x.cluster # ROOT_CLUSTER_NUMBER
  BY <1>8 DEF ROOT_CLUSTER_NUMBER
<1>13. Titled(e)
  BY <1>1, <1>2, <1>3, <1>6, <1>7, <1>8, <1>10, <1>11, <1>12, CarriedTitles
<1> QED
  BY <1>3, <1>13

-----------------------------------------------------------------------------
(* What the syscalls of shells do *)

\* An operation of a shell: one of careful clients, on things without an extension.
ShellOperation ==
  \/ \E c, x : Adding(c, x) /\ x.ext = NoExt
  \/ \E p, X : Removing(p, X)
  \/ \E p, c, x : Moving(p, c, x) /\ x.ext = NoExt

\* One that makes no file.
NewFolderOrLess ==
  \/ \E c, x : Adding(c, x) /\ x.ext = NoExt /\ x.folder
  \/ \E p, X : Removing(p, X)

\* The part of the invariant that is about the disk.
ShellDisk ==
  /\ DriverKept /\ TreeKept /\ CrashKept
  /\ power # "off" /\ Labelled(Image) /\ Titled(Image)

\* Where a shell stands there is a folder of the tree, or nothing.
LEMMA StandingIs ==
  ASSUME DriverKept, TreeKept, Ready, NEW c, Standing(c)
  PROVE  \/ c \in FolderClusters /\ c \in Live(disk)
         \/ Entries(c) = NoEntries /\ c \notin Live(disk)
<1>1. FolderClusters = Live(disk) /\ Sound(disk, fat, Live(disk))
  BY SoundAtRest
<1>2. CASE c \in FolderClusters
  BY <1>1, <1>2
<1>3. CASE c \notin FolderClusters
  BY <1>1, <1>3 DEF Standing, get_curr_working_dir
<1> QED
  BY <1>2, <1>3

\* In nothing nothing is found, and everything is refused.
LEMMA NothingThere ==
  ASSUME NEW c, Entries(c) = NoEntries
  PROVE  /\ ~Entries(c)[0].used /\ \A i \in Indices : Entries(c)[i] = NoEntry
         /\ \A rq, ret : rq.parent = c /\ (write(rq, ret) \/ delete(rq, ret) \/ delete_all(rq, ret))
                           => UNCHANGED fsVars
         /\ \A src, tar, ret : src.parent = c /\ move(src, tar, ret) => UNCHANGED fsVars
<1>1. ~Entries(c)[0].used /\ \A i \in Indices : Entries(c)[i] = NoEntry
  BY IndexRange DEF NoEntries, NoEntry
<1>2. ASSUME NEW rq, NEW ret, rq.parent = c, write(rq, ret) \/ delete(rq, ret) \/ delete_all(rq, ret)
      PROVE  UNCHANGED fsVars
  <2>1. ~Entries(rq.parent)[0].used
    BY <1>1, <1>2
  <2>2. CASE write(rq, ret)
    BY <2>1, <2>2 DEF write, WriteRefusal
  <2>3. CASE delete(rq, ret)
    BY <2>1, <2>3 DEF delete
  <2>4. CASE delete_all(rq, ret)
    BY <2>1, <2>4 DEF delete_all
  <2> QED
    BY <1>2, <2>2, <2>3, <2>4
<1>3. ASSUME NEW src, NEW tar, NEW ret, src.parent = c, move(src, tar, ret) PROVE UNCHANGED fsVars
  <2>1. ~Entries(src.parent)[0].used
    BY <1>1, <1>3
  <2>2. MoveRefusal(src, tar) = -1
    BY <2>1 DEF MoveRefusal
  <2> QED
    BY <1>3, <2>2 DEF move
<1> QED
  BY <1>1, <1>2, <1>3

\* write, of a folder or of a file's cluster.
LEMMA ShellWrites ==
  ASSUME DriverKept, TreeKept, NEW rq, NEW ret, Standing(rq.parent), CarefulWrite(rq, ret),
         IsWriteRequest(rq), rq.ext = NoExt, rq.size # 0 => rq.size \in Sizes
  PROVE  /\ DriverKept'
         /\ \/ UNCHANGED fsVars
            \/ Ready /\ \E c, x : Adding(c, x) /\ x.ext = NoExt /\ x.folder = (rq.size = 0)
<1>1. write(rq, ret) /\ Ready
  BY DEF CarefulWrite, write
<1>2. DriverKept'
  BY <1>1, WriteKeeps
<1>3. CASE rq.parent \in FolderClusters
  BY <1>2, <1>3, WriteAdds
<1>4. CASE Entries(rq.parent) = NoEntries
  BY <1>1, <1>2, <1>4, NothingThere
<1> QED
  BY <1>1, <1>3, <1>4, StandingIs

\* delete and delete_all.
LEMMA ShellDeletes ==
  ASSUME DriverKept, TreeKept, NEW rq, NEW ret, Standing(rq.parent), rq.name \in Names,
         delete(rq, ret) \/ delete_all(rq, ret)
  PROVE  /\ DriverKept'
         /\ UNCHANGED fsVars \/ (Ready /\ \E p, X : Removing(p, X))
<1>1. Ready
  BY DEF delete, delete_all
<1>2. DriverKept'
  BY DeleteKeeps, DeleteAllKeeps
<1>3. CASE rq.parent \in FolderClusters
  <2>1. CASE delete(rq, ret)
    BY <1>2, <1>3, <2>1, DeleteRemoves
  <2>2. CASE delete_all(rq, ret)
    BY <1>2, <1>3, <2>2, DeleteAllRemoves
  <2> QED
    BY <2>1, <2>2
<1>4. CASE Entries(rq.parent) = NoEntries
  BY <1>2, <1>4, NothingThere
<1> QED
  BY <1>1, <1>3, <1>4, StandingIs

\* mkdir, rm and rmr.
LEMMA MakeOrRemoveDoes ==
  ASSUME DriverKept, TreeKept, NEW op, NEW folder \in Clusters, NEW name \in Names,
         NEW ret, NEW reported, MakeOrRemove(op, folder, name, ret, reported)
  PROVE  DriverKept' /\ (UNCHANGED fsVars \/ (Ready /\ NewFolderOrLess))
<1>1. CASE mkdir(folder, name, ret)
  <2> DEFINE rq == [parent |-> folder, name |-> name, ext |-> NoExt, size |-> 0, content |-> NoBytes]
  <2>1. CarefulWrite(rq, ret) /\ Standing(rq.parent) /\ rq.ext = NoExt /\ rq.size = 0
    BY <1>1 DEF mkdir, MakeOrRemove
  <2>2. IsWriteRequest(rq)
    BY Fat32Assumption DEF IsWriteRequest, IsNameRequest, AnyCluster
  <2> HIDE DEF rq
  <2>3. /\ DriverKept'
        /\ \/ UNCHANGED fsVars
           \/ Ready /\ \E c, x : Adding(c, x) /\ x.ext = NoExt /\ x.folder = (rq.size = 0)
    BY <2>1, <2>2, ShellWrites
  <2> QED
    BY <2>1, <2>3 DEF NewFolderOrLess
<1>2. CASE rm(folder, name, ret) \/ rmr(folder, name, ret)
  <2> DEFINE rq == [parent |-> folder, name |-> name, ext |-> NoExt]
  <2>1. (delete(rq, ret) \/ delete_all(rq, ret)) /\ Standing(rq.parent) /\ rq.name \in Names
    BY <1>2 DEF rm, rmr, MakeOrRemove
  <2> HIDE DEF rq
  <2> QED
    BY <2>1, ShellDeletes DEF NewFolderOrLess
<1> QED
  BY <1>1, <1>2 DEF MakeOrRemove

\* The cluster is in the chain of a file.
InFile(d, map, c) ==
  \E p \in PlacesIn(d, Live(d)) : ~At(d, p).folder /\ c \in ClustersOf(map, At(d, p))

\* A move into a folder that was removed, where nothing is: what is moved is lost.
LEMMA MoveLoses ==
  ASSUME DriverKept, TreeKept, NEW src, NEW tar, src.parent \in FolderClusters,
         Entries(tar.parent) = NoEntries, tar.parent \in Clusters \ {FAT_CLUSTER_NUMBER},
         ~InFile(disk, fat, tar.parent), IsNameRequest(src), IsNameRequest(tar),
         NEW ret, CarefulMove(src, tar, ret)
  PROVE  UNCHANGED fsVars \/ (Ready /\ \E p, X : Removing(p, X))
<1>1. Ready /\ power = "on"
  BY DEF CarefulMove, move, Ready
<1>2. /\ disk \in [Clusters -> Stored] /\ fat \in FatMaps /\ Sound(disk, fat, Live(disk))
      /\ src.parent \in Live(disk)
  BY <1>1, SoundAtRest
<1>3. CASE UNCHANGED fsVars
  BY <1>3
<1>4. CASE ret = 0 /\ MoveEntry(src, tar) /\ UNCHANGED <<disk, fat, power>>
  <2> DEFINE L     == Live(disk)
             i     == Min(SourceIndices(src))
             old   == Source(src)
             c     == tar.parent
             new   == IF IntoFolder(tar) THEN old ELSE [old EXCEPT !.name = tar.name, !.ext = tar.ext]
             moved == [Entries(old.cluster) EXCEPT ![0].name = new.name, ![0].ext = new.ext,
                                                   ![1].cluster = c]
             left  == RemoveEntry(Entries(src.parent), i)
             added == AddEntry(Entries(c), new)
             p     == <<src.parent, i>>
             q1    == IF old.folder THEN Put(old.cluster, Table(moved)) ELSE <<>>
             q2    == Then(q1, src.parent, Table(left))
             q3    == Then(q2, c, Table(added))
             e     == ImageOf(disk, q3)
             f     == old.cluster
             B     == IF old.folder THEN BelowOn(disk, {f}) ELSE {}
             X     == L \ B
  <2>1. Destination(tar) = c
    <3>1. \A k \in Indices : Entries(c)[k] = NoEntry
      BY NothingThere
    <3>2. TargetHits(tar) = {}
      <4>1. \A k \in Items : k \in Indices /\ ~Is(Entries(c)[k], tar)
        <5>1. NoName \notin Names
          BY Fat32Assumption, SMT
        <5>2. tar.name # NoName /\ NoEntry.name = NoName
          BY <5>1 DEF IsNameRequest, NoEntry
        <5> QED
          BY <3>1, <5>2, IndexRange DEF Is
      <4> QED
        BY <4>1 DEF TargetHits, Visible, Matches
    <3> QED
      BY <3>2 DEF Destination, IntoFolder
  <2>2. /\ i \in Items /\ SourceIndices(src) # {} /\ ~Full(Entries(c)) /\ f # c
    BY <1>4, <2>1, ClusterRange DEF CarefulMove, move, MoveRefusal
  <2>3. queue' = q3
    <3> DEFINE there == [Entries(c) EXCEPT ![FirstHole(Entries(c))] = new]
    <3> DEFINE Q(d) == (IF old.folder
                          THEN Put(old.cluster, Table([Entries(old.cluster) EXCEPT
                                 ![0].name = new.name, ![0].ext = new.ext, ![1].cluster = d]))
                          ELSE <<>>)
                         \o Put(src.parent, Table(left))
                         \o Put(d, Table([Entries(d) EXCEPT ![FirstHole(Entries(d))] = new]))
    <3>3. queue' = Q(Destination(tar))
      BY <1>4 DEF MoveEntry
    <3>4. Q(c) = (q1 \o Put(src.parent, Table(left))) \o Put(c, Table(there))
      OBVIOUS
    <3> HIDE DEF Q
    <3>1. queue' = (q1 \o Put(src.parent, Table(left))) \o Put(c, Table(there))
      BY <2>1, <3>3, <3>4
    <3>2. added = there
      BY <2>2 DEF AddEntry
    <3> HIDE DEF q1, left, there, added
    <3> QED
      BY <3>1, <3>2 DEF Then
  <2>4. old = Entries(src.parent)[i] /\ \A b : Entries(b) \in Tables
    BY <1>2, EntriesTyped DEF Source, Entries
  <2>5. old.used
    <3>1. i \in SourceIndices(src)
      BY <2>2, SourceFound
    <3>2. old.name \in Names
      BY <2>4, <3>1 DEF SourceIndices, Is, IsNameRequest
    <3>3. NoName \notin Names
      BY Fat32Assumption, SMT
    <3>4. old.name # NoName
      BY <3>2, <3>3, Zenon
    <3>5. Tidy(Entries(src.parent))
      BY <1>2 DEF Sound, Entries
    <3> HIDE DEF i, old
    <3> QED
      BY <2>2, <2>4, <3>4, <3>5, NamedIsUsed
  <2> HIDE DEF i, old
  <2>6. old \in EntryType
    <3>1. i \in Indices
      BY <2>2, IndexRange
    <3> QED
      BY <2>4, <3>1 DEF Tables
  <2>7. new \in EntryType
    BY <2>6 DEF EntryType, IsNameRequest
  <2> HIDE DEF new
  <2>8. p \in PlacesIn(disk, L) /\ At(disk, p) = old /\ p[1] = src.parent /\ p[2] = i
    BY <1>2, <2>2, <2>4, <2>5 DEF PlacesIn, At, Entries
  <2> HIDE DEF p
  <2>9. c \in Clusters /\ c \notin L /\ c # FAT_CLUSTER_NUMBER
    <3>1. ~EntriesOn(disk, c)[0].used
      BY NothingThere DEF Entries
    <3> QED
      BY <1>2, <3>1 DEF Sound
  <2>10. /\ moved \in Tables /\ \A j \in Items : moved[j] = Entries(f)[j]
    <3>1. new.name \in Names \cup {NoName, ".", ".."} /\ new.ext \in Exts
      BY <2>7 DEF EntryType
    <3>2. c \in AnyCluster
      BY <2>9 DEF AnyCluster
    <3>3. moved \in Tables
      BY <2>4, <3>1, <3>2, TableRenamed
    <3> DEFINE t == Entries(f)
    <3>4. moved = [t EXCEPT ![0].name = new.name, ![0].ext = new.ext, ![1].cluster = c] /\ t \in Tables
      BY <2>4
    <3> HIDE DEF t, moved
    <3>5. \A j \in Items : moved[j] = t[j]
      BY <3>4, IndexRange DEF Tables
    <3> QED
      BY <3>3, <3>5 DEF t
  <2> HIDE DEF moved
  <2>11. left \in Tables /\ added \in Tables
    <3>1. i \in Indices
      BY <2>2, IndexRange
    <3> QED
      BY <2>4, <2>7, <3>1, TablesKept
  <2> HIDE DEF left, added
  <2>12. Table(moved) \in Stored /\ Table(left) \in Stored /\ Table(added) \in Stored
    BY <2>10, <2>11, StoredValues
  <2>13. q1 \in Seq(Writes)
    BY <2>12, PutTyped
  <2>14. /\ f \in Clusters /\ f >= 3
         /\ L = Live(disk) /\ L \in SUBSET Clusters /\ ROOT_CLUSTER_NUMBER \in L
         /\ p \in PlacesIn(disk, Live(disk)) /\ At(disk, p).cluster = f
         /\ At(disk, p).folder = old.folder
         /\ Sound(disk, fat, Live(disk)) /\ busy' = f /\ src.parent \in L
         /\ old.folder => f \in L
    <3>1. L = Live(disk) /\ SubfoldersOn(disk, L) \subseteq L /\ L \in SUBSET Clusters
          /\ ROOT_CLUSTER_NUMBER \in L
      BY <1>2 DEF L, Sound
    <3>2. p \in PlacesIn(disk, Live(disk)) /\ At(disk, p).cluster = f
      BY <2>8
    <3> HIDE DEF L
    <3>3. f \in Clusters /\ f >= 3
      <4>1. At(disk, p).cluster \in Clusters /\ At(disk, p).cluster >= 3
        BY <1>2, <3>2, OnePlace
      <4> QED
        BY <3>2, <4>1
    <3>4. old.folder => f \in L
      <4>1. old.folder => At(disk, p).cluster \in L
        BY <2>8, <3>1, <3>2, <3>3, PlaceLeads
      <4> QED
        BY <3>2, <4>1
    <3>5. busy' = f
      BY <1>4 DEF MoveEntry, old
    <3> QED
      BY <1>2, <2>8, <3>1, <3>2, <3>3, <3>4, <3>5
  <2>15. ~old.folder => c \notin ClustersOf(fat, old)
    BY <2>8 DEF InFile
  <2>16. /\ B \in SUBSET L /\ (old.folder => f \in B) /\ ROOT_CLUSTER_NUMBER \notin B
         /\ src.parent \notin B
         /\ \A q \in PlacesIn(disk, X) : q # p /\ At(disk, q).folder => At(disk, q).cluster \in X
    <3>1. CASE old.folder
      <4>1. B = BelowOn(disk, {At(disk, p).cluster}) /\ At(disk, p).folder
        BY <2>14, <3>1
      <4> HIDE DEF B
      <4>2. /\ B \in SUBSET Live(disk) /\ At(disk, p).cluster \in B
            /\ ROOT_CLUSTER_NUMBER \notin B /\ p[1] \notin B
            /\ \A q \in PlacesIn(disk, Live(disk) \ B) :
                 q # p /\ At(disk, q).folder => At(disk, q).cluster \in Live(disk) \ B
        BY <2>14, <4>1, BelowPlace
      <4> QED
        BY <2>8, <2>14, <4>2
    <3>2. CASE ~old.folder
      <4>1. B = {} /\ X = L
        BY <3>2
      <4> HIDE DEF B, X, L
      <4>2. ASSUME NEW q \in PlacesIn(disk, L), At(disk, q).folder PROVE At(disk, q).cluster \in L
        <5>1. At(disk, q).cluster \in Clusters
          BY <2>14, OnePlace
        <5> QED
          BY <2>14, <4>2, <5>1, PlaceLeads DEF Sound
      <4> QED
        BY <3>2, <4>1, <4>2
    <3> QED
      BY <3>1, <3>2
  <2>17. Apart(disk, fat, X, f)
    <3>1. CASE old.folder
      <4>1. X = Live(disk) \ BelowOn(disk, {At(disk, p).cluster})
        BY <2>14, <3>1
      <4> HIDE DEF X
      <4>2. Apart(disk, fat, X, At(disk, p).cluster)
        BY <2>14, <3>1, <4>1, ApartBelow
      <4> QED
        BY <2>14, <4>2
    <3>2. CASE ~old.folder
      <4>1. X = Live(disk)
        BY <3>2
      <4> HIDE DEF X, f
      <4> QED
        BY <2>14, <4>1, ApartLive
    <3> QED
      BY <3>1, <3>2
  <2> HIDE DEF L, f, B
  <2>18. X \in SUBSET Live(disk) /\ ROOT_CLUSTER_NUMBER \in X /\ src.parent \in X /\ c \notin X
         /\ (old.folder => f \notin X) /\ X \in SUBSET Clusters
    BY <2>9, <2>14, <2>16
  <2> HIDE DEF X, q1
  <2>19. \A b \in Clusters : b # f \/ ~old.folder => ImageOf(disk, q1)[b] = disk[b]
    <3> TAKE b \in Clusters
    <3> HAVE b # f \/ ~old.folder
    <3>1. \A k \in DOMAIN q1 : q1[k].at # b
      BY DEF q1, Put, f
    <3> QED
      BY <3>1, Unwritten
  <2>20. q2 \in Seq(Writes) /\ q3 \in Seq(Writes)
    <3>1. q2 \in Seq(Writes)
      BY <2>12, <2>13, ThenTyped
    <3> QED
      BY <2>12, <3>1, ThenTyped
  <2>21. \A b \in Clusters \ {c} :
           /\ b = src.parent => e[b] = Table(left)
           /\ b # src.parent => e[b] = ImageOf(disk, q1)[b]
    <3> TAKE b \in Clusters \ {c}
    <3>0. b \in Clusters /\ b # c
      OBVIOUS
    <3> DEFINE cluster == src.parent
               content == Table(left)
    <3>3. q2 = Then(q1, cluster, content) /\ content \in Stored
      BY <2>12
    <3> HIDE DEF q2, content, cluster
    <3>4. /\ b = cluster => ImageOf(disk, Then(q1, cluster, content))[b] = content
          /\ b # cluster => ImageOf(disk, Then(q1, cluster, content))[b] = ImageOf(disk, q1)[b]
      BY <2>13, <3>0, <3>3, WrittenLast
    <3>1. /\ b = src.parent => ImageOf(disk, q2)[b] = Table(left)
          /\ b # src.parent => ImageOf(disk, q2)[b] = ImageOf(disk, q1)[b]
      BY <3>3, <3>4 DEF cluster, content
    <3>2. e[b] = ImageOf(disk, q2)[b]
      BY <2>12, <2>20, <3>0, WrittenLast
    <3> QED
      BY <3>1, <3>2
  <2> HIDE DEF e
  <2>22. Unlinks(disk, fat, e, fat, X, p)
    <3>1. ASSUME NEW b \in X
          PROVE  EntriesOn(e, b) = IF b = p[1] THEN RemoveEntry(EntriesOn(disk, b), p[2])
                                   ELSE EntriesOn(disk, b)
      <4>1. b \in Clusters \ {c} /\ (b # f \/ ~old.folder)
        BY <2>18
      <4>2. CASE b = src.parent
        <5>1. EntriesOn(e, b) = left
          BY <2>21, <4>1, <4>2, EntriesAre
        <5> QED
          BY <2>8, <4>2, <5>1 DEF left, Entries
      <4>3. CASE b # src.parent
        <5>1. e[b] = disk[b]
          BY <2>19, <2>21, <4>1, <4>3
        <5> QED
          BY <2>8, <4>1, <4>3, <5>1, EntriesAre
      <4> QED
        BY <4>2, <4>3
    <3> QED
      BY <2>16, <3>1 DEF Unlinks
  <2>23. AllSpare(q3, disk, fat, X, f)
    <3>1. f \notin Data(disk, fat, X, f)
      <4>1. p \notin Outside(disk, X, f)
        BY <2>14 DEF Outside
      <4>2. f \in ClustersOf(fat, At(disk, p))
        <5>1. Owned(fat, At(disk, p))
          BY <2>14 DEF Sound, OwnChains
        <5> QED
          BY <2>14, <5>1, OwnedClusters
      <4> QED
        BY <2>14, <2>18, <4>1, <4>2, DataApart
    <3>2. AllSpare(q1, disk, fat, X, f)
      <4>1. CASE old.folder
        <5>1. f # FAT_CLUSTER_NUMBER
          BY <2>14 DEF FAT_CLUSTER_NUMBER
        <5>2. Spares([at |-> f, content |-> Table(moved)], disk, fat, X, f)
          BY <2>18, <3>1, <4>1, <5>1 DEF Spares
        <5>3. Then(<<>>, f, Table(moved)) = q1
          <6>1. Put(f, Table(moved)) \in Seq(Writes)
            BY <2>12, PutTyped
          <6> QED
            BY <4>1, <6>1 DEF Then, q1, f
        <5>4. AllSpare(<<>>, disk, fat, X, f) /\ <<>> \in Seq(Writes)
          BY NoneSpare
        <5> QED
          BY <2>12, <5>2, <5>3, <5>4, ThenSpares
      <4>2. CASE ~old.folder
        <5>1. q1 = <<>>
          BY <4>2 DEF q1
        <5> QED
          BY <5>1, NoneSpare
      <4> QED
        BY <4>1, <4>2
    <3>3. AllSpare(q2, disk, fat, X, f)
      <4>1. Around(left, f) = Around(EntriesOn(disk, src.parent), f)
        <5> DEFINE t == EntriesOn(disk, src.parent)
        <5>1. t \in Tables /\ Tidy(t) /\ t = Entries(src.parent)
          BY <1>2, EntriesTyped DEF Sound, Entries
        <5>2. i \in Items /\ t[i].used /\ t[i].cluster = f /\ left = RemoveEntry(t, i)
          BY <2>2, <2>4, <2>5, <5>1 DEF left, f
        <5> HIDE DEF t
        <5>3. Around(RemoveEntry(t, i), t[i].cluster) = Around(t, t[i].cluster)
          BY <5>1, <5>2, RemovedAround
        <5> QED
          BY <5>2, <5>3 DEF t
      <4>2. Spares([at |-> src.parent, content |-> Table(left)], disk, fat, X, f)
        BY <2>14, <2>18, <4>1, TableSpares
      <4> QED
        BY <2>12, <2>13, <3>2, <4>2, ThenSpares
    <3>4. Spares([at |-> c, content |-> Table(added)], disk, fat, X, f)
      <4>1. c \notin Data(disk, fat, X, f)
        <5>1. ASSUME c \in Data(disk, fat, X, f) PROVE FALSE
          <6>1. PICK q \in Outside(disk, X, f) : ~At(disk, q).folder /\ c \in ClustersOf(fat, At(disk, q))
            BY <5>1 DEF Data
          <6>2. q \in PlacesIn(disk, Live(disk))
            BY <2>18 DEF Outside, PlacesIn
          <6> QED
            BY <6>1, <6>2 DEF InFile
        <5> QED
          BY <5>1
      <4> QED
        BY <2>9, <2>18, <4>1 DEF Spares
    <3> HIDE DEF q2
    <3> QED
      BY <2>12, <2>20, <3>3, <3>4, ThenSpares
  <2>24. e[FAT_CLUSTER_NUMBER] = disk[FAT_CLUSTER_NUMBER]
    <3>1. FAT_CLUSTER_NUMBER \in Clusters /\ FAT_CLUSTER_NUMBER # c /\ FAT_CLUSTER_NUMBER # src.parent
          /\ FAT_CLUSTER_NUMBER # f
      <4>1. FAT_CLUSTER_NUMBER # f
        BY <2>14 DEF FAT_CLUSTER_NUMBER
      <4>2. src.parent # FAT_CLUSTER_NUMBER
        BY <1>2, LiveMarked
      <4>3. FAT_CLUSTER_NUMBER \in Clusters
        BY ClusterRange DEF FAT_CLUSTER_NUMBER
      <4> QED
        BY <2>9, <4>1, <4>2, <4>3
    <3> QED
      BY <2>19, <2>21, <3>1
  <2>25. power' # "off" /\ disk' = disk /\ fat' = fat
    BY <1>1, <1>4
  <2> HIDE DEF q2, q3
  <2>26. Sparing(X, f)
    BY <2>3, <2>14, <2>17, <2>18, <2>20, <2>23, <2>24, <2>25 DEF Sparing, e
  <2>27. Removing(p, X)
    BY <2>3, <2>8, <2>14, <2>18, <2>22, <2>25, <2>26 DEF Removing, e
  <2> QED
    BY <1>1, <2>27
<1> QED
  BY <1>3, <1>4 DEF CarefulMove, move

\* mv, where the folder it goes to is there, or shows nothing and is not in a file now.
LEMMA ShellMoves ==
  ASSUME DriverKept, TreeKept, NEW src, NEW tar, IsNameRequest(src), IsNameRequest(tar),
         src.ext = NoExt, tar.ext = NoExt, Standing(src.parent), Standing(tar.parent),
         tar.parent \in Clusters \ {FAT_CLUSTER_NUMBER},
         InFile(disk, fat, tar.parent) => tar.parent = src.parent,
         NEW ret, CarefulMove(src, tar, ret)
  PROVE  DriverKept' /\ (UNCHANGED fsVars \/ (Ready /\ ShellOperation))
<1>1. move(src, tar, ret) /\ Ready
  BY DEF CarefulMove, move
<1>2. DriverKept'
  BY <1>1, MoveKeeps
<1>3. CASE src.parent \notin FolderClusters
  <2>1. Entries(src.parent) = NoEntries
    BY <1>1, <1>3, StandingIs
  <2> QED
    BY <1>1, <1>2, <2>1, NothingThere
<1>4. CASE src.parent \in FolderClusters /\ tar.parent \in FolderClusters
  BY <1>2, <1>4, MoveMoves DEF ShellOperation
<1>5. CASE src.parent \in FolderClusters /\ tar.parent \notin FolderClusters
  <2>1. Entries(tar.parent) = NoEntries /\ tar.parent # src.parent
    BY <1>1, <1>5, StandingIs
  <2> QED
    BY <1>2, <1>5, <2>1, MoveLoses DEF ShellOperation
<1> QED
  BY <1>3, <1>4, <1>5

\* An operation keeps the disk as it should be, and changes the tree as a file system may.
LEMMA ShellOperationKeeps ==
  ASSUME ShellDisk, Ready, ShellOperation, DriverKept'
  PROVE  ShellDisk' /\ Tree!Next
<1>1. Image = disk /\ Labelled(disk) /\ Titled(disk)
  BY SoundAtRest DEF ShellDisk
<1>2. DriverKept /\ TreeKept /\ CrashKept
  BY DEF ShellDisk
<1>3. ASSUME NEW c, NEW x, Adding(c, x), x.ext = NoExt PROVE ShellDisk' /\ Tree!Next
  <2>1. Sparing(Live(disk), x.cluster) /\ power' # "off"
    BY <1>3 DEF Adding
  <2>2. TreeKept' /\ CrashKept'
    BY <1>2, <1>3, <2>1, AddingSound, SparingConfined
  <2>3. Labelled(Image') /\ Tree!Next
    BY <1>1, <1>2, <1>3, AddingTree, TreeSteps
  <2>4. Titled(Image')
    BY <1>1, <1>2, <1>3, AddingTitles
  <2> QED
    BY <2>1, <2>2, <2>3, <2>4 DEF ShellDisk
<1>4. ASSUME NEW p, NEW X, Removing(p, X) PROVE ShellDisk' /\ Tree!Next
  <2>1. (\E K : Sparing(K, At(disk, p).cluster)) /\ power' # "off"
    BY <1>4 DEF Removing
  <2>2. TreeKept' /\ CrashKept'
    BY <1>2, <1>4, <2>1, RemovingSound, SparingConfined
  <2>3. Labelled(Image') /\ Tree!Next
    BY <1>1, <1>2, <1>4, RemovingTree, TreeSteps
  <2>4. Titled(Image')
    BY <1>1, <1>2, <1>4, RemovingTitles
  <2> QED
    BY <2>1, <2>2, <2>3, <2>4 DEF ShellDisk
<1>5. ASSUME NEW p, NEW c, NEW x, Moving(p, c, x), x.ext = NoExt PROVE ShellDisk' /\ Tree!Next
  <2>1. Sparing(Live(disk), x.cluster) /\ power' # "off"
    BY <1>5 DEF Moving
  <2>2. TreeKept' /\ CrashKept'
    BY <1>2, <1>5, <2>1, MovingSound, SparingConfined
  <2>3. Labelled(Image') /\ Tree!Next
    BY <1>1, <1>2, <1>5, MovingTree, TreeSteps
  <2>4. Titled(Image')
    BY <1>1, <1>2, <1>5, MovingTitles
  <2> QED
    BY <2>1, <2>2, <2>3, <2>4 DEF ShellDisk
<1> QED
  BY <1>3, <1>4, <1>5 DEF ShellOperation

\* A step that leaves the driver alone does so too.
LEMMA ShellDiskStays == ShellDisk /\ UNCHANGED fsVars => ShellDisk' /\ Tree!Next
<1> SUFFICES ASSUME ShellDisk, UNCHANGED fsVars PROVE ShellDisk' /\ Tree!Next
  OBVIOUS
<1>1. Image' = Image /\ fat' = fat /\ power' = power
  BY DEF fsVars, Image
<1>2. Tree!Next
  BY <1>1, TreeSteps DEF Tree!Refuse
<1>3. DriverKept'
  BY DEF ShellDisk, DriverKept, DriverTypes, FatKept, fsVars
<1>4. TreeKept' /\ CrashKept'
  BY TreeStays, CrashStays DEF ShellDisk
<1> QED
  BY <1>1, <1>2, <1>3, <1>4 DEF ShellDisk

\* So do the writes.
LEMMA SettleKeeps ==
  ASSUME ShellDisk, queue' = <<>>, disk' = Image, busy' = 0, fat' = fat, power' = power
  PROVE  ShellDisk' /\ Tree!Next /\ Image' = Image
<1>1. Image \in [Clusters -> Stored] /\ Image[FAT_CLUSTER_NUMBER] = Fat(fat)
  BY ImageIsDisk DEF ShellDisk, CrashKept
<1>2. Image' = Image
  <2>1. Image' = ImageOf(disk', queue')
    BY DEF Image, ImageOf, WritesTo
  <2> DEFINE d == Image
  <2>2. d \in [Clusters -> Stored] /\ disk' = d
    BY <1>1
  <2> HIDE DEF d
  <2>3. ImageOf(d, <<>>) = d
    BY <2>2, NoWrites
  <2> QED
    BY <2>1, <2>2, <2>3 DEF d
<1>3. DriverKept'
  <2>1. DriverTypes'
    BY <1>1, ClusterRange DEF ShellDisk, DriverKept, DriverTypes
  <2>2. FatKept'
    BY <1>1 DEF FatKept, NoFatIn, Fat
  <2> QED
    BY <2>1, <2>2 DEF DriverKept
<1>4. TreeKept'
  BY <1>2 DEF ShellDisk, TreeKept
<1>5. CrashKept'
  <2>1. Image'[FAT_CLUSTER_NUMBER] = Fat(fat')
    BY <1>1, <1>2
  <2> DEFINE d == Image
             map == fat
  <2>2. FatIn(d) = map /\ disk' = d /\ Image' = d /\ fat' = map /\ d \in [Clusters -> Stored]
    BY <1>1, <1>2 DEF FatIn, Fat
  <2> HIDE DEF d, map
  <2>3. ImageOf(d, <<>>) = d /\ Confined(d, d, map, 0)
    BY <2>2, NoWrites, SameConfined
  <2>4. \A n \in 0 .. Len(queue') : ImageOf(disk', SubSeq(queue', 1, n)) = d
    <3> TAKE n \in 0 .. Len(queue')
    <3>1. n = 0 /\ SubSeq(<<>>, 1, 0) = <<>>
      OBVIOUS
    <3>2. SubSeq(queue', 1, n) = <<>>
      BY <3>1
    <3> QED
      BY <2>2, <2>3, <3>2
  <2> QED
    BY <2>1, <2>2, <2>3, <2>4 DEF CrashKept
<1>6. Tree!Next
  BY <1>2, TreeSteps DEF Tree!Refuse
<1> QED
  BY <1>2, <1>3, <1>4, <1>5, <1>6 DEF ShellDisk

\* The clusters of files are behind the reserved ones, and no folders.
LEMMA FilesAside ==
  ASSUME NEW d, NEW map, Sound(d, map, Live(d)), NEW c, InFile(d, map, c)
  PROVE  c \in Clusters /\ c >= 3 /\ c \notin Live(d)
<1>1. PICK p \in PlacesIn(d, Live(d)) : ~At(d, p).folder /\ c \in ClustersOf(map, At(d, p))
  BY DEF InFile
<1>2. Owned(map, At(d, p))
  BY DEF Sound, OwnChains
<1> QED
  BY <1>1, <1>2, OwnedClusters, OnePlace

\* Entries that were there keep their chains when those of others change.
LEMMA FilesStay ==
  ASSUME NEW d, NEW map, Sound(d, map, Live(d)), NEW e, NEW new, NEW P, NEW N, Carried(d, e, P, N),
         \A n \in N : At(e, n).folder, NEW c, InFile(e, new, c),
         \A r \in PlacesIn(d, Live(d)) \ P : \A b \in ClustersOf(map, At(d, r)) : new[b] = map[b]
  PROVE  InFile(d, map, c)
<1>1. PICK q \in PlacesIn(e, Live(e)) : ~At(e, q).folder /\ c \in ClustersOf(new, At(e, q))
  BY DEF InFile
<1>2. PICK r \in PlacesIn(d, Live(d)) \ P : At(d, r) = At(e, q)
  BY <1>1 DEF Carried
<1> DEFINE x == At(d, r)
<1>3. Owned(map, x) /\ \A b \in ClustersOf(map, x) : new[b] = map[b]
  BY DEF Sound, OwnChains
<1>4. SameObject(x, x) /\ At(e, q) = x
  BY <1>2 DEF SameObject
<1> HIDE DEF x
<1>5. ClustersOf(new, x) = ClustersOf(map, x)
  BY <1>3, <1>4, OwnedKept
<1>6. r \in PlacesIn(d, Live(d)) /\ At(d, r) = x
  BY DEF x
<1> QED
  BY <1>1, <1>4, <1>5, <1>6 DEF InFile

\* Where no file is made no cluster comes to be in one.
LEMMA NoFileComes ==
  ASSUME ShellDisk, Ready, NewFolderOrLess, NEW c, InFile(Image', fat', c)
  PROVE  InFile(disk, fat, c)
<1> DEFINE e   == ImageOf(disk, queue')
           new == fat'
<1>1. disk \in [Clusters -> Stored] /\ Sound(disk, fat, Live(disk)) /\ DriverKept /\ TreeKept
  BY SoundAtRest DEF ShellDisk
<1>2. ASSUME NEW b, NEW x, Adding(b, x), x.folder PROVE InFile(disk, fat, c)
  <2>1. /\ b \in Live(disk) /\ Cardinality(Holes(EntriesOn(disk, b))) > 1
        /\ x \in EntryType /\ x.used /\ Links(disk, fat, e, new, b, x)
        /\ Sparing(Live(disk), x.cluster) /\ power' # "off"
    BY <1>2 DEF Adding
  <2>2. Image' = e
    BY <1>1, <1>2, <2>1, AddingSound, OperationImage
  <2> HIDE DEF e, new
  <2>6. Comes(disk, e, b, x)
    BY <1>1, <2>1, LinkedCarried
  <2>3. PICK n : At(e, n) = x /\ Carried(disk, e, {}, {n})
    BY <2>6 DEF Comes
  <2>4. ASSUME NEW r \in PlacesIn(disk, Live(disk)), NEW y \in ClustersOf(fat, At(disk, r))
        PROVE  new[y] = fat[y]
    <3>1. Owned(fat, At(disk, r))
      BY <1>1 DEF Sound, OwnChains
    <3>2. y \in Clusters /\ y \notin EmptyClusters(fat)
      BY <3>1, OwnedClusters
    <3> QED
      BY <2>1, <3>2 DEF Links
  <2>5. InFile(e, new, c)
    BY <2>2 DEF new
  <2> QED
    BY <1>1, <1>2, <2>3, <2>4, <2>5, FilesStay
<1>3. ASSUME NEW p, NEW X, Removing(p, X) PROVE InFile(disk, fat, c)
  <2>1. /\ p \in PlacesIn(disk, Live(disk)) /\ X \in SUBSET Live(disk)
        /\ ROOT_CLUSTER_NUMBER \in X /\ p[1] \in X /\ Unlinks(disk, fat, e, new, X, p)
        /\ (\E K : Sparing(K, At(disk, p).cluster)) /\ power' # "off"
    BY <1>3 DEF Removing
  <2>2. Image' = e
    BY <1>1, <1>3, <2>1, RemovingSound, OperationImage
  <2> HIDE DEF e, new
  <2>3. Carried(disk, e, {p}, {})
    BY <1>1, <2>1, UnlinkedCarried
  <2>4. ASSUME NEW r \in PlacesIn(disk, Live(disk)) \ {p}, NEW y \in ClustersOf(fat, At(disk, r))
        PROVE  new[y] = fat[y]
    <3>1. Owned(fat, At(disk, r)) /\ ClustersOf(fat, At(disk, r)) \cap ClustersOf(fat, At(disk, p)) = {}
      BY <1>1, <2>1 DEF Sound, OwnChains
    <3>2. y \in Clusters /\ y \notin ClustersOf(fat, At(disk, p))
      BY <3>1, OwnedClusters
    <3> QED
      BY <2>1, <3>2 DEF Unlinks
  <2>5. InFile(e, new, c)
    BY <2>2 DEF new
  <2> QED
    BY <1>1, <2>3, <2>4, <2>5, FilesStay
<1> QED
  BY <1>2, <1>3 DEF NewFolderOrLess

-----------------------------------------------------------------------------
(* Where paths lead *)

\* What is typed in paths.
StepNames == Names \cup {".."}

\* An entry that a path goes through leads to a folder of the tree: one of the folder's, or the
\* one about the folder it is in.
LEMMA LedToLive ==
  ASSUME NEW d \in [Clusters -> Stored], NEW map, Sound(d, map, Live(d)), Titled(d),
         NEW c \in Live(d), NEW i \in Indices \ {0},
         EntriesOn(d, c)[i].folder, EntriesOn(d, c)[i].name \in StepNames
  PROVE  EntriesOn(d, c)[i].cluster \in Live(d)
<1>1. CASE i = 1
  <2>1. CASE c = ROOT_CLUSTER_NUMBER
    BY <1>1, <2>1 DEF Titled
  <2>2. CASE c # ROOT_CLUSTER_NUMBER
    <3>1. {ROOT_CLUSTER_NUMBER} \in SUBSET Clusters
      BY ClusterRange DEF ROOT_CLUSTER_NUMBER
    <3>2. c \in SubfoldersOn(d, Live(d))
      BY <2>2, <3>1, BelowStarts DEF Live
    <3>3. PICK q \in PlacesIn(d, Live(d)) : At(d, q).folder /\ At(d, q).cluster = c
      BY <3>2, SubfolderPlace
    <3>4. EntriesOn(d, c)[1].cluster = q[1] /\ q[1] \in Live(d)
      BY <3>3 DEF Sound, PlacesIn
    <3> QED
      BY <1>1, <3>4
  <2> QED
    BY <2>1, <2>2
<1>2. CASE i # 1
  <2>1. i \in Items
    BY <1>2, Fat32Assumption, SMT DEF Indices, Items
  <2>2. EntriesOn(d, c)[i].name # NoName
    <3>1. NoName \notin Names
      BY Fat32Assumption, SMT
    <3> QED
      BY <3>1 DEF StepNames, NoName
  <2>3. EntriesOn(d, c)[i].used
    BY <2>1, <2>2, EntriesTyped, NamedIsUsed DEF Sound
  <2>4. <<c, i>> \in PlacesIn(d, Live(d)) /\ At(d, <<c, i>>) = EntriesOn(d, c)[i]
    BY <2>1, <2>3, EntryStands
  <2>5. EntriesOn(d, c)[i].cluster \in Clusters
    BY <2>4, OnePlace
  <2> QED
    BY <2>1, <2>3, <2>5, EntryStands
<1> QED
  BY <1>1, <1>2

\* So a step of a path leads to a folder of the tree, from one, or nowhere.
LEMMA StepLeads ==
  ASSUME DriverKept, TreeKept, Titled(Image), Ready, Standing(command.at),
         Head(command.rest) \in StepNames, NEW from \in {0, 1},
         0 \notin FoldersNamed(command.at, Head(command.rest), from)
  PROVE  Step(from) = NotFound \/ (command.at \in Live(disk) /\ Step(from) \in Live(disk))
<1> DEFINE c    == command.at
           n    == Head(command.rest)
           hits == FoldersNamed(c, n, from)
<1>1. /\ disk \in [Clusters -> Stored] /\ Sound(disk, fat, Live(disk)) /\ Titled(disk)
  BY SoundAtRest
<1>2. /\ hits \in SUBSET Nat /\ hits \in SUBSET (Indices \ {0})
      /\ \A i \in hits : EntriesOn(disk, c)[i].folder /\ EntriesOn(disk, c)[i].name = n
  <2>1. hits \in SUBSET Indices
    BY Fat32Assumption, SMT DEF FoldersNamed, Indices
  <2>2. \A i \in Indices : i \in Nat
    BY IndexRange
  <2>3. \A i \in hits : EntriesOn(disk, c)[i].folder /\ EntriesOn(disk, c)[i].name = n
    BY DEF FoldersNamed, get_curr_working_dir, Entries
  <2> HIDE DEF hits
  <2> QED
    BY <2>1, <2>2, <2>3 DEF hits
<1>3. Step(from) = IF hits = {} THEN NotFound ELSE EntriesOn(disk, c)[Min(hits)].cluster
  BY DEF Step, get_curr_working_dir, Entries
<1> HIDE DEF hits, c, n
<1>4. CASE hits = {}
  BY <1>3, <1>4
<1>5. CASE hits # {}
  <2>1. Min(hits) \in hits
    BY <1>2, <1>5, MinIsLeast
  <2>2. c \in Live(disk)
    <3>1. SUFFICES ASSUME c \notin Live(disk) PROVE FALSE
      OBVIOUS
    <3>2. Entries(c) = NoEntries
      BY <3>1, StandingIs DEF c
    <3>3. Entries(c)[Min(hits)] = NoEntry
      BY <1>2, <2>1, <3>2, NothingThere
    <3>4. EntriesOn(disk, c)[Min(hits)] = NoEntry /\ EntriesOn(disk, c)[Min(hits)].folder
      BY <1>2, <2>1, <3>3 DEF Entries
    <3> QED
      BY <3>4 DEF NoEntry
  <2>3. EntriesOn(disk, c)[Min(hits)].cluster \in Live(disk)
    BY <1>1, <1>2, <2>1, <2>2, LedToLive DEF n
  <2> QED
    BY <1>3, <1>5, <2>2, <2>3 DEF c
<1> QED
  BY <1>4, <1>5

-----------------------------------------------------------------------------
(* The invariant of the shells *)

\* Clusters a folder can have, or have had.
ShellClusters == Clusters \ {BOOT_SECTOR, FAT_CLUSTER_NUMBER}

CommandType ==
  [op : {"none", "cd", "mkdir", "rm", "rmr", "cp", "mv"}, src : Seq(StepNames), dst : Seq(StepNames),
   at : ShellClusters \cup {NotFound}, rest : Seq(StepNames),
   found : Seq(ShellClusters \cup {NotFound}), buffer : Contents \cup {NoBytes}, alone : BOOLEAN]

\* A command has the paths it needs; what cp has read it can write.
WellFormed(x) ==
  /\ x \in CommandType /\ Len(x.found) <= 2
  /\ x.op # "none" => x.at # NotFound
  /\ x.op \in {"mkdir", "rm", "rmr", "cp", "mv"} => Len(x.src) > 0 /\ Last(x.src) \in Names
  /\ x.op \in {"cp", "mv"} => Len(x.dst) > 0 /\ Last(x.dst) \in Names
  /\ x.buffer # NoBytes => Len(x.found) = 2 /\ \A k \in DOMAIN x.found : x.found[k] # NotFound

\* Where the paths of a command have led to.
Reached(x) == ({x.at} \cup {x.found[k] : k \in DOMAIN x.found}) \ {NotFound}

Taken(c) == InFile(Image, fat, c)

\* A cluster of a folder that was removed may be a file's by now, but the paths of mv lead there
\* only where the shell itself stands in it, and then from nowhere else.
MovesAside ==
  command.op = "mv" => IF Taken(cwd_cluster_number)
                       THEN Reached(command) \subseteq {cwd_cluster_number}
                       ELSE \A c \in Reached(command) : ~Taken(c)

ShellKept ==
  /\ ShellDisk
  /\ cwd_cluster_number \in ShellClusters /\ elsewhere \in ShellClusters
  /\ WellFormed(command) /\ MovesAside
  /\ report \in -1 .. 4

\* A shell that waits for a command.
LEMMA IdleIs == WellFormed(Idle) /\ Idle.op = "none"
<1> DEFINE x == Idle
<1>1. x.op = "none" /\ x.buffer = NoBytes /\ Len(x.found) = 0
  BY DEF Idle
<1>2. x \in CommandType
  <2>1. <<>> \in Seq(StepNames) /\ <<>> \in Seq(ShellClusters \cup {NotFound})
    OBVIOUS
  <2> QED
    BY <2>1 DEF Idle, CommandType, NotFound
<1> HIDE DEF x
<1>3. WellFormed(x)
  BY <1>1, <1>2 DEF WellFormed
<1> QED
  BY <1>1, <1>3 DEF x

\* Folders of the tree have clusters behind the FAT.
LEMMA LiveBehind ==
  ASSUME NEW d, NEW map, Sound(d, map, Live(d)), NEW c \in Live(d)
  PROVE  c \in ShellClusters /\ c # NotFound /\ ~InFile(d, map, c)
<1>1. c \in Clusters /\ c # FAT_CLUSTER_NUMBER
  BY LiveMarked
<1>2. c # BOOT_SECTOR
  <2>1. CASE c = ROOT_CLUSTER_NUMBER
    BY <2>1 DEF ROOT_CLUSTER_NUMBER, BOOT_SECTOR
  <2>2. CASE c # ROOT_CLUSTER_NUMBER
    <3>1. {ROOT_CLUSTER_NUMBER} \in SUBSET Clusters
      BY ClusterRange DEF ROOT_CLUSTER_NUMBER
    <3>2. c \in SubfoldersOn(d, Live(d))
      BY <2>2, <3>1, BelowStarts DEF Live
    <3>3. PICK q \in PlacesIn(d, Live(d)) : At(d, q).cluster = c
      BY <3>2, SubfolderPlace
    <3>4. c >= 3
      BY <3>3, OnePlace
    <3> QED
      BY <3>4 DEF BOOT_SECTOR
  <2> QED
    BY <2>1, <2>2
<1>3. ~InFile(d, map, c)
  BY FilesAside
<1> QED
  BY <1>1, <1>2, <1>3 DEF ShellClusters, NotFound, BOOT_SECTOR

\* A command is typed.
LEMMA TypeKeeps ==
  ASSUME ShellKept, Type
  PROVE  ShellKept' /\ Tree!Next
<1>1. ShellDisk' /\ Tree!Next /\ cwd_cluster_number' = cwd_cluster_number /\ elsewhere' = elsewhere
      /\ report' = 0 /\ cwd_cluster_number \in ShellClusters
  BY ShellDiskStays DEF ShellKept, Type
<1>2. ASSUME NEW op \in {"cd", "mkdir", "rm", "rmr", "cp", "mv"}, NEW src \in Seq(StepNames),
             NEW dst \in Seq(StepNames), Len(src) > 0, command' = Typed(op, src, dst),
             op # "cd" => Last(src) \in Names, op \in {"cp", "mv"} => Len(dst) > 0 /\ Last(dst) \in Names
      PROVE  WellFormed(command') /\ MovesAside'
  <2> DEFINE x == Typed(op, src, dst)
  <2>1. Folders(src) \in Seq(StepNames)
    BY DEF Folders
  <2>2. /\ x \in CommandType /\ Len(x.found) = 0 /\ x.buffer = NoBytes /\ x.op = op
        /\ x.src = src /\ x.dst = dst /\ x.at = cwd_cluster_number /\ DOMAIN x.found = {}
    <3> DEFINE rest == IF op = "cd" THEN src ELSE Folders(src)
               c    == cwd_cluster_number
               e    == <<>>
    <3>2. rest \in Seq(StepNames) /\ e \in Seq(ShellClusters \cup {NotFound}) /\ Len(e) = 0
          /\ DOMAIN e = {}
      BY <2>1
    <3>3. Idle = [op |-> "none", src |-> e, dst |-> e, at |-> 0, rest |-> e, found |-> e,
                  buffer |-> NoBytes, alone |-> TRUE]
      BY DEF Idle
    <3>4. x = [Idle EXCEPT !.op = op, !.src = src, !.dst = dst, !.at = c, !.rest = rest]
      BY DEF Typed
    <3> HIDE DEF rest, x, e
    <3>1. x = [op |-> op, src |-> src, dst |-> dst, at |-> c, rest |-> rest, found |-> e,
               buffer |-> NoBytes, alone |-> TRUE]
      BY <3>3, <3>4
    <3> QED
      BY <1>1, <3>1, <3>2 DEF CommandType
  <2> HIDE DEF x
  <2>3. WellFormed(command')
    <3>1. x.at # NotFound
      BY <1>1, <2>2 DEF ShellClusters, NotFound, BOOT_SECTOR
    <3>2. command' = x
      BY <1>2 DEF x
    <3> QED
      BY <1>2, <2>2, <3>1, <3>2 DEF WellFormed
  <2>4. MovesAside'
    <3>1. command' = x
      BY <1>2 DEF x
    <3>2. Reached(x) \subseteq {cwd_cluster_number'}
      BY <1>1, <2>2 DEF Reached
    <3>3. Taken(cwd_cluster_number)' \/ \A c \in Reached(x) : ~Taken(c)'
      BY <3>2
    <3> QED
      BY <3>1, <3>2, <3>3 DEF MovesAside
  <2> QED
    BY <2>3, <2>4
<1>3. \A p \in Paths : p \in Seq(StepNames) /\ Len(p) > 0
  BY ShellAssumption DEF StepNames
<1>4. ASSUME NEW op \in {"mkdir", "rm", "rmr"}, NEW n \in Names, command' = Typed(op, <<n>>, <<>>)
      PROVE  WellFormed(command') /\ MovesAside'
  <2>1. <<n>> \in Seq(StepNames) /\ Len(<<n>>) > 0 /\ Last(<<n>>) = n /\ <<>> \in Seq(StepNames)
    BY DEF Last, StepNames
  <2> QED
    BY <1>2, <1>4, <2>1
<1>5. ASSUME NEW p \in Paths, command' = Typed("cd", p, <<>>)
      PROVE  WellFormed(command') /\ MovesAside'
  <2>1. <<>> \in Seq(StepNames)
    OBVIOUS
  <2> QED
    BY <1>2, <1>3, <1>5, <2>1
<1>6. ASSUME NEW op \in {"cp", "mv"}, NEW p \in Paths, NEW q \in Paths, Last(p) \in Names,
             Last(q) \in Names, command' = Typed(op, p, q)
      PROVE  WellFormed(command') /\ MovesAside'
  BY <1>2, <1>3, <1>6
<1>7. WellFormed(command') /\ MovesAside'
  BY <1>4, <1>5, <1>6 DEF Type
<1> QED
  BY <1>1, <1>7 DEF ShellKept

\* A step of the path resolution leaves the disk alone.
LEMMA LookingKeeps ==
  ASSUME ShellKept, UNCHANGED <<fsVars, cwd_cluster_number, elsewhere>>, report' \in -1 .. 4,
         WellFormed(command'),
         command'.op = "mv" => \/ Reached(command') \subseteq Reached(command) \cup {cwd_cluster_number}
                                  /\ command.op = "mv"
                               \/ command.op = "mv" /\ command.at \in Live(Image) /\ command.at # NotFound
                                  /\ \A c \in Reached(command') \ Reached(command) : c \in Live(Image)
  PROVE  ShellKept' /\ Tree!Next
<1>1. ShellDisk' /\ Tree!Next
  BY ShellDiskStays DEF ShellKept
<1>2. Image' = Image /\ fat' = fat
  BY DEF Image, fsVars
<1>3. \A c : Taken(c)' <=> Taken(c)
  BY <1>2 DEF Taken
<1>4. \A c \in Live(Image) : ~Taken(c)
  BY LiveBehind DEF Taken, ShellKept, ShellDisk, TreeKept
<1>5. MovesAside'
  BY <1>3, <1>4 DEF MovesAside, ShellKept, Reached
<1> QED
  BY <1>1, <1>5 DEF ShellKept

\* get_final_parent_cluster.
LEMMA ResolveKeeps ==
  ASSUME ShellKept, Ready, CarefulPath, get_final_parent_cluster
  PROVE  ShellKept' /\ Tree!Next
<1> DEFINE done(c) == [command EXCEPT !.found = Append(@, c), !.at = StartOfNext,
                                      !.rest = Folders(command.dst)]
<1>1. /\ command \in CommandType /\ command.op \in {"cp", "mv"} /\ Len(command.found) < 2
      /\ command.at # NotFound /\ command.buffer = NoBytes /\ Last(command.src) \in Names
      /\ Last(command.dst) \in Names /\ Len(command.src) > 0 /\ Len(command.dst) > 0
  <2>1. command.op \in {"cp", "mv"} /\ Len(command.found) < 2
    BY DEF get_final_parent_cluster
  <2> QED
    BY <2>1 DEF ShellKept, WellFormed
<1>2. /\ DriverKept /\ TreeKept /\ Titled(Image) /\ Image = disk /\ Sound(disk, fat, Live(disk)) /\ report \in -1 .. 4
      /\ cwd_cluster_number \in ShellClusters /\ Standing(command.at)
  BY <1>1, SoundAtRest DEF ShellKept, ShellDisk, CarefulPath
<1>3. UNCHANGED <<fsVars, cwd_cluster_number, elsewhere, report>>
  BY DEF get_final_parent_cluster
<1>4. ASSUME NEW c \in ShellClusters \cup {NotFound}, command' = done(c), c \in {command.at, NotFound}
      PROVE  ShellKept' /\ Tree!Next
  <2>1. Folders(command.dst) \in Seq(StepNames)
    BY <1>1 DEF Folders, CommandType
  <2>2. Append(command.found, c) \in Seq(ShellClusters \cup {NotFound})
    BY <1>1 DEF CommandType
  <2>3. cwd_cluster_number # NotFound
    BY <1>2 DEF ShellClusters, NotFound, BOOT_SECTOR
  <2>4. WellFormed(command')
    <3> DEFINE rest == Folders(command.dst)
               at   == cwd_cluster_number
               new  == Append(command.found, c)
    <3>1. command' = [command EXCEPT !.found = new, !.at = at, !.rest = rest]
      BY <1>1, <1>4 DEF StartOfNext, CommandType
    <3>2. /\ rest \in Seq(StepNames) /\ new \in Seq(ShellClusters \cup {NotFound}) /\ Len(new) <= 2
          /\ at \in ShellClusters /\ at # NotFound
      BY <1>1, <1>2, <2>1, <2>2, <2>3 DEF CommandType
    <3> HIDE DEF rest, at, new
    <3>3. command' \in CommandType /\ command'.found = new /\ command'.at = at /\ command'.op = command.op
          /\ command'.src = command.src /\ command'.dst = command.dst /\ command'.buffer = command.buffer
      BY <1>1, <3>1, <3>2 DEF CommandType
    <3> QED
      BY <1>1, <3>2, <3>3 DEF WellFormed
  <2>5. Reached(command') \subseteq Reached(command) \cup {cwd_cluster_number}
    BY <1>1, <1>4 DEF Reached, CommandType, StartOfNext
  <2>6. command'.op = command.op
    BY <1>1, <1>4 DEF CommandType
  <2> QED
    BY <1>2, <1>3, <2>4, <2>5, <2>6, LookingKeeps
<1>5. ASSUME command.rest # <<>>, Step(0) # NotFound,
             command' = [command EXCEPT !.at = Step(0), !.rest = Tail(@)]
      PROVE  ShellKept' /\ Tree!Next
  <2>1. command.rest \in Seq(StepNames) /\ Tail(command.rest) \in Seq(StepNames) /\ Head(command.rest) \in StepNames
    BY <1>1, <1>5 DEF CommandType
  <2>2. 0 \notin FoldersNamed(command.at, Head(command.rest), 0)
    BY <1>1, <1>5 DEF CarefulPath
  <2>3. command.at \in Live(disk) /\ Step(0) \in Live(disk)
    BY <1>2, <1>5, <2>1, <2>2, StepLeads
  <2>4. Step(0) \in ShellClusters
    BY <1>2, <2>3, LiveBehind
  <2>5. WellFormed(command')
    <3> DEFINE rest == Tail(command.rest)
               at   == Step(0)
    <3>1. command' = [command EXCEPT !.at = at, !.rest = rest] /\ rest \in Seq(StepNames)
          /\ at \in ShellClusters /\ at # NotFound
      BY <1>1, <1>5, <2>1, <2>4 DEF CommandType
    <3> HIDE DEF rest, at
    <3>3. /\ command' \in CommandType /\ command'.found = command.found /\ command'.at = at
          /\ command'.op = command.op /\ command'.src = command.src /\ command'.dst = command.dst
          /\ command'.buffer = command.buffer
      BY <1>1, <3>1 DEF CommandType
    <3> QED
      BY <1>1, <3>1, <3>3 DEF WellFormed
  <2>6. Reached(command') \subseteq Reached(command) \cup {Step(0)} /\ command'.op = command.op
    BY <1>1, <1>5 DEF Reached, CommandType
  <2> QED
    BY <1>1, <1>2, <1>3, <2>3, <2>5, <2>6, LookingKeeps
<1> QED
  BY <1>1, <1>4, <1>5 DEF get_final_parent_cluster, CommandType

\* A command ends.
LEMMA EndKeeps ==
  ASSUME ShellKept, ShellDisk', Tree!Next, NEW ret \in -1 .. 4, End(ret),
         cwd_cluster_number' \in ShellClusters, elsewhere' = elsewhere
  PROVE  ShellKept' /\ Tree!Next
<1>1. command' = Idle /\ report' = ret
  BY DEF End
<1>2. WellFormed(command') /\ MovesAside'
  BY <1>1, IdleIs DEF MovesAside
<1> QED
  BY <1>1, <1>2 DEF ShellKept

\* cd.
LEMMA CdKeeps ==
  ASSUME ShellKept, Ready, CarefulPath, cd
  PROVE  ShellKept' /\ Tree!Next
<1>1. /\ command \in CommandType /\ command.op = "cd" /\ command.at # NotFound
      /\ report \in -1 .. 4 /\ UNCHANGED <<fsVars, elsewhere>> /\ cwd_cluster_number \in ShellClusters
  <2>1. command.op = "cd"
    BY DEF cd
  <2> QED
    BY <2>1 DEF ShellKept, WellFormed, cd
<1>2. /\ DriverKept /\ TreeKept /\ Titled(Image) /\ Image = disk /\ Sound(disk, fat, Live(disk))
      /\ Standing(command.at)
  BY <1>1, SoundAtRest DEF ShellKept, ShellDisk, CarefulPath
<1>3. ShellDisk' /\ Tree!Next
  BY <1>1, ShellDiskStays DEF ShellKept
<1>4. CASE End(2) /\ UNCHANGED cwd_cluster_number
  BY <1>1, <1>3, <1>4, EndKeeps
<1>5. CASE End(0) /\ cwd_cluster_number' = command.at
  <2>1. cwd_cluster_number' \in ShellClusters
    BY <1>1, <1>5 DEF CommandType
  <2> QED
    BY <1>1, <1>3, <1>5, <2>1, EndKeeps
<1>6. CASE /\ command.rest # <<>> /\ Step(1) # NotFound
           /\ command' = [command EXCEPT !.at = Step(1), !.rest = Tail(@)]
           /\ UNCHANGED <<report, cwd_cluster_number>>
  <2>1. /\ command.rest \in Seq(StepNames) /\ Tail(command.rest) \in Seq(StepNames)
        /\ Head(command.rest) \in StepNames
    BY <1>1, <1>6 DEF CommandType
  <2>2. 0 \notin FoldersNamed(command.at, Head(command.rest), 1)
    BY DEF FoldersNamed
  <2>3. Step(1) \in Live(disk)
    BY <1>2, <1>6, <2>1, <2>2, StepLeads
  <2>4. Step(1) \in ShellClusters
    BY <1>2, <2>3, LiveBehind
  <2>5. WellFormed(command') /\ command'.op = "cd"
    <3> DEFINE rest == Tail(command.rest)
               at   == Step(1)
    <3>1. command' = [command EXCEPT !.at = at, !.rest = rest] /\ rest \in Seq(StepNames)
          /\ at \in ShellClusters /\ at # NotFound
      BY <1>1, <1>6, <2>1, <2>4 DEF CommandType
    <3> HIDE DEF rest, at
    <3>2. /\ command' \in CommandType /\ command'.found = command.found /\ command'.at = at
          /\ command'.op = command.op /\ command'.src = command.src /\ command'.dst = command.dst
          /\ command'.buffer = command.buffer
      BY <1>1, <3>1 DEF CommandType
    <3>3. WellFormed(command)
      BY DEF ShellKept
    <3> QED
      BY <1>1, <3>1, <3>2, <3>3 DEF WellFormed
  <2> QED
    BY <1>1, <1>6, <2>5, LookingKeeps
<1> QED
  BY <1>4, <1>5, <1>6 DEF cd

\* An operation on the disk, or a refusal.
LEMMA DoesOrRefuses ==
  ASSUME ShellDisk, DriverKept', UNCHANGED fsVars \/ (Ready /\ ShellOperation)
  PROVE  ShellDisk' /\ Tree!Next
<1>1. CASE UNCHANGED fsVars
  BY <1>1, ShellDiskStays
<1>2. CASE Ready /\ ShellOperation
  BY <1>2, ShellOperationKeeps
<1> QED
  BY <1>1, <1>2

\* mkdir, rm and rmr of the shell that is followed.
LEMMA MakeOrRemoveKeeps ==
  ASSUME ShellKept, make_or_remove
  PROVE  ShellKept' /\ Tree!Next
<1>1. command.op \in {"mkdir", "rm", "rmr"} /\ UNCHANGED <<cwd_cluster_number, elsewhere>>
  BY DEF make_or_remove
<1>2. /\ Last(command.src) \in Names /\ cwd_cluster_number \in ShellClusters
      /\ DriverKept /\ TreeKept /\ ShellDisk
  BY <1>1 DEF ShellKept, WellFormed, ShellDisk
<1>3. cwd_cluster_number \in Clusters
  BY <1>2 DEF ShellClusters
<1>4. ASSUME NEW ret \in -1 .. 2, NEW reported \in 0 .. 3,
             MakeOrRemove(command.op, cwd_cluster_number, Last(command.src), ret, reported),
             End(reported)
      PROVE  ShellKept' /\ Tree!Next
  <2>1. DriverKept' /\ (UNCHANGED fsVars \/ (Ready /\ NewFolderOrLess))
    BY <1>2, <1>3, <1>4, MakeOrRemoveDoes
  <2>2. NewFolderOrLess => ShellOperation
    BY DEF NewFolderOrLess, ShellOperation
  <2>3. ShellDisk' /\ Tree!Next
    BY <1>2, <2>1, <2>2, DoesOrRefuses
  <2>4. reported \in -1 .. 4
    OBVIOUS
  <2> QED
    BY <1>1, <1>2, <1>4, <2>3, <2>4, EndKeeps
<1> QED
  BY <1>4 DEF make_or_remove

\* cp or mv with a folder that is not found.
LEMMA UnresolvedKeeps ==
  ASSUME ShellKept, cp_mv_unresolved
  PROVE  ShellKept' /\ Tree!Next
<1>1. /\ UNCHANGED <<fsVars, cwd_cluster_number, elsewhere>> /\ cwd_cluster_number \in ShellClusters
      /\ (End(2) \/ End(3))
  BY DEF cp_mv_unresolved, ShellKept
<1>2. ShellDisk' /\ Tree!Next
  BY <1>1, ShellDiskStays DEF ShellKept
<1> QED
  BY <1>1, <1>2, EndKeeps

\* What copy_long_cluster copies of a chain.
LEMMA CopiesPart ==
  ASSUME NEW e, Owned(fat, e), NEW n \in Nat
  PROVE  /\ copy_long_cluster(e.cluster, n * CLUSTER_SIZE)
              = SubSeq(Chain(fat, e.cluster), 1, Min({n, Len(Chain(fat, e.cluster))}))
         /\ Min({n, Len(Chain(fat, e.cluster))}) \in 0 .. Len(Chain(fat, e.cluster))
         /\ n > 0 => Min({n, Len(Chain(fat, e.cluster))}) > 0
<1> DEFINE s == Chain(fat, e.cluster)
           w == CLUSTER_SIZE
<1>1. Linked(fat, s)
  BY DEF Owned
<1> HIDE DEF s
<1>2. s \in Seq(Clusters) /\ Len(s) \in Nat /\ Len(s) > 0
  BY <1>1 DEF Linked
<1>3. (n * w) % w = 0 /\ (n * w) \div w = n
  <2>1. w \in Nat \ {0} /\ n \in Int /\ 0 \in 0 .. w - 1
    BY Fat32Assumption
  <2> HIDE DEF w
  <2>2. w * n + 0 = n * w
    BY <2>1
  <2>3. (w * n + 0) % w = 0 /\ (w * n + 0) \div w = n
    BY <2>1, ModUnique
  <2> QED
    BY <2>2, <2>3
<1>4. copy_long_cluster(e.cluster, n * w) = SubSeq(s, 1, Min({n, Len(s)}))
  BY <1>3, Zenon DEF copy_long_cluster, s
<1>5. Min({n, Len(s)}) \in {n, Len(s)} /\ \A y \in {n, Len(s)} : Min({n, Len(s)}) <= y
  <2>1. {n, Len(s)} \in SUBSET Nat
    BY <1>2
  <2> QED
    BY <2>1, MinIsLeast
<1> HIDE DEF w
<1>6. Min({n, Len(s)}) \in 0 .. Len(s) /\ (n > 0 => Min({n, Len(s)}) > 0)
  BY <1>2, <1>5
<1> QED
  BY <1>4, <1>6 DEF s, w

\* What read finds by a name is an entry of the folder.
LEMMA ReadFinds ==
  ASSUME DriverKept, TreeKept, Ready, NEW rq, Standing(rq.parent), Entries(rq.parent)[0].used,
         ReadIndices(Entries(rq.parent), rq) # {}
  PROVE  LET i == Min(ReadIndices(Entries(rq.parent), rq))
         IN  /\ i \in ReadIndices(Entries(rq.parent), rq) /\ rq.parent \in Live(disk)
             /\ <<rq.parent, i>> \in PlacesIn(disk, Live(disk))
             /\ At(disk, <<rq.parent, i>>) = Entries(rq.parent)[i]
             /\ Owned(fat, Entries(rq.parent)[i])
<1> DEFINE t    == Entries(rq.parent)
           hits == ReadIndices(t, rq)
           i    == Min(hits)
<1>1. disk \in [Clusters -> Stored] /\ Sound(disk, fat, Live(disk))
  BY SoundAtRest
<1>2. rq.parent \in Live(disk)
  BY NothingThere, StandingIs
<1>3. i \in hits /\ i \in Items /\ i < FirstHole(t)
  <2>1. hits \in SUBSET Items /\ \A j \in hits : j < FirstHole(t)
    BY DEF ReadIndices
  <2>2. hits \in SUBSET Nat
    BY <2>1, IndexRange
  <2> HIDE DEF hits
  <2>3. i \in hits
    BY <2>2, MinIsLeast DEF hits
  <2> QED
    BY <2>1, <2>3
<1>4. t[i].used
  BY <1>3, FirstHoleIs
<1>5. <<rq.parent, i>> \in PlacesIn(disk, Live(disk)) /\ At(disk, <<rq.parent, i>>) = t[i]
  BY <1>2, <1>3, <1>4 DEF PlacesIn, At, Entries
<1>6. Owned(fat, t[i])
  BY <1>1, <1>5 DEF Sound, OwnChains
<1> QED
  BY <1>2, <1>3, <1>5, <1>6

\* cp reads.
LEMMA CpReadKeeps ==
  ASSUME ShellKept, Ready, CarefulPath, cp_read
  PROVE  ShellKept' /\ Tree!Next
<1> DEFINE rq     == [parent |-> FromTo[1], name |-> Last(command.src), ext |-> NoExt, size |-> CLUSTER_SIZE]
           result == read(rq)
           first  == result.clusters[1]
<1>1. /\ command.op = "cp" /\ Len(command.found) = 2 /\ command.found[1] # NotFound
      /\ command.found[2] # NotFound /\ FromTo[1] = command.found[1]
      /\ UNCHANGED <<fsVars, cwd_cluster_number, elsewhere>>
  BY DEF cp_read, Resolved, FromTo
<1>2. /\ command \in CommandType /\ report \in -1 .. 4 /\ WellFormed(command)
      /\ cwd_cluster_number \in ShellClusters
  BY DEF ShellKept, WellFormed
<1>3. /\ DriverKept /\ TreeKept /\ Image = disk /\ disk \in [Clusters -> Stored]
  BY SoundAtRest DEF ShellKept, ShellDisk
<1>4. ShellDisk' /\ Tree!Next
  BY <1>1, ShellDiskStays DEF ShellKept
<1>5. command.found[1] \in ToSet(command.found) /\ Standing(rq.parent)
  BY <1>1, <1>2 DEF CarefulPath, ToSet, CommandType
<1>6. \/ result.ret \in {-1, 1, 2}
      \/ Entries(rq.parent)[0].used /\ ReadIndices(Entries(rq.parent), rq) # {}
         /\ result.clusters = copy_long_cluster(Entries(rq.parent)[Min(ReadIndices(Entries(rq.parent), rq))].cluster,
                                                rq.size)
  <2> HIDE DEF rq
  <2> QED
    BY DEF read
<1>7. rq.size = CLUSTER_SIZE
  OBVIOUS
<1> HIDE DEF rq
<1>8. result.ret # 0 =>
        /\ result.ret \in {-1, 1, 2}
        /\ End(IF result.ret = -1 THEN 3 ELSE result.ret)
  BY DEF cp_read, rq, read
<1>9. result.ret = 0 => /\ disk[first].kind = "bytes"
                        /\ command' = [command EXCEPT !.buffer = disk[first].of] /\ report' = report
  BY DEF cp_read, rq
<1> HIDE DEF result, first
<1>10. CASE result.ret # 0
  BY <1>1, <1>2, <1>4, <1>8, <1>10, EndKeeps
<1>11. CASE result.ret = 0
  <2> DEFINE i == Min(ReadIndices(Entries(rq.parent), rq))
             e == Entries(rq.parent)[i]
             s == Chain(fat, e.cluster)
  <2>1. /\ Entries(rq.parent)[0].used /\ ReadIndices(Entries(rq.parent), rq) # {}
        /\ result.clusters = copy_long_cluster(e.cluster, rq.size)
    BY <1>6, <1>11
  <2>2. Owned(fat, e)
    BY <1>3, <1>5, <2>1, ReadFinds
  <2> HIDE DEF i, e
  <2>3. /\ 1 \in Nat /\ 1 * CLUSTER_SIZE = rq.size
        /\ copy_long_cluster(e.cluster, 1 * CLUSTER_SIZE) = SubSeq(s, 1, Min({1, Len(s)}))
        /\ Min({1, Len(s)}) \in 0 .. Len(s) /\ Min({1, Len(s)}) > 0
    <3>1. 1 \in Nat /\ 1 > 0 /\ 1 * CLUSTER_SIZE = rq.size
      BY <1>7, Fat32Assumption
    <3> QED
      BY <2>2, <3>1, CopiesPart
  <2>4. s \in Seq(Clusters)
    BY <2>2 DEF Owned, Linked
  <2> DEFINE m == Min({1, Len(s)})
  <2> HIDE DEF s, m
  <2>5. first \in Clusters
    <3>1. result.clusters = SubSeq(s, 1, m) /\ m \in 0 .. Len(s) /\ m > 0
      BY <2>1, <2>3 DEF m
    <3>2. SubSeq(s, 1, m)[1] = s[1] /\ s[1] \in Clusters
      BY <2>4, <3>1
    <3> QED
      BY <3>1, <3>2 DEF first
  <2>6. disk[first].of \in Contents
    BY <1>3, <1>9, <1>11, <2>5 DEF Stored, Signature, Fat, Table, Bytes
  <2> DEFINE b == disk[first].of
  <2>7. command' = [command EXCEPT !.buffer = b] /\ b \in Contents
    BY <1>9, <1>11, <2>6
  <2> HIDE DEF b
  <2>8. /\ command' \in CommandType /\ command'.found = command.found /\ command'.at = command.at
        /\ command'.op = command.op /\ command'.src = command.src /\ command'.dst = command.dst
    BY <1>2, <2>7 DEF CommandType
  <2>9. \A k \in DOMAIN command.found : command.found[k] # NotFound
    <3>1. DOMAIN command.found = {1, 2}
      BY <1>1, <1>2 DEF CommandType
    <3> QED
      BY <1>1, <3>1
  <2>10. WellFormed(command')
    BY <1>1, <1>2, <2>8, <2>9 DEF WellFormed
  <2> QED
    BY <1>1, <1>2, <1>9, <1>11, <2>8, <2>10, LookingKeeps
<1> QED
  BY <1>10, <1>11

\* cp writes.
LEMMA CpWriteKeeps ==
  ASSUME ShellKept, CarefulPath, cp_write
  PROVE  ShellKept' /\ Tree!Next
<1> DEFINE rq == [parent |-> FromTo[2], name |-> Last(command.dst), ext |-> NoExt,
                  size |-> CLUSTER_SIZE, content |-> command.buffer]
<1>1. /\ command.op = "cp" /\ command.buffer # NoBytes /\ UNCHANGED <<cwd_cluster_number, elsewhere>>
  BY DEF cp_write
<1>2. /\ command \in CommandType /\ Len(command.found) = 2
      /\ \A k \in DOMAIN command.found : command.found[k] # NotFound
      /\ Last(command.dst) \in Names /\ ShellDisk /\ DriverKept /\ TreeKept
      /\ cwd_cluster_number \in ShellClusters
  BY <1>1 DEF ShellKept, WellFormed, ShellDisk
<1>3. /\ command.found[2] \in ToSet(command.found) /\ command.found[2] # NotFound
      /\ command.found[2] \in Clusters /\ FromTo[2] = command.found[2]
  <2>1. 2 \in DOMAIN command.found
    BY <1>2 DEF CommandType
  <2> QED
    BY <1>2, <2>1 DEF CommandType, ToSet, FromTo, ShellClusters
<1>4. command.buffer \in Contents
  BY <1>1, <1>2 DEF CommandType
<1>5. /\ IsWriteRequest(rq) /\ rq.ext = NoExt /\ (rq.size # 0 => rq.size \in Sizes) /\ Standing(rq.parent)
  BY <1>2, <1>3, <1>4, Fat32Assumption, ShellAssumption, SMT
     DEF IsWriteRequest, IsNameRequest, AnyCluster, CarefulPath
<1>6. PICK ret \in -1 .. 2 : CarefulWrite(rq, ret) /\ End(IF ret = -1 THEN 3 ELSE ret)
  BY DEF cp_write
<1> HIDE DEF rq
<1>7. DriverKept' /\ (UNCHANGED fsVars \/ (Ready /\ ShellOperation))
  BY <1>2, <1>5, <1>6, ShellWrites DEF ShellOperation
<1>8. ShellDisk' /\ Tree!Next
  BY <1>2, <1>7, DoesOrRefuses
<1> DEFINE r == IF ret = -1 THEN 3 ELSE ret
<1>9. r \in -1 .. 4 /\ End(r)
  BY <1>6
<1> HIDE DEF r
<1> QED
  BY <1>1, <1>2, <1>8, <1>9, EndKeeps

\* mv.
LEMMA MvKeeps ==
  ASSUME ShellKept, Ready, CarefulPath, mv
  PROVE  ShellKept' /\ Tree!Next
<1>1. /\ command.op = "mv" /\ Len(command.found) = 2 /\ UNCHANGED <<cwd_cluster_number, elsewhere>>
  BY DEF mv, Resolved
<1>2. /\ command \in CommandType /\ Last(command.src) \in Names /\ Last(command.dst) \in Names
      /\ ShellDisk /\ DriverKept /\ TreeKept /\ cwd_cluster_number \in ShellClusters /\ MovesAside
  BY <1>1 DEF ShellKept, WellFormed, ShellDisk
<1>3. CASE SameFile /\ End(4) /\ UNCHANGED fsVars
  BY <1>1, <1>2, <1>3, ShellDiskStays, EndKeeps
<1>4. CASE ~SameFile
  <2> DEFINE src == Request(FromTo[1], command.src)
             tar == Request(FromTo[2], command.dst)
  <2>1. /\ 1 \in DOMAIN command.found /\ 2 \in DOMAIN command.found
        /\ FromTo[1] = command.found[1] /\ FromTo[2] = command.found[2]
    BY <1>1, <1>2 DEF CommandType, FromTo
  <2>2. command.found[1] # NotFound /\ command.found[2] # NotFound
    BY <1>4, <2>1 DEF mv
  <2>3. \A k \in {1, 2} : /\ command.found[k] \in ShellClusters /\ command.found[k] \in Reached(command)
                          /\ command.found[k] \in ToSet(command.found)
    BY <1>2, <2>1, <2>2 DEF CommandType, Reached, ToSet
  <2>4. Image = disk
    BY <1>2, SoundAtRest
  <2>5. Standing(command.found[1]) /\ Standing(command.found[2])
    BY <2>2, <2>3 DEF CarefulPath
  <2>6. InFile(disk, fat, command.found[2]) => command.found[2] = command.found[1]
    BY <1>1, <1>2, <2>3, <2>4 DEF MovesAside, Taken
  <2>7. /\ src.parent = command.found[1] /\ tar.parent = command.found[2]
        /\ IsNameRequest(src) /\ IsNameRequest(tar) /\ src.ext = NoExt /\ tar.ext = NoExt
    BY <1>2, <2>1, <2>3, Fat32Assumption, SMT
       DEF Request, IsNameRequest, AnyCluster, ShellClusters
  <2>8. /\ CarefulMove(src, tar, MoveRefusal(src, tar))
        /\ End(MoveRefusal(src, tar)) \/ End(-1)
    BY <1>4 DEF mv
  <2> HIDE DEF src, tar
  <2>9. command.found[2] \in Clusters \ {FAT_CLUSTER_NUMBER}
    BY <2>3 DEF ShellClusters
  <2>10. DriverKept' /\ (UNCHANGED fsVars \/ (Ready /\ ShellOperation))
    BY <1>2, <2>5, <2>6, <2>7, <2>8, <2>9, ShellMoves
  <2>11. ShellDisk' /\ Tree!Next
    BY <1>2, <2>10, DoesOrRefuses
  <2>12. MoveRefusal(src, tar) \in -1 .. 4 /\ -1 \in -1 .. 4
    BY DEF MoveRefusal
  <2> QED
    BY <1>1, <1>2, <2>8, <2>11, <2>12, EndKeeps
<1> QED
  BY <1>3, <1>4 DEF mv

\* The other shell.
LEMMA OtherKeeps ==
  ASSUME ShellKept, Ready, Other
  PROVE  ShellKept' /\ Tree!Next
<1>1. /\ UNCHANGED <<cwd_cluster_number, report>> /\ ShellDisk /\ DriverKept /\ TreeKept
      /\ WellFormed(command) /\ MovesAside /\ command \in CommandType
      /\ cwd_cluster_number \in ShellClusters /\ elsewhere \in ShellClusters /\ report \in -1 .. 4
  BY DEF ShellKept, ShellDisk, WellFormed, Other
<1>2. Image = disk /\ FolderClusters = Live(disk) /\ Sound(disk, fat, Live(disk))
  BY <1>1, SoundAtRest
<1>3. ASSUME NEW c \in FolderClusters, elsewhere' = c, UNCHANGED fsVars, command' = command
      PROVE  ShellKept' /\ Tree!Next
  <2>1. ShellDisk' /\ Tree!Next
    BY <1>1, <1>3, ShellDiskStays
  <2>2. elsewhere' \in ShellClusters
    BY <1>2, <1>3, LiveBehind
  <2>3. \A b : Taken(b)' <=> Taken(b)
    BY <1>3 DEF Taken, Image, fsVars
  <2>4. MovesAside'
    BY <1>1, <1>3, <2>3 DEF MovesAside, Reached
  <2> QED
    BY <1>1, <1>3, <2>1, <2>2, <2>4 DEF ShellKept
<1>4. ASSUME NEW op, NEW n \in Names, NEW ret, NEW reported, MakeOrRemove(op, elsewhere, n, ret, reported),
             command' = command \/ command' = [command EXCEPT !.alone = FALSE], elsewhere' = elsewhere
      PROVE  ShellKept' /\ Tree!Next
  <2>1. DriverKept' /\ (UNCHANGED fsVars \/ (Ready /\ NewFolderOrLess))
    BY <1>1, <1>4, MakeOrRemoveDoes DEF ShellClusters
  <2>2. NewFolderOrLess => ShellOperation
    BY DEF NewFolderOrLess, ShellOperation
  <2>3. ShellDisk' /\ Tree!Next
    BY <1>1, <2>1, <2>2, DoesOrRefuses
  <2>4. ASSUME NEW b, Taken(b)' PROVE Taken(b)
    <3>1. CASE UNCHANGED fsVars
      BY <2>4, <3>1 DEF Taken, Image, fsVars
    <3>2. CASE NewFolderOrLess
      BY <1>1, <1>2, <2>4, <3>2, NoFileComes DEF Taken
    <3> QED
      BY <2>1, <3>1, <3>2
  <2>5. /\ command' \in CommandType /\ command'.found = command.found /\ command'.at = command.at
        /\ command'.op = command.op /\ command'.src = command.src /\ command'.dst = command.dst
        /\ command'.buffer = command.buffer
    BY <1>1, <1>4 DEF CommandType
  <2>6. WellFormed(command')
    BY <1>1, <2>5 DEF WellFormed
  <2>7. Reached(command') = Reached(command)
    BY <2>5 DEF Reached
  <2>8. MovesAside'
    BY <1>1, <2>4, <2>5, <2>7 DEF MovesAside
  <2> QED
    BY <1>1, <1>4, <2>3, <2>6, <2>8 DEF ShellKept
<1> QED
  BY <1>3, <1>4 DEF Other

\* Every step of two shells.
LEMMA ShellStepKeeps ==
  ASSUME ShellKept, [ShellNext]_shellVars
  PROVE  ShellKept' /\ Tree!Next
<1>1. CASE UNCHANGED shellVars
  <2>1. UNCHANGED fsVars /\ UNCHANGED <<cwd_cluster_number, elsewhere, command, report>>
    BY <1>1 DEF shellVars, systemVars
  <2>2. ShellDisk' /\ Tree!Next
    BY <2>1, ShellDiskStays DEF ShellKept
  <2>3. \A b : Taken(b)' <=> Taken(b)
    BY <2>1 DEF Taken, Image, fsVars
  <2>4. MovesAside'
    BY <2>1, <2>3 DEF MovesAside, Reached, ShellKept
  <2> QED
    BY <2>1, <2>2, <2>4 DEF ShellKept
<1>2. CASE Ready /\ Type
  BY <1>2, TypeKeeps
<1>3. CASE Ready /\ CarefulPath /\ Run
  <2>1. CASE get_final_parent_cluster
    BY <1>3, <2>1, ResolveKeeps
  <2>2. CASE cd
    BY <1>3, <2>2, CdKeeps
  <2>3. CASE make_or_remove
    BY <1>3, <2>3, MakeOrRemoveKeeps
  <2>4. CASE cp_mv_unresolved
    BY <1>3, <2>4, UnresolvedKeeps
  <2>5. CASE cp_read
    BY <1>3, <2>5, CpReadKeeps
  <2>6. CASE cp_write
    BY <1>3, <2>6, CpWriteKeeps
  <2>7. CASE mv
    BY <1>3, <2>7, MvKeeps
  <2> QED
    BY <1>3, <2>1, <2>2, <2>3, <2>4, <2>5, <2>6, <2>7 DEF Run
<1>4. CASE Ready /\ Other
  BY <1>4, OtherKeeps
<1>5. CASE Settle
  <2>1. /\ queue' = <<>> /\ disk' = Image /\ busy' = 0 /\ fat' = fat /\ power' = power
        /\ UNCHANGED <<cwd_cluster_number, elsewhere, command, report>>
    BY <1>5 DEF Settle
  <2>2. ShellDisk' /\ Tree!Next /\ Image' = Image
    BY <2>1, SettleKeeps DEF ShellKept
  <2>3. \A b : Taken(b)' <=> Taken(b)
    BY <2>1, <2>2 DEF Taken
  <2>4. MovesAside'
    BY <2>1, <2>3 DEF MovesAside, Reached, ShellKept
  <2> QED
    BY <2>1, <2>2, <2>4 DEF ShellKept
<1> QED
  BY <1>1, <1>2, <1>3, <1>4, <1>5 DEF ShellNext

-----------------------------------------------------------------------------
(* The disk the machine starts with *)

FirstLength == (FirstSize + CLUSTER_SIZE - 1) \div CLUSTER_SIZE

FirstEntry == [name |-> FirstFile, ext |-> NoExt, folder |-> FALSE, used |-> TRUE,
               cluster |-> 3, size |-> FirstSize]

\* What the first file takes is there.
LEMMA FirstFits ==
  /\ FirstLength \in Nat /\ FirstLength > 0 /\ FirstLength <= CLUSTER_MAP_SIZE - 3
  /\ FirstEntry \in EntryType /\ ClustersFor(FirstEntry) = FirstLength
<1> DEFINE m == CLUSTER_MAP_SIZE - 3
<1>1. FirstSize \in Nat /\ FirstSize # 0 /\ m \in Nat /\ FirstSize <= CLUSTER_SIZE * m /\ FirstFile \in Names
  BY ShellAssumption, Fat32Assumption, ClusterRange
<1> HIDE DEF m
<1>2. FirstLength \in Nat /\ FirstLength > 0 /\ FirstLength <= m
  BY <1>1, NeededClusters DEF FirstLength
<1>3. NoExt \in Exts
  BY Fat32Assumption
<1>4. FirstEntry \in EntryType
  BY <1>1, <1>3, ClusterRange DEF FirstEntry, EntryType
<1>5. ClustersFor(FirstEntry) = FirstLength
  BY DEF FirstEntry, ClustersFor, FirstLength
<1> QED
  BY <1>2, <1>4, <1>5 DEF m

\* A disk with a file in its root and nothing else is sound.
LEMMA FirstSound ==
  ASSUME NEW d \in [Clusters -> Stored], NEW map, NEW root \in Tables,
         EntriesOn(d, ROOT_CLUSTER_NUMBER) = root,
         root[0].used, root[2] = FirstEntry, \A i \in Items \ {2} : root[i] = NoEntry,
         root[1].name = "..", root[1].cluster = ROOT_CLUSTER_NUMBER,
         NEW s, Linked(map, s), s[1] = 3, Len(s) = FirstLength
  PROVE  Sound(d, map, Live(d)) /\ Labelled(d) /\ Titled(d)
<1> DEFINE R == ROOT_CLUSTER_NUMBER
           X == {R}
           p == <<R, 2>>
<1>1. DIRECTORY_LENGTH \in Nat /\ DIRECTORY_LENGTH > 3
  BY ShellAssumption, IndexRange
<1>2. 2 \in Items /\ 3 \in Items /\ R \in Clusters
  BY <1>1, ClusterRange, SMT DEF Items, ROOT_CLUSTER_NUMBER
<1>3. FirstEntry.used /\ ~FirstEntry.folder /\ FirstEntry.cluster = 3 /\ ~NoEntry.used
      /\ NoEntry.name = NoName /\ FirstEntry.name = FirstFile /\ FirstEntry.ext = NoExt
  BY DEF FirstEntry, NoEntry
<1>4. Tidy(root)
  <2>1. 3 \in Holes(root)
    BY <1>2, <1>3 DEF Holes
  <2>2. FirstHole(root) \in Items /\ ~root[FirstHole(root)].used /\ ~Full(root)
    BY <2>1, FirstHoleIs DEF Full
  <2>3. FirstHole(root) # 2
    BY <1>3, <2>2
  <2>4. \A i \in Items : i >= FirstHole(root) => i # 2
    BY <2>2, <2>3, IndexRange
  <2> QED
    BY <1>3, <2>2, <2>4 DEF Tidy
<1>5. SubfoldersOn(d, X) = {}
  BY <1>3 DEF SubfoldersOn
<1>6. Live(d) = X
  BY <1>5, LiveIsLeast
<1>7. PlacesIn(d, X) = {p} /\ At(d, p) = FirstEntry
  BY <1>2, <1>3 DEF PlacesIn, At
<1>8. Owned(map, FirstEntry)
  <2>1. Chain(map, 3) = s
    BY ChainOf
  <2> QED
    BY <1>3, <2>1, FirstFits DEF Owned
<1>9. X \in SUBSET Clusters /\ R \in X /\ SubfoldersOn(d, X) \subseteq X
  BY <1>2, <1>5
<1> HIDE DEF X, p
<1>10. OwnChains(d, map, PlacesIn(d, X))
  BY <1>7, <1>8 DEF OwnChains
<1>11. Sound(d, map, X)
  BY <1>3, <1>4, <1>7, <1>9, <1>10 DEF Sound, X
<1>12. Labelled(d)
  BY <1>3, <1>6, <1>7 DEF Labelled, OneName
<1>13. Titled(d)
  BY <1>3, <1>6, <1>7, ShellAssumption DEF Titled, X
<1> QED
  BY <1>6, <1>11, <1>12, <1>13

\* The shells start.
LEMMA ShellStarts == ShellInit => ShellKept
<1> DEFINE map   == [c \in Clusters |-> IF c = 0 THEN CLUSTER_0_VALUE
                                        ELSE IF c = 1 THEN CLUSTER_1_VALUE
                                        ELSE IF c = 2 THEN FAT32_FAT_END_OF_FILE
                                        ELSE FAT32_FAT_EMPTY_ENTRY]
           chain == [k \in 1 .. FirstLength |-> k + 2]
           words == LinkChain(map, chain, Len(chain))
           root  == [NoEntries EXCEPT ![0] = FolderEntry(".", ROOT_CLUSTER_NUMBER),
                                      ![1] = FolderEntry("..", ROOT_CLUSTER_NUMBER),
                                      ![2] = FirstEntry]
<1> SUFFICES ASSUME ShellInit PROVE ShellKept
  OBVIOUS
<1>1. /\ fat = words /\ queue = <<>> /\ busy = 0 /\ power = "on" /\ command = Idle /\ report = 0
      /\ cwd_cluster_number = ROOT_CLUSTER_NUMBER /\ elsewhere = ROOT_CLUSTER_NUMBER
  BY DEF ShellInit, FirstLength
<1>2. PICK x \in Contents :
        disk = [c \in Clusters |->
                  CASE c = BOOT_SECTOR -> Signature
                    [] c = FAT_CLUSTER_NUMBER -> Fat(words)
                    [] c = ROOT_CLUSTER_NUMBER -> Table(root)
                    [] c \in 3 .. Len(chain) + 2 -> Bytes(x, c - 2)
                    [] OTHER -> Zeroes]
  BY DEF ShellInit, FirstLength, FirstEntry
<1>3. map \in FatMaps
  <2>1. CLUSTER_1_VALUE = FAT32_FAT_END_OF_FILE
    BY SMT DEF CLUSTER_1_VALUE, FAT32_FAT_END_OF_FILE
  <2> QED
    BY <2>1, FatWordValues DEF FatMaps
<1>4. /\ chain \in Seq(Clusters) /\ Len(chain) = FirstLength /\ chain[1] = 3 /\ chain # <<>>
      /\ \A k \in DOMAIN chain : chain[k] >= 3
      /\ \A k, l \in DOMAIN chain : chain[k] = chain[l] => k = l
  <2>1. FirstLength \in Nat /\ FirstLength > 0 /\ FirstLength <= CLUSTER_MAP_SIZE - 3
    BY FirstFits
  <2>2. \A k \in 1 .. FirstLength : k + 2 \in Clusters
    BY <2>1, ClusterRange DEF Clusters
  <2> QED
    BY <2>1, <2>2
<1> HIDE DEF map, chain
<1>5. words \in FatMaps /\ Linked(words, chain)
  BY <1>3, <1>4, LinkTyped, ChainLinked
<1> HIDE DEF words
<1>6. root \in Tables /\ root[0].used /\ root[2] = FirstEntry /\ (\A i \in Items \ {2} : root[i] = NoEntry)
      /\ root[1].name = ".." /\ root[1].cluster = ROOT_CLUSTER_NUMBER
  <2>1. FolderEntry(".", ROOT_CLUSTER_NUMBER) \in EntryType
        /\ FolderEntry("..", ROOT_CLUSTER_NUMBER) \in EntryType
    BY EntryValues, ClusterRange DEF ROOT_CLUSTER_NUMBER
  <2>2. 2 \in Indices
    BY IndexRange
  <2>3. root \in Tables
    BY <2>1, EntryValues, FirstFits DEF Tables
  <2>4. /\ root[0] = FolderEntry(".", ROOT_CLUSTER_NUMBER) /\ root[2] = FirstEntry
        /\ root[1] = FolderEntry("..", ROOT_CLUSTER_NUMBER) /\ (\A i \in Items \ {2} : root[i] = NoEntry)
    BY <2>2, IndexRange DEF NoEntries
  <2> HIDE DEF root
  <2> QED
    BY <2>3, <2>4 DEF FolderEntry
<1> HIDE DEF root
<1> DEFINE content(c) == CASE c = BOOT_SECTOR -> Signature
                           [] c = FAT_CLUSTER_NUMBER -> Fat(words)
                           [] c = ROOT_CLUSTER_NUMBER -> Table(root)
                           [] c \in 3 .. Len(chain) + 2 -> Bytes(x, c - 2)
                           [] OTHER -> Zeroes
<1>7. \A c \in Clusters : content(c) \in Stored
  <2> TAKE c \in Clusters
  <2>1. /\ c = BOOT_SECTOR \/ c = FAT_CLUSTER_NUMBER \/ c = ROOT_CLUSTER_NUMBER
             \/ c \in 3 .. Len(chain) + 2 \/ c \notin 3 .. Len(chain) + 2
    OBVIOUS
  <2>2. c \in 3 .. Len(chain) + 2 => c - 2 \in Nat
    BY <1>4
  <2>3. Signature \in Stored /\ Fat(words) \in Stored /\ Table(root) \in Stored /\ Zeroes \in Stored
    BY <1>5, <1>6, StoredValues, EntryValues
  <2>4. c \in 3 .. Len(chain) + 2 => Bytes(x, c - 2) \in Stored
    BY <2>2, StoredValues
  <2> QED
    BY <2>3, <2>4, Zenon
<1>8. disk = [c \in Clusters |-> content(c)]
  BY <1>2, Zenon
<1>9. content(FAT_CLUSTER_NUMBER) = Fat(words) /\ content(ROOT_CLUSTER_NUMBER) = Table(root)
  <2>1. /\ FAT_CLUSTER_NUMBER # BOOT_SECTOR /\ ROOT_CLUSTER_NUMBER # BOOT_SECTOR
        /\ ROOT_CLUSTER_NUMBER # FAT_CLUSTER_NUMBER
        /\ FAT_CLUSTER_NUMBER \notin 3 .. Len(chain) + 2 /\ ROOT_CLUSTER_NUMBER \notin 3 .. Len(chain) + 2
    BY <1>4 DEF FAT_CLUSTER_NUMBER, BOOT_SECTOR, ROOT_CLUSTER_NUMBER
  <2> QED
    BY <2>1
<1> HIDE DEF content
<1>10. FAT_CLUSTER_NUMBER \in Clusters /\ ROOT_CLUSTER_NUMBER \in Clusters
  BY ClusterRange DEF FAT_CLUSTER_NUMBER, ROOT_CLUSTER_NUMBER
<1>11. /\ disk \in [Clusters -> Stored] /\ disk[FAT_CLUSTER_NUMBER] = Fat(fat)
       /\ EntriesOn(disk, ROOT_CLUSTER_NUMBER) = root
  BY <1>1, <1>7, <1>8, <1>9, <1>10, EntriesAre
<1>12. Sound(disk, fat, Live(disk)) /\ Labelled(disk) /\ Titled(disk)
  BY <1>1, <1>4, <1>5, <1>6, <1>11, FirstSound
<1>13. ImageOf(disk, <<>>) = disk /\ Image = disk
  <2>1. ImageOf(disk, <<>>) = disk
    BY <1>11, NoWrites
  <2> QED
    BY <1>1, <2>1, ImageIs
<1>14. DriverKept
  <2>1. DriverTypes
    BY <1>1, <1>5, <1>11, ClusterRange DEF DriverTypes
  <2>2. FatKept
    BY <1>1, <1>11 DEF FatKept, NoFatIn, Fat
  <2> QED
    BY <2>1, <2>2 DEF DriverKept
<1>15. TreeKept
  BY <1>1, <1>12, <1>13 DEF TreeKept
<1>16. CrashKept
  <2>1. FatIn(disk) = fat
    BY <1>11 DEF FatIn, Fat
  <2>2. Confined(disk, disk, fat, busy)
    BY <2>1, SameConfined
  <2>3. ASSUME NEW n \in 0 .. Len(queue)
        PROVE  ImageOf(disk, SubSeq(queue, 1, n)) = disk
    <3>1. n = 0 /\ SubSeq(<<>>, 1, 0) = <<>>
      BY <1>1
    <3>2. SubSeq(queue, 1, n) = <<>>
      BY <1>1, <3>1
    <3> QED
      BY <1>13, <3>2
  <2> QED
    BY <1>11, <1>13, <2>2, <2>3 DEF CrashKept
<1>17. ShellDisk
  BY <1>1, <1>12, <1>13, <1>14, <1>15, <1>16 DEF ShellDisk
<1>18. cwd_cluster_number \in ShellClusters /\ elsewhere \in ShellClusters
  BY <1>1, <1>10 DEF ShellClusters, ROOT_CLUSTER_NUMBER, BOOT_SECTOR, FAT_CLUSTER_NUMBER
<1>19. WellFormed(command) /\ MovesAside
  BY <1>1, IdleIs DEF MovesAside
<1> QED
  BY <1>1, <1>17, <1>18, <1>19 DEF ShellKept

-----------------------------------------------------------------------------
(* What two shells can rely on *)

\* The invariant of the shells, and what its steps do to the tree.
LEMMA ShellAlways == ShellSpec => []ShellKept /\ [][Tree!Next]_fsVars
<1>1. ShellInit => ShellKept
  BY ShellStarts
<1>2. ShellKept /\ [ShellNext]_shellVars => ShellKept' /\ [Tree!Next]_fsVars
  BY ShellStepKeeps
<1> QED
  BY <1>1, <1>2, PTL DEF ShellSpec

\* Whatever two shells do, where each command works in folders that are there or show nothing,
\* every step changes the tree of files as a file system may (fat32.c and shell_cmd.c).
THEOREM ShellsNeverHarmTheTree == ShellSpec => ShellsKeepTree
BY ShellAlways, PTL DEF ShellsKeepTree

\* What it says of the types.
LEMMA KeptIsShellTypeOK == ShellKept => ShellTypeOK
<1> SUFFICES ASSUME ShellKept PROVE ShellTypeOK
  OBVIOUS
<1>1. /\ command \in CommandType /\ Len(command.found) <= 2 /\ report \in -1 .. 4
      /\ {cwd_cluster_number, elsewhere} \subseteq ShellClusters
  BY DEF ShellKept, WellFormed
<1>2. \A k \in DOMAIN command.found : command.found[k] \in ShellClusters \cup {NotFound}
  BY <1>1 DEF CommandType
<1>3. ShellClusters \cup {NotFound} \subseteq Clusters
  BY ClusterRange DEF ShellClusters, NotFound
<1> QED
  BY <1>1, <1>2, <1>3 DEF ShellTypeOK, CommandType, ShellClusters

-----------------------------------------------------------------------------
(* The prompt *)

\* The folder above, as print_path_from_root sees it.
FolderAbove(c) == IF c = ROOT_CLUSTER_NUMBER THEN ROOT_CLUSTER_NUMBER ELSE Entries(c)[1].cluster

\* It goes from folder to folder.
LEMMA PromptSteps ==
  ASSUME disk \in [Clusters -> Stored], NEW c \in AnyCluster
  PROVE  /\ PromptUp(c) \in [0 .. CLUSTER_MAP_SIZE -> AnyCluster] /\ PromptUp(c)[0] = c
         /\ \A n \in 0 .. CLUSTER_MAP_SIZE - 1 : PromptUp(c)[n + 1] = FolderAbove(PromptUp(c)[n])
<1> DEFINE N == CLUSTER_MAP_SIZE
           D == AnyCluster
           F == [p \in (0 .. N) \X D |-> FolderAbove(p[2])]
           Rec(h) == h = [n \in 0 .. N |-> IF n = 0 THEN c
                                           ELSE IF h[n - 1] = ROOT_CLUSTER_NUMBER THEN ROOT_CLUSTER_NUMBER
                                           ELSE get_curr_working_dir(h[n - 1])[1].cluster]
           w == CHOOSE h : Rec(h)
<1>1. N \in Nat /\ c \in D
  BY ClusterRange
<1>2. \A x \in D : FolderAbove(x) \in D
  <2> TAKE x \in D
  <2>1. Entries(x) \in Tables
    BY EntriesTyped DEF Entries
  <2>2. Entries(x)[1].cluster \in AnyCluster
    BY <2>1, IndexRange DEF Tables, EntryType, AnyCluster
  <2>3. ROOT_CLUSTER_NUMBER \in AnyCluster
    BY ClusterRange DEF ROOT_CLUSTER_NUMBER, AnyCluster
  <2> QED
    BY <2>2, <2>3 DEF FolderAbove
<1> HIDE DEF N, D
<1>3. F \in StepMaps(N, D)
  BY <1>2 DEF StepMaps
<1>4. PICK f \in [0 .. N -> D] : Iterates(f, N, c, F)
  <2> HIDE DEF F
  <2> QED
    BY <1>1, <1>3, Iterated
<1>5. \A n \in 0 .. N - 1 : f[n + 1] = FolderAbove(f[n])
  <2> TAKE n \in 0 .. N - 1
  <2>1. n \in 0 .. N /\ f[n] \in D
    BY <1>1
  <2>2. f[n + 1] = F[<<n, f[n]>>]
    BY <1>4 DEF Iterates
  <2>3. F[<<n, f[n]>>] = FolderAbove(f[n])
    BY <2>1
  <2> QED
    BY <2>2, <2>3
<1>6. Rec(f)
  <2>1. ASSUME NEW n \in 0 .. N
        PROVE  f[n] = IF n = 0 THEN c ELSE IF f[n - 1] = ROOT_CLUSTER_NUMBER THEN ROOT_CLUSTER_NUMBER
                                      ELSE get_curr_working_dir(f[n - 1])[1].cluster
    <3>1. CASE n = 0
      BY <1>4, <3>1 DEF Iterates
    <3>2. CASE n # 0
      <4>1. n - 1 \in 0 .. N - 1 /\ (n - 1) + 1 = n
        BY <1>1, <3>2
      <4>2. f[n] = FolderAbove(f[n - 1])
        BY <1>5, <4>1
      <4> QED
        BY <3>2, <4>2 DEF FolderAbove, get_curr_working_dir
    <3> QED
      BY <3>1, <3>2
  <2> QED
    BY <2>1
<1>7. Rec(w)
  BY <1>6
<1>8. PromptUp(c) = w
  BY DEF PromptUp, N
<1> HIDE DEF w, F
<1>9. w[0] = c /\ \A n \in 0 .. N - 1 : w[n + 1] = FolderAbove(w[n])
  <2>1. 0 \in 0 .. N
    BY <1>1
  <2>2. ASSUME NEW n \in 0 .. N - 1 PROVE w[n + 1] = FolderAbove(w[n])
    <3>1. n + 1 \in 0 .. N /\ n + 1 # 0 /\ (n + 1) - 1 = n
      BY <1>1
    <3> QED
      BY <1>7, <3>1 DEF FolderAbove, get_curr_working_dir
  <2> QED
    BY <1>7, <2>1, <2>2
<1>10. \A n \in 0 .. N : w[n] \in D
  <2> DEFINE E == {n \in 0 .. N : w[n] \in D}
  <2>1. E \in SUBSET (0 .. N) /\ 0 \in E
    BY <1>1, <1>9
  <2>2. \A n \in 0 .. N - 1 : n \in E => n + 1 \in E
    BY <1>1, <1>2, <1>9
  <2> HIDE DEF E
  <2>3. E = 0 .. N
    BY <1>1, <2>1, <2>2, AllUpTo
  <2> QED
    BY <2>3 DEF E
<1>11. w \in [0 .. N -> D]
  BY <1>7, <1>10
<1> QED
  BY <1>8, <1>9, <1>11 DEF N, D

\* From the root it goes nowhere, and from another folder on as from the one above.
LEMMA PromptGoesUp ==
  ASSUME disk \in [Clusters -> Stored], NEW c \in AnyCluster, NEW b \in AnyCluster, FolderAbove(c) = b
  PROVE  /\ \A n \in 0 .. CLUSTER_MAP_SIZE - 1 : PromptUp(c)[n + 1] = PromptUp(b)[n]
         /\ c = ROOT_CLUSTER_NUMBER => \A n \in 0 .. CLUSTER_MAP_SIZE : PromptUp(c)[n] = c
<1> DEFINE N == CLUSTER_MAP_SIZE
           u == PromptUp(c)
           v == PromptUp(b)
<1>1. /\ N \in Nat /\ N > 0 /\ u[0] = c /\ v[0] = b
      /\ \A n \in 0 .. N - 1 : u[n + 1] = FolderAbove(u[n]) /\ v[n + 1] = FolderAbove(v[n])
  BY ClusterRange, PromptSteps
<1> HIDE DEF N, u, v
<1>2. \A n \in 0 .. N - 1 : u[n + 1] = v[n]
  <2> DEFINE M == N - 1
             E == {n \in 0 .. M : u[n + 1] = v[n]}
  <2>1. E \in SUBSET (0 .. M) /\ 0 \in E /\ M \in Nat
    BY <1>1
  <2>2. ASSUME NEW n \in 0 .. M - 1, n \in E PROVE n + 1 \in E
    <3>1. n \in 0 .. N - 1 /\ n + 1 \in 0 .. N - 1
      BY <1>1
    <3>2. u[(n + 1) + 1] = FolderAbove(u[n + 1]) /\ v[n + 1] = FolderAbove(v[n])
      BY <1>1, <3>1
    <3> QED
      BY <2>2, <3>1, <3>2
  <2> HIDE DEF E
  <2>3. E = 0 .. M
    BY <2>1, <2>2, AllUpTo
  <2> QED
    BY <2>3 DEF E
<1>3. ASSUME c = ROOT_CLUSTER_NUMBER PROVE \A n \in 0 .. N : u[n] = c
  <2> DEFINE E == {n \in 0 .. N : u[n] = c}
  <2>1. E \in SUBSET (0 .. N) /\ 0 \in E
    BY <1>1
  <2>2. ASSUME NEW n \in 0 .. N - 1, n \in E PROVE n + 1 \in E
    BY <1>1, <1>3, <2>2 DEF FolderAbove
  <2> HIDE DEF E
  <2>3. E = 0 .. N
    BY <1>1, <2>1, <2>2, AllUpTo
  <2> QED
    BY <2>3 DEF E
<1> QED
  BY <1>2, <1>3 DEF N, u, v

\* What the prompt shows in the folder of an object: a name for each in the object's path, and
\* then it is at the root.
Prompted(o) ==
  LET up == PromptUp(o[2].cluster)
      m  == Len(o[1])
  IN  /\ \A n \in 0 .. CLUSTER_MAP_SIZE : n < m =>
           up[n] # ROOT_CLUSTER_NUMBER /\ Entries(up[n])[0].name = o[1][m - n][1]
      /\ \A n \in 0 .. CLUSTER_MAP_SIZE : n >= m => up[n] = ROOT_CLUSTER_NUMBER

\* So it is in every folder.
LEMMA AllPrompted ==
  ASSUME disk \in [Clusters -> Stored], Sound(disk, fat, Live(disk)), Titled(disk),
         NEW o \in ObjectsOn(disk), o[2].folder
  PROVE  Prompted(o)
<1> DEFINE Z == {x \in ObjectsOn(disk) : x[2].folder => Prompted(x)}
<1>1. RootObject \in Z
  <2> DEFINE R == ROOT_CLUSTER_NUMBER
  <2>1. R \in AnyCluster /\ FolderAbove(R) = R
    BY ClusterRange DEF FolderAbove, AnyCluster, ROOT_CLUSTER_NUMBER
  <2>2. \A n \in 0 .. CLUSTER_MAP_SIZE : PromptUp(R)[n] = R
    <3> HIDE DEF R
    <3> QED
      BY <2>1, PromptGoesUp DEF R
  <2>3. RootObject[1] = <<>> /\ Len(RootObject[1]) = 0 /\ RootObject[2].cluster = R
    BY RootIs
  <2>4. \A n \in 0 .. CLUSTER_MAP_SIZE : ~(n < 0)
    BY ClusterRange
  <2>5. Prompted(RootObject)
    BY <2>2, <2>3, <2>4 DEF Prompted
  <2> QED
    BY <2>5, ObjectsLeast
<1>2. ASSUME NEW a \in ObjectsOn(disk) \cap Z, NEW p \in PlacesIn(disk, Live(disk)),
             a[2].folder, p[1] = a[2].cluster
      PROVE  <<Append(a[1], Label(At(disk, p))), At(disk, p)>> \in Z
  <2> DEFINE x == At(disk, p)
             y == There(a, x)
             c == x.cluster
             b == a[2].cluster
             s == a[1]
             m == Len(s)
             N == CLUSTER_MAP_SIZE
             l == Label(x)
  <2>1. /\ y \in ObjectsOn(disk) /\ y[1] = Append(s, l) /\ y[2] = x
        /\ s \in Seq(LabelSet) /\ l \in LabelSet /\ a \in ObjectsOn(disk)
    BY <1>2, ThereIs
  <2>2. ASSUME x.folder PROVE Prompted(y)
    <3>1. Prompted(a)
      BY <1>2
    <3>2. c \in Live(disk) /\ b \in Live(disk) /\ c # ROOT_CLUSTER_NUMBER
      <4>1. y[2].folder /\ y[2].cluster = c
        BY <2>1, <2>2
      <4>2. c \in Live(disk)
        BY <2>1, <4>1, ObjectTyped
      <4>3. b \in Live(disk)
        BY <1>2, ObjectTyped
      <4>4. c >= 3
        BY OnePlace
      <4> QED
        BY <4>2, <4>3, <4>4 DEF ROOT_CLUSTER_NUMBER
    <3>3. FolderAbove(c) = b
      BY <1>2, <2>2, <3>2 DEF Sound, FolderAbove, Entries
    <3>4. c \in AnyCluster /\ b \in AnyCluster
      BY <3>2, LiveIsLeast DEF AnyCluster
    <3>5. Entries(c)[0].name = l[1]
      BY <2>2 DEF Titled, Entries, Label
    <3> DEFINE u == PromptUp(c)
               v == PromptUp(b)
               t == Append(s, l)
    <3>6. u[0] = c /\ \A n \in 0 .. N - 1 : u[n + 1] = v[n]
      BY <3>3, <3>4, PromptSteps, PromptGoesUp
    <3>7. /\ \A n \in 0 .. N : n < m => v[n] # ROOT_CLUSTER_NUMBER /\ Entries(v[n])[0].name = s[m - n][1]
          /\ \A n \in 0 .. N : n >= m => v[n] = ROOT_CLUSTER_NUMBER
      BY <3>1 DEF Prompted
    <3> HIDE DEF u, v, N
    <3>8. /\ m \in Nat /\ Len(t) = m + 1 /\ t[m + 1] = l /\ (\A k \in 1 .. m : t[k] = s[k]) /\ N \in Nat
      BY <2>1, ClusterRange DEF N
    <3> HIDE DEF t, m, s, l, c, b
    <3>9. ASSUME NEW n \in 0 .. N
          PROVE  /\ n < m + 1 => u[n] # ROOT_CLUSTER_NUMBER /\ Entries(u[n])[0].name = t[(m + 1) - n][1]
                 /\ n >= m + 1 => u[n] = ROOT_CLUSTER_NUMBER
      <4>1. CASE n = 0
        <5>1. (m + 1) - n = m + 1 /\ ~(n >= m + 1)
          BY <3>8, <4>1
        <5> QED
          BY <3>2, <3>5, <3>6, <3>8, <4>1, <5>1
      <4>2. CASE n # 0
        <5> DEFINE k == n - 1
        <5>1. k \in 0 .. N - 1 /\ k \in 0 .. N /\ k + 1 = n
          BY <3>8, <4>2
        <5>2. u[n] = v[k]
          BY <3>6, <5>1
        <5>3. CASE n < m + 1
          <6>1. k < m /\ (m + 1) - n = m - k /\ m - k \in 1 .. m /\ ~(n >= m + 1)
            BY <3>8, <4>2, <5>3
          <6> HIDE DEF k
          <6> QED
            BY <3>7, <3>8, <5>1, <5>2, <6>1
        <5>4. CASE n >= m + 1
          <6>1. k >= m /\ ~(n < m + 1)
            BY <3>8, <4>2, <5>4
          <6> HIDE DEF k
          <6> QED
            BY <3>7, <5>1, <5>2, <6>1
        <5> QED
          BY <3>8, <5>3, <5>4
      <4> QED
        BY <4>1, <4>2
    <3>10. y[2].cluster = c /\ y[1] = t
      BY <2>1 DEF c, t, s, l
    <3> HIDE DEF y, x
    <3> QED
      BY <3>8, <3>9, <3>10 DEF Prompted, u, N
  <2>3. y = <<Append(a[1], Label(At(disk, p))), At(disk, p)>>
    BY DEF There
  <2> HIDE DEF y
  <2> QED
    BY <2>1, <2>2, <2>3
<1> HIDE DEF Z
<1>3. ObjectsOn(disk) \subseteq Z
  BY <1>1, <1>2, ObjectInduction
<1> QED
  BY <1>3 DEF Z

\* What it says of the prompts.
LEMMA KeptIsPromptIsPath == ShellKept => PromptIsPath
<1> SUFFICES ASSUME ShellKept, Ready, NEW c \in FolderClusters
             PROVE  print_path_from_root(c) \in {[k \in DOMAIN p |-> p[k][1]] : p \in PathsTo(c)}
  BY DEF PromptIsPath
<1>1. /\ disk \in [Clusters -> Stored] /\ Sound(disk, fat, Live(disk)) /\ Titled(disk)
      /\ c \in Live(disk)
  BY SoundAtRest DEF ShellKept, ShellDisk
<1>2. PICK o \in ObjectsOn(disk) : o[2].folder /\ o[2].cluster = c
  BY <1>1, LiveObject
<1>3. Prompted(o)
  BY <1>1, <1>2, AllPrompted
<1> DEFINE N == CLUSTER_MAP_SIZE
           u == PromptUp(c)
           p == o[1]
           m == Len(p)
           deep == {n \in DOMAIN u : u[n] # ROOT_CLUSTER_NUMBER}
<1>4. p \in PathsTo(c)
  BY <1>2 DEF PathsTo
<1>5. p \in Seq(LabelSet) /\ m \in Nat /\ DOMAIN p = 1 .. m
  BY <1>1, ObjectTyped
<1>6. m <= N /\ N \in Nat
  <2>1. PICK b : b \in ObjectLevels(disk)
    BY <1>1, ObjectSteps
  <2>2. Depth \in Nat /\ Depth <= N /\ N \in Nat
    BY ClusterRange DEF Depth
  <2>3. Depth \in 0 .. Depth /\ o \in b[Depth]
    BY <2>1, <2>2 DEF ObjectLevels
  <2>4. m \in 0 .. Depth
    BY <1>1, <2>1, <2>3, LevelsGrow
  <2> QED
    BY <2>2, <2>4
<1>7. DOMAIN u = 0 .. N
  <2>1. c \in AnyCluster
    BY <1>1, LiveIsLeast DEF AnyCluster
  <2> QED
    BY <1>1, <2>1, PromptSteps
<1>8. /\ \A n \in 0 .. N : n < m => u[n] # ROOT_CLUSTER_NUMBER /\ Entries(u[n])[0].name = p[m - n][1]
      /\ \A n \in 0 .. N : n >= m => u[n] = ROOT_CLUSTER_NUMBER
  BY <1>2, <1>3 DEF Prompted
<1>9. print_path_from_root(c) = [k \in 1 .. Cardinality(deep) |-> Entries(u[Cardinality(deep) - k])[0].name]
  BY DEF print_path_from_root, get_curr_working_dir
<1> HIDE DEF u, p, m, N
<1>10. Cardinality(deep) = m
  <2>1. ROOT_CLUSTER_NUMBER = 2
    BY DEF ROOT_CLUSTER_NUMBER
  <2>2. deep \subseteq 0 .. m - 1
    BY <1>5, <1>6, <1>7, <1>8
  <2>3. 0 .. m - 1 \subseteq deep
    BY <1>5, <1>6, <1>7, <1>8
  <2>4. deep = 0 .. m - 1
    BY <2>2, <2>3
  <2>5. Cardinality(0 .. m - 1) = m
    BY <1>5, FS_Interval
  <2> QED
    BY <2>4, <2>5
<1> HIDE DEF deep
<1>11. \A k \in 1 .. m : Entries(u[m - k])[0].name = p[k][1]
  <2> TAKE k \in 1 .. m
  <2>1. m - k \in 0 .. N /\ m - k < m /\ m - (m - k) = k
    BY <1>5, <1>6
  <2> DEFINE n == m - k
  <2>2. Entries(u[n])[0].name = p[m - n][1] /\ m - n = k
    BY <1>8, <2>1
  <2> QED
    BY <2>2
<1>12. print_path_from_root(c) = [k \in DOMAIN p |-> p[k][1]]
  BY <1>5, <1>9, <1>10, <1>11
<1> QED
  BY <1>4, <1>12

\* The invariants of the shells: they are always in the cluster of a folder, if one that may be
\* gone, no two files share a cluster, and the prompt in every folder shows the folder's path
\* (shell_cmd.c 3-14, 128-144).
THEOREM ShellsKeepTheirWord == ShellSpec => []ShellInv
<1>1. ShellKept => ShellTypeOK /\ PromptIsPath
  BY KeptIsShellTypeOK, KeptIsPromptIsPath
<1>2. ShellKept => ChainsOwn
  BY KeptIsChainsOwn DEF ShellKept, ShellDisk
<1>3. ShellKept => ShellInv
  BY <1>1, <1>2 DEF ShellInv
<1> QED
  BY <1>3, ShellAlways, PTL

-----------------------------------------------------------------------------
(* Looking for files *)

\* Three sequences behind one another.
LEMMA ThenThen ==
  ASSUME NEW S, NEW a \in Seq(S), NEW b \in Seq(S), NEW c \in Seq(S)
  PROVE  (a \o b) \o c = a \o (b \o c)
<1> DEFINE ab == a \o b
           bc == b \o c
           l  == ab \o c
           r  == a \o bc
<1>1. ab \in Seq(S) /\ bc \in Seq(S) /\ l \in Seq(S) /\ r \in Seq(S)
  BY ThenIs
<1>2. Len(a) \in Nat /\ Len(b) \in Nat /\ Len(c) \in Nat
  OBVIOUS
<1>3. /\ Len(ab) = Len(a) + Len(b) /\ Len(bc) = Len(b) + Len(c)
      /\ \A k \in 1 .. Len(a) + Len(b) : ab[k] = IF k <= Len(a) THEN a[k] ELSE b[k - Len(a)]
      /\ \A k \in 1 .. Len(b) + Len(c) : bc[k] = IF k <= Len(b) THEN b[k] ELSE c[k - Len(b)]
  OBVIOUS
<1>4. /\ Len(l) = Len(ab) + Len(c) /\ Len(r) = Len(a) + Len(bc)
      /\ \A k \in 1 .. Len(ab) + Len(c) : l[k] = IF k <= Len(ab) THEN ab[k] ELSE c[k - Len(ab)]
      /\ \A k \in 1 .. Len(a) + Len(bc) : r[k] = IF k <= Len(a) THEN a[k] ELSE bc[k - Len(a)]
  <2> HIDE DEF ab, bc
  <2> QED
    BY <1>1
<1> HIDE DEF ab, bc, l, r
<1>5. Len(l) = Len(r)
  BY <1>2, <1>3, <1>4
<1>6. \A k \in 1 .. Len(l) : l[k] = r[k]
  <2> TAKE k \in 1 .. Len(l)
  <2>1. CASE k <= Len(a)
    BY <1>2, <1>3, <1>4, <2>1
  <2>2. CASE k > Len(a) /\ k <= Len(a) + Len(b)
    <3>1. k - Len(a) \in 1 .. Len(b) + Len(c) /\ k - Len(a) <= Len(b)
      BY <1>2, <1>3, <1>4, <2>2
    <3>2. l[k] = b[k - Len(a)]
      BY <1>2, <1>3, <1>4, <2>2
    <3>3. r[k] = bc[k - Len(a)]
      BY <1>2, <1>3, <1>4, <2>2
    <3> QED
      BY <1>3, <3>1, <3>2, <3>3
  <2>3. CASE k > Len(a) + Len(b)
    <3>1. k - Len(a) \in 1 .. Len(b) + Len(c) /\ ~(k - Len(a) <= Len(b))
          /\ (k - Len(a)) - Len(b) = k - (Len(a) + Len(b))
      BY <1>2, <1>3, <1>4, <2>3
    <3>2. l[k] = c[k - (Len(a) + Len(b))]
      BY <1>2, <1>3, <1>4, <2>3
    <3>3. r[k] = bc[k - Len(a)]
      BY <1>2, <1>3, <1>4, <2>3
    <3> QED
      BY <1>3, <3>1, <3>2, <3>3
  <2> QED
    BY <1>2, <2>1, <2>2, <2>3
<1>7. l = r
  BY <1>1, <1>5, <1>6, SameSequence
<1> QED
  BY <1>7 DEF l, r, ab, bc

\* The names along a path.
NamesAlong(p) == [k \in DOMAIN p |-> p[k][1]]

AnyName == Names \cup {NoName, ".", ".."}

\* One name more.
LEMMA NamesAppend ==
  ASSUME NEW p \in Seq(LabelSet), NEW l \in LabelSet, NEW s \in Seq(AnyName)
  PROVE  /\ NamesAlong(p) \in Seq(AnyName) /\ l[1] \in AnyName
         /\ NamesAlong(Append(p, l)) \o s = NamesAlong(p) \o (<<l[1]>> \o s)
         /\ NamesAlong(Append(p, l)) = NamesAlong(p) \o <<l[1]>>
         /\ <<l[1]>> \o s \in Seq(AnyName)
<1> DEFINE q == Append(p, l)
           a == NamesAlong(p)
           b == NamesAlong(q)
           x == l[1]
<1>1. x \in AnyName /\ \A k \in DOMAIN p : p[k][1] \in AnyName
  BY DEF LabelSet, AnyName
<1>2. q \in Seq(LabelSet) /\ Len(q) = Len(p) + 1 /\ Len(p) \in Nat
      /\ q[Len(p) + 1] = l /\ \A k \in 1 .. Len(p) : q[k] = p[k]
  BY DEF LabelSet
<1>3. DOMAIN q = 1 .. Len(p) + 1 /\ DOMAIN p = 1 .. Len(p)
  BY <1>2
<1> HIDE DEF q, x
<1>4. a \in Seq(AnyName) /\ Len(a) = Len(p) /\ \A k \in 1 .. Len(p) : a[k] = p[k][1]
  <2>1. a = [k \in 1 .. Len(p) |-> p[k][1]]
    BY <1>3 DEF NamesAlong
  <2> HIDE DEF a
  <2>2. a \in [1 .. Len(p) -> AnyName]
    BY <1>1, <1>3, <2>1
  <2> QED
    BY <1>2, <2>1, <2>2
<1>5. b = [k \in 1 .. Len(p) + 1 |-> q[k][1]]
  BY <1>3 DEF NamesAlong
<1>6. Len(b) = Len(p) + 1 /\ (\A k \in 1 .. Len(p) : b[k] = a[k]) /\ b[Len(p) + 1] = x
      /\ b \in Seq(AnyName)
  <2>1. /\ DOMAIN b = 1 .. Len(p) + 1 /\ (\A k \in 1 .. Len(p) : b[k] = a[k])
        /\ b[Len(p) + 1] = x
    <3>1. (\A k \in 1 .. Len(p) : k \in 1 .. Len(p) + 1) /\ Len(p) + 1 \in 1 .. Len(p) + 1
      BY <1>2
    <3> QED
      BY <1>2, <1>4, <1>5, <3>1 DEF x
  <2>2. \A k \in 1 .. Len(p) + 1 : b[k] \in AnyName
    <3>1. \A k \in 1 .. Len(p) + 1 : k \in 1 .. Len(p) \/ k = Len(p) + 1
      BY <1>2
    <3> QED
      BY <1>1, <1>4, <2>1, <3>1
  <2>3. b \in [1 .. Len(p) + 1 -> AnyName]
    BY <1>5, <2>2
  <2> HIDE DEF b
  <2> QED
    BY <1>2, <2>1, <2>3
<1> HIDE DEF a, b
<1>7. b = a \o <<x>>
  BY <1>1, <1>2, <1>4, <1>6
<1>8. b \o s = a \o (<<x>> \o s) /\ <<x>> \o s \in Seq(AnyName)
  <2>1. <<x>> \in Seq(AnyName)
    BY <1>1 DEF x
  <2>2. (a \o <<x>>) \o s = a \o (<<x>> \o s)
    BY <1>4, <2>1, ThenThen
  <2>3. <<x>> \o s \in Seq(AnyName)
    BY <2>1, ThenIs
  <2> QED
    BY <1>7, <2>2, <2>3
<1> QED
  BY <1>1, <1>4, <1>7, <1>8 DEF a, b, q, x

\* What find has of a folder, if f is what it has of every folder one level less deep.
MatchesIn(goal, f, c) ==
  UNION {(IF e.name = goal THEN {<<goal>>} ELSE {})
           \cup (IF e.folder THEN {<<e.name>> \o p : p \in f[e.cluster]} ELSE {}) : e \in Listed(c)}

FindMaps == [AnyCluster -> SUBSET Seq(AnyName)]

FindMap(goal, f) == [c \in AnyCluster |-> MatchesIn(goal, f, c)]

\* What it has when it looks so many levels deep.
FindLevels(goal) ==
  {b \in [0 .. CLUSTER_MAP_SIZE -> FindMaps] :
     /\ b[0] = [c \in AnyCluster |-> {}]
     /\ \A n \in 0 .. CLUSTER_MAP_SIZE - 1 : b[n + 1] = FindMap(goal, b[n])
     /\ dfs_find(goal) = b[CLUSTER_MAP_SIZE][ROOT_CLUSTER_NUMBER]}

\* An entry that is listed has a place.
LEMMA ListedIs ==
  ASSUME disk \in [Clusters -> Stored], NEW c
  PROVE  /\ Listed(c) = {Entries(c)[i] : i \in {j \in Indices \ {0} : Entries(c)[j].used /\ Entries(c)[j].name # ".."}}
         /\ Listed(c) \subseteq EntryType
<1>1. Entries(c) \in Tables
  BY EntriesTyped DEF Entries
<1>2. Listed(c) = {Entries(c)[i] : i \in {j \in Indices \ {0} : Entries(c)[j].used /\ Entries(c)[j].name # ".."}}
  BY DEF Listed, get_curr_working_dir
<1>3. \A i \in Indices : Entries(c)[i] \in EntryType
  BY <1>1 DEF Tables
<1> QED
  BY <1>2, <1>3

\* What it has are sequences of names.
LEMMA MatchesTyped ==
  ASSUME disk \in [Clusters -> Stored], NEW goal \in Names, NEW f \in FindMaps
  PROVE  FindMap(goal, f) \in FindMaps
<1>1. ASSUME NEW c \in AnyCluster, NEW s \in MatchesIn(goal, f, c) PROVE s \in Seq(AnyName)
  <2>1. PICK e \in Listed(c) : \/ s = <<goal>>
                               \/ e.folder /\ \E p \in f[e.cluster] : s = <<e.name>> \o p
    BY <1>1 DEF MatchesIn
  <2>2. e.name \in AnyName /\ e.cluster \in AnyCluster /\ goal \in AnyName
    BY <2>1, ListedIs DEF EntryType, AnyName, AnyCluster
  <2>3. <<goal>> \in Seq(AnyName)
    BY <2>2
  <2>4. ASSUME NEW p \in f[e.cluster] PROVE <<e.name>> \o p \in Seq(AnyName)
    <3>1. p \in Seq(AnyName) /\ <<e.name>> \in Seq(AnyName)
      BY <2>2, <2>4 DEF FindMaps
    <3> QED
      BY <3>1, ThenIs
  <2> QED
    BY <2>1, <2>3, <2>4
<1> QED
  BY <1>1 DEF FindMap, FindMaps

\* What it has through one entry.
LEMMA MatchesHas ==
  ASSUME NEW goal, NEW f, NEW c, NEW e \in Listed(c)
  PROVE  /\ e.name = goal => <<goal>> \in MatchesIn(goal, f, c)
         /\ e.folder => \A q \in f[e.cluster] : <<e.name>> \o q \in MatchesIn(goal, f, c)
<1> DEFINE has(x) == (IF x.name = goal THEN {<<goal>>} ELSE {})
                       \cup (IF x.folder THEN {<<x.name>> \o p : p \in f[x.cluster]} ELSE {})
<1>1. has(e) \subseteq MatchesIn(goal, f, c)
  BY DEF MatchesIn
<1>2. e.name = goal => <<goal>> \in has(e)
  OBVIOUS
<1>3. e.folder => \A q \in f[e.cluster] : <<e.name>> \o q \in has(e)
  OBVIOUS
<1> QED
  BY <1>1, <1>2, <1>3

\* There are such levels.
LEMMA FindSteps ==
  ASSUME disk \in [Clusters -> Stored], NEW goal \in Names
  PROVE  FindLevels(goal) # {}
<1> DEFINE N == CLUSTER_MAP_SIZE
           D == FindMaps
           F == [p \in (0 .. N) \X D |-> FindMap(goal, p[2])]
           none == [c \in AnyCluster |-> {}]
           row(n, h) == [c \in AnyCluster |->
                           IF n = 0 THEN {}
                           ELSE UNION {(IF e.name = goal THEN {<<goal>>} ELSE {})
                                         \cup (IF e.folder THEN {<<e.name>> \o p : p \in h[n - 1][e.cluster]}
                                               ELSE {}) : e \in Listed(c)}]
           Rec(h) == h = [n \in 0 .. N |-> row(n, h)]
           b == CHOOSE h : Rec(h)
<1>0. N \in Nat
  BY ClusterRange
<1>1. none \in D
  BY DEF FindMaps
<1>2. \A h : row(0, h) = none
  OBVIOUS
<1>3. \A h, n : n # 0 => row(n, h) = FindMap(goal, h[n - 1])
  <2> TAKE h, n
  <2> HAVE n # 0
  <2>1. \A c \in AnyCluster : row(n, h)[c] = MatchesIn(goal, h[n - 1], c)
    BY DEF MatchesIn
  <2> QED
    BY DEF MatchesIn, FindMap
<1>4. dfs_find(goal) = b[N][ROOT_CLUSTER_NUMBER]
  BY DEF dfs_find, AnyCluster
<1> HIDE DEF N, D, row, none
<1>5. F \in StepMaps(N, D)
  BY MatchesTyped DEF StepMaps, D
<1>6. PICK f \in [0 .. N -> D] : Iterates(f, N, none, F)
  <2> HIDE DEF F
  <2> QED
    BY <1>0, <1>1, <1>5, Iterated
<1>7. \A n \in 0 .. N - 1 : f[n + 1] = FindMap(goal, f[n])
  <2> TAKE n \in 0 .. N - 1
  <2>1. n \in 0 .. N /\ f[n] \in D
    BY <1>0
  <2>2. f[n + 1] = F[<<n, f[n]>>]
    BY <1>6 DEF Iterates
  <2>3. F[<<n, f[n]>>] = FindMap(goal, f[n])
    BY <2>1
  <2> QED
    BY <2>2, <2>3
<1>8. Rec(f)
  <2>1. ASSUME NEW n \in 0 .. N PROVE f[n] = row(n, f)
    <3>1. CASE n = 0
      BY <1>2, <1>6, <3>1 DEF Iterates
    <3>2. CASE n # 0
      <4>1. n - 1 \in 0 .. N - 1 /\ (n - 1) + 1 = n
        BY <1>0, <3>2
      <4>2. f[n] = FindMap(goal, f[n - 1])
        BY <1>7, <4>1
      <4> QED
        BY <1>3, <3>2, <4>2
    <3> QED
      BY <3>1, <3>2
  <2> QED
    BY <2>1
<1>9. Rec(b)
  BY <1>8
<1> HIDE DEF b, F
<1>10. b[0] = none /\ \A n \in 0 .. N - 1 : b[n + 1] = FindMap(goal, b[n])
  <2>1. 0 \in 0 .. N
    BY <1>0
  <2>2. ASSUME NEW n \in 0 .. N - 1 PROVE b[n + 1] = FindMap(goal, b[n])
    <3>1. n + 1 \in 0 .. N /\ n + 1 # 0 /\ (n + 1) - 1 = n
      BY <1>0
    <3>2. row(n + 1, b) = FindMap(goal, b[n])
      BY <1>3, <3>1
    <3> QED
      BY <1>9, <3>1, <3>2
  <2> QED
    BY <1>2, <1>9, <2>1, <2>2
<1>11. \A n \in 0 .. N : b[n] \in D
  <2> DEFINE E == {n \in 0 .. N : b[n] \in D}
  <2>1. E \in SUBSET (0 .. N) /\ 0 \in E
    BY <1>0, <1>1, <1>10
  <2>2. \A n \in 0 .. N - 1 : n \in E => n + 1 \in E
    BY <1>0, <1>10, MatchesTyped DEF D
  <2> HIDE DEF E
  <2>3. E = 0 .. N
    BY <1>0, <2>1, <2>2, AllUpTo
  <2> QED
    BY <2>3 DEF E
<1>12. b \in [0 .. N -> D]
  BY <1>9, <1>11
<1>13. b \in FindLevels(goal)
  BY <1>4, <1>10, <1>12 DEF N, D, none, FindLevels
<1> QED
  BY <1>13

\* Where nothing goes on, shells' folders are sound and titled, and no two things share a name.
Readable ==
  /\ disk \in [Clusters -> Stored] /\ Sound(disk, fat, Live(disk))
  /\ Labelled(disk) /\ Titled(disk)

\* What is listed in a folder that is there is what stands in it.
LEMMA ListedLive ==
  ASSUME Readable, NEW c \in Live(disk)
  PROVE  /\ \A e \in Listed(c) : \E p \in PlacesIn(disk, Live(disk)) : p[1] = c /\ e = At(disk, p)
         /\ \A p \in PlacesIn(disk, Live(disk)) :
              p[1] = c => At(disk, p) \in Listed(c) /\ At(disk, p).name \in Names /\ At(disk, p).ext = NoExt
<1>1. Listed(c) = {Entries(c)[i] : i \in {j \in Indices \ {0} : Entries(c)[j].used /\ Entries(c)[j].name # ".."}}
  BY ListedIs DEF Readable
<1>2. Entries(c)[1].name = ".."
  BY DEF Readable, Titled, Entries
<1>3. Indices \ {0} = {1} \cup Items
  BY IndexRange DEF Indices, Items
<1>4. ASSUME NEW e \in Listed(c)
      PROVE  \E p \in PlacesIn(disk, Live(disk)) : p[1] = c /\ e = At(disk, p)
  <2>1. PICK i \in Items : Entries(c)[i].used /\ e = Entries(c)[i]
    BY <1>1, <1>2, <1>3
  <2> DEFINE p == <<c, i>>
  <2>2. At(disk, p) = Entries(c)[i] /\ p[1] = c
    BY DEF At, Entries
  <2>3. p \in PlacesIn(disk, Live(disk))
    BY <2>1, <2>2 DEF PlacesIn
  <2> QED
    BY <2>1, <2>2, <2>3
<1>5. ASSUME NEW p \in PlacesIn(disk, Live(disk)), p[1] = c
      PROVE  At(disk, p) \in Listed(c) /\ At(disk, p).name \in Names /\ At(disk, p).ext = NoExt
  <2>1. At(disk, p).name \in Names /\ At(disk, p).ext = NoExt
    BY DEF Readable, Titled
  <2>2. p[2] \in Items /\ At(disk, p).used
    BY DEF PlacesIn
  <2>3. At(disk, p) = Entries(c)[p[2]] /\ p[2] \in Indices \ {0}
    BY <1>3, <1>5, <2>2 DEF At, Entries
  <2>4. At(disk, p).name # ".."
    BY <2>1, ShellAssumption
  <2> QED
    BY <1>1, <2>1, <2>2, <2>3, <2>4
<1> QED
  BY <1>4, <1>5

\* The object x in the object a is about e: its path has a name more, and so on with more names s.
OneDeeper(a, x, e, s) ==
  /\ x \in ObjectsOn(disk) /\ x[1] = Append(a[1], Label(e)) /\ x[2] = e
  /\ x[1] # <<>> /\ Last(x[1]) = Label(e) /\ Label(e)[1] = e.name
  /\ Len(x[1]) = Len(a[1]) + 1 /\ Front(x[1]) = a[1]
  /\ e.name \in AnyName /\ <<e.name>> \o s \in Seq(AnyName)
  /\ NamesAlong(x[1]) = NamesAlong(a[1]) \o <<e.name>>
  /\ NamesAlong(x[1]) \o s = NamesAlong(a[1]) \o (<<e.name>> \o s)

\* So is what stands in a folder object.
LEMMA ThereNamed ==
  ASSUME Readable, NEW a \in ObjectsOn(disk), a[2].folder, NEW p \in PlacesIn(disk, Live(disk)),
         p[1] = a[2].cluster, NEW s \in Seq(AnyName)
  PROVE  OneDeeper(a, There(a, At(disk, p)), At(disk, p), s)
<1> DEFINE e == At(disk, p)
           l == Label(e)
           x == There(a, e)
           q == Append(a[1], l)
<1>1. x \in ObjectsOn(disk) /\ x[1] = q /\ x[2] = e /\ a[1] \in Seq(LabelSet) /\ l \in LabelSet
  BY ThereIs DEF Readable
<1>2. l[1] = e.name
  BY DEF Label
<1> HIDE DEF x, e, l
<1>3. /\ l[1] \in AnyName /\ <<l[1]>> \o s \in Seq(AnyName)
      /\ NamesAlong(q) = NamesAlong(a[1]) \o <<l[1]>>
      /\ NamesAlong(q) \o s = NamesAlong(a[1]) \o (<<l[1]>> \o s)
  BY <1>1, NamesAppend
<1>4. q \in Seq(LabelSet) /\ Len(q) = Len(a[1]) + 1 /\ Len(a[1]) \in Nat /\ q[Len(a[1]) + 1] = l
      /\ \A k \in 1 .. Len(a[1]) : q[k] = a[1][k]
  BY <1>1
<1> HIDE DEF q
<1>5. q # <<>> /\ Last(q) = l
  BY <1>4 DEF Last
<1>6. Front(q) = a[1]
  <2>1. Front(q) = SubSeq(q, 1, Len(a[1]))
    BY <1>4 DEF Front
  <2>2. SubSeq(q, 1, Len(a[1])) \in Seq(LabelSet) /\ Len(SubSeq(q, 1, Len(a[1]))) = Len(a[1])
        /\ \A k \in 1 .. Len(a[1]) : SubSeq(q, 1, Len(a[1]))[k] = q[k]
    BY <1>4
  <2> QED
    BY <1>1, <1>4, <2>1, <2>2, SameSequence
<1> QED
  BY <1>1, <1>2, <1>3, <1>4, <1>5, <1>6 DEF x, e, l, q, OneDeeper

\* Whatever find has of a folder, however deep it looks, is there.
LEMMA FindSound ==
  ASSUME Readable, NEW goal \in Names, NEW b \in FindLevels(goal), NEW n \in 0 .. CLUSTER_MAP_SIZE,
         NEW a \in ObjectsOn(disk), a[2].folder, NEW s \in b[n][a[2].cluster]
  PROVE  \E o \in ObjectsOn(disk) :
           o[1] # <<>> /\ Last(o[1])[1] = goal /\ NamesAlong(o[1]) = NamesAlong(a[1]) \o s
<1> DEFINE N == CLUSTER_MAP_SIZE
           Good(g, t) == \E o \in ObjectsOn(disk) :
                           o[1] # <<>> /\ Last(o[1])[1] = goal /\ NamesAlong(o[1]) = NamesAlong(g[1]) \o t
           E == {m \in 0 .. N : \A g \in ObjectsOn(disk) : g[2].folder =>
                   \A t \in b[m][g[2].cluster] : Good(g, t)}
<1>0. N \in Nat
  BY ClusterRange
<1>1. /\ b \in [0 .. N -> FindMaps] /\ b[0] = [c \in AnyCluster |-> {}]
      /\ \A m \in 0 .. N - 1 : b[m + 1] = FindMap(goal, b[m])
  BY DEF FindLevels
<1>2. \A g \in ObjectsOn(disk) : g[2].folder => g[2].cluster \in Live(disk) /\ g[2].cluster \in AnyCluster
  BY ObjectTyped, LiveIsLeast DEF Readable, AnyCluster
<1> HIDE DEF N, Good
<1>3. 0 \in E
  BY <1>0, <1>1, <1>2
<1>4. ASSUME NEW m \in 0 .. N - 1, m \in E PROVE m + 1 \in E
  <2>0. m \in 0 .. N /\ m + 1 \in 0 .. N
    BY <1>0
  <2>1. ASSUME NEW g \in ObjectsOn(disk), g[2].folder, NEW t \in b[m + 1][g[2].cluster]
        PROVE  Good(g, t)
    <3> DEFINE c == g[2].cluster
    <3>1. c \in Live(disk) /\ c \in AnyCluster
      BY <1>2, <2>1
    <3> HIDE DEF c
    <3>2. t \in MatchesIn(goal, b[m], c)
      <4>1. t \in b[m + 1][c] /\ b[m + 1] = FindMap(goal, b[m])
        BY <1>1, <2>1 DEF c
      <4>2. FindMap(goal, b[m])[c] = MatchesIn(goal, b[m], c)
        BY <3>1 DEF FindMap
      <4> QED
        BY <4>1, <4>2
    <3>3. PICK e \in Listed(c) : \/ e.name = goal /\ t = <<goal>>
                                 \/ e.folder /\ \E q \in b[m][e.cluster] : t = <<e.name>> \o q
      BY <3>2 DEF MatchesIn
    <3>4. PICK p \in PlacesIn(disk, Live(disk)) : p[1] = c /\ e = At(disk, p)
      BY <3>1, <3>3, ListedLive
    <3> DEFINE x == There(g, e)
    <3>5. \A r \in Seq(AnyName) :
            /\ x \in ObjectsOn(disk) /\ x[2] = e /\ x[1] # <<>> /\ Last(x[1])[1] = e.name
            /\ NamesAlong(x[1]) = NamesAlong(g[1]) \o <<e.name>>
            /\ NamesAlong(x[1]) \o r = NamesAlong(g[1]) \o (<<e.name>> \o r)
      <4> TAKE r \in Seq(AnyName)
      <4>1. g \in ObjectsOn(disk) /\ g[2].folder /\ p \in PlacesIn(disk, Live(disk)) /\ p[1] = g[2].cluster
        BY <2>1, <3>4 DEF c
      <4>2. OneDeeper(g, There(g, At(disk, p)), At(disk, p), r)
        BY <4>1, ThereNamed
      <4>3. OneDeeper(g, x, e, r)
        BY <3>4, <4>2
      <4> HIDE DEF x
      <4> QED
        BY <4>3 DEF OneDeeper
    <3>6. <<>> \in Seq(AnyName)
      OBVIOUS
    <3> HIDE DEF x
    <3>7. CASE e.name = goal /\ t = <<goal>>
      BY <3>5, <3>6, <3>7 DEF Good
    <3>8. ASSUME e.folder, NEW q \in b[m][e.cluster], t = <<e.name>> \o q PROVE Good(g, t)
      <4>1. x[2].folder /\ x[2].cluster = e.cluster /\ x \in ObjectsOn(disk)
        BY <3>5, <3>6, <3>8
      <4>2. Good(x, q)
        BY <1>4, <3>8, <4>1
      <4>3. q \in Seq(AnyName)
        BY <1>1, <1>2, <2>0, <3>8, <4>1 DEF FindMaps
      <4>4. NamesAlong(x[1]) \o q = NamesAlong(g[1]) \o t
        BY <3>5, <3>8, <4>3
      <4> QED
        BY <4>2, <4>4 DEF Good
    <3> QED
      BY <3>3, <3>7, <3>8
  <2> QED
    BY <2>0, <2>1
<1> HIDE DEF E
<1>5. E = 0 .. N
  <2>1. E \in SUBSET (0 .. N)
    BY DEF E
  <2> QED
    BY <1>0, <1>3, <1>4, <2>1, AllUpTo
<1>6. n \in E
  BY <1>5 DEF N
<1> QED
  BY <1>6 DEF E, Good

\* And whatever it has of a folder it has of the root, as many levels deeper as the folder is.
LEMMA FindUp ==
  ASSUME Readable, NEW goal \in Names, NEW b \in FindLevels(goal)
  PROVE  \A a \in ObjectsOn(disk) : a[2].folder =>
           \A n \in 0 .. CLUSTER_MAP_SIZE : \A s \in b[n][a[2].cluster] :
             n + Len(a[1]) <= CLUSTER_MAP_SIZE =>
               NamesAlong(a[1]) \o s \in b[n + Len(a[1])][ROOT_CLUSTER_NUMBER]
<1> DEFINE N == CLUSTER_MAP_SIZE
           R == ROOT_CLUSTER_NUMBER
           Upward(a) == a[2].folder => \A n \in 0 .. N : \A s \in b[n][a[2].cluster] :
                        n + Len(a[1]) <= N => NamesAlong(a[1]) \o s \in b[n + Len(a[1])][R]
           Z == {o \in ObjectsOn(disk) : Upward(o)}
<1>0. N \in Nat
  BY ClusterRange
<1>1. /\ b \in [0 .. N -> FindMaps]
      /\ \A m \in 0 .. N - 1 : b[m + 1] = FindMap(goal, b[m])
  BY DEF FindLevels
<1>2. \A g \in ObjectsOn(disk) : g[2].folder => g[2].cluster \in Live(disk) /\ g[2].cluster \in AnyCluster
  BY ObjectTyped, LiveIsLeast DEF Readable, AnyCluster
<1>3. RootObject \in ObjectsOn(disk) /\ RootObject[1] = <<>> /\ RootObject[2].cluster = R /\ RootObject[2].folder
  BY ObjectsLeast, RootIs DEF Readable
<1> HIDE DEF N, R
<1>4. Upward(RootObject)
  <2> SUFFICES ASSUME NEW n \in 0 .. N, NEW s \in b[n][R]
               PROVE  NamesAlong(<<>>) \o s \in b[n + Len(<<>>)][R]
    BY <1>3
  <2>1. s \in Seq(AnyName)
    BY <1>1, <1>2, <1>3 DEF FindMaps
  <2>2. NamesAlong(<<>>) = <<>>
    BY DEF NamesAlong
  <2>3. <<>> \o s = s /\ n + Len(<<>>) = n
    BY <1>0, <2>1
  <2> QED
    BY <2>2, <2>3
<1>5. ASSUME NEW a \in ObjectsOn(disk) \cap Z, NEW p \in PlacesIn(disk, Live(disk)),
             a[2].folder, p[1] = a[2].cluster
      PROVE  <<Append(a[1], Label(At(disk, p))), At(disk, p)>> \in Z
  <2> DEFINE e == At(disk, p)
             x == There(a, e)
             c == a[2].cluster
             m == Len(a[1])
  <2>1. \A r \in Seq(AnyName) :
          /\ x \in ObjectsOn(disk) /\ x[2] = e /\ Len(x[1]) = m + 1
          /\ NamesAlong(x[1]) \o r = NamesAlong(a[1]) \o (<<e.name>> \o r)
    <3> TAKE r \in Seq(AnyName)
    <3>1. OneDeeper(a, x, e, r)
      BY <1>5, ThereNamed
    <3> HIDE DEF x, e
    <3> QED
      BY <3>1 DEF OneDeeper
  <2>2. <<>> \in Seq(AnyName) /\ m \in Nat
    BY ObjectTyped DEF Readable
  <2>3. x = <<Append(a[1], Label(At(disk, p))), At(disk, p)>>
    BY DEF There
  <2>4. e \in Listed(c) /\ c \in AnyCluster
    BY <1>2, <1>5, ListedLive
  <2>5. Upward(a)
    BY <1>5
  <2> HIDE DEF x, e, m
  <2>6. ASSUME x[2].folder, NEW n \in 0 .. N, NEW s \in b[n][x[2].cluster], n + Len(x[1]) <= N
        PROVE  NamesAlong(x[1]) \o s \in b[n + Len(x[1])][R]
    <3>1. x \in ObjectsOn(disk) /\ x[2] = e /\ Len(x[1]) = m + 1
      BY <2>1, <2>2
    <3>2. s \in Seq(AnyName)
      BY <1>1, <1>2, <2>6, <3>1 DEF FindMaps
    <3>3. n + 1 \in 0 .. N /\ n \in 0 .. N - 1 /\ (n + 1) + m <= N /\ (n + 1) + m = n + Len(x[1])
      BY <1>0, <2>2, <2>6, <3>1
    <3> DEFINE t == <<e.name>> \o s
    <3>4. t \in MatchesIn(goal, b[n], c)
      <4>1. e.folder /\ s \in b[n][e.cluster]
        BY <2>6, <3>1
      <4> QED
        BY <2>4, <4>1, MatchesHas
    <3> HIDE DEF t
    <3>5. t \in b[n + 1][c]
      BY <1>1, <2>4, <3>3, <3>4 DEF FindMap
    <3>6. NamesAlong(a[1]) \o t \in b[(n + 1) + m][R]
      BY <1>5, <2>5, <3>3, <3>5 DEF m
    <3>7. NamesAlong(x[1]) \o s = NamesAlong(a[1]) \o t
      BY <2>1, <3>2 DEF t
    <3> QED
      BY <3>3, <3>6, <3>7
  <2> QED
    BY <2>1, <2>2, <2>3, <2>6
<1> HIDE DEF Upward
<1>6. ObjectsOn(disk) \subseteq Z
  <2>1. RootObject \in Z
    BY <1>3, <1>4
  <2> HIDE DEF Z
  <2> QED
    BY <1>5, <2>1, ObjectInduction DEF Readable
<1>7. \A a \in ObjectsOn(disk) : Upward(a)
  BY <1>6
<1> QED
  BY <1>7 DEF Upward, N, R

\* find shows the paths of everything that has the name.
LEMMA FindIs ==
  ASSUME Readable, NEW goal \in Names
  PROVE  dfs_find(goal) = {NamesAlong(q) : q \in {r \in PathsOn(disk) \ {<<>>} : Last(r)[1] = goal}}
<1> DEFINE N == CLUSTER_MAP_SIZE
           R == ROOT_CLUSTER_NUMBER
           hits == {r \in PathsOn(disk) \ {<<>>} : Last(r)[1] = goal}
<1>0. N \in Nat /\ Depth \in Nat /\ Depth < N
  BY ClusterRange DEF Depth
<1>1. PICK b \in FindLevels(goal) : TRUE
  BY FindSteps DEF Readable
<1>2. /\ b \in [0 .. N -> FindMaps] /\ dfs_find(goal) = b[N][R]
      /\ \A m \in 0 .. N - 1 : b[m + 1] = FindMap(goal, b[m])
  BY DEF FindLevels
<1>3. RootObject \in ObjectsOn(disk) /\ RootObject[1] = <<>> /\ RootObject[2].cluster = R /\ RootObject[2].folder
  BY ObjectsLeast, RootIs DEF Readable
<1>4. R \in AnyCluster
  BY ClusterRange DEF ROOT_CLUSTER_NUMBER, AnyCluster
<1>5. ASSUME NEW s \in b[N][R] PROVE \E q \in hits : s = NamesAlong(q)
  <2>1. s \in Seq(AnyName) /\ N \in 0 .. N
    BY <1>0, <1>2, <1>4, <1>5 DEF FindMaps
  <2>2. s \in b[N][RootObject[2].cluster]
    BY <1>3, <1>5
  <2>3. PICK o \in ObjectsOn(disk) :
          o[1] # <<>> /\ Last(o[1])[1] = goal /\ NamesAlong(o[1]) = NamesAlong(RootObject[1]) \o s
    <3>1. \A g \in ObjectsOn(disk), n \in 0 .. N : g[2].folder => \A t \in b[n][g[2].cluster] :
            \E o \in ObjectsOn(disk) :
              o[1] # <<>> /\ Last(o[1])[1] = goal /\ NamesAlong(o[1]) = NamesAlong(g[1]) \o t
      <4> TAKE g \in ObjectsOn(disk), n \in 0 .. N
      <4> HAVE g[2].folder
      <4> TAKE t \in b[n][g[2].cluster]
      <4> QED
        BY FindSound
    <3> QED
      BY <1>3, <2>1, <2>2, <3>1
  <2>4. NamesAlong(<<>>) = <<>> /\ <<>> \o s = s
    BY <2>1 DEF NamesAlong
  <2>5. o[1] \in PathsOn(disk)
    BY DEF PathsOn
  <2> QED
    BY <1>3, <2>3, <2>4, <2>5
<1>6. ASSUME NEW q \in hits PROVE NamesAlong(q) \in b[N][R]
  <2>1. PICK o \in ObjectsOn(disk) : q = o[1]
    BY DEF PathsOn
  <2>2. o # RootObject
    BY <1>3, <2>1
  <2>3. PICK a, p : StandsIn(disk, o, a, p)
    BY <2>2, ObjectStands DEF Readable
  <2>4. /\ a \in ObjectsOn(disk) /\ p \in PlacesIn(disk, Live(disk))
        /\ a[2].folder /\ p[1] = a[2].cluster
        /\ o[1] = Append(a[1], Label(At(disk, p)))
    BY <2>3 DEF StandsIn
  <2> DEFINE e == At(disk, p)
             x == There(a, e)
             m == Len(a[1])
             c == a[2].cluster
  <2>5. OneDeeper(a, x, e, <<>>)
    <3>1. <<>> \in Seq(AnyName)
      OBVIOUS
    <3> QED
      BY <2>4, <3>1, ThereNamed
  <2>6. e \in Listed(c) /\ c \in AnyCluster
    <3>1. c \in Live(disk)
      BY <2>4, ObjectTyped DEF Readable
    <3> QED
      BY <2>4, <3>1, ListedLive, LiveIsLeast DEF AnyCluster
  <2>7. m \in Nat /\ m + 1 <= Depth
    <3>1. m \in Nat
      BY <2>4, ObjectTyped DEF Readable
    <3>2. p[2] \in Items /\ EntriesOn(disk, c)[p[2]].used
      BY <2>4 DEF PlacesIn, At
    <3> QED
      BY <2>4, <3>1, <3>2, NotTooDeep DEF Readable
  <2> HIDE DEF e, x, m, c
  <2>8. q = x[1] /\ e.name = goal
    <3>1. q = x[1]
      BY <2>1, <2>4, <2>5 DEF OneDeeper, e
    <3> QED
      BY <2>5, <3>1 DEF OneDeeper
  <2> DEFINE n == N - m
  <2>9. n \in 0 .. N /\ n - 1 \in 0 .. N - 1 /\ (n - 1) + 1 = n /\ n + m = N
    BY <1>0, <2>7
  <2>10. <<goal>> \in b[n][c]
    <3>1. <<goal>> \in MatchesIn(goal, b[n - 1], c)
      BY <2>6, <2>8, MatchesHas
    <3>2. b[n] = FindMap(goal, b[n - 1])
      BY <1>2, <2>9
    <3>3. FindMap(goal, b[n - 1])[c] = MatchesIn(goal, b[n - 1], c)
      BY <2>6 DEF FindMap
    <3> QED
      BY <3>1, <3>2, <3>3
  <2>11. n + m <= N
    BY <1>0, <2>9
  <2> HIDE DEF n
  <2>12. NamesAlong(a[1]) \o <<goal>> \in b[n + m][R]
    BY <2>4, <2>9, <2>10, <2>11, FindUp DEF m, c
  <2>13. NamesAlong(q) = NamesAlong(a[1]) \o <<goal>>
    BY <2>5, <2>8 DEF OneDeeper
  <2> QED
    BY <2>9, <2>12, <2>13
<1> HIDE DEF hits
<1>7. b[N][R] = {NamesAlong(q) : q \in hits}
  BY <1>5, <1>6
<1> QED
  BY <1>2, <1>7 DEF hits

\* What is in the tree at a place: nothing that reads as a file's content if it is a folder.
LEMMA ThereShows ==
  ASSUME Readable, NEW a \in ObjectsOn(disk), a[2].folder, NEW p \in PlacesIn(disk, Live(disk)),
         p[1] = a[2].cluster
  PROVE  LET q == Append(a[1], Label(At(disk, p)))
             e == At(disk, p)
         IN  /\ q \in PathsOn(disk) /\ Owned(fat, e) /\ e.folder \in BOOLEAN
             /\ TreeOn(disk, fat)[q].bytes = IF e.folder THEN <<>> ELSE Content(disk, fat, e)
             /\ Len(Chain(fat, e.cluster)) > 0 /\ Chain(fat, e.cluster) \in Seq(Clusters)
             /\ (TreeOn(disk, fat)[q].bytes = <<>>) = e.folder
<1> DEFINE e == At(disk, p)
           q == Append(a[1], Label(e))
           t == TreeOn(disk, fat)
           s == Chain(fat, e.cluster)
<1>1. There(a, e) \in ObjectsOn(disk) /\ There(a, e)[1] = q /\ There(a, e)[2] = e
  BY ThereIs DEF Readable
<1>2. q \in PathsOn(disk)
  BY <1>1 DEF PathsOn
<1>3. t[q] = Object(disk, fat, e)
  <2>1. \A o \in ObjectsOn(disk) : t[o[1]] = Object(disk, fat, o[2])
    BY TreeDomain DEF Readable
  <2> DEFINE x == There(a, e)
  <2> HIDE DEF x, t, e, q
  <2>2. x \in ObjectsOn(disk) /\ x[1] = q /\ x[2] = e
    BY <1>1 DEF x
  <2> QED
    BY <2>1, <2>2
<1>4. Owned(fat, e)
  BY DEF Readable, Sound, OwnChains
<1>5. e.folder \in BOOLEAN
  BY PlaceTyped DEF Readable, EntryType
<1> HIDE DEF t, q
<1>6. t[q].bytes = IF e.folder THEN <<>> ELSE Content(disk, fat, e)
  BY <1>3 DEF Object
<1>7. s \in Seq(Clusters) /\ s # <<>>
  BY <1>4 DEF Owned, Linked
<1>8. Content(disk, fat, e) # <<>>
  <2>1. Content(disk, fat, e) = [k \in DOMAIN s |-> disk[s[k]]]
    BY DEF Content
  <2> HIDE DEF s
  <2>2. 1 \in DOMAIN s
    BY <1>7
  <2>3. DOMAIN Content(disk, fat, e) # DOMAIN <<>>
    BY <2>1, <2>2
  <2> QED
    BY <2>3
<1>9. Len(s) > 0
  <2> HIDE DEF s
  <2> QED
    BY <1>7
<1>10. (t[q].bytes = <<>>) = e.folder
  <2> HIDE DEF e
  <2> QED
    BY <1>5, <1>6, <1>8
<1> QED
  BY <1>2, <1>4, <1>5, <1>6, <1>7, <1>9, <1>10 DEF t, q

\* ls shows what is in a folder object.
LEMMA ListIs ==
  ASSUME Readable, NEW a \in ObjectsOn(disk), a[2].folder
  PROVE  ls(a[2].cluster) = {<<Last(q)[1], TreeOn(disk, fat)[q].bytes = <<>>>> :
                               q \in {r \in PathsOn(disk) \ {<<>>} : Front(r) = a[1]}}
<1> DEFINE c == a[2].cluster
           t == TreeOn(disk, fat)
           inside == {r \in PathsOn(disk) \ {<<>>} : Front(r) = a[1]}
           shown(q) == <<Last(q)[1], t[q].bytes = <<>>>>
<1>1. c \in Live(disk)
  BY ObjectTyped DEF Readable
<1>2. <<>> \in Seq(AnyName)
  OBVIOUS
<1>3. ASSUME NEW p \in PlacesIn(disk, Live(disk)), p[1] = c
      PROVE  LET q == Append(a[1], Label(At(disk, p)))
             IN  q \in inside /\ shown(q) = <<At(disk, p).name, At(disk, p).folder>>
  <2> DEFINE e == At(disk, p)
             q == Append(a[1], Label(e))
             x == There(a, e)
  <2>1. OneDeeper(a, x, e, <<>>)
    BY <1>2, <1>3, ThereNamed
  <2>2. q \in PathsOn(disk) /\ (t[q].bytes = <<>>) = e.folder
    BY <1>3, ThereShows
  <2> HIDE DEF e, x, t
  <2>3. q # <<>> /\ Front(q) = a[1] /\ Last(q)[1] = e.name
    BY <2>1 DEF OneDeeper
  <2> QED
    BY <2>2, <2>3 DEF e
<1> HIDE DEF shown
<1>4. ASSUME NEW e \in Listed(c) PROVE \E q \in inside : shown(q) = <<e.name, e.folder>>
  <2>1. PICK p \in PlacesIn(disk, Live(disk)) : p[1] = c /\ e = At(disk, p)
    BY <1>1, ListedLive
  <2> HIDE DEF inside, c
  <2> QED
    BY <1>3, <2>1
<1>5. ASSUME NEW q \in inside PROVE \E e \in Listed(c) : shown(q) = <<e.name, e.folder>>
  <2>1. PICK o \in ObjectsOn(disk) : q = o[1] /\ q # <<>>
    BY DEF PathsOn
  <2>2. o # RootObject
    BY <2>1, RootIs
  <2>3. PICK g, p : StandsIn(disk, o, g, p)
    BY <2>2, ObjectStands DEF Readable
  <2>4. /\ g \in ObjectsOn(disk) /\ p \in PlacesIn(disk, Live(disk))
        /\ g[2].folder /\ p[1] = g[2].cluster
        /\ q = Append(g[1], Label(At(disk, p)))
    BY <2>1, <2>3 DEF StandsIn
  <2>5. Front(q) = g[1]
    <3>1. OneDeeper(g, There(g, At(disk, p)), At(disk, p), <<>>)
      BY <1>2, <2>4, ThereNamed
    <3> DEFINE x == There(g, At(disk, p))
    <3> HIDE DEF x
    <3>2. q = x[1] /\ Front(x[1]) = g[1]
      BY <2>4, <3>1 DEF OneDeeper, x
    <3> QED
      BY <3>2
  <2>6. g = a
    BY <2>4, <2>5, PathOnce DEF Readable, Labelled
  <2>7. p[1] = c /\ At(disk, p) \in Listed(c)
    BY <1>1, <2>4, <2>6, ListedLive
  <2> HIDE DEF inside, c
  <2> QED
    BY <1>3, <2>4, <2>6, <2>7
<1>6. ls(c) = {<<e.name, e.folder>> : e \in Listed(c)}
  BY DEF ls
<1> HIDE DEF c, inside
<1>7. ls(c) = {shown(q) : q \in inside}
  BY <1>4, <1>5, <1>6
<1> QED
  BY <1>7 DEF c, inside, shown, t

\* What cat reads: what a file in a folder object begins with, or that there is none.
LEMMA CatIs ==
  ASSUME DriverKept, TreeKept, Ready, Readable, NEW a \in ObjectsOn(disk), a[2].folder, NEW n \in Names
  PROVE  LET p    == Append(a[1], <<n, NoExt>>)
             text == read([parent |-> a[2].cluster, name |-> n, ext |-> NoExt, size |-> 4 * CLUSTER_SIZE])
             t    == TreeOn(disk, fat)
         IN  IF p \notin PathsOn(disk) THEN text.ret = 2
             ELSE /\ text.ret = 0
                  /\ t[p].bytes # <<>> =>
                       [k \in DOMAIN text.clusters |-> disk[text.clusters[k]]]
                         = SubSeq(t[p].bytes, 1, Min({4, Len(t[p].bytes)}))
<1> DEFINE q    == Append(a[1], <<n, NoExt>>)
           c    == a[2].cluster
           text == read([parent |-> c, name |-> n, ext |-> NoExt, size |-> 4 * CLUSTER_SIZE])
           u    == TreeOn(disk, fat)
           tab  == Entries(c)
           rq   == [parent |-> c, name |-> n, ext |-> NoExt, size |-> 4 * CLUSTER_SIZE]
           hits == ReadIndices(tab, rq)
<1>1. c \in Live(disk) /\ tab[0].used
  <2>1. c \in Live(disk)
    BY ObjectTyped DEF Readable
  <2> QED
    BY <2>1 DEF Readable, Sound, Entries
<1>2. rq.parent = c /\ rq.name = n /\ rq.ext = NoExt /\ rq.size = 4 * CLUSTER_SIZE
  OBVIOUS
<1>3. text = read(rq)
  OBVIOUS
<1> HIDE DEF text, rq, u
<1>4. ASSUME NEW p \in PlacesIn(disk, Live(disk)), p[1] = c, At(disk, p).name = n
      PROVE  /\ q \in PathsOn(disk) /\ text.ret = 0
             /\ u[q].bytes # <<>> => [k \in DOMAIN text.clusters |-> disk[text.clusters[k]]]
                                        = SubSeq(u[q].bytes, 1, Min({4, Len(u[q].bytes)}))
  <2> DEFINE e == At(disk, p)
             s == Chain(fat, e.cluster)
             m == Min({4, Len(s)})
  <2>1. e.ext = NoExt /\ Label(e) = <<n, NoExt>>
    BY <1>1, <1>4, ListedLive DEF Label
  <2>2. /\ q \in PathsOn(disk) /\ Owned(fat, e)
        /\ u[q].bytes = IF e.folder THEN <<>> ELSE Content(disk, fat, e)
        /\ s \in Seq(Clusters)
    BY <1>4, <2>1, ThereShows DEF u
  <2>3. \A r \in Places(disk) \ {p} : r[1] = p[1] => At(disk, r).name # At(disk, p).name
    <3> SUFFICES ASSUME NEW r \in Places(disk), r[1] = p[1], At(disk, r).name = At(disk, p).name
                 PROVE  r = p
      OBVIOUS
    <3>1. r \in PlacesIn(disk, Live(disk))
      BY PlacesAre
    <3>2. At(disk, r).ext = NoExt
      BY <1>1, <1>4, <3>1, ListedLive
    <3>3. Label(At(disk, r)) = Label(At(disk, p))
      BY <2>1, <3>2 DEF Label
    <3> QED
      BY <3>1, <3>3 DEF Readable, Labelled, OneName
  <2>4. p \in Places(disk) /\ rq.parent = p[1] /\ rq.name = At(disk, p).name
    BY <1>2, <1>4, PlacesAre
  <2>5. hits = {p[2]} /\ Min(hits) = p[2] /\ tab[p[2]] = e
    <3>1. ReadIndices(Entries(p[1]), rq) = {p[2]} /\ Min({p[2]}) = p[2] /\ Entries(p[1])[p[2]] = At(disk, p)
      BY <2>3, <2>4, OnlyHit DEF Readable
    <3> QED
      BY <1>4, <3>1
  <2> HIDE DEF e, hits, tab
  <2>6. text.ret = 0 /\ text.clusters = copy_long_cluster(e.cluster, 4 * CLUSTER_SIZE)
    <3>1. Entries(rq.parent) = tab /\ ReadIndices(Entries(rq.parent), rq) = hits
      BY <1>2 DEF tab, hits
    <3>2. read(rq) = [ret |-> 0, clusters |-> copy_long_cluster(e.cluster, 4 * CLUSTER_SIZE)]
      BY <1>1, <1>2, <2>1, <2>5, <3>1 DEF read
    <3> QED
      BY <1>3, <3>2
  <2>7. copy_long_cluster(e.cluster, 4 * CLUSTER_SIZE) = SubSeq(s, 1, m) /\ m \in 0 .. Len(s)
    BY <2>2, CopiesPart
  <2>8. ASSUME u[q].bytes # <<>>
        PROVE  [k \in DOMAIN text.clusters |-> disk[text.clusters[k]]]
                  = SubSeq(u[q].bytes, 1, Min({4, Len(u[q].bytes)}))
    <3>1. u[q].bytes = [k \in DOMAIN s |-> disk[s[k]]]
      BY <2>2, <2>8 DEF Content
    <3> DEFINE w == u[q].bytes
    <3> HIDE DEF s, m, w
    <3>2. text.clusters = SubSeq(s, 1, m)
      BY <2>6, <2>7
    <3>3. w = [k \in 1 .. Len(s) |-> disk[s[k]]] /\ Len(s) \in Nat
      BY <2>2, <3>1 DEF w
    <3>4. \A k \in 1 .. Len(s) : s[k] \in Clusters
      BY <2>2
    <3>5. w \in Seq(Stored) /\ Len(w) = Len(s)
      <4>1. \A k \in 1 .. Len(s) : disk[s[k]] \in Stored
        BY <3>4 DEF Readable
      <4>2. w \in [1 .. Len(s) -> Stored]
        BY <3>3, <4>1
      <4> QED
        BY <3>3, <4>2
    <3>6. Len(SubSeq(s, 1, m)) = m /\ (\A k \in 1 .. m : SubSeq(s, 1, m)[k] = s[k])
          /\ DOMAIN SubSeq(s, 1, m) = 1 .. m
      BY <2>2, <2>7
    <3>7. SubSeq(w, 1, m) = [k \in 1 .. m |-> w[k]]
      BY <2>7, <3>5
    <3>8. \A k \in 1 .. m : w[k] = disk[s[k]]
      BY <2>7, <3>3
    <3>9. [k \in DOMAIN text.clusters |-> disk[text.clusters[k]]] = [k \in 1 .. m |-> w[k]]
      <4> DEFINE r == SubSeq(s, 1, m)
      <4>1. \A k \in 1 .. m : disk[r[k]] = w[k]
        BY <3>6, <3>8
      <4>2. DOMAIN r = 1 .. m
        BY <3>6
      <4> HIDE DEF r
      <4>3. [k \in DOMAIN r |-> disk[r[k]]] = [k \in 1 .. m |-> w[k]]
        BY <4>1, <4>2
      <4> QED
        BY <3>2, <4>3 DEF r
    <3>10. Min({4, Len(w)}) = m
      BY <3>5 DEF m
    <3> QED
      BY <3>7, <3>9, <3>10 DEF w
  <2> QED
    BY <2>2, <2>6, <2>8
<1>5. ASSUME \A p \in PlacesIn(disk, Live(disk)) : p[1] = c => At(disk, p).name # n
      PROVE  q \notin PathsOn(disk) /\ text.ret = 2
  <2>1. q \notin PathsOn(disk)
    <3> SUFFICES ASSUME NEW o \in ObjectsOn(disk), o[1] = q PROVE FALSE
      BY DEF PathsOn
    <3>1. n \in AnyName /\ NoExt \in Exts
      BY Fat32Assumption, SMT DEF AnyName
    <3>2. a[1] \in Seq(LabelSet) /\ <<n, NoExt>> \in LabelSet
      BY <3>1, ObjectTyped DEF Readable, LabelSet, AnyName
    <3>3. q # <<>>
      BY <3>2
    <3>4. o # RootObject
      BY <3>3, RootIs
    <3>5. PICK g, p : StandsIn(disk, o, g, p)
      BY <3>4, ObjectStands DEF Readable
    <3>6. /\ g \in ObjectsOn(disk) /\ p \in PlacesIn(disk, Live(disk))
          /\ g[2].folder /\ p[1] = g[2].cluster
          /\ q = Append(g[1], Label(At(disk, p)))
      BY <3>5 DEF StandsIn
    <3>7. g[1] \in Seq(LabelSet) /\ Label(At(disk, p)) \in LabelSet
      BY <3>6, ObjectTyped, PlaceTyped DEF Readable
    <3>8. a[1] = g[1] /\ <<n, NoExt>> = Label(At(disk, p))
      <4> DEFINE l == <<n, NoExt>>
                 k == Label(At(disk, p))
                 v == a[1]
                 w == g[1]
      <4>1. /\ v \in Seq(LabelSet) /\ w \in Seq(LabelSet)
            /\ l \in LabelSet /\ k \in LabelSet /\ Append(v, l) = Append(w, k)
        BY <3>2, <3>6, <3>7
      <4> HIDE DEF l, k, v, w
      <4>2. v = w /\ l = k
        BY <4>1, AppendUnique
      <4> QED
        BY <4>2 DEF l, k, v, w
    <3>9. g = a
      BY <3>6, <3>8, PathOnce DEF Readable, Labelled
    <3>10. At(disk, p).name = n
      BY <3>8 DEF Label
    <3> QED
      BY <1>5, <3>6, <3>9, <3>10
  <2>2. hits = {}
    <3> SUFFICES ASSUME NEW i \in hits PROVE FALSE
      OBVIOUS
    <3>1. i \in Items /\ i < FirstHole(tab) /\ tab[i].name = n
      BY <1>2 DEF ReadIndices
    <3>2. tab[i].used
      BY <3>1, FirstHoleIs
    <3> DEFINE p == <<c, i>>
    <3>3. At(disk, p) = tab[i] /\ p[1] = c
      BY DEF At, Entries
    <3>4. p \in PlacesIn(disk, Live(disk))
      BY <1>1, <3>1, <3>2, <3>3 DEF PlacesIn
    <3> QED
      BY <1>5, <3>1, <3>3, <3>4
  <2> HIDE DEF hits, tab
  <2>3. read(rq) = [ret |-> 2, clusters |-> <<>>]
    <3>1. Entries(rq.parent) = tab /\ ReadIndices(Entries(rq.parent), rq) = hits
      BY <1>2 DEF tab, hits
    <3> QED
      BY <1>1, <2>2, <3>1 DEF read
  <2> QED
    BY <1>3, <2>1, <2>3
<1>6. IF q \notin PathsOn(disk) THEN text.ret = 2
      ELSE /\ text.ret = 0
           /\ u[q].bytes # <<>> => [k \in DOMAIN text.clusters |-> disk[text.clusters[k]]]
                                      = SubSeq(u[q].bytes, 1, Min({4, Len(u[q].bytes)}))
  <2>1. CASE \E p \in PlacesIn(disk, Live(disk)) : p[1] = c /\ At(disk, p).name = n
    BY <1>4, <2>1
  <2>2. CASE ~\E p \in PlacesIn(disk, Live(disk)) : p[1] = c /\ At(disk, p).name = n
    BY <1>5, <2>2
  <2> QED
    BY <2>1, <2>2
<1> QED
  BY <1>6 DEF text, u

\* What it says of find, ls and cat.
LEMMA KeptIsFindsAll == ShellKept => FindsAll
<1> SUFFICES ASSUME ShellKept, Ready PROVE FindsAll
  BY DEF FindsAll
<1> DEFINE u == TreeOn(disk, fat)
<1>1. Readable /\ DriverKept /\ TreeKept /\ FolderClusters = Live(disk)
  BY SoundAtRest DEF ShellKept, ShellDisk, Readable
<1>2. DOMAIN u = PathsOn(disk)
  BY <1>1, TreeDomain DEF Readable
<1> HIDE DEF u
<1>3. ASSUME NEW n \in Names
      PROVE  dfs_find(n) = {[k \in DOMAIN p |-> p[k][1]] :
                              p \in {q \in DOMAIN u \ {<<>>} : Last(q)[1] = n}}
  BY <1>1, <1>2, FindIs DEF NamesAlong
<1>4. ASSUME NEW c \in FolderClusters, NEW base \in PathsTo(c)
      PROVE  \E a \in ObjectsOn(disk) : a[2].folder /\ a[2].cluster = c /\ a[1] = base
  BY <1>4 DEF PathsTo
<1>5. ASSUME NEW c \in FolderClusters, NEW base \in PathsTo(c)
      PROVE  ls(c) = {<<Last(q)[1], u[q].bytes = <<>>>> : q \in {r \in DOMAIN u \ {<<>>} : Front(r) = base}}
  <2>1. PICK a \in ObjectsOn(disk) : a[2].folder /\ a[2].cluster = c /\ a[1] = base
    BY <1>4
  <2>2. ls(a[2].cluster) = {<<Last(q)[1], u[q].bytes = <<>>>> :
                              q \in {r \in PathsOn(disk) \ {<<>>} : Front(r) = a[1]}}
    BY <1>1, <2>1, ListIs DEF u
  <2> QED
    BY <1>2, <2>1, <2>2
<1>6. ASSUME NEW c \in FolderClusters, NEW base \in PathsTo(c), NEW n \in Names
      PROVE  CatTrue(u, Append(base, <<n, NoExt>>), cat(c, n))
  <2>1. PICK a \in ObjectsOn(disk) : a[2].folder /\ a[2].cluster = c /\ a[1] = base
    BY <1>4
  <2> DEFINE p    == Append(base, <<n, NoExt>>)
             text == read([parent |-> c, name |-> n, ext |-> NoExt, size |-> 4 * CLUSTER_SIZE])
             good == [ret   |-> IF text.ret = -1 THEN 3 ELSE text.ret,
                      shown |-> IF text.ret = 0 THEN text.clusters ELSE <<>>]
             bad  == [ret |-> 3, shown |-> <<>>]
             start == SubSeq(u[p].bytes, 1, Min({4, Len(u[p].bytes)}))
  <2>2. IF p \notin PathsOn(disk) THEN text.ret = 2
        ELSE /\ text.ret = 0
             /\ u[p].bytes # <<>> => [k \in DOMAIN text.clusters |-> disk[text.clusters[k]]] = start
    <3>1. LET v == Append(a[1], <<n, NoExt>>)
              w == read([parent |-> a[2].cluster, name |-> n, ext |-> NoExt, size |-> 4 * CLUSTER_SIZE])
          IN  IF v \notin PathsOn(disk) THEN w.ret = 2
              ELSE /\ w.ret = 0
                   /\ u[v].bytes # <<>> =>
                        [k \in DOMAIN w.clusters |-> disk[w.clusters[k]]]
                          = SubSeq(u[v].bytes, 1, Min({4, Len(u[v].bytes)}))
      BY <1>1, <2>1, CatIs DEF u
    <3> QED
      BY <2>1, <3>1
  <2>3. cat(c, n) = {good, bad}
    BY DEF cat
  <2>4. /\ bad.ret = 3 /\ good.ret = (IF text.ret = -1 THEN 3 ELSE text.ret)
        /\ text.ret = 0 => good.shown = text.clusters
    OBVIOUS
  <2> HIDE DEF p, text, good, bad, start
  <2>5. p \in DOMAIN u <=> text.ret = 0
    BY <1>2, <2>2
  <2>6. p \notin DOMAIN u <=> text.ret = 2
    BY <1>2, <2>2
  <2>7. \A o \in {good, bad} :
          /\ o.ret = 2 => p \notin DOMAIN u
          /\ o.ret = 0 => /\ p \in DOMAIN u
                          /\ u[p].bytes # <<>> => [k \in DOMAIN o.shown |-> disk[o.shown[k]]] = start
    BY <1>2, <2>2, <2>4, <2>5, <2>6
  <2>8. p \in DOMAIN u => \E o \in {good, bad} : o.ret = 0
    BY <2>4, <2>5
  <2> QED
    BY <2>3, <2>7, <2>8 DEF CatTrue, p, start
<1>7. u \in {TreeOn(disk, fat)}
  BY DEF u
<1> QED
  BY <1>3, <1>5, <1>6, <1>7 DEF FindsAll

\* find shows everything of a name wherever it is and ls what is in a folder, after whatever
\* any shells did; when cat reports success, what it asked for is there and the buffer it
\* prints from begins as the file does (shell_cmd.c 162-185, 241-294, 642-680).
THEOREM ShellsShowWhatIsThere == ShellSpec => []FindsAll
BY ShellAlways, KeptIsFindsAll, PTL

=============================================================================
