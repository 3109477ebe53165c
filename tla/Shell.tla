------------------------------- MODULE Shell -------------------------------
(***************************************************************************)
(* The commands of shell_cmd.c that work on the disk, as sequences of      *)
(* syscalls.  One shell is followed from syscall to syscall; between any   *)
(* two of them another one may run a command of a single syscall, in a     *)
(* current folder of its own.  Both keep the cluster number of a folder    *)
(* that the other may remove.  Both are careful in the sense of module     *)
(* FileSystem, and nothing crashes: the writes of a syscall are one step.  *)
(*                                                                         *)
(* A path is a sequence of names, the folders of a path all but its last.  *)
(***************************************************************************)
EXTENDS FileSystem

CONSTANTS Paths, \* what is typed for a path
          FirstFile, FirstSize \* the file the disk image comes with

\* Nobody calls anything "..", and the first file fits on the disk and leaves room in the
\* root.  cp writes a cluster.
ASSUME ShellAssumption ==
  /\ ".." \notin Names /\ Paths \subseteq Seq(Names \cup {".."}) \ {<<>>}
  /\ FirstFile \in Names /\ FirstSize \in Sizes \ {0}
  /\ FirstSize <= CLUSTER_SIZE * (CLUSTER_MAP_SIZE - 3)
  /\ CLUSTER_SIZE \in Sizes /\ DIRECTORY_LENGTH > 3

VARIABLES cwd_cluster_number, \* of the shell that is followed
          elsewhere,          \* the current folder of the other one
          command,            \* what the shell is doing
          report              \* the return code of its last command

shellVars == <<systemVars, cwd_cluster_number, elsewhere, command, report>>

\* An empty buffer.
NoBytes == ""

\* op: the command, with its paths src and dst; at, rest: the cluster reached and the
\* names left of the path that is being resolved; found: the clusters of paths resolved;
\* buffer: what cp has read; alone: nobody else has changed the disk since the command.
Idle == [op |-> "none", src |-> <<>>, dst |-> <<>>, at |-> 0, rest |-> <<>>, found |-> <<>>,
         buffer |-> NoBytes, alone |-> TRUE]

NotFound == 0

Folders(p) == SubSeq(p, 1, Len(p) - 1)

Request(parent, p) == [parent |-> parent, name |-> Last(p), ext |-> NoExt]

\* The folder is there, or shows nothing any more.  Nobody works in one that is cut off from
\* the root and still has a table: where the half done table of a new folder went to the
\* cluster of one that was removed, or a folder was moved into one that was.
Standing(folder) ==
  folder \in FolderClusters \/ get_curr_working_dir(folder) = NoEntries

-----------------------------------------------------------------------------
(* Resolution of paths, one syscall 10 for every folder on the way *)

\* Seeded fault: every folder is looked for in the current one.
FirstFolderOnly(cluster, name, from) ==
  {i \in from .. DIRECTORY_LENGTH - 1 :
     LET e == get_curr_working_dir(cwd_cluster_number)[i] IN e.folder /\ e.name = name}

\* The entries of a folder that are subfolders with this name, looked for from an index on.
FoldersNamed(cluster, name, from) ==
  {i \in from .. DIRECTORY_LENGTH - 1 :
     LET e == get_curr_working_dir(cluster)[i] IN e.folder /\ e.name = name}

\* The first of them, if there is one.
Step(from) ==
  LET hits == FoldersNamed(command.at, Head(command.rest), from)
  IN  IF hits = {} THEN NotFound ELSE get_curr_working_dir(command.at)[Min(hits)].cluster

\* Seeded fault: the second path starts where the first one led to.
WhereItLed == command.at

\* Where the second path starts.
StartOfNext == cwd_cluster_number

\* get_final_parent_cluster looks from index 0 on, so that a folder's own name leads
\* to the cluster its entry about itself names.
get_final_parent_cluster ==
  /\ command.op \in {"cp", "mv"}
  /\ Len(command.found) < 2
  /\ LET done(c) == [command EXCEPT !.found = Append(@, c), !.at = StartOfNext,
                                    !.rest = Folders(command.dst)]
     IN  \/ /\ command.rest = <<>>
            /\ command' = done(command.at)
         \/ /\ command.rest # <<>>
            /\ command' = IF Step(0) = NotFound THEN done(NotFound)
                          ELSE [command EXCEPT !.at = Step(0), !.rest = Tail(@)]
  /\ UNCHANGED <<fsVars, calls, cwd_cluster_number, elsewhere, report>>

End(ret) == command' = Idle /\ report' = ret

\* Seeded fault: a folder that is not found is gone to.
cdBlind ==
  /\ command.op = "cd"
  /\ \/ /\ command.rest # <<>>
        /\ command' = [command EXCEPT !.at = Step(1), !.rest = Tail(@)]
        /\ UNCHANGED <<cwd_cluster_number, report>>
     \/ /\ command.rest = <<>>
        /\ cwd_cluster_number' = command.at
        /\ End(0)
  /\ UNCHANGED <<fsVars, calls, elsewhere>>

\* get_deep_folder_cluster and cd: from index 1 on, all of the path.
cd ==
  /\ command.op = "cd"
  /\ \/ /\ command.rest # <<>>
        /\ \/ Step(1) = NotFound /\ End(2)
           \/ Step(1) # NotFound
                /\ command' = [command EXCEPT !.at = Step(1), !.rest = Tail(@)]
                /\ UNCHANGED report
        /\ UNCHANGED cwd_cluster_number
     \/ /\ command.rest = <<>>
        /\ cwd_cluster_number' = command.at
        /\ End(0)
  /\ UNCHANGED <<fsVars, calls, elsewhere>>

-----------------------------------------------------------------------------
(* Commands of a single syscall, in a folder.  A return code is stored as one *)
(* byte: -1 is read as 255, which is none of the cases.                       *)

mkdir(folder, name, ret) ==
  LET rq == [parent |-> folder, name |-> name, ext |-> NoExt, size |-> 0, content |-> NoBytes]
  IN  CarefulWrite(rq, ret)

rm(folder, name, ret)  == delete([parent |-> folder, name |-> name, ext |-> NoExt], ret)

rmr(folder, name, ret) == delete_all([parent |-> folder, name |-> name, ext |-> NoExt], ret)

\* In each: how the return code of the syscall becomes that of the command.
MakeOrRemove(op, folder, name, ret, reported) ==
  /\ Standing(folder)
  /\ \/ /\ op = "mkdir" /\ mkdir(folder, name, ret)
        /\ reported = IF ret \in {0, 1} THEN ret ELSE 2
     \/ /\ op = "rm" /\ rm(folder, name, ret)
        /\ reported = IF ret = 0 THEN 0 ELSE IF ret = 1 THEN 2 ELSE IF ret = 2 THEN 1 ELSE 3
     \/ /\ op = "rmr" /\ rmr(folder, name, ret)
        /\ reported = IF ret = 0 THEN 0 ELSE IF ret = 1 THEN 2 ELSE 3

make_or_remove ==
  /\ command.op \in {"mkdir", "rm", "rmr"}
  /\ \E ret \in -1 .. 2, reported \in 0 .. 3 :
       /\ MakeOrRemove(command.op, cwd_cluster_number, Last(command.src), ret, reported)
       /\ End(reported)
  /\ UNCHANGED <<calls, cwd_cluster_number, elsewhere>>

-----------------------------------------------------------------------------
(* cp and mv *)

Resolved == Len(command.found) = 2

FromTo == <<command.found[1], command.found[2]>>

SameFile == FromTo[1] = FromTo[2] /\ Last(command.src) = Last(command.dst)

\* A parent that was not found ends the command.
cp_mv_unresolved ==
  /\ command.op \in {"cp", "mv"} /\ Resolved
  /\ NotFound \in {FromTo[1], FromTo[2]}
  /\ command.op = "mv" => ~SameFile
  /\ End(IF FromTo[1] = NotFound THEN 2 ELSE 3)
  /\ UNCHANGED <<fsVars, calls, cwd_cluster_number, elsewhere>>

\* The first cluster of the source goes to the buffer.  (Not of a folder, which read
\* would open.)
cp_read ==
  /\ command.op = "cp" /\ Resolved /\ NotFound \notin {FromTo[1], FromTo[2]}
  /\ command.buffer = NoBytes
  /\ LET result == read([parent |-> FromTo[1], name |-> Last(command.src), ext |-> NoExt,
                         size |-> CLUSTER_SIZE])
         first  == result.clusters[1]
     IN  IF result.ret # 0 THEN End(IF result.ret = -1 THEN 3 ELSE result.ret)
         ELSE /\ disk[first].kind = "bytes"
              /\ command' = [command EXCEPT !.buffer = disk[first].of]
              /\ UNCHANGED report
  /\ UNCHANGED <<fsVars, calls, cwd_cluster_number, elsewhere>>

\* Whatever the size of the source, one cluster is written.
cp_write ==
  /\ command.op = "cp" /\ command.buffer # NoBytes
  /\ \E ret \in -1 .. 2 :
       /\ CarefulWrite([parent |-> FromTo[2], name |-> Last(command.dst), ext |-> NoExt,
                        size |-> CLUSTER_SIZE, content |-> command.buffer], ret)
       /\ End(IF ret = -1 THEN 3 ELSE ret)
  /\ UNCHANGED <<calls, cwd_cluster_number, elsewhere>>

\* The word of the return code is not initialised: its other bytes may make of any
\* result none of the cases.
mv ==
  /\ command.op = "mv" /\ Resolved
  /\ SameFile \/ NotFound \notin {FromTo[1], FromTo[2]}
  /\ \/ SameFile /\ End(4) /\ UNCHANGED fsVars
     \/ /\ ~SameFile
        /\ \E src \in {Request(FromTo[1], command.src)}, tar \in {Request(FromTo[2], command.dst)} :
             /\ CarefulMove(src, tar, MoveRefusal(src, tar))
             /\ \E reported \in {MoveRefusal(src, tar), -1} : End(reported)
  /\ UNCHANGED <<calls, cwd_cluster_number, elsewhere>>

-----------------------------------------------------------------------------
(* The shells *)

Typed(op, src, dst) ==
  [Idle EXCEPT !.op = op, !.src = src, !.dst = dst, !.at = cwd_cluster_number,
               !.rest = IF op = "cd" THEN src ELSE Folders(src)]

Type ==
  /\ command = Idle
  /\ calls < MaxCalls
  /\ calls' = calls + 1
  /\ \/ \E op \in {"mkdir", "rm", "rmr"}, n \in Names : command' = Typed(op, <<n>>, <<>>)
     \/ \E p \in Paths : command' = Typed("cd", p, <<>>)
     \/ \E op \in {"cp", "mv"}, p, q \in {x \in Paths : Last(x) \in Names} :
          command' = Typed(op, p, q)
  /\ report' = 0
  /\ UNCHANGED <<fsVars, cwd_cluster_number, elsewhere>>

Run == get_final_parent_cluster \/ cd \/ make_or_remove \/ cp_mv_unresolved
         \/ cp_read \/ cp_write \/ mv

\* The other shell.
Other ==
  /\ calls < MaxCalls
  /\ calls' = calls + 1
  /\ \/ /\ \E c \in FolderClusters : elsewhere' = c
        /\ UNCHANGED <<fsVars, command>>
     \/ /\ \E op \in {"mkdir", "rm", "rmr"}, n \in Names, ret \in -1 .. 2, reported \in 0 .. 3 :
             MakeOrRemove(op, elsewhere, n, ret, reported)
        /\ command' = IF queue' = queue \/ command = Idle THEN command
                      ELSE [command EXCEPT !.alone = FALSE]
        /\ UNCHANGED elsewhere
  /\ UNCHANGED <<cwd_cluster_number, report>>

\* All writes of a syscall, before anything else runs.
Settle ==
  /\ queue # <<>>
  /\ disk' = Image
  /\ queue' = <<>>
  /\ busy' = 0
  /\ UNCHANGED <<fat, power, calls, cwd_cluster_number, elsewhere, command, report>>

\* A formatted disk with one file in the root, made and written back by the inserter.
ShellInit ==
  LET chain == [k \in 1 .. (FirstSize + CLUSTER_SIZE - 1) \div CLUSTER_SIZE |-> k + 2]
      words == LinkChain([c \in Clusters |-> IF c = 0 THEN CLUSTER_0_VALUE
                                             ELSE IF c = 1 THEN CLUSTER_1_VALUE
                                             ELSE IF c = 2 THEN FAT32_FAT_END_OF_FILE
                                             ELSE FAT32_FAT_EMPTY_ENTRY], chain, Len(chain))
      root  == [NoEntries EXCEPT
                  ![0] = FolderEntry(".", ROOT_CLUSTER_NUMBER),
                  ![1] = FolderEntry("..", ROOT_CLUSTER_NUMBER),
                  ![2] = [name |-> FirstFile, ext |-> NoExt, folder |-> FALSE, used |-> TRUE,
                          cluster |-> 3, size |-> FirstSize]]
  IN  /\ fat = words
      /\ \E x \in Contents :
           disk = [c \in Clusters |->
                     CASE c = BOOT_SECTOR -> Signature
                       [] c = FAT_CLUSTER_NUMBER -> Fat(words)
                       [] c = ROOT_CLUSTER_NUMBER -> Table(root)
                       [] c \in 3 .. Len(chain) + 2 -> Bytes(x, c - 2)
                       [] OTHER -> Zeroes]
      /\ queue = <<>> /\ busy = 0 /\ power = "on" /\ calls = 0
      /\ cwd_cluster_number = ROOT_CLUSTER_NUMBER /\ elsewhere = ROOT_CLUSTER_NUMBER
      /\ command = Idle
      /\ report = 0

\* No path leads through the name of the folder it is looked for in: the cluster that
\* a folder's entry about itself names is not its own, and may be a file's.  Nor does it lead
\* to a folder nobody works in.
CarefulPath ==
  /\ command.op \in {"cp", "mv"} /\ command.rest # <<>>
       => 0 \notin FoldersNamed(command.at, Head(command.rest), 0)
  /\ \A c \in {command.at} \cup ToSet(command.found) : c # NotFound => Standing(c)

\* Nothing of either shell happens inside a syscall.
ShellNext ==
  \/ /\ Ready
     /\ Type \/ (CarefulPath /\ Run) \/ Other
  \/ Settle

ShellSpec == ShellInit /\ [][ShellNext]_shellVars

-----------------------------------------------------------------------------
(* Commands that only look *)

\* The entries ls and find look at: those in use but "..".
Listed(cluster) ==
  LET t == get_curr_working_dir(cluster)
  IN  {t[i] : i \in {j \in Indices \ {0} : t[j].used /\ t[j].name # ".."}}

\* ls: the names and kinds in a folder, but for "..".
ls(cluster) == {<<e.name, e.folder>> : e \in Listed(cluster)}

\* cat: what it may return, and the clusters in the buffer it prints from.  The syscall
\* stores one byte of a word that is not initialised: whatever was read, the switch may
\* find none of its cases, print nothing and return 3.
cat(cluster, name) ==
  LET result == read([parent |-> cluster, name |-> name, ext |-> NoExt, size |-> 4 * CLUSTER_SIZE])
  IN  {[ret   |-> IF result.ret = -1 THEN 3 ELSE result.ret,
        shown |-> IF result.ret = 0 THEN result.clusters ELSE <<>>],
       [ret |-> 3, shown |-> <<>>]}

\* Seeded fault: what a folder that was looked for holds is not searched.
dfs_find_outside(goal) ==
  LET found[n \in 0 .. CLUSTER_MAP_SIZE] ==
        [c \in Clusters \cup {NoCluster} |->
           IF n = 0 THEN {}
           ELSE UNION {IF e.name = goal THEN {<<goal>>}
                       ELSE IF e.folder THEN {<<e.name>> \o p : p \in found[n - 1][e.cluster]}
                       ELSE {} : e \in Listed(c)}]
  IN  found[CLUSTER_MAP_SIZE][ROOT_CLUSTER_NUMBER]

\* find: the paths to everything with this name from a folder on, starting at the root.
dfs_find(goal) ==
  LET found[n \in 0 .. CLUSTER_MAP_SIZE] ==
        [c \in Clusters \cup {NoCluster} |->
           IF n = 0 THEN {}
           ELSE UNION {(IF e.name = goal THEN {<<goal>>} ELSE {})
                         \cup (IF e.folder THEN {<<e.name>> \o p : p \in found[n - 1][e.cluster]}
                               ELSE {}) : e \in Listed(c)}]
  IN  found[CLUSTER_MAP_SIZE][ROOT_CLUSTER_NUMBER]

-----------------------------------------------------------------------------
(* What is asked for, in terms of the tree *)

PathsTo(c) == {o[1] : o \in {x \in ObjectsOn(disk) : x[2].folder /\ x[2].cluster = c}}

\* A path walked on the tree from the folder at base.
Walked(base, p) ==
  FoldLeft(LAMBDA here, n : IF n # ".." THEN Append(here, <<n, NoExt>>)
                            ELSE IF here = <<>> THEN here ELSE Front(here), base, p)

Under(t, p) == {q \in DOMAIN t : Len(q) >= Len(p) /\ SubSeq(q, 1, Len(p)) = p}

\* How the tree t has to become u, for a command given in the folder at base.
AsAsked(op, base, src, dst, t, u) ==
  LET from == Walked(base, src)
      to   == Walked(base, dst)
      into == IF to \in DOMAIN t /\ t[to].bytes = <<>> THEN Append(to, Last(from)) ELSE to
  IN  CASE op = "mkdir" -> DOMAIN u = DOMAIN t \cup {from} /\ from \notin DOMAIN t
        [] op \in {"rm", "rmr"} -> from \in DOMAIN t /\ DOMAIN u = DOMAIN t \ Under(t, from)
        [] op = "cp" -> /\ from \in DOMAIN t /\ to \notin DOMAIN t
                        /\ DOMAIN u = DOMAIN t \cup {to}
                        /\ Len(t[from].bytes) <= 1 => u[to].bytes = t[from].bytes
        [] op = "mv" -> /\ from \in DOMAIN t /\ into \in DOMAIN u \ DOMAIN t
                        /\ u[into] = t[from]
                        /\ DOMAIN u = (DOMAIN t \ Under(t, from)) \cup Under(u, into)
                        /\ Cardinality(DOMAIN u) = Cardinality(DOMAIN t)

-----------------------------------------------------------------------------
(* Properties *)

\* Type invariant of the shell: it is always in the cluster of a folder, if one that
\* may be gone (shell_cmd.c 128-144).
ShellTypeOK ==
  /\ {cwd_cluster_number, elsewhere} \subseteq Clusters \ {BOOT_SECTOR, FAT_CLUSTER_NUMBER}
  /\ command.op \in {"none", "cd", "mkdir", "rm", "rmr", "cp", "mv"}
  /\ Len(command.found) <= 2
  /\ \A k \in DOMAIN command.found : command.found[k] \in Clusters
  /\ command.alone \in BOOLEAN
  /\ report \in -1 .. 4

\* Whatever two shells do, a step changes the tree of files as a file system may,
\* and nothing else: a command in a folder that was removed meanwhile, or whose
\* cluster is now a file's, does not harm what others have (shell_cmd.c 128, 203).
ShellsKeepTree == [][Tree!Next]_fsVars

\* A command during which nobody else changes the disk, given in a folder that exists,
\* does to the tree what its words say if it reports success, and nothing if the disk
\* refused it, and cd goes to the folder its path names: the paths that are resolved
\* lead where they say (shell_cmd.c 24-70, 126-144).  Of cp it claims the content for files
\* of one cluster: of a longer one it copies the first cluster and reports success.
CommandsDoAsAsked ==
  [][command.op # "none" /\ command' = Idle /\ command.alone =>
       \A base \in PathsTo(cwd_cluster_number) :
         IF command.op = "cd"
         THEN IF report' = 0 THEN Walked(base, command.src) \in PathsTo(cwd_cluster_number')
              ELSE \A c \in FolderClusters : Walked(base, command.src) \notin PathsTo(c)
         ELSE \E t \in {TreeOn(disk, fat)}, u \in {TreeOn(Image', fat')} :
                IF report' = 0 \/ queue' # <<>>
                THEN AsAsked(command.op, base, command.src, command.dst, t, u)
                ELSE u = t]_shellVars

\* print_path_from_root: the names from a folder up along "..".
PromptUp(c) ==
  LET up[n \in 0 .. CLUSTER_MAP_SIZE] ==
        IF n = 0 THEN c
        ELSE IF up[n - 1] = ROOT_CLUSTER_NUMBER THEN ROOT_CLUSTER_NUMBER
        ELSE get_curr_working_dir(up[n - 1])[1].cluster
  IN  up

print_path_from_root(c) ==
  LET up   == PromptUp(c)
      deep == {n \in DOMAIN up : up[n] # ROOT_CLUSTER_NUMBER}
  IN  [k \in 1 .. Cardinality(deep) |-> get_curr_working_dir(up[Cardinality(deep) - k])[0].name]

\* The prompt of a shell in any folder shows the folder's path, after moves of the
\* folder or of one above it too (shell_cmd.c 3-14, fat32.c 600-610).
PromptIsPath ==
  Ready => \A c \in FolderClusters :
    print_path_from_root(c) \in {[k \in DOMAIN p |-> p[k][1]] : p \in PathsTo(c)}

\* The invariants of the shell: its type, chains that stay disjoint too when parents are
\* stale, and prompts that are true.
ShellInv == ShellTypeOK /\ ChainsOwn /\ PromptIsPath

\* What may come of a cat, in the tree t, of the path p.
CatTrue(t, p, outcomes) ==
  LET file == p \in DOMAIN t /\ t[p].bytes # <<>>
  IN  /\ \A o \in outcomes :
           /\ o.ret = 2 => p \notin DOMAIN t
           /\ o.ret = 0 => p \in DOMAIN t
           /\ o.ret = 0 /\ file =>
                [k \in DOMAIN o.shown |-> disk[o.shown[k]]] = SubSeq(t[p].bytes, 1, Min({4, Len(t[p].bytes)}))
      /\ file => \E o \in outcomes : o.ret = 0

\* find finds everything of a name, in folders of that name too, and ls shows what is in a
\* folder, whatever removals and moves have done to the order of the entries and whatever
\* cluster a folder was given (shell_cmd.c 162-185, 642-680).  cat may report success only
\* of what is there, and then its buffer begins a file's text with the first four clusters;
\* it reports that nothing is found only if nothing is, and a file's text can be seen
\* (shell_cmd.c 241-294).  Of a folder, which cat's comment calls no file, nothing more is
\* claimed: read opens it.
FindsAll ==
  Ready => \E t \in {TreeOn(disk, fat)} :
    /\ \A n \in Names :
         dfs_find(n) = {[k \in DOMAIN p |-> p[k][1]] : p \in {q \in DOMAIN t \ {<<>>} : Last(q)[1] = n}}
    /\ \A c \in FolderClusters : \A base \in PathsTo(c) :
         /\ ls(c) = {<<Last(q)[1], t[q].bytes = <<>>>> : q \in {r \in DOMAIN t \ {<<>>} : Front(r) = base}}
         /\ \A n \in Names : CatTrue(t, Append(base, <<n, NoExt>>), cat(c, n))

=============================================================================
