------------------------------ MODULE FileTree ------------------------------
(***************************************************************************)
(* What a file system promises its users, free of clusters, tables and     *)
(* caches: a tree of named folders and files, each change all or nothing.  *)
(* An object is known by its path, the sequence of the names that lead to  *)
(* it from the root.                                                       *)
(***************************************************************************)
EXTENDS Integers, Sequences

CONSTANTS Labels, \* the names an object can have in its folder
          Folder, \* what a folder is in the tree
          Files   \* what a file is: its bytes and its size

VARIABLE tree \* the folder or file at every path there is

IsPrefix(p, q) == Len(p) <= Len(q) /\ SubSeq(q, 1, Len(p)) = p
Suffix(p, q)   == SubSeq(q, Len(p) + 1, Len(q))

\* The objects of a tree at or inside the one at p.
Under(t, p) == {q \in DOMAIN t : IsPrefix(p, q)}

Folders(t) == {p \in DOMAIN t : t[p] = Folder}

Init == tree = [p \in {<<>>} |-> Folder]

\* Each operation relates the tree before it to the tree after it.  A new file or
\* empty folder in an existing folder, under a name not in use:
Create(t, u) ==
  \E p \in Folders(t), n \in Labels :
    LET new == Append(p, n)
    IN  /\ new \in DOMAIN u \ DOMAIN t
        /\ u[new] \in Files \cup {Folder}
        /\ u = [q \in DOMAIN t \cup {new} |-> IF q = new THEN u[new] ELSE t[q]]

\* An object disappears with all that is in it, and nothing else does.
Remove(t, u) ==
  \E p \in DOMAIN t \ DOMAIN u : p # <<>> /\ u = [q \in DOMAIN t \ Under(t, p) |-> t[q]]

\* An object moves to another place with all that is in it.
Move(t, u) ==
  \E p \in DOMAIN t \ DOMAIN u, d \in Folders(t), n \in Labels :
    LET to == Append(d, n)
    IN  /\ p # <<>> /\ d \notin Under(t, p)
        /\ to \in DOMAIN u \ DOMAIN t
        /\ u = [q \in (DOMAIN t \ Under(t, p)) \cup {to \o Suffix(p, r) : r \in Under(t, p)} |->
                  IF IsPrefix(to, q) THEN t[p \o Suffix(to, q)] ELSE t[q]]

\* A request that is refused.
Refuse(t, u) == u = t

Next == \E t \in {tree}, u \in {tree'} :
          Refuse(t, u) \/ Create(t, u) \/ Remove(t, u) \/ Move(t, u)

Spec == Init /\ [][Next]_tree
=============================================================================
