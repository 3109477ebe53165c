---------------------------- MODULE MCFileSystem ----------------------------
(* Model values for the configurations of FileSystem. *)
EXTENDS FileSystem, TLC

CONSTANTS a, b, c \* three names

\* Nothing in the driver orders names: it compares them, and entries by index.
NameSymmetry == Permutations(Names)
=============================================================================
