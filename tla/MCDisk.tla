------------------------------- MODULE MCDisk -------------------------------
EXTENDS Disk

MCRequests ==
  [kind : {"read"}, ptr : {0}, cluster : {1, 8, 32, 33, 63}, count : {1}]
    \cup [kind : {"write"}, ptr : {4}, cluster : {2, 33}, count : {1}]

\* Blocks differ from those at the addresses with one byte more or less.
MCImages == {[b \in Blocks |-> [k \in 0 .. 1 |-> IF b % 3 = k THEN 1 ELSE 0]]}

MCMemories == {[a \in Addresses |-> IF a \in {4, 7} THEN 1 ELSE 0]}
=============================================================================
