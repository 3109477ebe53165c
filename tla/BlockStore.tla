----------------------------- MODULE BlockStore -----------------------------
(***************************************************************************)
(* What the file system relies on when it reads and writes blocks: a call  *)
(* moves its blocks one after the other between the disk and the caller's  *)
(* memory, each to its own place; a block is written whole; blocks the     *)
(* disk does not have swallow what is written and read as anything; a      *)
(* power cut loses at most the last block written.                         *)
(***************************************************************************)
EXTENDS Integers

CONSTANTS BLOCKS, HALF_BLOCK_SIZE, LBA_END, MEMORY, Words, Images, Memories

VARIABLES disk,     \* what reading would find
          unstored, \* the block a power cut would undo, with what it held before
          memory,
          call,     \* kind, lba, count and buffer of the call, kind "none" between calls
          block,    \* its block and word that come next
          word

blockVars == <<disk, unstored, memory, call, block, word>>

Nothing == [at |-> -1]

Init ==
  /\ disk \in Images
  /\ memory \in Memories
  /\ unstored = Nothing
  /\ call.kind = "none"
  /\ block = 0 /\ word = 0

\* The place on the disk, addresses having 28 bits, and the place in memory.
Place == (call.lba % LBA_END) + block
Address == call.ptr + HALF_BLOCK_SIZE * block + word

OnDisk == Place \in 0 .. BLOCKS - 1

Begin ==
  /\ call.kind = "none"
  /\ call'.kind \in {"read", "write"}
  /\ UNCHANGED <<disk, unstored, memory, block, word>>

Advance ==
  /\ block < call.count
  /\ block' = IF word + 1 < HALF_BLOCK_SIZE THEN block ELSE block + 1
  /\ word' = IF word + 1 < HALF_BLOCK_SIZE THEN word + 1 ELSE 0
  /\ UNCHANGED call

Fetch ==
  /\ call.kind = "read"
  /\ \E w \in Words : /\ OnDisk => w = disk[Place][word]
                      /\ memory' = [memory EXCEPT ![Address] = w]
  /\ Advance
  /\ UNCHANGED <<disk, unstored>>

\* The last word of a block changes the disk, once the block before is stored.
Put ==
  IF word + 1 = HALF_BLOCK_SIZE /\ OnDisk
  THEN /\ unstored = Nothing
       /\ unstored' = [at |-> Place, held |-> disk[Place]]
       /\ disk' = [disk EXCEPT ![Place] =
                     [k \in 0 .. HALF_BLOCK_SIZE - 1 |->
                        memory[call.ptr + HALF_BLOCK_SIZE * block + k]]]
  ELSE UNCHANGED <<disk, unstored>>

Send ==
  /\ call.kind = "write"
  /\ Put
  /\ Advance
  /\ UNCHANGED memory

Settle ==
  /\ unstored # Nothing
  /\ unstored' = Nothing
  /\ UNCHANGED <<disk, memory, call, block, word>>

End ==
  /\ call.kind # "none"
  /\ block = call.count
  /\ call'.kind = "none"
  /\ block' = 0
  /\ UNCHANGED <<disk, unstored, memory, word>>

Cut ==
  /\ disk' = IF unstored = Nothing THEN disk ELSE [disk EXCEPT ![unstored.at] = unstored.held]
  /\ unstored' = Nothing
  /\ memory' \in Memories
  /\ call'.kind = "none"
  /\ block' = 0
  /\ word' = 0

Next == Begin \/ Fetch \/ Send \/ Settle \/ End \/ Cut

Spec == Init /\ [][Next]_blockVars
=============================================================================
