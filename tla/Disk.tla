------------------------------- MODULE Disk -------------------------------
(***************************************************************************)
(* disk.c: blocks read and written through the registers of an ATA device, *)
(* one word at a time, with the two wrappers of fat32.c that turn clusters *)
(* into blocks.  The device works by itself: it takes its time over every  *)
(* block, refuses blocks it does not have, and stores a block after it has *)
(* got its last word, while the driver may already have returned.          *)
(*                                                                         *)
(* A byte is two nibbles of NIBBLE values, so that all four registers of   *)
(* an address count even on a disk of a few blocks.                        *)
(***************************************************************************)
EXTENDS Integers

CONSTANTS NIBBLE,              \* 16
          HALF_BLOCK_SIZE,     \* words of a block: 256
          CLUSTER_BLOCK_COUNT, \* 4
          BLOCKS,              \* blocks the disk has
          MEMORY,              \* words of memory that buffers lie in
          Words,
          Images,              \* what the disk may hold at first
          Memories,            \* what memory may hold after power-up
          Requests             \* what the file system asks for

BYTE    == NIBBLE * NIBBLE
LBA_END == NIBBLE * (BYTE * (BYTE * BYTE))

Blocks    == 0 .. BLOCKS - 1
Addresses == 0 .. MEMORY - 1
Block     == [0 .. HALF_BLOCK_SIZE - 1 -> Words]
Kinds     == {"read", "write"}

ASSUME DiskAssumption ==
  /\ NIBBLE \in Nat /\ NIBBLE > 1
  /\ HALF_BLOCK_SIZE \in Nat \ {0}
  /\ CLUSTER_BLOCK_COUNT \in Nat \ {0}
  /\ BLOCKS \in 1 .. LBA_END
  /\ MEMORY \in Nat
  /\ Images \subseteq [Blocks -> Block]
  /\ Memories \subseteq [Addresses -> Words]

\* Clusters are few enough for a byte to count their blocks, and fit in the buffer.
ASSUME RequestAssumption ==
  \A r \in Requests :
    /\ r \in [kind : Kinds, ptr : Nat, cluster : Nat, count : Nat]
    /\ r.count * CLUSTER_BLOCK_COUNT \in 1 .. BYTE - 1
    /\ r.ptr + HALF_BLOCK_SIZE * (r.count * CLUSTER_BLOCK_COUNT) <= MEMORY

VARIABLES disk,      \* the blocks as they would survive a power cut
          device,    \* what the device is doing
          registers, \* the ports an address is written to
          memory,
          pc,        \* where the driver is
          call,      \* the arguments of read_blocks or write_blocks
          i, j,      \* its loop variables
          target     \* where read_blocks puts the current block

driverVars == <<pc, call, i, j, target>>
vars == <<disk, device, registers, memory, pc, call, i, j, target>>

SECTOR_COUNT == 498 \* 0x1F2
LBA_LOW      == 499
LBA_MID      == 500
LBA_HIGH     == 501
DRIVE        == 502
Ports        == SECTOR_COUNT .. DRIVE

NoCall == [kind |-> "none", ptr |-> 0, lba |-> 0, count |-> 0]

DiskInit ==
  /\ disk \in Images
  /\ memory \in Memories
  /\ device = [state |-> "ready", kind |-> "read", address |-> 0, left |-> 0, at |-> 0,
               sector |-> disk[0]]
  /\ registers = [p \in Ports |-> 0]
  /\ pc = "idle"
  /\ call = NoCall
  /\ i = 0 /\ j = 0 /\ target = 0

-----------------------------------------------------------------------------
(* The device *)

\* The bits of its status that the driver looks at.
ATA_STATUS_BSY == device.state \in {"seeking", "storing"}
ATA_STATUS_RDY == ~ATA_STATUS_BSY
ATA_STATUS_DRQ == device.state \in {"data_in", "data_out"}

\* The address in its registers.
Addressed(r) ==
  r[LBA_LOW] + BYTE * (r[LBA_MID] + BYTE * (r[LBA_HIGH] + BYTE * (r[DRIVE] % NIBBLE)))

\* A command; a device that is busy takes none, and none of what goes before it.
Commanded(kind, r) ==
  IF ATA_STATUS_BSY THEN device
  ELSE [device EXCEPT !.state = "seeking", !.kind = kind, !.address = Addressed(r),
                      !.left = IF r[SECTOR_COUNT] = 0 THEN BYTE ELSE r[SECTOR_COUNT]]

\* After a block: on to the next one, or done.
Onwards ==
  IF device.left = 1 THEN [device EXCEPT !.state = "ready", !.left = 0]
  ELSE [device EXCEPT !.state = "seeking", !.left = @ - 1, !.address = @ + 1]

\* The block is found, or the command is aborted: error bit on, busy bit off.
Seek ==
  /\ device.state = "seeking"
  /\ device' = IF device.address \notin Blocks
                 THEN [device EXCEPT !.state = "ready"]
               ELSE IF device.kind = "read"
                 THEN [device EXCEPT !.state = "data_in", !.at = 0, !.sector = disk[device.address]]
               ELSE [device EXCEPT !.state = "data_out", !.at = 0]
  /\ UNCHANGED <<disk, registers, memory, driverVars>>

\* The block received reaches the disk.
Store ==
  /\ device.state = "storing"
  /\ disk' = [disk EXCEPT ![device.address] = device.sector]
  /\ device' = Onwards
  /\ UNCHANGED <<registers, memory, driverVars>>

-----------------------------------------------------------------------------
(* The driver *)

out(r, port, data) == [r EXCEPT ![port] = data % BYTE]

\* A word comes from the device, or from nowhere if it has none to give.
in16(word) ==
  IF device.state = "data_in"
    THEN /\ word = device.sector[device.at]
         /\ device' = IF device.at + 1 < HALF_BLOCK_SIZE
                      THEN [device EXCEPT !.at = @ + 1] ELSE Onwards
    ELSE /\ word \in Words
         /\ UNCHANGED device

\* A word goes to the device, or nowhere if it expects none.
out16(word) ==
  device' = IF device.state # "data_out" THEN device
            ELSE [device EXCEPT
                    !.sector = [@ EXCEPT ![device.at] = word],
                    !.at = @ + 1,
                    !.state = IF device.at + 1 < HALF_BLOCK_SIZE THEN @ ELSE "storing"]

\* Seeded fault: nothing is waited for.
NoBusyWait == TRUE

ATA_busy_wait == ~ATA_STATUS_BSY

\* Seeded fault: the wait is for what its name says.
RequestAwaited == ATA_STATUS_DRQ

ATA_DRQ_wait  == ATA_STATUS_RDY

\* read_blocks or write_blocks is called.
Begin(kind, ptr, lba, count) ==
  /\ pc = "idle"
  /\ pc' = "issue"
  /\ call' = [kind |-> kind, ptr |-> ptr, lba |-> lba, count |-> count]
  /\ UNCHANGED <<disk, device, registers, memory, i, j, target>>

\* The four shifts of the address, each a byte further.
Byte1(lba) == lba \div BYTE
Byte2(lba) == Byte1(lba) \div BYTE
Byte3(lba) == Byte2(lba) \div BYTE

\* 0xE0 is the upper nibble: address by block.
LBA_MODE == NIBBLE * (NIBBLE - 2)

WithDrive(r, lba)        == out(r, DRIVE, LBA_MODE + (Byte3(lba) % NIBBLE))
WithCount(r, lba, count) == out(WithDrive(r, lba), SECTOR_COUNT, count)
WithAddress(r, lba, count) ==
  out(out(out(WithCount(r, lba, count), LBA_LOW, lba), LBA_MID, Byte1(lba)), LBA_HIGH, Byte2(lba))

\* The device is waited for and gets the address and the command.
Issue ==
  /\ pc = "issue"
  /\ ATA_busy_wait
  /\ registers' = WithAddress(registers, call.lba, call.count)
  /\ device' = Commanded(call.kind, registers')
  /\ pc' = "block"
  /\ i' = 0
  /\ j' = 0
  /\ target' = call.ptr
  /\ UNCHANGED <<disk, memory, call>>

\* The device is waited for before each block.
WaitForBlock ==
  /\ pc = "block"
  /\ i < call.count
  /\ ATA_busy_wait
  /\ ATA_DRQ_wait
  /\ pc' = "words"
  /\ UNCHANGED <<disk, device, registers, memory, call, i, j, target>>

\* One turn of the inner loop, and the end of the outer one after the last.
NextWord ==
  IF j + 1 < HALF_BLOCK_SIZE
    THEN /\ j' = j + 1
         /\ UNCHANGED <<pc, i, target>>
    ELSE /\ pc' = "block"
         /\ i' = i + 1
         /\ j' = 0
         /\ target' = IF call.kind = "read" THEN target + HALF_BLOCK_SIZE ELSE target

\* Seeded fault: the buffer is not indexed.
ReadWordInPlace ==
  /\ pc = "words"
  /\ call.kind = "read"
  /\ \E word \in Words : /\ in16(word)
                         /\ memory' = [memory EXCEPT ![target] = word]
  /\ NextWord
  /\ UNCHANGED <<disk, registers, call>>

ReadWord ==
  /\ pc = "words"
  /\ call.kind = "read"
  /\ \E word \in Words : /\ in16(word)
                         /\ memory' = [memory EXCEPT ![target + j] = word]
  /\ NextWord
  /\ UNCHANGED <<disk, registers, call>>

WriteWord ==
  /\ pc = "words"
  /\ call.kind = "write"
  /\ out16(memory[call.ptr + HALF_BLOCK_SIZE * i + j])
  /\ NextWord
  /\ UNCHANGED <<disk, registers, memory, call>>

\* The outer loop is over; nothing is waited for.
Return ==
  /\ pc = "block"
  /\ i = call.count
  /\ pc' = "idle"
  /\ call' = NoCall
  /\ i' = 0
  /\ UNCHANGED <<disk, device, registers, memory, j, target>>

-----------------------------------------------------------------------------
(* What the file system calls *)

BOOT_SECTOR == 0

\* The product is a uint32_t.
cluster_to_lba(cluster) == (cluster * CLUSTER_BLOCK_COUNT) % (BYTE * (BYTE * (BYTE * BYTE)))

\* The number of blocks is a uint8_t.
BlockCount(clusters) == (clusters * CLUSTER_BLOCK_COUNT) % BYTE

read_clusters(ptr, cluster, count) ==
  Begin("read", ptr, cluster_to_lba(cluster), BlockCount(count))

write_clusters(ptr, cluster, count) ==
  Begin("write", ptr, cluster_to_lba(cluster), BlockCount(count))

\* The signature is looked at, or put there.
BootSector(kind, ptr) == Begin(kind, ptr, cluster_to_lba(BOOT_SECTOR), 1)

\* The machine loses its power and gets it back.
PowerCut ==
  /\ memory' \in Memories
  /\ device' = [device EXCEPT !.state = "ready"]
  /\ pc' = "idle"
  /\ call' = NoCall
  /\ i' = 0
  /\ j' = 0
  /\ UNCHANGED <<disk, registers, target>>

Call == \E r \in Requests :
  \/ r.kind = "read" /\ read_clusters(r.ptr, r.cluster, r.count)
  \/ r.kind = "write" /\ write_clusters(r.ptr, r.cluster, r.count)
  \/ BootSector(r.kind, r.ptr)

Driver == Issue \/ WaitForBlock \/ ReadWord \/ WriteWord \/ Return
Device == Seek \/ Store

Next == Call \/ Driver \/ Device \/ PowerCut

Spec == DiskInit /\ [][Next]_vars

FairSpec == Spec /\ WF_vars(Driver) /\ WF_vars(Device)

-----------------------------------------------------------------------------
(* What must hold *)

DeviceType ==
  [state : {"ready", "seeking", "data_in", "data_out", "storing"}, kind : Kinds,
   address : Nat, left : 0 .. BYTE, at : 0 .. HALF_BLOCK_SIZE, sector : Block]

CallType == [kind : Kinds \cup {"none"}, ptr : Nat, lba : Nat, count : 0 .. BYTE - 1]

DiskTypeOK ==
  /\ disk \in [Blocks -> Block]
  /\ memory \in [Addresses -> Words]
  /\ device \in DeviceType
  /\ registers \in [Ports -> 0 .. BYTE - 1]
  /\ pc \in {"idle", "issue", "block", "words"}
  /\ call \in CallType
  /\ i \in 0 .. call.count
  /\ j \in 0 .. HALF_BLOCK_SIZE - 1
  /\ target \in Nat

\* Where the block that the driver is at lies, as its caller means it.
Here == (call.lba % LBA_END) + i

\* The call and its buffer.
InBuffer ==
  IF pc = "idle"
  THEN call = NoCall /\ i = 0 /\ j = 0
  ELSE /\ call.kind \in Kinds
       /\ call.count > 0
       /\ call.ptr + HALF_BLOCK_SIZE * call.count <= MEMORY
       /\ pc = "issue" => i = 0
       /\ pc = "words" => i < call.count
       /\ pc # "words" => j = 0
       /\ pc # "issue" /\ call.kind = "read" => target = call.ptr + HALF_BLOCK_SIZE * i

\* The device is at a block it has, and holds that block when it gives it away.
AtItsBlock ==
  /\ device.state \in {"data_in", "data_out", "storing"} =>
       device.address \in Blocks /\ device.left > 0
  /\ device.state = "data_in" => device.kind = "read" /\ device.sector = disk[device.address]
  /\ device.state \in {"data_out", "storing"} => device.kind = "write"

\* Between two calls the device has nothing to do but to store the last block.
WhenIdle ==
  pc \in {"idle", "issue"} =>
    device.state = "ready" \/ (device.state = "storing" /\ device.left = 1)

\* The device is at the driver's block and counts what is left as the driver does.
InStep == device.address = Here /\ device.left = call.count - i /\ device.kind = call.kind

Transfers == IF call.kind = "read" THEN "data_in" ELSE "data_out"

\* Before a block the device is done with the last one, or about to be, or has
\* refused this one, and then all behind it.
BeforeBlock ==
  pc = "block" =>
    \/ device.state = "ready" /\ (i = call.count \/ Here \notin Blocks)
    \/ device.state = "seeking" /\ i < call.count /\ InStep
    \/ device.state = Transfers /\ i < call.count /\ InStep /\ device.at = 0
    \/ /\ device.state = "storing"
       /\ call.kind = "write"
       /\ device.address = Here - 1
       /\ device.left = call.count - i + 1

\* Within a block they are at the same word, and the words before are sent.
WithinBlock ==
  pc = "words" =>
    \/ device.state = "ready" /\ Here \notin Blocks
    \/ /\ device.state = Transfers
       /\ InStep
       /\ device.at = j
       /\ call.kind = "write" =>
            \A k \in 0 .. j - 1 : device.sector[k] = memory[call.ptr + HALF_BLOCK_SIZE * i + k]

\* Driver and device agree on the block and the word they are at, whatever the
\* device refuses and whenever it was still storing when the driver came back.
DiskInv == DiskTypeOK /\ InBuffer /\ AtItsBlock /\ WhenIdle /\ BeforeBlock /\ WithinBlock

\* Read back, the block being stored is there already.
BlocksRead ==
  IF device.state = "storing" THEN [disk EXCEPT ![device.address] = device.sector] ELSE disk

Unstored ==
  IF device.state = "storing" THEN [at |-> device.address, held |-> disk[device.address]]
  ELSE [at |-> -1]

Promise == INSTANCE BlockStore WITH disk <- BlocksRead, unstored <- Unstored, block <- i, word <- j

\* Whatever way the registers, waits and words go, the file system gets blocks
\* read and written whole and in their places, or a disk that has no such block;
\* a power cut loses at most the last block written.
ImplementsBlockStore == Promise!Spec

\* A call returns, also one for blocks that the disk does not have.
EveryCallReturns == call.kind # "none" ~> call.kind = "none"
=============================================================================
