----------------------------- MODULE DiskProofs -----------------------------
(***************************************************************************)
(* Whatever the size of bytes, blocks, clusters, the disk and memory:      *)
(* driver and device agree on where they are, and what the file system     *)
(* calls is the store of blocks it relies on.  Arithmetic is needed to put *)
(* the four registers of an address together again; from there on blocks   *)
(* and words are counted.                                                  *)
(***************************************************************************)
EXTENDS Disk, Lemmas, TLAPS

-----------------------------------------------------------------------------
(* Registers *)

\* A digit in front of a number below s gives one below b times s.
LEMMA DigitBound ==
  ASSUME NEW b \in Nat \ {0}, NEW s \in Nat \ {0}, NEW r \in 0 .. b - 1, NEW x \in 0 .. s - 1
  PROVE  r + b * x \in 0 .. b * s - 1 /\ b * s \in Nat \ {0}
<1>1. b * s = b * (s - 1 - x) + b * x + b
  BY SMT
<1>2. b * (s - 1 - x) \in Nat /\ b * x \in Nat
  BY SMT
<1> DEFINE p == b * s
           y == b * (s - 1 - x)
           z == b * x
<1> HIDE DEF p, y, z
<1>3. p = y + z + b /\ y \in Nat /\ z \in Nat
  BY <1>1, <1>2 DEF p, y, z
<1>4. r + z \in 0 .. p - 1 /\ p \in Nat \ {0}
  BY <1>3, SMT
<1> QED
  BY <1>4 DEF p, z

\* The digits of a number, three in base b and one in base t, are its remainder.
LEMMA AddressOfDigits ==
  ASSUME NEW b \in Nat \ {0}, NEW t \in Nat \ {0}, NEW n \in Nat
  PROVE  (n % b) + b * (((n \div b) % b) + b * ((((n \div b) \div b) % b)
           + b * ((((n \div b) \div b) \div b) % t)))
         = n % (t * (b * (b * b)))
<1> DEFINE q1 == n \div b
           q2 == q1 \div b
           q3 == q2 \div b
           q4 == q3 \div t
           r0 == n % b
           r1 == q1 % b
           r2 == q2 % b
           r3 == q3 % t
           a  == r0 + b * (r1 + b * (r2 + b * r3))
           m  == t * (b * (b * b))
<1>1. q1 \in Nat /\ r0 \in 0 .. b - 1 /\ n = b * q1 + r0
  BY DivMod
<1> HIDE DEF q1, r0
<1>2. q2 \in Nat /\ r1 \in 0 .. b - 1 /\ q1 = b * q2 + r1
  BY <1>1, DivMod
<1> HIDE DEF q2, r1
<1>3. q3 \in Nat /\ r2 \in 0 .. b - 1 /\ q2 = b * q3 + r2
  BY <1>2, DivMod
<1> HIDE DEF q3, r2
<1>4. q4 \in Nat /\ r3 \in 0 .. t - 1 /\ q3 = t * q4 + r3
  BY <1>3, DivMod
<1> HIDE DEF q4, r3
<1>5. a \in 0 .. b * (b * (b * t)) - 1 /\ b * (b * (b * t)) \in Nat \ {0}
  <2>1. r2 + b * r3 \in 0 .. b * t - 1 /\ b * t \in Nat \ {0}
    BY <1>3, <1>4, DigitBound
  <2>2. r1 + b * (r2 + b * r3) \in 0 .. b * (b * t) - 1 /\ b * (b * t) \in Nat \ {0}
    BY <1>2, <2>1, DigitBound
  <2> QED
    BY <1>1, <2>2, DigitBound
<1>6. b * (b * (b * t)) = m
  BY SMT
<1>7. n = m * q4 + a
  <2>1. q2 = b * (t * q4) + (r2 + b * r3)
    BY <1>3, <1>4, SMT
  <2>2. q1 = b * (b * (t * q4)) + (r1 + b * (r2 + b * r3))
    BY <1>2, <1>3, <1>4, <2>1, SMT
  <2>3. n = b * (b * (b * (t * q4))) + a
    BY <1>1, <1>2, <1>3, <1>4, <2>2, SMT
  <2>4. b * (b * (b * (t * q4))) = m * q4
    BY <1>4, SMT
  <2> QED
    BY <2>3, <2>4
<1>8. m \in Nat \ {0} /\ a \in 0 .. m - 1
  BY <1>5, <1>6
<1> HIDE DEF m, a
<1>9. (m * q4 + a) % m = a
  BY <1>4, <1>8, ModUnique
<1>10. n % m = a
  BY <1>7, <1>9
<1> QED
  BY <1>10 DEF m, a, r0, r1, r2, r3, q1, q2, q3

\* How many values a digit and a byte have, and how many blocks have an address.
LEMMA Bytes ==
  /\ NIBBLE \in Nat \ {0} /\ NIBBLE > 1
  /\ BYTE \in Nat \ {0} /\ BYTE > 1
  /\ LBA_END \in Nat \ {0}
<1>1. NIBBLE \in Nat \ {0} /\ NIBBLE > 1
  BY DiskAssumption
<1>2. BYTE \in Nat \ {0} /\ BYTE > 1
  <2>1. NIBBLE * NIBBLE \in Nat /\ NIBBLE * NIBBLE >= NIBBLE + NIBBLE
    BY <1>1, SMT
  <2> QED
    BY <1>1, <2>1 DEF BYTE
<1>3. LBA_END \in Nat \ {0}
  <2>1. \A b \in Nat \ {0}, t \in Nat \ {0} : t * b \in Nat \ {0}
    BY SMT
  <2>2. BYTE * BYTE \in Nat \ {0}
    BY <1>2, <2>1
  <2>3. BYTE * (BYTE * BYTE) \in Nat \ {0}
    BY <1>2, <2>1, <2>2
  <2> QED
    BY <1>1, <2>1, <2>3 DEF LBA_END
<1> QED
  BY <1>1, <1>2, <1>3

\* The drive register: the upper nibble does not disturb the lower.
LEMMA DriveNibble ==
  ASSUME NEW x \in 0 .. NIBBLE - 1
  PROVE  /\ LBA_MODE + x \in 0 .. BYTE - 1
         /\ ((LBA_MODE + x) % BYTE) % NIBBLE = x
<1>1. NIBBLE \in Nat \ {0} /\ NIBBLE > 1 /\ BYTE \in Nat \ {0}
  BY Bytes
<1>2. LBA_MODE + x \in 0 .. BYTE - 1
  <2>1. NIBBLE * (NIBBLE - 2) = NIBBLE * NIBBLE - NIBBLE - NIBBLE
    BY <1>1, SMT
  <2>2. NIBBLE * (NIBBLE - 2) \in Nat
    BY <1>1, SMT
  <2>3. NIBBLE * NIBBLE \in Nat
    BY <1>1, SMT
  <2> DEFINE p == NIBBLE * (NIBBLE - 2)
             q == NIBBLE * NIBBLE
  <2>4. p \in Nat /\ q \in Nat /\ p = q - NIBBLE - NIBBLE
    BY <2>1, <2>2, <2>3
  <2> HIDE DEF p, q
  <2>5. p + x \in 0 .. q - 1
    BY <1>1, <2>4, SMT
  <2> QED
    BY <2>5 DEF p, q, LBA_MODE, BYTE
<1>3. (LBA_MODE + x) % BYTE = LBA_MODE + x
  <2> DEFINE y == LBA_MODE + x
  <2>1. y \in 0 .. BYTE - 1
    BY <1>2
  <2> HIDE DEF y
  <2>2. (BYTE * 0 + y) % BYTE = y
    BY <1>1, <2>1, ModUnique
  <2>3. BYTE * 0 + y = y
    BY <1>1, <2>1, SMT
  <2> QED
    BY <2>2, <2>3 DEF y
<1>4. (LBA_MODE + x) % NIBBLE = x
  <2>1. (NIBBLE * (NIBBLE - 2) + x) % NIBBLE = x
    BY <1>1, ModUnique
  <2> QED
    BY <2>1 DEF LBA_MODE
<1> QED
  BY <1>2, <1>3, <1>4

\* A number below BYTE is its own byte, and any number's byte is below BYTE.
LEMMA ByteOf ==
  /\ \A n \in Nat : n % BYTE \in 0 .. BYTE - 1
  /\ \A n \in 0 .. BYTE - 1 : n % BYTE = n
<1>1. BYTE \in Nat \ {0}
  BY Bytes
<1>2. ASSUME NEW n \in Nat PROVE n % BYTE \in 0 .. BYTE - 1
  BY <1>1, DivMod
<1>3. ASSUME NEW n \in 0 .. BYTE - 1 PROVE n % BYTE = n
  <2>1. (BYTE * 0 + n) % BYTE = n
    BY <1>1, ModUnique
  <2>2. BYTE * 0 + n = n
    BY <1>1, SMT
  <2> QED
    BY <2>1, <2>2
<1> QED
  BY <1>2, <1>3

\* What the six port writes leave: the count, and the address modulo 28 bits.
LEMMA AddressInRegisters ==
  ASSUME NEW r \in [Ports -> 0 .. BYTE - 1], NEW lba \in Nat, NEW count \in 0 .. BYTE - 1
  PROVE  /\ WithAddress(r, lba, count) \in [Ports -> 0 .. BYTE - 1]
         /\ WithAddress(r, lba, count)[SECTOR_COUNT] = count
         /\ Addressed(WithAddress(r, lba, count)) = lba % LBA_END
<1> DEFINE s == WithAddress(r, lba, count)
<1>1. BYTE \in Nat \ {0} /\ NIBBLE \in Nat \ {0}
  BY Bytes
<1>2. Byte1(lba) \in Nat /\ Byte2(lba) \in Nat /\ Byte3(lba) \in Nat
  <2>1. Byte1(lba) \in Nat
    BY <1>1, DivMod DEF Byte1
  <2>2. Byte2(lba) \in Nat
    BY <1>1, <2>1, DivMod DEF Byte2
  <2>3. Byte3(lba) \in Nat
    BY <1>1, <2>2, DivMod DEF Byte3
  <2> QED
    BY <2>1, <2>2, <2>3
<1> DEFINE x == Byte3(lba) % NIBBLE
<1>3. x \in 0 .. NIBBLE - 1
  BY <1>1, <1>2, DivMod
<1> DEFINE d == (LBA_MODE + x) % BYTE
<1>4. d \in 0 .. BYTE - 1 /\ d % NIBBLE = x
  <2>1. LBA_MODE + x \in Nat
    BY <1>1, <1>3, DriveNibble
  <2> QED
    BY <1>3, <2>1, DriveNibble, ByteOf
<1> DEFINE c == count % BYTE
           l == lba % BYTE
           m == Byte1(lba) % BYTE
           h == Byte2(lba) % BYTE
<1>5. s = [p \in Ports |-> IF p = DRIVE THEN d
                           ELSE IF p = SECTOR_COUNT THEN c
                           ELSE IF p = LBA_LOW THEN l
                           ELSE IF p = LBA_MID THEN m
                           ELSE h]
  <2>1. s = [[[[[r EXCEPT ![DRIVE] = d] EXCEPT ![SECTOR_COUNT] = c] EXCEPT ![LBA_LOW] = l]
               EXCEPT ![LBA_MID] = m] EXCEPT ![LBA_HIGH] = h]
    BY DEF WithAddress, WithCount, WithDrive, out
  <2> HIDE DEF s, d, c, l, m, h
  <2>2. /\ Ports = {SECTOR_COUNT, LBA_LOW, LBA_MID, LBA_HIGH, DRIVE}
        /\ DRIVE \notin {SECTOR_COUNT, LBA_LOW, LBA_MID, LBA_HIGH}
        /\ SECTOR_COUNT \notin {LBA_LOW, LBA_MID, LBA_HIGH}
        /\ LBA_LOW \notin {LBA_MID, LBA_HIGH}
        /\ LBA_MID # LBA_HIGH
    BY SMT DEF Ports, DRIVE, SECTOR_COUNT, LBA_LOW, LBA_MID, LBA_HIGH
  <2>3. s = [p \in Ports |-> s[p]] /\ DOMAIN s = Ports
    BY <2>1
  <2>4. /\ s[DRIVE] = d /\ s[SECTOR_COUNT] = c /\ s[LBA_LOW] = l /\ s[LBA_MID] = m
        /\ s[LBA_HIGH] = h
    BY <2>1, <2>2
  <2>5. \A p \in Ports : s[p] = IF p = DRIVE THEN d
                                ELSE IF p = SECTOR_COUNT THEN c
                                ELSE IF p = LBA_LOW THEN l
                                ELSE IF p = LBA_MID THEN m
                                ELSE h
    BY <2>2, <2>4, Zenon
  <2> QED
    BY <2>3, <2>5
<1>6. /\ count % BYTE = count
      /\ lba % BYTE \in 0 .. BYTE - 1
      /\ Byte1(lba) % BYTE \in 0 .. BYTE - 1
      /\ Byte2(lba) % BYTE \in 0 .. BYTE - 1
  BY <1>2, ByteOf
<1>7. s \in [Ports -> 0 .. BYTE - 1]
  <2> HIDE DEF s, d
  <2> QED
    BY <1>4, <1>5, <1>6
<1>8. /\ s[SECTOR_COUNT] = count /\ s[LBA_LOW] = lba % BYTE /\ s[LBA_MID] = Byte1(lba) % BYTE
      /\ s[LBA_HIGH] = Byte2(lba) % BYTE /\ s[DRIVE] = d
  <2> HIDE DEF s, d
  <2> QED
    BY <1>5, <1>6 DEF Ports, DRIVE, SECTOR_COUNT, LBA_LOW, LBA_MID, LBA_HIGH
<1>9. Addressed(s) = (lba % BYTE) + BYTE * ((Byte1(lba) % BYTE) + BYTE * ((Byte2(lba) % BYTE)
                       + BYTE * (Byte3(lba) % NIBBLE)))
  <2> HIDE DEF s, d
  <2> QED
    BY <1>4, <1>8 DEF Addressed
<1>10. Addressed(s) = lba % LBA_END
  BY <1>1, <1>9, AddressOfDigits DEF Byte1, Byte2, Byte3, LBA_END
<1> QED
  BY <1>7, <1>8, <1>10

-----------------------------------------------------------------------------
(* The device *)

\* After a block, one less is left and the next is at the next address.
LEMMA OnwardsEffect ==
  ASSUME device \in DeviceType, device.left > 0
  PROVE  /\ Onwards \in DeviceType
         /\ Onwards.kind = device.kind
         /\ device.left = 1 => Onwards.state = "ready"
         /\ device.left # 1 => /\ Onwards.state = "seeking"
                               /\ Onwards.left = device.left - 1
                               /\ Onwards.address = device.address + 1
<1>1. BYTE \in Nat
  BY Bytes
<1>2. CASE device.left = 1
  <2>1. Onwards = [state |-> "ready", kind |-> device.kind, address |-> device.address, left |-> 0,
                   at |-> device.at, sector |-> device.sector]
    BY <1>2 DEF Onwards, DeviceType
  <2>2. 0 \in 0 .. BYTE
    BY <1>1
  <2> QED
    BY <1>2, <2>1, <2>2 DEF DeviceType
<1>3. CASE device.left # 1
  <2>1. Onwards = [device EXCEPT !.state = "seeking", !.left = device.left - 1,
                                 !.address = device.address + 1]
    BY <1>3 DEF Onwards
  <2>2. device.left - 1 \in 0 .. BYTE /\ device.address + 1 \in Nat
    BY <1>1 DEF DeviceType
  <2> QED
    BY <1>3, <2>1, <2>2 DEF DeviceType
<1> QED
  BY <1>2, <1>3

\* A command to a device that is ready.
LEMMA CommandedEffect ==
  ASSUME device \in DeviceType, device.state = "ready", NEW kind \in Kinds,
         NEW r \in [Ports -> 0 .. BYTE - 1], r[SECTOR_COUNT] # 0, Addressed(r) \in Nat
  PROVE  /\ Commanded(kind, r) \in DeviceType
         /\ Commanded(kind, r).state = "seeking"
         /\ Commanded(kind, r).kind = kind
         /\ Commanded(kind, r).address = Addressed(r)
         /\ Commanded(kind, r).left = r[SECTOR_COUNT]
<1>1. BYTE \in Nat /\ r[SECTOR_COUNT] \in 0 .. BYTE
  BY Bytes DEF Ports, SECTOR_COUNT, DRIVE
<1> QED
  BY <1>1 DEF Commanded, ATA_STATUS_BSY, DeviceType, Kinds

-----------------------------------------------------------------------------
(* The invariant *)

\* The sizes are numbers.
LEMMA Sizes ==
  /\ HALF_BLOCK_SIZE \in Nat \ {0} /\ MEMORY \in Nat /\ BLOCKS \in Nat \ {0}
  /\ LBA_END \in Nat \ {0} /\ BYTE \in Nat /\ BYTE > 1
BY DiskAssumption, Bytes

\* A block and its place in a buffer.
LEMMA Strides ==
  ASSUME NEW w \in Nat, NEW n \in Nat, NEW c \in Nat
  PROVE  /\ w * n \in Nat
         /\ w * (n + 1) = w * n + w
         /\ w * 0 = 0
         /\ n < c => w * n + w <= w * c
<1>1. w * n \in Nat /\ w * (n + 1) = w * n + w /\ w * 0 = 0
  BY SMT
<1>2. ASSUME n < c PROVE w * n + w <= w * c
  <2>1. w * (c - n - 1) \in Nat
    BY <1>2, SMT
  <2>2. w * c = w * (c - n - 1) + w * n + w
    BY SMT
  <2> DEFINE x == w * (c - n - 1)
             y == w * c
             z == w * n
  <2>3. x \in Nat /\ y = x + z + w /\ z \in Nat
    BY <1>1, <2>1, <2>2
  <2> HIDE DEF x, y, z
  <2>4. z + w <= y
    BY <2>3, SMT
  <2> QED
    BY <2>4 DEF x, y, z
<1> QED
  BY <1>1, <1>2

\* At power-up driver and device agree,
LEMMA DiskInitInv == DiskInit => DiskInv
<1> SUFFICES ASSUME DiskInit PROVE DiskInv
  OBVIOUS
<1>1. disk \in [Blocks -> Block] /\ memory \in [Addresses -> Words]
  BY DiskAssumption DEF DiskInit
<1>2. 0 \in Blocks
  BY Sizes DEF Blocks
<1>3. device \in DeviceType
  BY <1>1, <1>2, Sizes DEF DiskInit, DeviceType, Kinds
<1>4. registers \in [Ports -> 0 .. BYTE - 1]
  BY Sizes DEF DiskInit
<1>5. call \in CallType /\ call.count = 0
  BY Sizes DEF DiskInit, NoCall, CallType
<1>6. DiskTypeOK
  BY <1>1, <1>3, <1>4, <1>5, Sizes DEF DiskInit, DiskTypeOK
<1> QED
  BY <1>6 DEF DiskInit, DiskInv, InBuffer, AtItsBlock, WhenIdle, BeforeBlock, WithinBlock

\* A call begins.
LEMMA BeginInv ==
  ASSUME DiskInv, NEW kind \in Kinds, NEW ptr \in Nat, NEW lba \in Nat, NEW count \in 1 .. BYTE - 1,
         ptr + HALF_BLOCK_SIZE * count <= MEMORY, Begin(kind, ptr, lba, count)
  PROVE  DiskInv'
<1>1. call' \in CallType /\ call'.kind = kind /\ call'.count = count /\ call'.ptr = ptr
  BY Sizes DEF Begin, CallType
<1>2. pc = "idle" /\ pc' = "issue" /\ i = 0 /\ j = 0
  BY DEF Begin, DiskInv, InBuffer
<1>3. UNCHANGED <<disk, device, registers, memory, i, j, target>>
  BY DEF Begin
<1>4. DiskTypeOK'
  BY <1>1, <1>2, <1>3, Sizes DEF DiskInv, DiskTypeOK
<1>5. InBuffer'
  BY <1>1, <1>2, <1>3 DEF InBuffer
<1>6. AtItsBlock'
  BY <1>3 DEF DiskInv, AtItsBlock
<1>7. WhenIdle' /\ BeforeBlock' /\ WithinBlock'
  BY <1>2, <1>3 DEF DiskInv, WhenIdle, BeforeBlock, WithinBlock
<1> QED
  BY <1>4, <1>5, <1>6, <1>7 DEF DiskInv

\* The device finds the block, or refuses it.
LEMMA SeekInv == DiskInv /\ Seek => DiskInv'
<1> SUFFICES ASSUME DiskInv, Seek PROVE DiskInv'
  OBVIOUS
<1>1. UNCHANGED <<disk, registers, memory, pc, call, i, j, target>>
  BY DEF Seek, driverVars
<1>2. /\ disk \in [Blocks -> Block] /\ device \in DeviceType /\ call \in CallType
      /\ device.state = "seeking"
  BY DEF DiskInv, DiskTypeOK, Seek
<1>3. pc = "block" /\ i < call.count /\ InStep
  BY <1>2 DEF DiskInv, DiskTypeOK, WhenIdle, BeforeBlock, WithinBlock, Transfers
<1>4. call.kind \in Kinds
  BY <1>3 DEF DiskInv, InBuffer
<1>5. Here' = Here /\ Transfers' = Transfers
  BY <1>1 DEF Here, Transfers
<1>6. device.left > 0
  BY <1>2, <1>3, Sizes DEF InStep, CallType, DeviceType, DiskInv, DiskTypeOK
<1>7. CASE device.address \notin Blocks
  <2>1. device' = [device EXCEPT !.state = "ready"]
    BY <1>7 DEF Seek
  <2>2. device' \in DeviceType /\ device'.state = "ready"
    BY <1>2, <2>1 DEF DeviceType
  <2>3. Here \notin Blocks
    BY <1>3, <1>7 DEF InStep
  <2>4. DiskTypeOK' /\ InBuffer'
    BY <1>1, <2>2 DEF DiskInv, DiskTypeOK, InBuffer
  <2> QED
    BY <1>1, <1>3, <1>5, <2>2, <2>3, <2>4
       DEF DiskInv, AtItsBlock, WhenIdle, BeforeBlock, WithinBlock, Blocks
<1>8. CASE device.address \in Blocks /\ device.kind = "read"
  <2>1. device' = [device EXCEPT !.state = "data_in", !.at = 0, !.sector = disk[device.address]]
    BY <1>8 DEF Seek
  <2>2. disk[device.address] \in Block
    BY <1>2, <1>8
  <2>3. /\ device' \in DeviceType /\ device'.state = "data_in" /\ device'.at = 0
        /\ device'.sector = disk[device.address]
        /\ device'.kind = device.kind /\ device'.address = device.address
        /\ device'.left = device.left
    <3>1. device' = [state |-> "data_in", kind |-> device.kind, address |-> device.address,
                     left |-> device.left, at |-> 0, sector |-> disk[device.address]]
      BY <1>2, <2>1 DEF DeviceType
    <3>2. 0 \in 0 .. HALF_BLOCK_SIZE
      BY Sizes
    <3> QED
      BY <1>2, <2>2, <3>1, <3>2 DEF DeviceType
  <2>4. DiskTypeOK' /\ InBuffer'
    BY <1>1, <2>3 DEF DiskInv, DiskTypeOK, InBuffer
  <2>5. AtItsBlock'
    BY <1>1, <1>6, <1>8, <2>3 DEF AtItsBlock, Blocks
  <2>6. BeforeBlock'
    BY <1>1, <1>3, <1>5, <1>8, <2>3 DEF BeforeBlock, InStep, Transfers
  <2> QED
    BY <1>1, <1>3, <2>4, <2>5, <2>6 DEF DiskInv, WhenIdle, WithinBlock
<1>9. CASE device.address \in Blocks /\ device.kind # "read"
  <2>1. device' = [device EXCEPT !.state = "data_out", !.at = 0]
    BY <1>9 DEF Seek
  <2>2. /\ device' \in DeviceType /\ device'.state = "data_out" /\ device'.at = 0
        /\ device'.kind = device.kind /\ device'.address = device.address
        /\ device'.left = device.left
    <3>1. device' = [state |-> "data_out", kind |-> device.kind, address |-> device.address,
                     left |-> device.left, at |-> 0, sector |-> device.sector]
      BY <1>2, <2>1 DEF DeviceType
    <3>2. 0 \in 0 .. HALF_BLOCK_SIZE
      BY Sizes
    <3> QED
      BY <1>2, <3>1, <3>2 DEF DeviceType
  <2>3. device.kind = "write"
    BY <1>2, <1>9 DEF DeviceType, Kinds
  <2>4. DiskTypeOK' /\ InBuffer'
    BY <1>1, <2>2 DEF DiskInv, DiskTypeOK, InBuffer
  <2>5. AtItsBlock'
    BY <1>1, <1>6, <1>9, <2>2, <2>3 DEF AtItsBlock, Blocks
  <2>6. BeforeBlock'
    BY <1>1, <1>3, <1>5, <2>2, <2>3 DEF BeforeBlock, InStep, Transfers
  <2> QED
    BY <1>1, <1>3, <2>4, <2>5, <2>6 DEF DiskInv, WhenIdle, WithinBlock
<1> QED
  BY <1>7, <1>8, <1>9

\* The block received is stored.
LEMMA StoreInv == DiskInv /\ Store => DiskInv'
<1> SUFFICES ASSUME DiskInv, Store PROVE DiskInv'
  OBVIOUS
<1>1. UNCHANGED <<registers, memory, pc, call, i, j, target>>
  BY DEF Store, driverVars
<1>2. /\ disk \in [Blocks -> Block] /\ device \in DeviceType /\ call \in CallType
      /\ i \in 0 .. call.count /\ device.state = "storing"
  BY DEF DiskInv, DiskTypeOK, Store
<1>3. device.address \in Blocks /\ device.left > 0 /\ device.kind = "write"
  BY <1>2 DEF DiskInv, AtItsBlock
<1>4. disk' \in [Blocks -> Block]
  <2>1. device.sector \in Block
    BY <1>2 DEF DeviceType
  <2> QED
    BY <1>2, <2>1 DEF Store
<1>5. device' = Onwards /\ device' \in DeviceType /\ device'.kind = "write"
  BY <1>2, <1>3, OnwardsEffect DEF Store
<1>6. Here' = Here /\ Transfers' = Transfers
  BY <1>1 DEF Here, Transfers
<1>7. DiskTypeOK' /\ InBuffer'
  BY <1>1, <1>4, <1>5 DEF DiskInv, DiskTypeOK, InBuffer
<1>8. device'.state \in {"ready", "seeking"}
  BY <1>2, <1>3, <1>5, OnwardsEffect
<1>9. pc # "words"
  BY <1>2 DEF DiskInv, WithinBlock, Transfers
<1>10. CASE pc = "block"
  <2>1. call.kind = "write" /\ device.address = Here - 1 /\ device.left = call.count - i + 1
    BY <1>2, <1>10 DEF DiskInv, BeforeBlock, Transfers
  <2>2. /\ call.count \in Nat /\ i \in Nat /\ device.left \in Nat
        /\ device.address \in Nat /\ Here \in Int
    <3>1. call.lba \in Nat
      BY <1>2 DEF CallType
    <3>2. call.lba % LBA_END \in Nat
      BY <3>1, Sizes, DivMod
    <3> QED
      BY <1>2, <3>2, Sizes DEF CallType, DeviceType, Here
  <2>3. CASE device.left = 1
    <3>1. device'.state = "ready"
      BY <1>2, <1>3, <1>5, <2>3, OnwardsEffect
    <3>2. i = call.count
      BY <2>1, <2>2, <2>3
    <3> QED
      BY <1>1, <1>7, <1>10, <3>1, <3>2
         DEF DiskInv, AtItsBlock, WhenIdle, BeforeBlock, WithinBlock
  <2>4. CASE device.left # 1
    <3>1. /\ device'.state = "seeking" /\ device'.left = device.left - 1
          /\ device'.address = device.address + 1
      BY <1>2, <1>3, <1>5, <2>4, OnwardsEffect
    <3>2. i < call.count /\ device'.address = Here /\ device'.left = call.count - i
      BY <1>3, <2>1, <2>2, <2>4, <3>1
    <3>3. InStep'
      BY <1>1, <1>5, <1>6, <2>1, <3>2 DEF InStep
    <3> QED
      BY <1>1, <1>7, <1>10, <3>1, <3>2, <3>3
         DEF DiskInv, AtItsBlock, WhenIdle, BeforeBlock, WithinBlock
  <2> QED
    BY <2>3, <2>4
<1>11. CASE pc \in {"idle", "issue"}
  <2>1. device.left = 1
    BY <1>2, <1>11 DEF DiskInv, WhenIdle
  <2>2. device'.state = "ready"
    BY <1>2, <1>3, <1>5, <2>1, OnwardsEffect
  <2> QED
    BY <1>1, <1>7, <1>11, <2>2 DEF DiskInv, AtItsBlock, WhenIdle, BeforeBlock, WithinBlock
<1> QED
  BY <1>9, <1>10, <1>11 DEF DiskInv, DiskTypeOK

\* Numbers that the steps below count with.
LEMMA Counts ==
  ASSUME DiskInv
  PROVE  /\ call.ptr \in Nat /\ call.count \in Nat /\ call.count < BYTE
         /\ i \in Nat /\ i <= call.count /\ j \in Nat /\ j < HALF_BLOCK_SIZE
         /\ target \in Nat /\ Here \in Nat
         /\ device \in DeviceType /\ device.left \in Nat /\ device.address \in Nat
<1>1. call \in CallType /\ device \in DeviceType
  BY DEF DiskInv, DiskTypeOK
<1>2. call.ptr \in Nat /\ call.count \in Nat /\ call.count < BYTE /\ call.lba \in Nat
  BY <1>1, Sizes DEF CallType
<1>3. i \in Nat /\ i <= call.count /\ j \in Nat /\ j < HALF_BLOCK_SIZE /\ target \in Nat
  BY <1>2, Sizes DEF DiskInv, DiskTypeOK
<1>4. call.lba % LBA_END \in Nat
  BY <1>2, Sizes, DivMod
<1>5. device.left \in Nat /\ device.address \in Nat
  BY <1>1, Sizes DEF DeviceType
<1> QED
  BY <1>1, <1>2, <1>3, <1>4, <1>5 DEF Here

\* The command.
LEMMA IssueInv == DiskInv /\ Issue => DiskInv'
<1> SUFFICES ASSUME DiskInv, Issue PROVE DiskInv'
  OBVIOUS
<1>1. /\ pc = "issue" /\ pc' = "block" /\ i' = 0 /\ j' = 0 /\ target' = call.ptr
      /\ UNCHANGED <<disk, memory, call>>
      /\ registers' = WithAddress(registers, call.lba, call.count)
      /\ device' = Commanded(call.kind, registers')
  BY DEF Issue
<1>2. /\ call \in CallType /\ call.kind \in Kinds /\ call.count > 0
      /\ registers \in [Ports -> 0 .. BYTE - 1]
  BY <1>1 DEF DiskInv, DiskTypeOK, InBuffer
<1>3. device \in DeviceType /\ device.state = "ready"
  BY <1>1 DEF Issue, ATA_busy_wait, ATA_STATUS_BSY, DiskInv, DiskTypeOK, WhenIdle
<1>4. /\ registers' \in [Ports -> 0 .. BYTE - 1]
      /\ registers'[SECTOR_COUNT] = call.count
      /\ Addressed(registers') = call.lba % LBA_END
  BY <1>1, <1>2, AddressInRegisters DEF CallType
<1>5. call.lba % LBA_END \in Nat
  BY <1>2, Sizes, DivMod DEF CallType
<1>6. /\ device' \in DeviceType /\ device'.state = "seeking" /\ device'.kind = call.kind
      /\ device'.address = call.lba % LBA_END /\ device'.left = call.count
  <2>1. registers'[SECTOR_COUNT] # 0 /\ Addressed(registers') \in Nat
    BY <1>2, <1>4, <1>5, Counts
  <2> QED
    BY <1>1, <1>2, <1>3, <1>4, <2>1, CommandedEffect
<1>7. i' \in 0 .. call'.count /\ j' \in 0 .. HALF_BLOCK_SIZE - 1 /\ target' \in Nat
  BY <1>1, Sizes, Counts
<1>8. DiskTypeOK'
  BY <1>1, <1>4, <1>6, <1>7 DEF DiskInv, DiskTypeOK
<1>9. InBuffer'
  <2>1. HALF_BLOCK_SIZE * 0 = 0
    BY Sizes
  <2> QED
    BY <1>1, <2>1, Counts DEF DiskInv, InBuffer
<1>10. InStep' /\ i' < call'.count
  BY <1>1, <1>2, <1>5, <1>6, Counts DEF InStep, Here
<1> QED
  BY <1>1, <1>6, <1>8, <1>9, <1>10 DEF DiskInv, AtItsBlock, WhenIdle, BeforeBlock, WithinBlock

\* The device is ready for the block, or has refused it.
LEMMA WaitForBlockInv == DiskInv /\ WaitForBlock => DiskInv'
<1> SUFFICES ASSUME DiskInv, WaitForBlock PROVE DiskInv'
  OBVIOUS
<1>1. /\ pc = "block" /\ pc' = "words" /\ i < call.count
      /\ UNCHANGED <<disk, device, registers, memory, call, i, j, target>>
      /\ device.state \notin {"seeking", "storing"}
  BY DEF WaitForBlock, ATA_busy_wait, ATA_STATUS_BSY
<1>2. j = 0
  BY <1>1 DEF DiskInv, InBuffer
<1>3. Here' = Here /\ Transfers' = Transfers /\ InStep' = InStep
  BY <1>1 DEF Here, Transfers, InStep
<1>4. \/ device.state = "ready" /\ Here \notin Blocks
      \/ device.state = Transfers /\ InStep /\ device.at = j
  BY <1>1, <1>2, Counts DEF DiskInv, BeforeBlock
<1>5. DiskTypeOK' /\ InBuffer' /\ AtItsBlock'
  BY <1>1 DEF DiskInv, DiskTypeOK, InBuffer, AtItsBlock
<1>6. WithinBlock'
  <2>1. \A k \in 0 .. j' - 1 : FALSE
    BY <1>1, <1>2
  <2> QED
    BY <1>1, <1>3, <1>4, <2>1 DEF WithinBlock, Blocks
<1> QED
  BY <1>1, <1>5, <1>6 DEF DiskInv, WhenIdle, BeforeBlock

\* The loops: the next word of the block, or the next block.
LEMMA NextWordEffect ==
  ASSUME DiskInv, pc = "words", NextWord, UNCHANGED call
  PROVE  /\ \/ j + 1 < HALF_BLOCK_SIZE /\ pc' = "words" /\ j' = j + 1 /\ i' = i /\ Here' = Here
            \/ /\ j + 1 = HALF_BLOCK_SIZE /\ pc' = "block" /\ j' = 0 /\ i' = i + 1
               /\ Here' = Here + 1
         /\ i < call.count
         /\ i' \in 0 .. call'.count /\ j' \in 0 .. HALF_BLOCK_SIZE - 1 /\ target' \in Nat
         /\ InBuffer'
         /\ call.ptr + HALF_BLOCK_SIZE * i + j \in Addresses
<1>1. /\ call.kind \in Kinds /\ call.count > 0 /\ i < call.count
      /\ call.ptr + HALF_BLOCK_SIZE * call.count <= MEMORY
      /\ call.kind = "read" => target = call.ptr + HALF_BLOCK_SIZE * i
  BY DEF DiskInv, InBuffer
<1>2. /\ HALF_BLOCK_SIZE * i \in Nat
      /\ HALF_BLOCK_SIZE * (i + 1) = HALF_BLOCK_SIZE * i + HALF_BLOCK_SIZE
      /\ HALF_BLOCK_SIZE * call.count \in Nat
      /\ HALF_BLOCK_SIZE * i + HALF_BLOCK_SIZE <= HALF_BLOCK_SIZE * call.count
  BY <1>1, Sizes, Counts, Strides
<1>3. call.ptr + HALF_BLOCK_SIZE * i + j \in Addresses
  BY <1>1, <1>2, Sizes, Counts DEF Addresses
<1>4. CASE j + 1 < HALF_BLOCK_SIZE
  <2>1. j' = j + 1 /\ pc' = "words" /\ i' = i /\ target' = target /\ Here' = Here
    BY <1>4 DEF NextWord, Here
  <2>2. i' \in 0 .. call'.count /\ j' \in 0 .. HALF_BLOCK_SIZE - 1 /\ target' \in Nat
    BY <1>4, <2>1, Sizes, Counts
  <2>3. InBuffer'
    BY <1>1, <2>1 DEF InBuffer
  <2> QED
    BY <1>1, <1>3, <1>4, <2>1, <2>2, <2>3
<1>5. CASE ~(j + 1 < HALF_BLOCK_SIZE)
  <2>1. /\ j' = 0 /\ pc' = "block" /\ i' = i + 1
        /\ target' = IF call.kind = "read" THEN target + HALF_BLOCK_SIZE ELSE target
    BY <1>5 DEF NextWord
  <2>2. j + 1 = HALF_BLOCK_SIZE
    BY <1>5, Sizes, Counts
  <2>3. Here' = Here + 1
    <3>1. call.lba % LBA_END \in Nat
      BY Sizes, DivMod DEF DiskInv, DiskTypeOK, CallType
    <3> QED
      BY <2>1, <3>1, Counts DEF Here
  <2>4. i' \in 0 .. call'.count /\ j' \in 0 .. HALF_BLOCK_SIZE - 1 /\ target' \in Nat
    BY <1>1, <2>1, Sizes, Counts
  <2>5. call.kind = "read" => target' = call.ptr + HALF_BLOCK_SIZE * i'
    <3> DEFINE x == HALF_BLOCK_SIZE * i
               y == HALF_BLOCK_SIZE * i'
    <3>1. y = x + HALF_BLOCK_SIZE /\ x \in Nat
      BY <1>2, <2>1
    <3>2. call.kind = "read" => target = call.ptr + x
      BY <1>1
    <3> HIDE DEF x, y
    <3>3. call.kind = "read" => target' = call.ptr + y
      BY <2>1, <3>1, <3>2, Sizes, Counts
    <3> QED
      BY <3>3 DEF y
  <2>6. InBuffer'
    BY <1>1, <2>1, <2>5 DEF InBuffer
  <2> QED
    BY <1>1, <1>3, <2>1, <2>2, <2>3, <2>4, <2>6
<1> QED
  BY <1>4, <1>5

\* A word into memory.
LEMMA ReadWordInv == DiskInv /\ ReadWord => DiskInv'
<1> SUFFICES ASSUME DiskInv, ReadWord PROVE DiskInv'
  OBVIOUS
<1>1. pc = "words" /\ call.kind = "read" /\ NextWord /\ UNCHANGED <<disk, registers, call>>
  BY DEF ReadWord
<1>2. memory' \in [Addresses -> Words]
  BY DEF ReadWord, DiskInv, DiskTypeOK
<1>3. /\ \/ j + 1 < HALF_BLOCK_SIZE /\ pc' = "words" /\ j' = j + 1 /\ i' = i /\ Here' = Here
         \/ /\ j + 1 = HALF_BLOCK_SIZE /\ pc' = "block" /\ j' = 0 /\ i' = i + 1
            /\ Here' = Here + 1
      /\ i < call.count
      /\ i' \in 0 .. call'.count /\ j' \in 0 .. HALF_BLOCK_SIZE - 1 /\ target' \in Nat
      /\ InBuffer'
  BY <1>1, NextWordEffect
<1>4. \/ device.state = "ready" /\ Here \notin Blocks
      \/ device.state = "data_in" /\ InStep /\ device.at = j
  BY <1>1 DEF DiskInv, WithinBlock, Transfers
<1>5. pc' \in {"block", "words"} /\ call'.kind = "read" /\ Transfers' = "data_in"
  BY <1>1, <1>3 DEF Transfers
<1>6. ASSUME device' \in DeviceType PROVE DiskTypeOK'
  BY <1>1, <1>2, <1>3, <1>5, <1>6 DEF DiskInv, DiskTypeOK
<1>7. CASE device.state = "ready" /\ Here \notin Blocks
  <2>1. device' = device
    BY <1>7 DEF ReadWord, in16
  <2>2. Here' \notin Blocks
    BY <1>3, <1>7, Sizes, Counts DEF Blocks
  <2> QED
    BY <1>3, <1>5, <1>6, <1>7, <2>1, <2>2, Counts
       DEF DiskInv, AtItsBlock, WhenIdle, BeforeBlock, WithinBlock
<1>8. CASE device.state = "data_in" /\ InStep /\ device.at = j
  <2>1. device' = IF j + 1 < HALF_BLOCK_SIZE THEN [device EXCEPT !.at = j + 1] ELSE Onwards
    BY <1>8 DEF ReadWord, in16
  <2>2. device.left > 0 /\ device.kind = "read" /\ device.sector = disk[device.address]
        /\ device.address \in Blocks
    BY <1>8 DEF DiskInv, AtItsBlock
  <2>3. CASE j + 1 < HALF_BLOCK_SIZE
    <3>1. pc' = "words" /\ j' = j + 1 /\ i' = i /\ Here' = Here
      BY <1>3, <2>3, Sizes, Counts
    <3>2. /\ device' \in DeviceType /\ device'.at = j + 1 /\ device'.state = "data_in"
          /\ device'.kind = device.kind /\ device'.left = device.left
          /\ device'.address = device.address /\ device'.sector = device.sector
      <4>1. device' = [device EXCEPT !.at = j + 1] /\ j + 1 \in 0 .. HALF_BLOCK_SIZE
        BY <2>1, <2>3, Sizes, Counts
      <4> QED
        BY <1>8, <4>1, Counts DEF DeviceType
    <3>3. InStep'
      BY <1>1, <1>8, <3>1, <3>2 DEF InStep
    <3>4. AtItsBlock'
      BY <1>1, <2>2, <3>2 DEF AtItsBlock, Blocks
    <3>5. WithinBlock'
      BY <1>5, <3>1, <3>2, <3>3 DEF WithinBlock
    <3> QED
      BY <1>3, <1>6, <3>1, <3>2, <3>4, <3>5 DEF DiskInv, WhenIdle, BeforeBlock
  <2>4. CASE ~(j + 1 < HALF_BLOCK_SIZE)
    <3>1. pc' = "block" /\ j' = 0 /\ i' = i + 1 /\ Here' = Here + 1
      BY <1>3, <2>4, Sizes, Counts
    <3>2. device' = Onwards /\ device' \in DeviceType /\ device'.kind = "read"
      BY <2>1, <2>2, <2>4, Counts, OnwardsEffect
    <3>3. device.address = Here /\ device.left = call.count - i
      BY <1>8 DEF InStep
    <3>4. CASE device.left = 1
      <4>1. device'.state = "ready" /\ i' = call'.count
        BY <1>1, <2>2, <3>1, <3>2, <3>3, <3>4, Counts, OnwardsEffect
      <4> QED
        BY <1>3, <1>6, <3>1, <3>2, <4>1
           DEF DiskInv, AtItsBlock, WhenIdle, BeforeBlock, WithinBlock
    <3>5. CASE device.left # 1
      <4>1. device'.state = "seeking" /\ device'.left = device.left - 1
            /\ device'.address = device.address + 1
        BY <2>2, <3>2, <3>5, Counts, OnwardsEffect
      <4>2. InStep' /\ i' < call'.count
        BY <1>1, <3>1, <3>2, <3>3, <3>5, <4>1, <2>2, Counts DEF InStep
      <4> QED
        BY <1>3, <1>6, <3>1, <3>2, <4>1, <4>2
           DEF DiskInv, AtItsBlock, WhenIdle, BeforeBlock, WithinBlock
    <3> QED
      BY <3>4, <3>5
  <2> QED
    BY <2>3, <2>4
<1> QED
  BY <1>4, <1>7, <1>8

\* What a device does with a word it expects.
LEMMA WordOut ==
  ASSUME DiskInv, device.state = "data_out", device.at = j, NEW w \in Words, out16(w)
  PROVE  /\ device' \in DeviceType
         /\ device'.kind = device.kind /\ device'.left = device.left
         /\ device'.address = device.address /\ device'.at = j + 1
         /\ device'.sector = [device.sector EXCEPT ![j] = w]
         /\ device'.state = IF j + 1 < HALF_BLOCK_SIZE THEN "data_out" ELSE "storing"
<1>1. device \in DeviceType /\ j \in 0 .. HALF_BLOCK_SIZE - 1
  BY Sizes, Counts
<1> DEFINE sector == [device.sector EXCEPT ![j] = w]
           state == IF j + 1 < HALF_BLOCK_SIZE THEN "data_out" ELSE "storing"
<1>2. sector \in Block
  BY <1>1 DEF DeviceType, Block
<1>3. device' = [device EXCEPT !.sector = sector, !.at = j + 1, !.state = state]
  BY DEF out16
<1>4. j + 1 \in 0 .. HALF_BLOCK_SIZE
  BY <1>1, Sizes
<1>5. state \in {"data_out", "storing"}
  OBVIOUS
<1> HIDE DEF sector, state
<1>6. device' = [state |-> state, kind |-> device.kind, address |-> device.address,
                 left |-> device.left, at |-> j + 1, sector |-> sector]
  BY <1>1, <1>3 DEF DeviceType
<1>7. device' \in DeviceType
  BY <1>1, <1>2, <1>4, <1>5, <1>6 DEF DeviceType
<1> QED
  BY <1>6, <1>7 DEF sector, state

\* A word out of memory.
LEMMA WriteWordInv == DiskInv /\ WriteWord => DiskInv'
<1> SUFFICES ASSUME DiskInv, WriteWord PROVE DiskInv'
  OBVIOUS
<1> DEFINE w == memory[call.ptr + HALF_BLOCK_SIZE * i + j]
<1>1. /\ pc = "words" /\ call.kind = "write" /\ NextWord /\ out16(w)
      /\ UNCHANGED <<disk, registers, memory, call>>
  BY DEF WriteWord
<1>2. w \in Words
  BY <1>1, NextWordEffect DEF DiskInv, DiskTypeOK
<1>3. /\ \/ j + 1 < HALF_BLOCK_SIZE /\ pc' = "words" /\ j' = j + 1 /\ i' = i /\ Here' = Here
         \/ /\ j + 1 = HALF_BLOCK_SIZE /\ pc' = "block" /\ j' = 0 /\ i' = i + 1
            /\ Here' = Here + 1
      /\ i < call.count
      /\ i' \in 0 .. call'.count /\ j' \in 0 .. HALF_BLOCK_SIZE - 1 /\ target' \in Nat
      /\ InBuffer'
  BY <1>1, NextWordEffect
<1>4. \/ device.state = "ready" /\ Here \notin Blocks
      \/ device.state = "data_out" /\ InStep /\ device.at = j
  BY <1>1 DEF DiskInv, WithinBlock, Transfers
<1>5. pc' \in {"block", "words"} /\ call'.kind = "write" /\ Transfers' = "data_out"
  BY <1>1, <1>3 DEF Transfers
<1>6. ASSUME device' \in DeviceType PROVE DiskTypeOK'
  BY <1>1, <1>3, <1>5, <1>6 DEF DiskInv, DiskTypeOK
<1>7. CASE device.state = "ready" /\ Here \notin Blocks
  <2>1. device' = device
    BY <1>1, <1>7 DEF out16
  <2>2. Here' \notin Blocks
    BY <1>3, <1>7, Sizes, Counts DEF Blocks
  <2> QED
    BY <1>3, <1>5, <1>6, <1>7, <2>1, <2>2, Counts
       DEF DiskInv, AtItsBlock, WhenIdle, BeforeBlock, WithinBlock
<1>8. CASE device.state = "data_out" /\ InStep /\ device.at = j
  <2>1. /\ device' \in DeviceType
        /\ device'.kind = device.kind /\ device'.left = device.left
        /\ device'.address = device.address /\ device'.at = j + 1
        /\ device'.sector = [device.sector EXCEPT ![j] = w]
        /\ device'.state = IF j + 1 < HALF_BLOCK_SIZE THEN "data_out" ELSE "storing"
    BY <1>1, <1>2, <1>8, WordOut
  <2>2. device.left > 0 /\ device.kind = "write" /\ device.address \in Blocks
    BY <1>8 DEF DiskInv, AtItsBlock
  <2>3. AtItsBlock'
    BY <2>1, <2>2 DEF AtItsBlock, Blocks
  <2>4. CASE j + 1 < HALF_BLOCK_SIZE
    <3>1. pc' = "words" /\ j' = j + 1 /\ i' = i /\ Here' = Here
      BY <1>3, <2>4, Sizes, Counts
    <3>2. InStep'
      BY <1>1, <1>8, <2>1, <3>1 DEF InStep
    <3>3. \A k \in 0 .. j' - 1 : device'.sector[k] = memory'[call'.ptr + HALF_BLOCK_SIZE * i' + k]
      <4> SUFFICES ASSUME NEW k \in 0 .. j' - 1
                   PROVE  device'.sector[k] = memory[call.ptr + HALF_BLOCK_SIZE * i + k]
        BY <1>1, <3>1
      <4>1. device.sector \in Block /\ k \in 0 .. HALF_BLOCK_SIZE - 1
        BY <2>4, <3>1, Sizes, Counts DEF DeviceType
      <4>2. CASE k = j
        BY <2>1, <4>1, <4>2 DEF Block
      <4>3. CASE k # j
        <5>1. k \in 0 .. j - 1
          BY <3>1, <4>3, Counts
        <5>2. device.sector[k] = memory[call.ptr + HALF_BLOCK_SIZE * i + k]
          BY <1>1, <1>8, <5>1 DEF DiskInv, WithinBlock
        <5> QED
          BY <2>1, <4>1, <4>3, <5>2 DEF Block
      <4> QED
        BY <4>2, <4>3
    <3>4. WithinBlock'
      BY <1>5, <2>1, <2>4, <3>1, <3>2, <3>3 DEF WithinBlock
    <3> QED
      BY <1>3, <1>6, <2>1, <2>3, <3>1, <3>4 DEF DiskInv, WhenIdle, BeforeBlock
  <2>5. CASE ~(j + 1 < HALF_BLOCK_SIZE)
    <3>1. pc' = "block" /\ j' = 0 /\ i' = i + 1 /\ Here' = Here + 1
      BY <1>3, <2>5, Sizes, Counts
    <3>2. device'.state = "storing"
      BY <2>1, <2>5
    <3>3. device'.address = Here' - 1 /\ device'.left = call'.count - i' + 1
      BY <1>1, <1>8, <2>1, <3>1, Counts DEF InStep
    <3>4. BeforeBlock'
      BY <1>5, <3>2, <3>3 DEF BeforeBlock
    <3> QED
      BY <1>3, <1>6, <2>1, <2>3, <3>1, <3>4 DEF DiskInv, WhenIdle, WithinBlock
  <2> QED
    BY <2>4, <2>5
<1> QED
  BY <1>4, <1>7, <1>8

\* The call returns, whether or not its last block is stored.
LEMMA ReturnInv == DiskInv /\ Return => DiskInv'
<1> SUFFICES ASSUME DiskInv, Return PROVE DiskInv'
  OBVIOUS
<1>1. /\ pc = "block" /\ i = call.count /\ pc' = "idle" /\ call' = NoCall /\ i' = 0
      /\ UNCHANGED <<disk, device, registers, memory, j, target>>
  BY DEF Return
<1>2. j = 0
  BY <1>1 DEF DiskInv, InBuffer
<1>3. call' \in CallType /\ i' \in 0 .. call'.count
  BY <1>1, Sizes DEF NoCall, CallType
<1>4. DiskTypeOK'
  BY <1>1, <1>3 DEF DiskInv, DiskTypeOK
<1>5. device.state = "ready" \/ (device.state = "storing" /\ device.left = 1)
  <2>1. \/ device.state = "ready"
        \/ device.state = "storing" /\ device.left = call.count - i + 1
    BY <1>1, Counts DEF DiskInv, BeforeBlock
  <2> QED
    BY <1>1, <2>1, Counts
<1> QED
  BY <1>1, <1>2, <1>4, <1>5
     DEF DiskInv, InBuffer, AtItsBlock, WhenIdle, BeforeBlock, WithinBlock

\* The power fails and comes back.
LEMMA PowerCutInv == DiskInv /\ PowerCut => DiskInv'
<1> SUFFICES ASSUME DiskInv, PowerCut PROVE DiskInv'
  OBVIOUS
<1>1. /\ memory' \in Memories /\ pc' = "idle" /\ call' = NoCall /\ i' = 0 /\ j' = 0
      /\ device' = [device EXCEPT !.state = "ready"]
      /\ UNCHANGED <<disk, registers, target>>
  BY DEF PowerCut
<1>2. device' \in DeviceType /\ device'.state = "ready"
  BY <1>1, Counts DEF DeviceType
<1>3. call' \in CallType /\ i' \in 0 .. call'.count /\ j' \in 0 .. HALF_BLOCK_SIZE - 1
  BY <1>1, Sizes DEF NoCall, CallType
<1>4. memory' \in [Addresses -> Words]
  BY <1>1, DiskAssumption
<1>5. DiskTypeOK'
  BY <1>1, <1>2, <1>3, <1>4 DEF DiskInv, DiskTypeOK
<1> QED
  BY <1>1, <1>2, <1>5 DEF DiskInv, InBuffer, AtItsBlock, WhenIdle, BeforeBlock, WithinBlock

\* What the file system asks for is a call with its buffer in memory.
LEMMA CallBegins ==
  ASSUME Call
  PROVE  \E kind \in Kinds, ptr \in Nat, lba \in Nat, count \in 1 .. BYTE - 1 :
           ptr + HALF_BLOCK_SIZE * count <= MEMORY /\ Begin(kind, ptr, lba, count)
<1>1. PICK r \in Requests : \/ r.kind = "read" /\ read_clusters(r.ptr, r.cluster, r.count)
                            \/ r.kind = "write" /\ write_clusters(r.ptr, r.cluster, r.count)
                            \/ BootSector(r.kind, r.ptr)
  BY DEF Call
<1> DEFINE blocks == r.count * CLUSTER_BLOCK_COUNT
<1>2. /\ r.kind \in Kinds /\ r.ptr \in Nat /\ r.cluster \in Nat /\ r.count \in Nat
      /\ blocks \in 1 .. BYTE - 1
      /\ r.ptr + HALF_BLOCK_SIZE * blocks <= MEMORY
  BY RequestAssumption
<1>3. \A c \in Nat : cluster_to_lba(c) \in Nat
  <2>1. BYTE * (BYTE * (BYTE * BYTE)) \in Nat \ {0}
    <3>1. \A a \in Nat \ {0}, b \in Nat \ {0} : a * b \in Nat \ {0}
      BY SMT
    <3> QED
      BY <3>1, Bytes
  <2>2. \A c \in Nat : c * CLUSTER_BLOCK_COUNT \in Nat
    BY DiskAssumption
  <2> DEFINE word == BYTE * (BYTE * (BYTE * BYTE))
  <2>3. word \in Nat \ {0} /\ \A c \in Nat : cluster_to_lba(c) = (c * CLUSTER_BLOCK_COUNT) % word
    BY <2>1 DEF cluster_to_lba
  <2> HIDE DEF word
  <2>4. ASSUME NEW c \in Nat PROVE (c * CLUSTER_BLOCK_COUNT) % word \in Nat
    <3> DEFINE n == c * CLUSTER_BLOCK_COUNT
    <3>1. n \in Nat
      BY <2>2
    <3> HIDE DEF n
    <3>2. n % word \in 0 .. word - 1
      BY <2>3, <3>1, DivMod
    <3> QED
      BY <2>3, <3>2 DEF n
  <2> QED
    BY <2>3, <2>4
<1>4. BlockCount(r.count) = blocks
  BY <1>2, ByteOf DEF BlockCount
<1>5. CASE BootSector(r.kind, r.ptr)
  <2>1. 1 \in 1 .. BYTE - 1
    BY Sizes
  <2>2. r.ptr + HALF_BLOCK_SIZE * 1 <= MEMORY
    <3> HIDE DEF blocks
    <3>1. blocks \in Nat /\ 0 < blocks
      BY <1>2, Sizes
    <3>2. /\ HALF_BLOCK_SIZE * 0 = 0 /\ HALF_BLOCK_SIZE * blocks \in Nat
          /\ HALF_BLOCK_SIZE * 0 + HALF_BLOCK_SIZE <= HALF_BLOCK_SIZE * blocks
      BY <3>1, Sizes, Strides
    <3> QED
      BY <1>2, <3>2, Sizes
  <2>3. cluster_to_lba(BOOT_SECTOR) \in Nat
    BY <1>3 DEF BOOT_SECTOR
  <2> QED
    BY <1>2, <1>5, <2>1, <2>2, <2>3 DEF BootSector
<1>6. CASE \/ r.kind = "read" /\ read_clusters(r.ptr, r.cluster, r.count)
           \/ r.kind = "write" /\ write_clusters(r.ptr, r.cluster, r.count)
  <2>1. Begin(r.kind, r.ptr, cluster_to_lba(r.cluster), blocks)
    BY <1>4, <1>6 DEF read_clusters, write_clusters
  <2>2. cluster_to_lba(r.cluster) \in Nat
    BY <1>2, <1>3
  <2> HIDE DEF blocks
  <2> QED
    BY <1>2, <2>1, <2>2
<1> QED
  BY <1>1, <1>5, <1>6

\* and at every step they go on to.
LEMMA DiskStep == DiskInv /\ [Next]_vars => DiskInv'
<1> SUFFICES ASSUME DiskInv, [Next]_vars PROVE DiskInv'
  OBVIOUS
<1>1. CASE Call
  BY <1>1, CallBegins, BeginInv
<1>2. CASE Issue
  BY <1>2, IssueInv
<1>3. CASE WaitForBlock
  BY <1>3, WaitForBlockInv
<1>4. CASE ReadWord
  BY <1>4, ReadWordInv
<1>5. CASE WriteWord
  BY <1>5, WriteWordInv
<1>6. CASE Return
  BY <1>6, ReturnInv
<1>7. CASE Seek
  BY <1>7, SeekInv
<1>8. CASE Store
  BY <1>8, StoreInv
<1>9. CASE PowerCut
  BY <1>9, PowerCutInv
<1>10. CASE UNCHANGED vars
  BY <1>10 DEF vars, DiskInv, DiskTypeOK, InBuffer, AtItsBlock, WhenIdle, BeforeBlock,
               WithinBlock, InStep, Here, Transfers
<1> QED
  BY <1>1, <1>2, <1>3, <1>4, <1>5, <1>6, <1>7, <1>8, <1>9, <1>10 DEF Next, Driver, Device

\* Driver and device agree on the block and the word they are at in every
\* reachable state, for every disk, every size and every request (disk.c).
THEOREM DiskInvariant == Spec => []DiskInv
<1>1. DiskInit => DiskInv
  BY DiskInitInv
<1>2. DiskInv /\ [Next]_vars => DiskInv'
  BY DiskStep
<1> QED
  BY <1>1, <1>2, PTL DEF Spec

-----------------------------------------------------------------------------
(* The store of blocks *)

\* A device that stores nothing: what is on the disk is what is read.
LEMMA NothingUnstored ==
  ASSUME device.state # "storing"
  PROVE  BlocksRead = disk /\ Unstored = Promise!Nothing
BY DEF BlocksRead, Unstored, Promise!Nothing

\* A device that stores: the block is read, and a power cut would undo it.
LEMMA SomethingUnstored ==
  ASSUME DiskInv, device.state = "storing"
  PROVE  /\ BlocksRead = [disk EXCEPT ![device.address] = device.sector]
         /\ Unstored = [at |-> device.address, held |-> disk[device.address]]
         /\ Unstored # Promise!Nothing
         /\ disk = [BlocksRead EXCEPT ![device.address] = disk[device.address]]
<1>1. /\ BlocksRead = [disk EXCEPT ![device.address] = device.sector]
      /\ Unstored = [at |-> device.address, held |-> disk[device.address]]
  BY DEF BlocksRead, Unstored
<1>2. Unstored # Promise!Nothing
  <2>1. Unstored.at = device.address /\ Promise!Nothing.at = -1
    BY <1>1 DEF Promise!Nothing
  <2>2. device.address # -1
    BY Counts
  <2> QED
    BY <2>1, <2>2
<1>3. disk = [BlocksRead EXCEPT ![device.address] = disk[device.address]]
  BY <1>1 DEF DiskInv, DiskTypeOK
<1> QED
  BY <1>1, <1>2, <1>3

\* The disk starts as the store of blocks does.
LEMMA MapInit == DiskInit => Promise!Init
<1> SUFFICES ASSUME DiskInit PROVE Promise!Init
  OBVIOUS
<1>1. device.state # "storing" /\ call.kind = "none"
  BY DEF DiskInit, NoCall
<1> QED
  BY <1>1, NothingUnstored DEF DiskInit, Promise!Init

\* A call begins in both at once.
LEMMA MapBegin ==
  ASSUME DiskInv, NEW kind \in Kinds, NEW ptr, NEW lba, NEW count, Begin(kind, ptr, lba, count)
  PROVE  Promise!Begin
<1>1. /\ pc = "idle" /\ call'.kind = kind
      /\ UNCHANGED <<disk, device, registers, memory, i, j, target>>
  BY DEF Begin
<1>2. call.kind = "none"
  BY <1>1 DEF DiskInv, InBuffer, NoCall
<1>3. UNCHANGED <<BlocksRead, Unstored>>
  BY <1>1 DEF BlocksRead, Unstored
<1> QED
  BY <1>1, <1>2, <1>3 DEF Promise!Begin, Kinds

\* A caller of the store does not see the command given to the device,
LEMMA MapIssue == DiskInv /\ Issue => UNCHANGED <<BlocksRead, Unstored, memory, call, i, j>>
<1> SUFFICES ASSUME DiskInv, Issue PROVE UNCHANGED <<BlocksRead, Unstored, memory, call, i, j>>
  OBVIOUS
<1>1. i = 0 /\ j = 0 /\ i' = 0 /\ j' = 0 /\ UNCHANGED <<disk, memory, call>>
  BY DEF Issue, DiskInv, InBuffer
<1>2. device.state # "storing" /\ device'.state # "storing"
  BY DEF Issue, Commanded, ATA_busy_wait, ATA_STATUS_BSY, DiskInv, DiskTypeOK, DeviceType
<1>3. BlocksRead' = disk' /\ Unstored' = Promise!Nothing
  BY <1>2 DEF BlocksRead, Unstored, Promise!Nothing
<1> QED
  BY <1>1, <1>2, <1>3, NothingUnstored

\* nor the device look for its block,
LEMMA MapSeek == DiskInv /\ Seek => UNCHANGED <<BlocksRead, Unstored, memory, call, i, j>>
<1> SUFFICES ASSUME DiskInv, Seek PROVE UNCHANGED <<BlocksRead, Unstored, memory, call, i, j>>
  OBVIOUS
<1>1. UNCHANGED <<disk, memory, call, i, j>>
  BY DEF Seek, driverVars
<1>2. device.state # "storing" /\ device'.state # "storing"
  BY DEF Seek, DiskInv, DiskTypeOK, DeviceType
<1>3. BlocksRead' = disk' /\ Unstored' = Promise!Nothing
  BY <1>2 DEF BlocksRead, Unstored, Promise!Nothing
<1> QED
  BY <1>1, <1>2, <1>3, NothingUnstored

\* nor the driver wait for it.
LEMMA MapWait == WaitForBlock => UNCHANGED <<BlocksRead, Unstored, memory, call, i, j>>
BY DEF WaitForBlock, BlocksRead, Unstored

\* Storing the block is what settles it; readers see no change.
LEMMA MapStore == DiskInv /\ Store => Promise!Settle
<1> SUFFICES ASSUME DiskInv, Store PROVE Promise!Settle
  OBVIOUS
<1>1. /\ device.state = "storing" /\ device' = Onwards
      /\ disk' = [disk EXCEPT ![device.address] = device.sector]
      /\ UNCHANGED <<memory, call, i, j>>
  BY DEF Store, driverVars
<1>2. device'.state # "storing"
  <2>1. device.left > 0
    BY <1>1 DEF DiskInv, AtItsBlock
  <2> QED
    BY <1>1, <2>1, Counts, OnwardsEffect
<1>3. BlocksRead' = disk' /\ Unstored' = Promise!Nothing
  BY <1>2 DEF BlocksRead, Unstored, Promise!Nothing
<1> QED
  BY <1>1, <1>3, SomethingUnstored DEF Promise!Settle

\* A power cut loses the block that was being stored.
LEMMA MapPowerCut == DiskInv /\ PowerCut => Promise!Cut
<1> SUFFICES ASSUME DiskInv, PowerCut PROVE Promise!Cut
  OBVIOUS
<1>1. /\ memory' \in Memories /\ call' = NoCall /\ i' = 0 /\ j' = 0 /\ disk' = disk
      /\ device' = [device EXCEPT !.state = "ready"]
  BY DEF PowerCut
<1>2. call'.kind = "none"
  BY <1>1 DEF NoCall
<1>3. device'.state = "ready"
  BY <1>1, Counts DEF DeviceType
<1>4. BlocksRead' = disk /\ Unstored' = Promise!Nothing
  BY <1>1, <1>3 DEF BlocksRead, Unstored, Promise!Nothing
<1>5. CASE device.state = "storing"
  <2>1. Unstored.at = device.address /\ Unstored.held = disk[device.address]
    BY <1>5, SomethingUnstored
  <2> QED
    BY <1>1, <1>2, <1>4, <1>5, <2>1, SomethingUnstored DEF Promise!Cut
<1>6. CASE device.state # "storing"
  BY <1>1, <1>2, <1>4, <1>6, NothingUnstored DEF Promise!Cut
<1> QED
  BY <1>5, <1>6

\* A call ends when its last block is through.
LEMMA MapReturn == DiskInv /\ Return => Promise!End
<1> SUFFICES ASSUME DiskInv, Return PROVE Promise!End
  OBVIOUS
<1>1. /\ pc = "block" /\ i = call.count /\ call' = NoCall /\ i' = 0
      /\ UNCHANGED <<disk, device, memory, j>>
  BY DEF Return
<1>2. call.kind # "none" /\ call'.kind = "none"
  BY <1>1 DEF DiskInv, InBuffer, Kinds, NoCall
<1>3. UNCHANGED <<BlocksRead, Unstored>>
  BY <1>1 DEF BlocksRead, Unstored
<1> QED
  BY <1>1, <1>2, <1>3 DEF Promise!End

\* The loops count as the promise does.
LEMMA MapAdvance ==
  ASSUME DiskInv, pc = "words", NextWord, UNCHANGED call
  PROVE  Promise!Advance
<1>1. /\ \/ j + 1 < HALF_BLOCK_SIZE /\ j' = j + 1 /\ i' = i
         \/ j + 1 = HALF_BLOCK_SIZE /\ j' = 0 /\ i' = i + 1
      /\ i < call.count
  BY NextWordEffect
<1> QED
  BY <1>1, Sizes, Counts DEF Promise!Advance

\* A word read is that of its block, if there is such a block.
LEMMA MapReadWord == DiskInv /\ ReadWord => Promise!Fetch
<1> SUFFICES ASSUME DiskInv, ReadWord PROVE Promise!Fetch
  OBVIOUS
<1>1. pc = "words" /\ call.kind = "read" /\ NextWord /\ UNCHANGED <<disk, registers, call>>
  BY DEF ReadWord
<1>2. Promise!Advance
  BY <1>1, MapAdvance
<1>3. PICK w \in Words : in16(w) /\ memory' = [memory EXCEPT ![target + j] = w]
  BY DEF ReadWord
<1>4. target + j = Promise!Address
  BY <1>1 DEF DiskInv, InBuffer, Promise!Address
<1>5. \/ device.state = "ready" /\ Here \notin Blocks
      \/ device.state = "data_in" /\ InStep /\ device.at = j
  BY <1>1 DEF DiskInv, WithinBlock, Transfers
<1>6. BlocksRead = disk /\ Unstored = Promise!Nothing
  BY <1>5, NothingUnstored
<1>7. device'.state # "storing"
  <2>1. CASE device.state = "ready"
    BY <1>3, <2>1 DEF in16
  <2>2. CASE device.state = "data_in"
    <3>1. device.left > 0
      BY <2>2 DEF DiskInv, AtItsBlock
    <3>2. Onwards.state # "storing"
      BY <3>1, Counts, OnwardsEffect
    <3>3. [device EXCEPT !.at = device.at + 1].state # "storing"
      BY <2>2, Counts DEF DeviceType
    <3> QED
      BY <1>3, <2>2, <3>2, <3>3 DEF in16
  <2> QED
    BY <1>5, <2>1, <2>2
<1>8. BlocksRead' = disk' /\ Unstored' = Promise!Nothing
  BY <1>7 DEF BlocksRead, Unstored, Promise!Nothing
<1>9. Promise!OnDisk => w = BlocksRead[Promise!Place][j]
  <2> SUFFICES ASSUME Promise!OnDisk PROVE w = BlocksRead[Promise!Place][j]
    OBVIOUS
  <2>1. Promise!Place = Here
    BY DEF Promise!Place, Here
  <2>2. device.state = "data_in" /\ InStep /\ device.at = j
    BY <1>5, <2>1 DEF Promise!OnDisk, Blocks
  <2>3. w = device.sector[j] /\ device.sector = disk[Here]
    BY <1>3, <2>2 DEF in16, DiskInv, AtItsBlock, InStep
  <2> QED
    BY <1>6, <2>1, <2>3
<1>10. UNCHANGED <<BlocksRead, Unstored>>
  BY <1>1, <1>6, <1>8
<1> QED
  BY <1>1, <1>2, <1>3, <1>4, <1>9, <1>10 DEF Promise!Fetch

\* The last word of a block makes it the block of the disk, if there is one.
LEMMA MapWriteWord == DiskInv /\ WriteWord => Promise!Send
<1> SUFFICES ASSUME DiskInv, WriteWord PROVE Promise!Send
  OBVIOUS
<1> DEFINE w == memory[call.ptr + HALF_BLOCK_SIZE * i + j]
           written == [k \in 0 .. HALF_BLOCK_SIZE - 1 |-> memory[call.ptr + HALF_BLOCK_SIZE * i + k]]
<1>1. /\ pc = "words" /\ call.kind = "write" /\ NextWord /\ out16(w)
      /\ UNCHANGED <<disk, registers, memory, call>>
  BY DEF WriteWord
<1>2. Promise!Advance
  BY <1>1, MapAdvance
<1>3. w \in Words
  BY <1>1, NextWordEffect DEF DiskInv, DiskTypeOK
<1>4. \/ device.state = "ready" /\ Here \notin Blocks
      \/ device.state = "data_out" /\ InStep /\ device.at = j
  BY <1>1 DEF DiskInv, WithinBlock, Transfers
<1>5. BlocksRead = disk /\ Unstored = Promise!Nothing
  BY <1>4, NothingUnstored
<1>6. Promise!Place = Here /\ (Promise!OnDisk <=> Here \in Blocks)
  BY DEF Promise!Place, Here, Promise!OnDisk, Blocks
<1>7. CASE device.state = "ready" /\ Here \notin Blocks
  <2>1. device' = device
    BY <1>1, <1>7 DEF out16
  <2>2. UNCHANGED <<BlocksRead, Unstored>>
    BY <1>1, <2>1 DEF BlocksRead, Unstored
  <2>3. Promise!Put
    BY <1>6, <1>7, <2>2 DEF Promise!Put
  <2> QED
    BY <1>1, <1>2, <2>3 DEF Promise!Send
<1>8. CASE device.state = "data_out" /\ InStep /\ device.at = j
  <2>1. /\ device'.address = device.address
        /\ device'.sector = [device.sector EXCEPT ![j] = w]
        /\ device'.state = IF j + 1 < HALF_BLOCK_SIZE THEN "data_out" ELSE "storing"
    BY <1>1, <1>3, <1>8, WordOut
  <2>2. device.address = Here /\ Here \in Blocks
    BY <1>8 DEF InStep, DiskInv, AtItsBlock
  <2>3. CASE j + 1 < HALF_BLOCK_SIZE
    <3>1. BlocksRead' = disk' /\ Unstored' = Promise!Nothing
      BY <2>1, <2>3 DEF BlocksRead, Unstored, Promise!Nothing
    <3>2. Promise!Put
      BY <1>1, <1>5, <2>3, <3>1, Sizes, Counts DEF Promise!Put
    <3> QED
      BY <1>1, <1>2, <3>2 DEF Promise!Send
  <2>4. CASE ~(j + 1 < HALF_BLOCK_SIZE)
    <3>1. j + 1 = HALF_BLOCK_SIZE
      BY <2>4, Sizes, Counts
    <3>2. /\ BlocksRead' = [disk EXCEPT ![Here] = device'.sector]
          /\ Unstored' = [at |-> Here, held |-> disk[Here]]
      BY <1>1, <2>1, <2>2, <2>4 DEF BlocksRead, Unstored
    <3>3. device'.sector = written
      <4>1. device.sector \in Block
        BY Counts DEF DeviceType
      <4>2. DOMAIN device'.sector = 0 .. HALF_BLOCK_SIZE - 1
            /\ device'.sector = [k \in 0 .. HALF_BLOCK_SIZE - 1 |-> device'.sector[k]]
        BY <2>1, <4>1 DEF Block
      <4>3. ASSUME NEW k \in 0 .. HALF_BLOCK_SIZE - 1
            PROVE  device'.sector[k] = memory[call.ptr + HALF_BLOCK_SIZE * i + k]
        <5>1. CASE k = j
          BY <2>1, <4>1, <5>1 DEF Block
        <5>2. CASE k # j
          <6>1. k \in 0 .. j - 1
            BY <3>1, <5>2, Sizes, Counts
          <6>2. device.sector[k] = memory[call.ptr + HALF_BLOCK_SIZE * i + k]
            BY <1>1, <1>8, <6>1 DEF DiskInv, WithinBlock
          <6> QED
            BY <2>1, <4>1, <5>2, <6>2 DEF Block
        <5> QED
          BY <5>1, <5>2
      <4> QED
        BY <4>2, <4>3
    <3>4. Promise!Put
      BY <1>5, <1>6, <2>2, <3>1, <3>2, <3>3 DEF Promise!Put
    <3> QED
      BY <1>1, <1>2, <3>4 DEF Promise!Send
  <2> QED
    BY <2>3, <2>4
<1> QED
  BY <1>4, <1>7, <1>8

\* So every step of driver and device is one of the store of blocks, or none.
LEMMA MapStep ==
  DiskInv /\ [Next]_vars => [Promise!Next]_<<BlocksRead, Unstored, memory, call, i, j>>
<1> DEFINE mapped == <<BlocksRead, Unstored, memory, call, i, j>>
<1> SUFFICES ASSUME DiskInv, [Next]_vars PROVE Promise!Next \/ UNCHANGED mapped
  OBVIOUS
<1>1. CASE Call
  <2>1. PICK kind \in Kinds, ptr \in Nat, lba \in Nat, count \in 1 .. BYTE - 1 :
          Begin(kind, ptr, lba, count)
    BY <1>1, CallBegins
  <2>2. Promise!Begin
    BY <2>1, MapBegin
  <2> QED
    BY <2>2 DEF Promise!Next
<1>2. CASE Issue
  BY <1>2, MapIssue
<1>3. CASE WaitForBlock
  BY <1>3, MapWait
<1>4. CASE ReadWord
  BY <1>4, MapReadWord DEF Promise!Next
<1>5. CASE WriteWord
  BY <1>5, MapWriteWord DEF Promise!Next
<1>6. CASE Return
  BY <1>6, MapReturn DEF Promise!Next
<1>7. CASE Seek
  BY <1>7, MapSeek
<1>8. CASE Store
  BY <1>8, MapStore DEF Promise!Next
<1>9. CASE PowerCut
  BY <1>9, MapPowerCut DEF Promise!Next
<1>10. CASE UNCHANGED vars
  BY <1>10 DEF vars, BlocksRead, Unstored
<1> QED
  BY <1>1, <1>2, <1>3, <1>4, <1>5, <1>6, <1>7, <1>8, <1>9, <1>10 DEF Next, Driver, Device

\* Every step of driver and device is a step or a stutter of the store of blocks
\* the file system relies on: blocks whole and in their places, nothing beyond the
\* disk, at most the last block lost (disk.c, cluster_to_lba of fat32.c).
THEOREM DiskImplementsBlockStore == Spec => ImplementsBlockStore
<1>1. DiskInit => Promise!Init
  BY MapInit
<1>2. DiskInv /\ [Next]_vars => [Promise!Next]_<<BlocksRead, Unstored, memory, call, i, j>>
  BY MapStep
<1> QED
  BY <1>1, <1>2, DiskInvariant, PTL DEF Spec, ImplementsBlockStore, Promise!Spec, Promise!blockVars
=============================================================================
