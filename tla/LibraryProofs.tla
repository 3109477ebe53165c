---------------------------- MODULE LibraryProofs ----------------------------
(***************************************************************************)
(* Proofs about what programs call.  The reader of the real-time clock:    *)
(* for every length of the minute and the hour, whatever a register reads  *)
(* as during an update, and however many passes fit between two updates,   *)
(* if there are two at least.  Sleep: whatever the width of the words, the *)
(* length of seconds and slices and the durations, no sleep ends early,    *)
(* one that misses its tick had no CPU in it, and one of whole rounds      *)
(* misses none while nobody comes or goes.  And the library of strings:    *)
(* for memory of any size with any bytes in it, what its loops copy, find  *)
(* and count is what they are for.                                         *)
(* Remainders are needed in few lemmas only; from there on words are       *)
(* compared, incremented and wrapped, and the turns are those of a clock   *)
(* that shows slots and ticks.                                             *)
(***************************************************************************)
EXTENDS Clock, Sleep, Strings, Lemmas, FiniteSetTheorems, SequenceTheorems, TLAPS

-----------------------------------------------------------------------------
(* The chip: its time and what its registers read as *)

\* The chip goes from one time of day to another.
LEMMA LaterIsATime ==
  ASSUME NEW t \in Times
  PROVE  Later(t) \in Times
<1>1. /\ t.hour \in 0 .. 23 /\ (t.hour + 1) % 24 \in 0 .. 23
      /\ t.minute \in 0 .. MINUTES_PER_HOUR - 1 /\ t.second \in 0 .. SECONDS_PER_MINUTE - 1
  BY ClockAssumption DEF Times
<1>2. CASE t.second + 1 < SECONDS_PER_MINUTE
  BY <1>1, <1>2, ClockAssumption DEF Later, Times
<1>3. CASE ~(t.second + 1 < SECONDS_PER_MINUTE) /\ t.minute + 1 < MINUTES_PER_HOUR
  <2>1. Later(t) = [t EXCEPT !.second = 0, !.minute = @ + 1]
    BY <1>3 DEF Later
  <2>2. Later(t) = [hour |-> t.hour, minute |-> t.minute + 1, second |-> 0]
    BY <2>1 DEF Times
  <2> QED
    BY <1>1, <1>3, <2>2, ClockAssumption DEF Times
<1>4. CASE ~(t.second + 1 < SECONDS_PER_MINUTE) /\ ~(t.minute + 1 < MINUTES_PER_HOUR)
  <2>1. Later(t) = [hour |-> (t.hour + 1) % 24, minute |-> 0, second |-> 0]
    BY <1>4 DEF Later
  <2> QED
    BY <1>1, <2>1, ClockAssumption DEF Times
<1> QED
  BY <1>2, <1>3, <1>4

\* Two digits of a number below a hundred fit in a byte, and give it back.
LEMMA DigitsFit ==
  ASSUME NEW n \in 0 .. 99
  PROVE  ToBCD(n) \in Byte /\ FromBCD(ToBCD(n)) = n
BY DEF ToBCD, FromBCD, Byte

\* What the chip holds for a time of day fits in its registers.
LEMMA EncodedFits ==
  ASSUME registerB \in [binary : BOOLEAN, day24 : BOOLEAN], NEW t \in Times
  PROVE  Encoded(t) \in Registers
<1>1. /\ t.hour \in 0 .. 23 /\ t.minute \in 0 .. 59 /\ t.second \in 0 .. 59
      /\ Twelve(t.hour) \in 1 .. 12
  BY ClockAssumption DEF Times, Twelve
<1>2. \A n \in 0 .. 99 : Digits(n) \in Byte
  BY DigitsFit DEF Digits, Byte
<1>3. Digits(Twelve(t.hour)) \in 0 .. 127
  BY <1>1 DEF Digits, ToBCD
<1>4. Digits(t.hour) \in Byte /\ Digits(t.minute) \in Byte /\ Digits(t.second) \in Byte
  BY <1>1, <1>2
<1>5. Digits(Twelve(t.hour)) + (IF t.hour >= 12 THEN 128 ELSE 0) \in Byte
  BY <1>1, <1>3 DEF Byte
<1> QED
  BY <1>4, <1>5 DEF Encoded, Registers

\* A register reads as what it holds, unless the chip updates it.
LEMMA ReadingFits ==
  ASSUME ClockTypeOK, NEW r \in {"hour", "minute", "second"}, NEW v \in Reading(r)
  PROVE  v \in Byte /\ (~update => v = Encoded(now)[r])
<1>1. Encoded(now) \in Registers /\ Encoded(Later(now)) \in Registers
  BY EncodedFits, LaterIsATime DEF ClockTypeOK
<1> QED
  BY <1>1, ClockAssumption DEF Reading, Registers, Byte

-----------------------------------------------------------------------------
(* The reader: each step keeps the invariant *)

\* The clock is read first when nothing is read or shown.
LEMMA ClockInitially == ClockInit => ClockInv
<1> SUFFICES ASSUME ClockInit PROVE ClockInv
  OBVIOUS
<1>1. Zero \in Registers /\ PASSES \in 0 .. PASSES
  BY ClockAssumption DEF Zero, Registers, Byte
<1>2. ClockTypeOK
  BY <1>1 DEF ClockInit, ClockTypeOK
<1> QED
  BY <1>2 DEF ClockInit, ClockInv, OneUpdateAtATime, InPass, ReadsOneMoment

\* An update begins: the pass it disturbs was undisturbed, and so was the one before.
LEMMA BeginUpdateStep == ClockInv /\ BeginUpdate => ClockInv'
<1> SUFFICES ASSUME ClockInv, BeginUpdate PROVE ClockInv'
  OBVIOUS
<1>1. Encoded(base)' = Encoded(base) /\ Encoded(now)' = Encoded(now)
  BY DEF BeginUpdate, Encoded, Digits
<1>2. ClockTypeOK'
  BY DEF ClockInv, ClockTypeOK, BeginUpdate
<1>3. OneUpdateAtATime'
  BY <1>1 DEF ClockInv, OneUpdateAtATime, InPass, BeginUpdate
<1>4. ReadsOneMoment'
  BY <1>1 DEF ClockInv, ReadsOneMoment, BeginUpdate
<1> QED
  BY <1>2, <1>3, <1>4 DEF ClockInv

\* An update ends: the next one is at least a pass away.
LEMMA EndUpdateStep == ClockInv /\ EndUpdate => ClockInv'
<1> SUFFICES ASSUME ClockInv, EndUpdate PROVE ClockInv'
  OBVIOUS
<1>1. Encoded(base)' = Encoded(base)
  BY DEF EndUpdate, Encoded, Digits
<1>2. ClockTypeOK'
  <2>1. now' \in Times /\ since' \in 0 .. PASSES
    BY LaterIsATime, ClockAssumption DEF ClockInv, ClockTypeOK, EndUpdate
  <2> QED
    BY <2>1 DEF ClockInv, ClockTypeOK, EndUpdate
<1>3. OneUpdateAtATime'
  <2>1. update /\ ~Undisturbed /\ ~update'
    BY DEF EndUpdate, Undisturbed
  <2>2. InPass \/ pc = "wait" => since' = 0 /\ PASSES # 0
    BY ClockAssumption DEF EndUpdate, InPass
  <2> QED
    BY <1>1, <2>1, <2>2 DEF ClockInv, OneUpdateAtATime, InPass, EndUpdate
<1>4. ReadsOneMoment'
  BY <1>1 DEF ClockInv, ReadsOneMoment, EndUpdate
<1> QED
  BY <1>2, <1>3, <1>4 DEF ClockInv

\* A call begins, with nothing to compare.
LEMMA StartReadStep == ClockInv /\ StartRead => ClockInv'
BY DEF ClockInv, ClockTypeOK, OneUpdateAtATime, InPass, ReadsOneMoment, StartRead

\* A pass begins, undisturbed.
LEMMA WaitForUpdateStep == ClockInv /\ WaitForUpdate => ClockInv'
<1> SUFFICES ASSUME ClockInv, WaitForUpdate PROVE ClockInv'
  OBVIOUS
<1>1. Encoded(base)' = Encoded(now)
  BY DEF WaitForUpdate, Encoded, Digits
<1>2. ClockTypeOK'
  BY DEF ClockInv, ClockTypeOK, WaitForUpdate, Zero, Registers, Byte
<1>3. OneUpdateAtATime'
  <2>1. Undisturbed'
    BY DEF WaitForUpdate, Undisturbed
  <2> QED
    BY <1>1, <2>1 DEF ClockInv, OneUpdateAtATime, InPass, WaitForUpdate
<1>4. ReadsOneMoment'
  BY DEF ReadsOneMoment, WaitForUpdate
<1> QED
  BY <1>2, <1>3, <1>4 DEF ClockInv

\* The second is read: rightly if nothing has disturbed the pass.
LEMMA ReadSecondStep == ClockInv /\ ReadSecond => ClockInv'
<1> SUFFICES ASSUME ClockInv, ReadSecond PROVE ClockInv'
  OBVIOUS
<1>1. Encoded(base)' = Encoded(base) /\ Encoded(now)' = Encoded(now)
  BY DEF ReadSecond, Encoded, Digits
<1>2. PICK v \in Reading("second") : regs' = [regs EXCEPT !.second = v]
  BY DEF ReadSecond
<1>3. regs \in Registers /\ v \in Byte /\ (~update => v = Encoded(now).second)
  BY ReadingFits DEF ClockInv, ClockTypeOK
<1>4. regs' \in Registers /\ regs'.second = v
  BY <1>2, <1>3 DEF Registers
<1>5. ClockTypeOK'
  BY <1>4 DEF ClockInv, ClockTypeOK, ReadSecond
<1>6. Undisturbed => Undisturbed'
  BY <1>1, <1>3, <1>4 DEF Undisturbed, ReadSecond
<1>7. OneUpdateAtATime'
  BY <1>1, <1>6 DEF ClockInv, OneUpdateAtATime, InPass, ReadSecond
<1>8. ReadsOneMoment'
  BY DEF ReadsOneMoment, ReadSecond
<1> QED
  BY <1>5, <1>7, <1>8 DEF ClockInv

\* So is the minute.
LEMMA ReadMinuteStep == ClockInv /\ ReadMinute => ClockInv'
<1> SUFFICES ASSUME ClockInv, ReadMinute PROVE ClockInv'
  OBVIOUS
<1>1. Encoded(base)' = Encoded(base) /\ Encoded(now)' = Encoded(now)
  BY DEF ReadMinute, Encoded, Digits
<1>2. PICK v \in Reading("minute") : regs' = [regs EXCEPT !.minute = v]
  BY DEF ReadMinute
<1>3. regs \in Registers /\ v \in Byte /\ (~update => v = Encoded(now).minute)
  BY ReadingFits DEF ClockInv, ClockTypeOK
<1>4. regs' \in Registers /\ regs'.minute = v /\ regs'.second = regs.second
  BY <1>2, <1>3 DEF Registers
<1>5. ClockTypeOK'
  BY <1>4 DEF ClockInv, ClockTypeOK, ReadMinute
<1>6. Undisturbed => Undisturbed'
  BY <1>1, <1>3, <1>4 DEF Undisturbed, ReadMinute
<1>7. OneUpdateAtATime'
  BY <1>1, <1>6 DEF ClockInv, OneUpdateAtATime, InPass, ReadMinute
<1>8. ReadsOneMoment'
  BY DEF ReadsOneMoment, ReadMinute
<1> QED
  BY <1>5, <1>7, <1>8 DEF ClockInv

\* The hour is read and the pass compared with the one before: of the two, one at least
\* was undisturbed, so if they agree both hold what was there when this one began.
LEMMA ReadHourStep == ClockInv /\ ReadHour => ClockInv'
<1> SUFFICES ASSUME ClockInv, ReadHour PROVE ClockInv'
  OBVIOUS
<1>1. Encoded(base)' = Encoded(base) /\ Encoded(now)' = Encoded(now)
  BY DEF ReadHour, Encoded, Digits
<1>2. PICK v \in Reading("hour") :
        /\ regs' = [regs EXCEPT !.hour = v] /\ last' = regs'
        /\ pc' = IF Agree(regs') THEN "convert" ELSE "wait"
  BY DEF ReadHour
<1>3. regs \in Registers /\ v \in Byte /\ (~update => v = Encoded(now).hour)
  BY ReadingFits DEF ClockInv, ClockTypeOK
<1>4. regs' \in Registers /\ regs' = [hour |-> v, minute |-> regs.minute, second |-> regs.second]
  BY <1>2, <1>3 DEF Registers
<1>5. ClockTypeOK'
  BY <1>2, <1>4, ClockAssumption DEF ClockInv, ClockTypeOK, ReadHour
<1>6. Undisturbed => regs' = Encoded(base)
  BY <1>3, <1>4 DEF Undisturbed, ReadHour, Encoded
<1>7. ReadsOneMoment'
  <2>1. CASE Undisturbed
    BY <1>1, <1>6, <2>1 DEF ReadsOneMoment
  <2>2. CASE ~Undisturbed
    <3>1. compared => last = Encoded(base)
      BY <2>2 DEF ClockInv, OneUpdateAtATime, InPass, ReadHour
    <3> QED
      BY <1>1, <1>2, <3>1 DEF ReadsOneMoment, Agree
  <2> QED
    BY <2>1, <2>2
<1>8. OneUpdateAtATime'
  <2>1. ASSUME ~update, since' = PASSES PROVE last' = Encoded(now)'
    <3>1. since # 0
      BY <2>1, ClockAssumption DEF ReadHour, ClockInv, ClockTypeOK
    <3>2. Undisturbed
      BY <2>1, <3>1 DEF ClockInv, OneUpdateAtATime, InPass, ReadHour
    <3> QED
      BY <1>1, <1>2, <1>6, <3>2 DEF Undisturbed
  <2>2. update => since' = PASSES
    BY ClockAssumption DEF ClockInv, OneUpdateAtATime, ReadHour
  <2> QED
    BY <1>2, <2>1, <2>2 DEF OneUpdateAtATime, InPass, ReadHour
<1> QED
  BY <1>5, <1>7, <1>8 DEF ClockInv

\* The values leave the loop and are converted.
LEMMA ConvertStep == ClockInv /\ Convert => ClockInv'
<1> SUFFICES ASSUME ClockInv, Convert PROVE ClockInv'
  OBVIOUS
<1>1. regs \in Registers /\ regs.hour \in Byte /\ regs.minute \in Byte /\ regs.second \in Byte
  BY DEF ClockInv, ClockTypeOK, Registers
<1>2. \A h \in Nat : Zone(h) \in Byte
  BY DEF Zone, Byte
<1>3. \A h \in Byte : FromBCD(h) \in Nat /\ HourFromBCD(h) \in Nat
  BY DEF FromBCD, HourFromBCD, Byte
<1>4. \A h \in Nat : To24(h) \in Nat
  BY DEF To24
<1>5. \A n \in Nat : n % 256 \in Byte
  BY DEF Byte
<1>6. regs' \in Registers
  <2>1. CASE registerB.binary
    <3>1. Zone(To24(regs.hour)) \in Byte
      <4>1. regs.hour \in Nat
        BY <1>1 DEF Byte
      <4> QED
        BY <1>2, <1>4, <4>1
    <3>2. regs' = [regs EXCEPT !.hour = Zone(To24(regs.hour))]
      BY <2>1 DEF Convert
    <3> QED
      BY <1>1, <3>1, <3>2 DEF Registers
  <2>2. CASE ~registerB.binary
    <3>1. Zone(To24(HourFromBCD(regs.hour))) \in Byte
      BY <1>1, <1>2, <1>3, <1>4
    <3>2. FromBCD(regs.minute) % 256 \in Byte /\ FromBCD(regs.second) % 256 \in Byte
      BY <1>1, <1>3, <1>5
    <3> QED
      BY <2>2, <3>1, <3>2 DEF Convert, Registers
  <2> QED
    BY <2>1, <2>2
<1>7. Zero \in Registers /\ since' \in 0 .. PASSES /\ (update => since' = PASSES)
  BY ClockAssumption
     DEF Zero, Registers, Byte, ClockInv, ClockTypeOK, OneUpdateAtATime, Convert
<1>8. ClockTypeOK'
  BY <1>6, <1>7 DEF ClockInv, ClockTypeOK, Convert
<1>9. OneUpdateAtATime' /\ ReadsOneMoment'
  BY <1>7 DEF OneUpdateAtATime, ReadsOneMoment, InPass, Convert
<1> QED
  BY <1>8, <1>9 DEF ClockInv

\* The digits are drawn.
LEMMA DrawStep == ClockInv /\ Draw => ClockInv'
BY DEF ClockInv, ClockTypeOK, OneUpdateAtATime, InPass, ReadsOneMoment, Draw

\* Every step keeps it.
LEMMA ClockStep == ClockInv /\ [ClockNext]_clockVars => ClockInv'
<1> SUFFICES ASSUME ClockInv, [ClockNext]_clockVars PROVE ClockInv'
  OBVIOUS
<1>1. CASE UNCHANGED clockVars
  <2>1. /\ Encoded(base)' = Encoded(base) /\ Encoded(now)' = Encoded(now)
        /\ Undisturbed' = Undisturbed
    BY <1>1 DEF clockVars, Encoded, Digits, Undisturbed
  <2> QED
    BY <1>1, <2>1
       DEF clockVars, ClockInv, ClockTypeOK, OneUpdateAtATime, InPass, ReadsOneMoment
<1> QED
  BY <1>1, BeginUpdateStep, EndUpdateStep, StartReadStep, WaitForUpdateStep, ReadSecondStep,
     ReadMinuteStep, ReadHourStep, ConvertStep, DrawStep
     DEF ClockNext, ReadRTC

-----------------------------------------------------------------------------
(* From the registers to the screen *)

\* The hour comes back from its register in each of the four formats, seven hours later,
\* but for twelve o'clock on a chip that counts to twelve.
LEMMA HourComesBack ==
  ASSUME registerB \in [binary : BOOLEAN, day24 : BOOLEAN], NEW t \in Times
  PROVE  LET h == Encoded(t).hour
         IN  Zone(To24(IF registerB.binary THEN h ELSE HourFromBCD(h))) =
               (t.hour + 7 + (IF ~registerB.day24 /\ t.hour % 12 = 0 THEN 12 ELSE 0)) % 24
<1>1. t.hour \in 0 .. 23 /\ Twelve(t.hour) \in 1 .. 12
  BY DEF Times, Twelve
<1>2. CASE registerB.day24
  <2>1. Encoded(t).hour = Digits(t.hour)
    BY <1>2 DEF Encoded
  <2>2. HourFromBCD(ToBCD(t.hour)) = t.hour
    BY <1>1 DEF HourFromBCD, FromBCD, ToBCD
  <2> QED
    BY <1>1, <1>2, <2>1, <2>2 DEF Digits, To24, Zone
<1>3. CASE ~registerB.day24
  <2> DEFINE mark == IF t.hour >= 12 THEN 128 ELSE 0
  <2>1. Encoded(t).hour = Digits(Twelve(t.hour)) + mark
    BY <1>3 DEF Encoded
  <2>2. HourFromBCD(ToBCD(Twelve(t.hour)) + mark) = Twelve(t.hour) + mark
    BY <1>1 DEF HourFromBCD, FromBCD, ToBCD
  <2>3. (IF registerB.binary THEN Encoded(t).hour ELSE HourFromBCD(Encoded(t).hour))
          = Twelve(t.hour) + mark
    BY <2>1, <2>2 DEF Digits
  <2>4. Zone(To24(Twelve(t.hour) + mark)) =
          (t.hour + 7 + (IF t.hour % 12 = 0 THEN 12 ELSE 0)) % 24
    BY <1>1, <1>3 DEF To24, Zone, Twelve
  <2> QED
    BY <1>3, <2>3, <2>4
<1> QED
  BY <1>2, <1>3

\* The conversion keeps the time.
LEMMA ConvertKeepsTime == ClockInv /\ Convert => HourIsRight'
<1> SUFFICES ASSUME ClockInv, Convert PROVE HourIsRight'
  OBVIOUS
<1>1. /\ registerB \in [binary : BOOLEAN, day24 : BOOLEAN] /\ base \in Times
      /\ regs = Encoded(base) /\ regs \in Registers
  BY DEF ClockInv, ClockTypeOK, ReadsOneMoment, Convert
<1>2. base.minute \in 0 .. 59 /\ base.second \in 0 .. 59
  BY <1>1, ClockAssumption DEF Times
<1>3. /\ regs.minute = Digits(base.minute) /\ regs.second = Digits(base.second)
  BY <1>1 DEF Encoded
<1>4. CASE registerB.binary
  <2>1. regs' = [regs EXCEPT !.hour = Zone(To24(@))]
    BY <1>4 DEF Convert
  <2>2. regs'.minute = regs.minute /\ regs'.second = regs.second /\ regs'.hour = Zone(To24(regs.hour))
    BY <1>1, <2>1 DEF Registers
  <2>3. regs.minute = base.minute /\ regs.second = base.second
    BY <1>3, <1>4 DEF Digits
  <2> QED
    BY <1>1, <1>4, <2>2, <2>3, HourComesBack DEF HourIsRight, Convert
<1>5. CASE ~registerB.binary
  <2>1. /\ regs'.minute = FromBCD(ToBCD(base.minute)) % 256
        /\ regs'.second = FromBCD(ToBCD(base.second)) % 256
        /\ regs'.hour = Zone(To24(HourFromBCD(regs.hour)))
    BY <1>3, <1>5 DEF Convert, Digits
  <2>2. FromBCD(ToBCD(base.minute)) = base.minute /\ FromBCD(ToBCD(base.second)) = base.second
    BY <1>2, DigitsFit
  <2>3. regs'.minute = base.minute /\ regs'.second = base.second
    BY <1>2, <2>1, <2>2
  <2> QED
    BY <1>1, <1>5, <2>1, <2>3, HourComesBack DEF HourIsRight, Convert
<1> QED
  BY <1>4, <1>5

\* Every step keeps the time right.
LEMMA TimeStep == ClockInv /\ TimeIsRight /\ [ClockNext]_clockVars => TimeIsRight'
<1> SUFFICES ASSUME ClockInv, TimeIsRight, [ClockNext]_clockVars PROVE TimeIsRight'
  OBVIOUS
<1>1. CASE UNCHANGED clockVars
  BY <1>1 DEF clockVars, TimeIsRight, HourIsRight, ShownIsRead
<1>2. CASE BeginUpdate \/ EndUpdate
  BY <1>2 DEF BeginUpdate, EndUpdate, TimeIsRight, HourIsRight, ShownIsRead
<1>3. CASE StartRead \/ WaitForUpdate \/ ReadSecond \/ ReadMinute \/ ReadHour
  <2>1. pc' \notin {"idle", "draw"}
    BY <1>3 DEF StartRead, WaitForUpdate, ReadSecond, ReadMinute, ReadHour
  <2> QED
    BY <2>1 DEF TimeIsRight, HourIsRight, ShownIsRead
<1>4. CASE Convert
  <2>1. ShownIsRead'
    BY <1>4 DEF Convert, ShownIsRead
  <2> QED
    BY <1>4, <2>1, ConvertKeepsTime DEF TimeIsRight
<1>5. CASE Draw
  <2>1. HourIsRight'
    BY <1>5 DEF Draw, HourIsRight
  <2>2. PICK beside \in BOOLEAN : shown' = Faces(regs, beside)
    BY <1>5 DEF Draw
  <2>3. ShownIsRead'
    BY <1>5, <2>2 DEF Draw, ShownIsRead, Faces, Overrun
  <2> QED
    BY <2>1, <2>3 DEF TimeIsRight
<1> QED
  BY <1>1, <1>2, <1>3, <1>4, <1>5 DEF ClockNext, ReadRTC

-----------------------------------------------------------------------------
(* What the reader shows *)

\* The reader's invariant holds in every state of every execution: it is inductive.
\* So what read_rtc converts is what the registers held at one moment.
THEOREM ClockInvariant == ClockSpec => []ClockInv
BY ClockInitially, ClockStep, PTL DEF ClockSpec

\* What is converted and shown is the time of that moment, in every format of the chip.
THEOREM ClockTimeIsRight == ClockSpec => []TimeIsRight
<1>1. ClockInit => TimeIsRight
  BY DEF ClockInit, TimeIsRight, HourIsRight, ShownIsRead
<1> QED
  BY <1>1, ClockInvariant, TimeStep, PTL DEF ClockSpec

-----------------------------------------------------------------------------
(* The words of the timer *)

\* The next remainder, with its wrap.
LEMMA ModNext ==
  ASSUME NEW w \in Nat \ {0}, NEW n \in Nat
  PROVE  /\ n % w \in 0 .. w - 1
         /\ (n + 1) % w = IF (n % w) + 1 = w THEN 0 ELSE (n % w) + 1
<1> DEFINE q == n \div w
           r == n % w
<1>1. q \in Int /\ r \in 0 .. w - 1 /\ n = w * q + r
  BY SMT
<1> HIDE DEF q, r
<1>2. CASE r + 1 = w
  <2>1. n + 1 = w * (q + 1) + 0
    BY <1>1, <1>2, SMT
  <2>2. (w * (q + 1) + 0) % w = 0
    <3>1. q + 1 \in Int /\ 0 \in 0 .. w - 1
      BY <1>1, SMT
    <3> QED
      BY <3>1, ModUnique
  <2> QED
    BY <1>1, <1>2, <2>1, <2>2 DEF r
<1>3. CASE r + 1 # w
  <2>1. r + 1 \in 0 .. w - 1 /\ n + 1 = w * q + (r + 1)
    BY <1>1, <1>3, SMT
  <2> QED
    BY <1>1, <1>3, <2>1, ModUnique DEF r
<1> QED
  BY <1>2, <1>3

\* A sum or a difference of two words is at most one word away from its remainder.
LEMMA ModNear ==
  ASSUME NEW w \in Nat \ {0}, NEW n \in Int, -w < n, n < 2 * w
  PROVE  /\ n % w \in 0 .. w - 1
         /\ n - (n % w) \in {-w, 0, w}
<1>1. CASE n < 0
  <2>1. n + w \in 0 .. w - 1 /\ n = w * (-1) + (n + w)
    BY <1>1, SMT
  <2>2. n % w = n + w
    BY <2>1, ModUnique
  <2> QED
    BY <2>1, <2>2
<1>2. CASE n \in 0 .. w - 1
  <2>1. n = w * 0 + n
    BY SMT
  <2>2. n % w = n
    BY <1>2, <2>1, ModUnique
  <2> QED
    BY <1>2, <2>2
<1>3. CASE n >= w
  <2>1. n - w \in 0 .. w - 1 /\ n = w * 1 + (n - w)
    BY <1>3, SMT
  <2>2. n % w = n - w
    BY <2>1, ModUnique
  <2> QED
    BY <2>1, <2>2
<1> QED
  BY <1>1, <1>2, <1>3

-----------------------------------------------------------------------------
(* The clock of the timer *)

\* The clock's counters stay in their ranges.
CounterTypes ==
  /\ tick_counter \in 0 .. TICKS_PER_SECOND - 1
  /\ second_counter \in 0 .. WORD - 1

\* The two counters, carrying and wrapping, make one word that counts the ticks.
LEMMA AdvanceStep ==
  ASSUME CounterTypes, Advance
  PROVE  /\ CounterTypes'
         /\ Now \in 0 .. WORD - 1
         /\ Now' = IF Now + 1 = WORD THEN 0 ELSE Now + 1
<1> DEFINE T == TICKS_PER_SECOND
           W == WORD
           t == tick_counter
           s == second_counter
           n == T * s + t
<1> USE DEF CounterTypes
<1>1. T \in Nat \ {0} /\ W \in Nat \ {0}
  BY SleepAssumption
<1>2. T * s \in Nat /\ n \in Nat
  BY <1>1, SMT
<1>3. Now = n % W /\ Now \in 0 .. W - 1 /\ (n + 1) % W = IF Now + 1 = W THEN 0 ELSE Now + 1
  BY <1>1, <1>2, ModNext DEF Now
<1>4. CASE t + 1 < T
  <2>1. t' = t + 1 /\ s' = s
    BY <1>1, <1>4 DEF Advance
  <2>2. Now' = (T * s + (t + 1)) % W
    BY <2>1 DEF Now
  <2>3. T * s + (t + 1) = n + 1
    BY <1>2, SMT
  <2> QED
    BY <1>1, <1>3, <1>4, <2>1, <2>2, <2>3
<1>5. CASE t + 1 >= T
  <2>1. t' = 0 /\ s' = (s + 1) % W /\ t = T - 1
    BY <1>1, <1>5 DEF Advance
  <2>2. n + 1 = T * (s + 1)
    BY <1>1, <2>1, SMT
  <2>3. s \in Nat /\ (s + 1) % W = IF (s % W) + 1 = W THEN 0 ELSE (s % W) + 1
    <3>1. s \in Nat
      BY <1>1
    <3> HIDE DEF s, W
    <3> QED
      BY <1>1, <3>1, ModNext
  <2>4. s % W = s
    <3>1. s = W * 0 + s /\ 0 \in Int
      BY <1>1, SMT
    <3> QED
      BY <1>1, <3>1, ModUnique
  <2>5. Now' = (T * s' + 0) % W
    BY <2>1 DEF Now
  <2>6. Now' = (n + 1) % W /\ s' \in 0 .. W - 1
    <3>1. CASE s + 1 = W
      <4>1. s' = 0 /\ n + 1 = W * T + 0
        BY <1>1, <2>1, <2>2, <2>3, <2>4, <3>1, SMT
      <4>2. (n + 1) % W = 0
        BY <1>1, <4>1, ModUnique
      <4>3. T * 0 + 0 = W * 0 + 0 /\ (W * 0 + 0) % W = 0
        BY <1>1, ModUnique
      <4> QED
        BY <1>1, <2>5, <4>1, <4>2, <4>3
    <3>2. CASE s + 1 # W
      <4>1. s' = s + 1 /\ s + 1 \in 0 .. W - 1
        BY <1>1, <2>1, <2>3, <2>4, <3>2
      <4>2. T * (s + 1) + 0 = T * (s + 1)
        BY <1>1, SMT
      <4> QED
        BY <2>2, <2>5, <4>1, <4>2
    <3> QED
      BY <3>1, <3>2
  <2> QED
    BY <1>1, <1>3, <2>1, <2>6
<1> QED
  BY <1>1, <1>4, <1>5

-----------------------------------------------------------------------------
(* What a sleeper waits for *)

\* What is left of a sleep is the word between the clock and its deadline, until a whole
\* word of ticks has passed; and a sleeper that has compared did not find its tick.
SleepsOn ==
  asleep =>
    /\ elapsed < WORD =>
         (deadline - Now) - (duration - elapsed) \in {-WORD, 0, WORD}
    /\ polled /\ elapsed = duration => duration = 0

\* The part of SleepTypeOK that the sleeper's time needs.
TypesOfSleep ==
  /\ CounterTypes
  /\ deadline \in 0 .. WORD - 1
  /\ duration \in 0 .. WORD - 1
  /\ elapsed \in 0 .. WORD
  /\ asleep \in BOOLEAN /\ polled \in BOOLEAN

\* The inductive invariant.
TimeInv == TypesOfSleep /\ SleepsOn

\* Now is a word.
LEMMA NowWord == CounterTypes => Now \in 0 .. WORD - 1
<1> SUFFICES ASSUME CounterTypes PROVE Now \in 0 .. WORD - 1
  OBVIOUS
<1> DEFINE n == TICKS_PER_SECOND * second_counter + tick_counter
<1>1. n \in Nat /\ WORD \in Nat \ {0}
  BY SleepAssumption, SMT DEF CounterTypes
<1> QED
  BY <1>1, ModNext DEF Now

\* The loop ends when the clock is at the deadline, and at no other tick.
LEMMA OverIsDeadline == TypesOfSleep => (Over <=> deadline = Now)
<1> SUFFICES ASSUME TypesOfSleep PROVE Over <=> deadline = Now
  OBVIOUS
<1>1. WORD \in Nat \ {0} /\ Now \in 0 .. WORD - 1 /\ deadline \in 0 .. WORD - 1
  BY SleepAssumption, NowWord DEF TypesOfSleep
<1> DEFINE n == deadline - Now
<1>2. n \in Int /\ -WORD < n /\ n < WORD
  BY <1>1
<1>3. n % WORD \in 0 .. WORD - 1 /\ n - (n % WORD) \in {-WORD, 0, WORD}
  <2>1. n < 2 * WORD
    BY <1>1, <1>2
  <2> HIDE DEF n
  <2> QED
    BY <1>1, <1>2, <2>1, ModNear
<1>4. n % WORD = 0 <=> n = 0
  <2> HIDE DEF n
  <2> QED
    BY <1>1, <1>2, <1>3
<1> QED
  BY <1>1, <1>4 DEF Over

\* The invariant holds initially.
LEMMA SleepStart == SleepInit => TimeInv
<1> SUFFICES ASSUME SleepInit PROVE TimeInv
  OBVIOUS
<1>1. /\ tick_counter = 0 /\ second_counter = 0 /\ deadline = 0 /\ duration = 0 /\ elapsed = 0
      /\ asleep = FALSE /\ polled = TRUE
  BY DEF SleepInit
<1>2. TypesOfSleep
  <2>1. 0 \in 0 .. TICKS_PER_SECOND - 1 /\ 0 \in 0 .. WORD - 1 /\ 0 \in 0 .. WORD
    BY SleepAssumption, SMT
  <2>2. asleep \in BOOLEAN /\ polled \in BOOLEAN
    BY <1>1
  <2> QED
    BY <1>1, <2>1, <2>2, Zenon DEF TypesOfSleep, CounterTypes
<1> QED
  BY <1>1, <1>2 DEF TimeInv, SleepsOn

\* A tick takes one from what is left.
LEMMA TickKeepsTime ==
  ASSUME TimeInv, timer_isr
  PROVE  TimeInv'
<1> USE DEF TimeInv, TypesOfSleep
<1>1. WORD \in Nat \ {0}
  BY SleepAssumption
<1>2. CounterTypes' /\ Now \in 0 .. WORD - 1 /\ Now' = IF Now + 1 = WORD THEN 0 ELSE Now + 1
  BY AdvanceStep DEF timer_isr
<1>3. /\ deadline' = deadline /\ duration' = duration /\ asleep' = asleep /\ polled' = FALSE
      /\ elapsed' = IF asleep /\ elapsed < WORD THEN elapsed + 1 ELSE elapsed
  BY DEF timer_isr
<1>4. elapsed' \in 0 .. WORD
  BY <1>1, <1>3
<1>5. asleep' /\ elapsed' < WORD => (deadline' - Now') - (duration' - elapsed') \in {-WORD, 0, WORD}
  BY <1>1, <1>2, <1>3, <1>4 DEF SleepsOn
<1> HIDE DEF TimeInv, TypesOfSleep
<1>6. TypesOfSleep'
  BY <1>2, <1>3, <1>4 DEF TimeInv, TypesOfSleep
<1> QED
  BY <1>3, <1>5, <1>6 DEF TimeInv, SleepsOn

\* A sleep begins with all of its duration left.
LEMMA StartKeepsTime ==
  ASSUME TimeInv, StartSleep
  PROVE  TimeInv'
<1>1. WORD \in Nat \ {0} /\ Durations \subseteq 0 .. WORD - 1
  BY SleepAssumption
<1>2. Now \in 0 .. WORD - 1 /\ Now' = Now /\ CounterTypes'
  BY NowWord DEF StartSleep, Now, TimeInv, TypesOfSleep, CounterTypes
<1>3. PICK d \in Durations : duration' = d /\ deadline' = Deadline(d)
  BY DEF StartSleep
<1>4. /\ (Now + d) % WORD \in 0 .. WORD - 1
      /\ (Now + d) - ((Now + d) % WORD) \in {-WORD, 0, WORD}
  <2>1. Now + d \in Int /\ -WORD < Now + d /\ Now + d < 2 * WORD
    BY <1>1, <1>2
  <2> QED
    BY <1>1, <2>1, ModNear
<1>5. asleep' = TRUE /\ polled' = TRUE /\ elapsed' = 0
  BY DEF StartSleep
<1>6. deadline' \in 0 .. WORD - 1 /\ (deadline' - Now') - (duration' - elapsed') \in {-WORD, 0, WORD}
  BY <1>1, <1>2, <1>3, <1>4, <1>5 DEF Deadline
<1> QED
  BY <1>1, <1>2, <1>3, <1>5, <1>6 DEF TimeInv, TypesOfSleep, SleepsOn

\* A comparison that goes on was not at the tick.
LEMMA PollKeepsTime ==
  ASSUME TimeInv, Poll
  PROVE  /\ TimeInv'
         /\ asleep /\ ~asleep' => elapsed = duration \/ elapsed = WORD
<1>1. WORD \in Nat \ {0} /\ Now \in 0 .. WORD - 1 /\ Now' = Now /\ (Over <=> deadline = Now)
  BY SleepAssumption, NowWord, OverIsDeadline DEF TimeInv, TypesOfSleep, Poll, Now
<1>2. /\ asleep /\ asleep' = ~Over /\ polled' = TRUE
      /\ UNCHANGED <<tick_counter, second_counter, deadline, duration, elapsed>>
  BY DEF Poll
<1>3. TypesOfSleep'
  BY <1>2 DEF TimeInv, TypesOfSleep, CounterTypes
<1>4. elapsed < WORD => (Over <=> elapsed = duration)
  BY <1>1, <1>2 DEF TimeInv, TypesOfSleep, SleepsOn
<1>5. SleepsOn'
  BY <1>1, <1>2, <1>4 DEF TimeInv, TypesOfSleep, SleepsOn
<1>6. asleep /\ ~asleep' => elapsed = duration \/ elapsed = WORD
  <2>1. elapsed \in 0 .. WORD
    BY DEF TimeInv, TypesOfSleep
  <2>2. elapsed < WORD \/ elapsed = WORD
    BY <1>1, <2>1
  <2> QED
    BY <1>2, <1>4, <2>2
<1> QED
  BY <1>3, <1>5, <1>6 DEF TimeInv

\* Every step keeps the invariant.
LEMMA TimeRuns == TimeInv /\ [SleepNext]_sleepVars => TimeInv'
<1> SUFFICES ASSUME TimeInv, [SleepNext]_sleepVars PROVE TimeInv'
  OBVIOUS
<1>1. CASE CreateProcess \/ DestroyProcess \/ UNCHANGED sleepVars
  <2>1. UNCHANGED <<tick_counter, second_counter, asleep, deadline, duration, polled, elapsed>>
    BY <1>1 DEF CreateProcess, DestroyProcess, sleepVars
  <2>2. Now' = Now
    BY <2>1 DEF Now
  <2> QED
    BY <2>1, <2>2 DEF TimeInv, TypesOfSleep, CounterTypes, SleepsOn
<1> QED
  BY <1>1, TickKeepsTime, StartKeepsTime, PollKeepsTime DEF SleepNext

\* The invariant, for every width of the words and every length of the second.
THEOREM SleepTimeInvariant == SleepSpec => []TimeInv
BY SleepStart, TimeRuns, PTL DEF SleepSpec

\* However the counters carry and wrap, a sleep that ends has lasted its duration, or
\* missed that one tick and gone on for a whole word of them.
THEOREM SleepLastsItsDuration == SleepSpec => LastsItsDuration
<1>1. TimeInv /\ [SleepNext]_sleepVars
        => [asleep /\ ~asleep' => elapsed = duration \/ elapsed = WORD]_sleepVars
  <2> SUFFICES ASSUME TimeInv, SleepNext, asleep, ~asleep'
               PROVE  elapsed = duration \/ elapsed = WORD
    OBVIOUS
  <2>1. Poll
    BY DEF SleepNext, timer_isr, CreateProcess, DestroyProcess, StartSleep
  <2> QED
    BY <2>1, PollKeepsTime
<1> QED
  BY <1>1, SleepTimeInvariant, PTL DEF SleepSpec, LastsItsDuration

\* A sleeper that has the CPU up to the end of its tick does not miss it.
THEOREM SleepMissedOnlyWithoutCPU == SleepSpec => MissedOnlyWithoutCPU
<1>1. TimeInv /\ [SleepNext]_sleepVars
        => [~Late /\ Late' => running # Sleeper \/ duration = 0]_sleepVars
  <2> SUFFICES ASSUME TimeInv, SleepNext, ~Late, Late', running = Sleeper
               PROVE  duration = 0
    OBVIOUS
  <2>1. WORD \in Nat \ {0} /\ Durations \subseteq 0 .. WORD - 1
    BY SleepAssumption
  <2>2. CASE timer_isr
    <3>1. /\ duration' = duration /\ asleep' = asleep
          /\ elapsed' = IF asleep /\ elapsed < WORD THEN elapsed + 1 ELSE elapsed
          /\ asleep => polled
      BY <2>2 DEF timer_isr
    <3>2. asleep /\ polled /\ elapsed = duration
      BY <3>1, <2>1 DEF Late, TimeInv, TypesOfSleep
    <3> QED
      BY <3>2 DEF TimeInv, SleepsOn
  <2>3. CASE StartSleep
    <3>1. elapsed' = 0 /\ duration' \in Durations
      BY <2>3 DEF StartSleep
    <3> QED
      BY <2>1, <3>1 DEF Late
  <2>4. CASE Poll \/ CreateProcess \/ DestroyProcess
    <3>1. elapsed' = elapsed /\ duration' = duration /\ (asleep' => asleep)
      BY <2>4 DEF Poll, CreateProcess, DestroyProcess
    <3> QED
      BY <3>1 DEF Late
  <2> QED
    BY <2>2, <2>3, <2>4 DEF SleepNext
<1> QED
  BY <1>1, SleepTimeInvariant, PTL DEF SleepSpec, MissedOnlyWithoutCPU

-----------------------------------------------------------------------------
(* Turns *)

\* What the scan from a slot has behind it before it looks at another one, and itself last.
LEMMA ScanAround ==
  ASSUME NEW i \in Slots, NEW j \in Slots
  PROVE  ScannedBefore(i, j) = IF j > i THEN (j - i) - 1 ELSE ((j - i) + PROCESSES) - 1
<1> DEFINE d == j - i - 1
<1>1. PROCESSES \in Nat \ {0} /\ i \in 0 .. PROCESSES - 1 /\ j \in 0 .. PROCESSES - 1
  BY SleepAssumption DEF Slots
<1>2. CASE j > i
  <2>1. d \in 0 .. PROCESSES - 1 /\ d = PROCESSES * 0 + d /\ 0 \in Int /\ d \in Int
    BY <1>1, <1>2
  <2> HIDE DEF d
  <2>2. d % PROCESSES = d
    BY <1>1, <2>1, ModUnique
  <2>3. ScannedBefore(i, j) = d % PROCESSES
    BY DEF ScannedBefore, d
  <2> QED
    BY <1>2, <2>2, <2>3 DEF d
<1>3. CASE ~(j > i)
  <2>1. /\ d + PROCESSES \in 0 .. PROCESSES - 1
        /\ d = PROCESSES * (-1) + (d + PROCESSES) /\ -1 \in Int /\ d \in Int
    BY <1>1, <1>3
  <2>2. d + PROCESSES = ((j - i) + PROCESSES) - 1
    BY <1>1
  <2> HIDE DEF d
  <2>3. d % PROCESSES = d + PROCESSES
    BY <1>1, <2>1, ModUnique
  <2>4. ScannedBefore(i, j) = d % PROCESSES
    BY DEF ScannedBefore, d
  <2> QED
    BY <1>3, <2>2, <2>3, <2>4
<1> QED
  BY <1>2, <1>3

\* The next slot is the READY one the scan looks at first.
LEMMA NextSlotFirst ==
  ASSUME alive \subseteq Slots, NEW i \in alive \ new
  PROVE  /\ NextSlot(i) \in alive \ new
         /\ \A k \in alive \ new : ScannedBefore(i, NextSlot(i)) <= ScannedBefore(i, k)
<1> DEFINE D == {ScannedBefore(i, k) : k \in alive \ new}
<1>1. \A k \in alive : ScannedBefore(i, k) \in Nat
  BY SleepAssumption, ScanAround DEF Slots
<1>2. PICK d \in D : \A e \in D : d <= e
  <2>1. D \in SUBSET Nat /\ D # {}
    BY <1>1
  <2> HIDE DEF D
  <2> QED
    BY <2>1, LeastElement
<1>3. \E j \in alive \ new : \A k \in alive \ new : ScannedBefore(i, j) <= ScannedBefore(i, k)
  BY <1>2
<1> QED
  BY <1>3, Zenon DEF NextSlot

\* How many processes have their turn before a slot's in a round that begins with the sleeper.
Earlier(i) == {k \in alive : k < i}
Rank(i)   == Cardinality(Earlier(i))

\* Slots in use are finitely many, and those before one are fewer than all.
LEMMA RankType ==
  ASSUME alive \subseteq Slots, NEW i \in alive
  PROVE  /\ IsFiniteSet(alive) /\ IsFiniteSet(Earlier(i))
         /\ Cardinality(alive) \in Nat \ {0}
         /\ Rank(i) \in 0 .. Cardinality(alive) - 1
<1>1. IsFiniteSet(Slots)
  BY SleepAssumption, FS_Interval DEF Slots
<1>2. IsFiniteSet(alive)
  BY <1>1, FS_Subset
<1>3. Earlier(i) \in SUBSET (alive \ {i})
  BY SleepAssumption DEF Earlier, Slots
<1>4. IsFiniteSet(alive \ {i}) /\ Cardinality(alive \ {i}) = Cardinality(alive) - 1
  BY <1>2, FS_RemoveElement
<1>5. IsFiniteSet(Earlier(i)) /\ Rank(i) <= Cardinality(alive \ {i})
  BY <1>3, <1>4, FS_Subset DEF Rank
<1>6. Rank(i) \in Nat /\ Cardinality(alive) \in Nat /\ Cardinality(alive) # 0
  BY <1>2, <1>5, FS_CardinalityType, FS_EmptySet DEF Rank
<1> QED
  BY <1>2, <1>4, <1>5, <1>6

\* With no NEW process the rank goes up by one from one turn to the next, or from the last
\* to the first.
LEMMA NextSlotRank ==
  ASSUME alive \subseteq Slots, NEW i \in alive, Cardinality(alive) > 1, new = {}
  PROVE  /\ NextSlot(i) \in alive
         /\ \/ Rank(NextSlot(i)) = Rank(i) + 1
            \/ Rank(i) = Cardinality(alive) - 1 /\ Rank(NextSlot(i)) = 0
<1> DEFINE j == NextSlot(i)
<1>1. IsFiniteSet(alive) /\ IsFiniteSet(Earlier(i)) /\ \A k \in alive : k \in 0 .. PROCESSES - 1
  BY RankType DEF Slots
<1>2. IsFiniteSet(alive \ {i}) /\ Cardinality(alive \ {i}) = Cardinality(alive) - 1
  BY <1>1, FS_RemoveElement
<1>3. alive \ {i} # {}
  BY <1>2, RankType, FS_EmptySet
<1>10. j \in alive /\ \A k \in alive : ScannedBefore(i, j) <= ScannedBefore(i, k)
  BY NextSlotFirst
<1> HIDE DEF j
<1>11. \A k \in alive :
        (IF j > i THEN (j - i) - 1 ELSE ((j - i) + PROCESSES) - 1)
          <= (IF k > i THEN (k - i) - 1 ELSE ((k - i) + PROCESSES) - 1)
  BY <1>10, ScanAround
<1>4. j \in alive \ {i}
  <2>1. PICK k \in alive \ {i} : TRUE
    BY <1>3
  <2> QED
    BY SleepAssumption, <1>1, <1>10, <1>11, <2>1
<1>5. \A k \in alive \ {i} :
        (IF j > i THEN j - i ELSE (j - i) + PROCESSES) <= (IF k > i THEN k - i ELSE (k - i) + PROCESSES)
  BY SleepAssumption, <1>1, <1>4, <1>11
<1>6. CASE j > i
  <2>1. Earlier(j) = Earlier(i) \cup {i}
    <3>1. ASSUME NEW k \in Earlier(j) PROVE k \in Earlier(i) \cup {i}
      BY SleepAssumption, <1>1, <1>4, <1>5, <1>6 DEF Earlier
    <3>2. ASSUME NEW k \in Earlier(i) \cup {i} PROVE k \in Earlier(j)
      BY SleepAssumption, <1>1, <1>4, <1>6 DEF Earlier
    <3> QED
      BY <3>1, <3>2
  <2>2. i \notin Earlier(i)
    BY SleepAssumption, <1>1 DEF Earlier
  <2>3. Rank(j) = Rank(i) + 1
    BY <1>1, <2>1, <2>2, FS_AddElement DEF Rank
  <2> QED
    BY <1>4, <2>3 DEF j
<1>7. CASE j < i
  <2>1. \A k \in alive \ {i} : ~(k > i) /\ ~(k < j)
    BY SleepAssumption, <1>1, <1>4, <1>5, <1>7
  <2>2. Earlier(i) = alive \ {i}
    BY SleepAssumption, <1>1, <2>1 DEF Earlier
  <2>3. Earlier(j) = {}
    BY SleepAssumption, <1>1, <1>4, <1>7, <2>1 DEF Earlier
  <2>4. Rank(i) = Cardinality(alive) - 1 /\ Rank(j) = 0
    BY <1>2, <2>2, <2>3, FS_EmptySet DEF Rank
  <2> QED
    BY <1>4, <2>4 DEF j
<1> QED
  BY SleepAssumption, <1>1, <1>4, <1>6, <1>7

\* The tick within its slice: slices fill the second, so that the carry begins one too.
LEMMA PhaseStep ==
  ASSUME CounterTypes, Advance
  PROVE  /\ tick_counter % QUANTUM \in 0 .. QUANTUM - 1
         /\ tick_counter' % QUANTUM = IF (tick_counter % QUANTUM) + 1 = QUANTUM THEN 0
                                      ELSE (tick_counter % QUANTUM) + 1
<1>1. /\ QUANTUM \in Nat \ {0} /\ TICKS_PER_SECOND \in Nat \ {0}
      /\ TICKS_PER_SECOND % QUANTUM = 0 /\ tick_counter \in Nat
  BY SleepAssumption DEF CounterTypes
<1>2. /\ tick_counter % QUANTUM \in 0 .. QUANTUM - 1
      /\ (tick_counter + 1) % QUANTUM = IF (tick_counter % QUANTUM) + 1 = QUANTUM THEN 0
                                        ELSE (tick_counter % QUANTUM) + 1
  BY <1>1, ModNext
<1>3. CASE tick_counter + 1 < TICKS_PER_SECOND
  <2>1. tick_counter' = tick_counter + 1
    BY <1>1, <1>3 DEF Advance
  <2> QED
    BY <1>2, <2>1
<1>4. CASE tick_counter + 1 >= TICKS_PER_SECOND
  <2>1. tick_counter' = 0 /\ tick_counter + 1 = TICKS_PER_SECOND
    BY <1>1, <1>4 DEF Advance, CounterTypes
  <2>2. 0 % QUANTUM = 0
    <3>1. 0 = QUANTUM * 0 + 0 /\ 0 \in Int /\ 0 \in 0 .. QUANTUM - 1
      BY <1>1
    <3> QED
      BY <1>1, <3>1, ModUnique
  <2> QED
    BY <1>1, <1>2, <2>1, <2>2
<1> QED
  BY <1>1, <1>3, <1>4

-----------------------------------------------------------------------------
(* Whole rounds *)

\* The place in the round is where it was when the sleep began, as many ticks on as have
\* passed: N is the length of a round, p the sleeper's place in its slice at the beginning.
InTurn(N, e, i, t) ==
  \E q \in Int, p \in 0 .. QUANTUM - 1 : e + p = N * q + (QUANTUM * Rank(i) + (t % QUANTUM))

\* The inductive invariant: as long as nobody comes or goes and nobody was NEW, there is no
\* NEW process, and the turns are those of a clock that shows slot and tick.
TurnInv ==
  asleep /\ steady =>
    /\ new = {}
    /\ elapsed < WORD => InTurn(QUANTUM * Cardinality(alive), elapsed, running, tick_counter)

\* What a clock of slots and ticks shows after e ticks, p being where it began.
Shows(Q, n, e, p, r, t) == \E q \in Int : e + p = (Q * n) * q + (Q * r + t)

\* One tick on a clock of slots and ticks: r2 and t2 follow r1 and t1 among n slots.
HandsMove(Q, n, r1, t1, r2, t2) ==
  /\ t2 = IF t1 + 1 = Q THEN 0 ELSE t1 + 1
  /\ t2 # 0 => r2 = r1
  /\ t2 = 0 => r2 = r1 + 1 \/ (r1 = n - 1 /\ r2 = 0)

\* The ticks counted by the clock go up by one.
LEMMA ClockOfTurns ==
  ASSUME NEW Q \in Nat \ {0}, NEW n \in Nat \ {0}, NEW e \in Nat, NEW p \in Nat,
         NEW r1 \in 0 .. n - 1, NEW r2 \in 0 .. n - 1, NEW t1 \in 0 .. Q - 1, NEW t2 \in 0 .. Q - 1,
         Shows(Q, n, e, p, r1, t1),
         HandsMove(Q, n, r1, t1, r2, t2)
  PROVE  Shows(Q, n, e + 1, p, r2, t2)
<1> USE DEF HandsMove
<1> SUFFICES ASSUME NEW q \in Int, e + p = (Q * n) * q + (Q * r1 + t1)
             PROVE  \E q2 \in Int : (e + 1) + p = (Q * n) * q2 + (Q * r2 + t2)
  BY DEF Shows
<1>1. CASE t1 + 1 # Q
  <2>1. t2 = t1 + 1
    BY <1>1
  <2>2. r2 = r1
    BY <2>1, SMT
  <2>3. Q * r1 \in Nat /\ (Q * n) * q \in Int
    BY SMT
  <2>4. (e + 1) + p = (Q * n) * q + (Q * r2 + t2)
    <3> DEFINE a == (Q * n) * q
               b == Q * r1
    <3>1. a \in Int /\ b \in Int /\ e + p = a + (b + t1)
      BY <2>3
    <3>2. Q * r2 = b
      BY <2>2
    <3> HIDE DEF a, b
    <3>3. (e + 1) + p = a + (b + t2)
      BY <2>1, <3>1
    <3> QED
      BY <3>2, <3>3 DEF a
  <2> QED
    BY <2>4
<1>2. CASE t1 + 1 = Q /\ r2 = r1 + 1
  <2>1. Q * r2 = Q * r1 + Q /\ Q * r1 \in Nat /\ (Q * n) * q \in Int
    BY <1>2, SMT
  <2>2. (e + 1) + p = (Q * n) * q + (Q * r2 + t2)
    <3> DEFINE a == (Q * n) * q
               b == Q * r1
               c == Q * r2
    <3>1. a \in Int /\ b \in Int /\ c = b + Q /\ e + p = a + (b + t1) /\ t2 = 0
      BY <1>2, <2>1
    <3> HIDE DEF a, b, c
    <3>2. (e + 1) + p = a + (c + t2)
      BY <1>2, <3>1
    <3> QED
      BY <3>2 DEF a, c
  <2> QED
    BY <2>2
<1>3. CASE t1 + 1 = Q /\ r1 = n - 1 /\ r2 = 0
  <2>1. /\ Q * r1 = Q * n - Q /\ Q * r2 = 0 /\ Q * n \in Nat
        /\ (Q * n) * q \in Int
    BY <1>3, SMT
  <2>2. (Q * n) * (q + 1) = (Q * n) * q + Q * n
    <3> DEFINE N == Q * n
    <3>1. N \in Int
      BY <2>1
    <3> HIDE DEF N
    <3>2. N * (q + 1) = N * q + N
      BY <3>1, SMT
    <3> QED
      BY <3>2 DEF N
  <2>3. (e + 1) + p = (Q * n) * (q + 1) + (Q * r2 + t2)
    <3> DEFINE a == (Q * n) * q
               b == Q * r1
               c == Q * r2
               d == (Q * n) * (q + 1)
               N == Q * n
    <3>1. /\ a \in Int /\ N \in Int /\ b = N - Q /\ c = 0 /\ d = a + N
          /\ e + p = a + (b + t1) /\ t2 = 0
      BY <1>3, <2>1, <2>2
    <3> HIDE DEF a, b, c, d, N
    <3>2. (e + 1) + p = d + (c + t2)
      BY <1>3, <3>1
    <3> QED
      BY <3>2 DEF c, d
  <2>4. q + 1 \in Int
    OBVIOUS
  <2> QED
    BY <2>3, <2>4
<1> QED
  BY <1>1, <1>2, <1>3

\* Where whole rounds end the slot is the first one.
LEMMA RoundEndsAtFirst ==
  ASSUME NEW Q \in Nat \ {0}, NEW n \in Nat \ {0}, NEW q \in Int, NEW m \in Int,
         NEW r \in 0 .. n - 1, NEW t \in 0 .. Q - 1, NEW p \in 0 .. Q - 1,
         (Q * n) * m + p = (Q * n) * q + (Q * r + t)
  PROVE  r = 0
<1> DEFINE N == Q * n
           b == Q * r
<1>1. N \in Nat /\ b \in Nat /\ N >= Q /\ b <= N - Q /\ (r >= 1 => b >= Q)
  <2>1. N \in Nat /\ b \in Nat /\ Q * (n - 1) = N - Q /\ Q * 1 = Q
    BY SMT
  <2>2. r <= n - 1 /\ 0 <= n - 1
    OBVIOUS
  <2>3. b <= Q * (n - 1) /\ 0 <= Q * (n - 1) /\ (r >= 1 => Q * 1 <= b)
    BY <2>2, SMT
  <2> QED
    BY <2>1, <2>3
<1>2. N * (m - q) = (b + t) - p
  <2>1. N * (m - q) = N * m - N * q /\ N * m \in Int /\ N * q \in Int
    <3> HIDE DEF N, b
    <3> QED
      BY <1>1, SMT
  <2>2. N * m + p = N * q + (b + t)
    OBVIOUS
  <2> DEFINE x == N * m
             y == N * q
             z == N * (m - q)
  <2> HIDE DEF N, b, x, y, z
  <2>3. x \in Int /\ y \in Int /\ z = x - y /\ x + p = y + (b + t)
    BY <2>1, <2>2 DEF x, y, z
  <2>4. z = (b + t) - p
    BY <1>1, <2>3
  <2> QED
    BY <2>4 DEF z
<1> HIDE DEF N, b
<1>3. (b + t) - p < N /\ -N < (b + t) - p
  BY <1>1
<1>4. m - q = 0
  <2>1. m - q >= 1 => N * (m - q) >= N
    BY <1>1, SMT
  <2>2. m - q <= -1 => N * (m - q) <= -N
    BY <1>1, SMT
  <2> QED
    BY <1>1, <1>2, <1>3, <2>1, <2>2
<1>5. b = p - t
  <2>1. N * 0 = 0
    BY <1>1
  <2> QED
    BY <1>1, <1>2, <1>4, <2>1
<1> QED
  BY <1>1, <1>5

\* The inductive invariant of whole rounds.
RoundsInv == SleepInv /\ TimeInv /\ TurnInv

\* It holds at the beginning, when nobody sleeps.
LEMMA RoundsStart == SleepInit => RoundsInv
<1> SUFFICES ASSUME SleepInit PROVE RoundsInv
  OBVIOUS
<1>1. 0 \in 0 .. TICKS_PER_SECOND - 1 /\ 0 \in 0 .. WORD - 1 /\ 0 \in 0 .. WORD
  BY SleepAssumption, SMT
<1>2. SleepTypeOK
  BY <1>1, Zenon DEF SleepInit, SleepTypeOK
<1>3. asleep = FALSE
  BY DEF SleepInit
<1> QED
  BY <1>2, <1>3, SleepStart DEF RoundsInv, SleepInv, WholeRoundsAreMet, TurnInv

\* A tick moves the clock of slots and ticks on by one.
LEMMA TickKeepsTurn ==
  ASSUME RoundsInv, timer_isr
  PROVE  running' \in alive \ new' /\ new' \subseteq new /\ TurnInv'
<1> DEFINE n == Cardinality(alive)
<1>1. /\ alive \subseteq Slots /\ Sleeper \in alive /\ running \in alive \ new
      /\ elapsed \in 0 .. WORD /\ CounterTypes
  BY DEF RoundsInv, SleepInv, SleepTypeOK, CounterTypes
<1>2. QUANTUM \in Nat \ {0} /\ WORD \in Nat \ {0}
  BY SleepAssumption
<1>3. /\ alive' = alive /\ asleep' = asleep /\ steady' = steady /\ Advance
      /\ elapsed' = IF asleep /\ elapsed < WORD THEN elapsed + 1 ELSE elapsed
      /\ running' = IF n > 1 /\ tick_counter' % QUANTUM = 0 THEN NextSlot(running) ELSE running
      /\ new' \subseteq new
  BY DEF timer_isr, Switches
<1>4. /\ tick_counter % QUANTUM \in 0 .. QUANTUM - 1
      /\ tick_counter' % QUANTUM = IF (tick_counter % QUANTUM) + 1 = QUANTUM THEN 0
                                   ELSE (tick_counter % QUANTUM) + 1
  BY <1>1, <1>3, PhaseStep
<1>5. n \in Nat \ {0} /\ Rank(running) \in 0 .. n - 1
  BY <1>1, RankType
<1>9. running' \in alive \ new'
  BY <1>1, <1>3, NextSlotFirst
<1>6. ASSUME new = {}
      PROVE
      /\ tick_counter' % QUANTUM # 0 => Rank(running') = Rank(running)
      /\ tick_counter' % QUANTUM = 0 => \/ Rank(running') = Rank(running) + 1
                                        \/ Rank(running) = n - 1 /\ Rank(running') = 0
  <2>1. CASE n > 1
    BY <1>1, <1>3, <1>6, <2>1, NextSlotRank
  <2>2. CASE ~(n > 1)
    <3>1. n = 1 /\ running' = running /\ Rank(running) = 0
      BY <1>3, <1>5, <2>2
    <3> QED
      BY <1>1, <3>1
  <2> QED
    BY <2>1, <2>2
<1>7. Rank(running') \in 0 .. n - 1
  BY <1>1, <1>9, RankType
<1>8. ASSUME asleep', steady', elapsed' < WORD
      PROVE  InTurn(QUANTUM * n, elapsed', running', tick_counter')
  <2>1. /\ asleep /\ steady /\ elapsed < WORD /\ elapsed' = elapsed + 1 /\ elapsed \in Nat
        /\ new = {}
    BY <1>1, <1>2, <1>3, <1>8 DEF RoundsInv, TurnInv
  <2>2. InTurn(QUANTUM * n, elapsed, running, tick_counter)
    BY <2>1 DEF RoundsInv, TurnInv
  <2>3. PICK q \in Int, p \in 0 .. QUANTUM - 1 :
          elapsed + p = (QUANTUM * n) * q + (QUANTUM * Rank(running) + (tick_counter % QUANTUM))
    BY <2>2 DEF InTurn
  <2>4. tick_counter' % QUANTUM \in 0 .. QUANTUM - 1 /\ p \in Nat
    BY <1>2, <1>4
  <2> DEFINE r1 == Rank(running)
             r2 == Rank(running')
             t1 == tick_counter % QUANTUM
             t2 == tick_counter' % QUANTUM
             e  == elapsed
  <2>5. /\ n \in Nat \ {0} /\ e \in Nat /\ p \in Nat
        /\ r1 \in 0 .. n - 1 /\ r2 \in 0 .. n - 1 /\ t1 \in 0 .. QUANTUM - 1 /\ t2 \in 0 .. QUANTUM - 1
        /\ Shows(QUANTUM, n, e, p, r1, t1)
        /\ HandsMove(QUANTUM, n, r1, t1, r2, t2)
    BY <1>4, <1>5, <1>6, <1>7, <2>1, <2>3, <2>4 DEF HandsMove, Shows
  <2> HIDE DEF n, r1, r2, t1, t2, e
  <2>6. Shows(QUANTUM, n, e + 1, p, r2, t2)
    BY <1>2, <2>5, ClockOfTurns
  <2>7. elapsed' = e + 1
    BY <2>1 DEF e
  <2> QED
    BY <2>6, <2>7 DEF InTurn, Shows, r2, t2
<1>10. asleep' /\ steady' => new' = {}
  BY <1>3 DEF RoundsInv, TurnInv
<1> QED
  BY <1>3, <1>8, <1>9, <1>10 DEF TurnInv, InTurn, Rank, Earlier

\* A sleep begins at its own place.
LEMMA StartKeepsTurn ==
  ASSUME RoundsInv, StartSleep
  PROVE  TurnInv'
<1>1. /\ running = Sleeper /\ elapsed' = 0 /\ steady' = (new = {})
      /\ UNCHANGED <<tick_counter, alive, new, running>>
  BY DEF StartSleep
<1>2. /\ alive \subseteq Slots /\ running \in alive /\ tick_counter \in Nat
      /\ QUANTUM \in Nat \ {0}
  BY SleepAssumption DEF RoundsInv, SleepInv, SleepTypeOK
<1>3. Earlier(running) = {}
  <2>1. PROCESSES \in Nat /\ running = 0
    BY SleepAssumption, <1>1 DEF Sleeper
  <2>2. \A k \in alive : ~(k < 0)
    BY <1>2, <2>1 DEF Slots
  <2> QED
    BY <2>1, <2>2 DEF Earlier
<1>4. Rank(running) = 0
  BY <1>3, FS_EmptySet DEF Rank
<1> DEFINE p == tick_counter % QUANTUM
           N == QUANTUM * Cardinality(alive)
<1>5. p \in 0 .. QUANTUM - 1
  BY <1>2, ModNext
<1>6. 0 + p = N * 0 + (QUANTUM * 0 + p)
  <2>1. N \in Int
    BY <1>2, RankType
  <2> HIDE DEF N, p
  <2> QED
    BY <1>2, <1>5, <2>1
<1>7. InTurn(N, 0, running, tick_counter)
  BY <1>4, <1>5, <1>6 DEF InTurn
<1> QED
  BY <1>1, <1>7 DEF TurnInv, InTurn, Rank, Earlier

\* What does not change the turns, or gives up following them.
LEMMA OthersKeepTurn ==
  ASSUME RoundsInv,
         \/ ~steady'
         \/ UNCHANGED <<tick_counter, alive, new, running, elapsed, steady>> /\ (asleep' => asleep)
  PROVE  TurnInv'
BY DEF RoundsInv, TurnInv, InTurn, Rank, Earlier

\* Types, of which the turns are the part that is not obvious.
LEMMA TypesKept ==
  ASSUME RoundsInv, SleepNext
  PROVE  SleepTypeOK'
<1>1. TimeInv'
  BY TimeRuns DEF RoundsInv
<1>2. CounterTypes' /\ deadline' \in 0 .. WORD - 1 /\ elapsed' \in 0 .. WORD
  BY <1>1 DEF TimeInv, TypesOfSleep
<1>3. duration' \in Durations \cup {0}
  BY DEF RoundsInv, SleepInv, SleepTypeOK, SleepNext, timer_isr, CreateProcess, DestroyProcess, StartSleep, Poll
<1>4. /\ alive' \subseteq Slots /\ Sleeper \in alive' \ new' /\ running' \in alive' \ new'
      /\ new' \subseteq alive'
  <2>1. /\ alive \subseteq Slots /\ Sleeper \in alive \ new /\ running \in alive \ new
        /\ new \subseteq alive
    BY DEF RoundsInv, SleepInv, SleepTypeOK
  <2>2. CASE timer_isr
    <3>1. running' \in alive \ new' /\ alive' = alive /\ new' \subseteq new
      BY <2>2, TickKeepsTurn DEF timer_isr
    <3> QED
      BY <2>1, <3>1
  <2>3. CASE CreateProcess
    BY <2>1, <2>3 DEF CreateProcess
  <2>4. CASE DestroyProcess
    BY <2>1, <2>4 DEF DestroyProcess
  <2>5. CASE StartSleep \/ Poll
    BY <2>1, <2>5 DEF StartSleep, Poll
  <2> QED
    BY <2>2, <2>3, <2>4, <2>5 DEF SleepNext
<1> QED
  BY <1>2, <1>3, <1>4 DEF SleepTypeOK, CounterTypes

\* At the tick where whole rounds end it is the sleeper's turn, and it does not let the tick
\* go by.
LEMMA RoundsMet ==
  ASSUME RoundsInv, SleepNext
  PROVE  WholeRoundsAreMet'
<1> SUFFICES ASSUME asleep', steady', duration' > 0,
                    duration' % (QUANTUM * Cardinality(alive')) = 0, Late'
             PROVE  FALSE
  BY DEF WholeRoundsAreMet
<1>1. /\ WORD \in Nat \ {0} /\ QUANTUM \in Nat \ {0} /\ Durations \subseteq 0 .. WORD - 1
      /\ elapsed \in 0 .. WORD /\ duration \in 0 .. WORD - 1
  BY SleepAssumption DEF RoundsInv, SleepInv, SleepTypeOK
<1>2. CASE timer_isr
  <2>1. /\ alive' = alive /\ asleep /\ steady /\ duration' = duration
        /\ elapsed' = IF elapsed < WORD THEN elapsed + 1 ELSE elapsed
        /\ running = Sleeper => polled
    BY <1>2 DEF timer_isr
  <2>2. ~Late
    BY <2>1 DEF RoundsInv, SleepInv, WholeRoundsAreMet
  <2>3. elapsed = duration /\ elapsed < WORD
    BY <1>1, <2>1, <2>2 DEF Late
  <2> DEFINE n == Cardinality(alive)
             r == Rank(running)
             t == tick_counter % QUANTUM
  <2>4. /\ alive \subseteq Slots /\ Sleeper \in alive /\ running \in alive
        /\ n \in Nat \ {0} /\ r \in 0 .. n - 1 /\ IsFiniteSet(Earlier(running))
    BY RankType DEF RoundsInv, SleepInv, SleepTypeOK
  <2>5. t \in 0 .. QUANTUM - 1
    BY <1>1, ModNext DEF RoundsInv, SleepInv, SleepTypeOK
  <2>6. PICK q \in Int, p \in 0 .. QUANTUM - 1 : elapsed + p = (QUANTUM * n) * q + (QUANTUM * r + t)
    BY <2>1, <2>3 DEF RoundsInv, TurnInv, InTurn
  <2>7. \E m \in Int : elapsed = (QUANTUM * n) * m
    <3> DEFINE N == QUANTUM * n
    <3>1. N \in Nat \ {0} /\ duration % N = 0 /\ duration \in Nat
      <4>1. N \in Nat \ {0}
        <5> HIDE DEF n
        <5> QED
          BY <1>1, <2>4, SMT
      <4> QED
        BY <1>1, <2>1, <4>1
    <3> HIDE DEF N
    <3>2. duration = N * (duration \div N) /\ duration \div N \in Int
      BY <3>1, SMT
    <3> QED
      BY <2>3, <3>2 DEF N
  <2>8. PICK m \in Int : elapsed = (QUANTUM * n) * m
    BY <2>7
  <2>9. r = 0
    <3>1. (QUANTUM * n) * m + p = (QUANTUM * n) * q + (QUANTUM * r + t)
      BY <2>6, <2>8
    <3> HIDE DEF n, r, t
    <3> QED
      BY <1>1, <2>4, <2>5, <3>1, RoundEndsAtFirst
  <2>10. running = Sleeper
    <3>1. Earlier(running) = {}
      BY <2>4, <2>9, FS_EmptySet DEF Rank
    <3> QED
      BY <2>4, <3>1 DEF Earlier, Slots, Sleeper
  <2>11. duration = 0
    BY <2>1, <2>3, <2>10 DEF RoundsInv, TimeInv, SleepsOn
  <2> QED
    BY <2>1, <2>11
<1>3. CASE StartSleep
  <2>1. elapsed' = 0 /\ duration' \in Nat
    BY <1>1, <1>3 DEF StartSleep
  <2> QED
    BY <2>1 DEF Late
<1>4. CASE Poll
  <2>1. UNCHANGED <<alive, duration, elapsed, steady>> /\ asleep
    BY <1>4 DEF Poll
  <2> QED
    BY <2>1 DEF Late, RoundsInv, SleepInv, WholeRoundsAreMet
<1>5. CASE CreateProcess \/ DestroyProcess
  BY <1>5 DEF CreateProcess, DestroyProcess
<1> QED
  BY <1>2, <1>3, <1>4, <1>5 DEF SleepNext

\* Every step keeps the invariant.
LEMMA RoundsStep == RoundsInv /\ [SleepNext]_sleepVars => RoundsInv'
<1> SUFFICES ASSUME RoundsInv, [SleepNext]_sleepVars PROVE RoundsInv'
  OBVIOUS
<1>1. CASE SleepNext
  <2>1. TurnInv'
    BY <1>1, TickKeepsTurn, StartKeepsTurn, OthersKeepTurn
       DEF SleepNext, CreateProcess, DestroyProcess, Poll
  <2> QED
    BY <1>1, <2>1, TypesKept, RoundsMet, TimeRuns DEF RoundsInv, SleepInv
<1>2. CASE UNCHANGED sleepVars
  <2>1. SleepInv'
    BY <1>2 DEF sleepVars, RoundsInv, SleepInv, SleepTypeOK, WholeRoundsAreMet, Late
  <2>2. TurnInv'
    BY <1>2, OthersKeepTurn DEF sleepVars
  <2> QED
    BY <1>2, <2>1, <2>2, TimeRuns DEF RoundsInv
<1> QED
  BY <1>1, <1>2

\* Types hold, and a sleep of whole rounds ends in the sleeper's own turn, for every number
\* of processes, length of a slice and width of the words, as long as nobody comes or goes
\* and nobody was NEW when it began.
THEOREM SleepInvariant == SleepSpec => []SleepInv
<1>1. SleepSpec => []RoundsInv
  BY RoundsStart, RoundsStep, PTL DEF SleepSpec
<1>2. RoundsInv => SleepInv
  BY DEF RoundsInv
<1> QED
  BY <1>1, <1>2, PTL

-----------------------------------------------------------------------------
(* Numbers in order *)

Rising(f, n) == \A i, j \in 1 .. n : i < j => f[i] < f[j]

Onto(f, n, S) == f \in [1 .. n -> S] /\ \A x \in S : \E k \in 1 .. n : f[k] = x

\* A rising sequence of all numbers of a set is what InOrder makes of it.
LEMMA RisingIsOrder ==
  ASSUME NEW S \in SUBSET Int, NEW n \in Nat, NEW f, Onto(f, n, S), Rising(f, n)
  PROVE  InOrder(S) = f /\ Len(InOrder(S)) = n
<1>1. \A i, j \in 1 .. n : i # j => f[i] # f[j]
  <2> SUFFICES ASSUME NEW i \in 1 .. n, NEW j \in 1 .. n, i # j PROVE f[i] # f[j]
    OBVIOUS
  <2>1. f[i] \in Int /\ f[j] \in Int
    BY DEF Onto
  <2> QED
    BY <2>1 DEF Rising
<1>2. Cardinality(S) = n
  <2>1. f \in Bijection(1 .. n, S)
    BY <1>1 DEF Onto, Bijection, Injection, Surjection, IsInjective
  <2> QED
    BY <2>1, FS_CountingElements DEF ExistsBijection
<1>3. ASSUME NEW k \in 1 .. n PROVE Cardinality({j \in S : j < f[k]}) = k - 1
  <2> DEFINE T == {j \in S : j < f[k]}
             g == [i \in 1 .. k - 1 |-> f[i]]
  <2>1. \A i \in 1 .. k - 1 : i \in 1 .. n /\ f[i] \in T
    BY DEF Onto, Rising
  <2>2. \A x \in T : \E i \in 1 .. k - 1 : f[i] = x
    <3> SUFFICES ASSUME NEW x \in T PROVE \E i \in 1 .. k - 1 : f[i] = x
      OBVIOUS
    <3>1. PICK i \in 1 .. n : f[i] = x
      BY DEF Onto
    <3>2. i # k /\ ~(k < i)
      <4>1. f[i] \in Int /\ f[k] \in Int /\ f[i] < f[k]
        BY <3>1 DEF Onto
      <4> QED
        BY <4>1 DEF Rising
    <3> QED
      BY <3>1, <3>2
  <2>3. g \in Bijection(1 .. k - 1, T)
    BY <1>1, <2>1, <2>2 DEF Bijection, Injection, Surjection, IsInjective
  <2>4. k - 1 \in Nat
    OBVIOUS
  <2> QED
    BY <2>3, <2>4, FS_CountingElements DEF ExistsBijection
<1>4. ASSUME NEW k \in 1 .. n
      PROVE  (CHOOSE i \in S : Cardinality({j \in S : j < i}) = k - 1) = f[k]
  <2>1. f[k] \in S /\ Cardinality({j \in S : j < f[k]}) = k - 1
    BY <1>3 DEF Onto
  <2>2. ASSUME NEW i \in S, Cardinality({j \in S : j < i}) = k - 1 PROVE i = f[k]
    <3>1. PICK l \in 1 .. n : f[l] = i
      BY DEF Onto
    <3>2. l - 1 = k - 1
      BY <1>3, <2>2, <3>1
    <3> QED
      BY <3>1, <3>2
  <2> QED
    BY <2>1, <2>2
<1>5. InOrder(S) = [k \in 1 .. n |-> f[k]]
  BY <1>2, <1>4 DEF InOrder
<1> QED
  BY <1>5 DEF Onto

\* There is one for what lies below a number.
LEMMA OrderExists ==
  ASSUME NEW N \in Nat, NEW S \in SUBSET (0 .. N)
  PROVE  \E n \in Nat : \E f : Onto(f, n, S) /\ Rising(f, n)
<1> DEFINE Part(k) == {x \in S : x < k}
           E == {k \in 0 .. N + 1 : \E n \in Nat : \E f : Onto(f, n, Part(k)) /\ Rising(f, n)}
<1>0. \A x \in S : x \in Nat /\ x < N + 1
  OBVIOUS
<1>1. 0 \in E
  <2> DEFINE f == [k \in 1 .. 0 |-> 0]
  <2>1. Part(0) = {} /\ 1 .. 0 = {}
    <3>1. \A x \in S : ~(x < 0)
      BY <1>0
    <3>2. 1 .. 0 = {}
      OBVIOUS
    <3>3. Part(0) = {}
      BY <3>1
    <3> QED
      BY <3>2, <3>3
  <2>2. Onto(f, 0, Part(0)) /\ Rising(f, 0)
    BY <2>1 DEF Onto, Rising
  <2>3. 0 \in 0 .. N + 1
    OBVIOUS
  <2> HIDE DEF f, Part
  <2> QED
    BY <2>2, <2>3
<1>2. ASSUME NEW k \in 0 .. (N + 1) - 1, k \in E PROVE k + 1 \in E
  <2>n. PICK n \in Nat : \E f : Onto(f, n, Part(k)) /\ Rising(f, n)
    BY <1>2
  <2>1. PICK f : Onto(f, n, Part(k)) /\ Rising(f, n)
    BY <2>n
  <2>2. k + 1 \in 0 .. N + 1
    OBVIOUS
  <2>3. CASE k \notin S
    <3>1. \A x \in S : x < k + 1 <=> x < k
      BY <1>0, <2>3
    <3>2. Part(k + 1) = Part(k)
      BY <3>1
    <3> HIDE DEF Part
    <3> QED
      BY <2>1, <2>2, <3>2
  <2>4. CASE k \in S
    <3>1. Part(k + 1) = Part(k) \cup {k}
      <4>1. \A x \in S : x < k + 1 <=> x < k \/ x = k
        BY <1>0
      <4> QED
        BY <2>4, <4>1
    <3> DEFINE g == [i \in 1 .. n + 1 |-> IF i = n + 1 THEN k ELSE f[i]]
    <3>2. f \in [1 .. n -> Part(k)] /\ \A x \in Part(k) : \E i \in 1 .. n : f[i] = x
      BY <2>1 DEF Onto
    <3>3. g[n + 1] = k /\ \A i \in 1 .. n : g[i] = f[i]
      OBVIOUS
    <3>4. g \in [1 .. n + 1 -> Part(k + 1)]
      <4>1. ASSUME NEW i \in 1 .. n + 1, i # n + 1 PROVE f[i] \in Part(k)
        <5>1. i \in 1 .. n
          BY <4>1
        <5> QED
          BY <3>2, <5>1
      <4> HIDE DEF Part
      <4>2. ASSUME NEW i \in 1 .. n + 1
            PROVE  (IF i = n + 1 THEN k ELSE f[i]) \in Part(k) \cup {k}
        BY <4>1
      <4> QED
        BY <3>1, <4>2
    <3>5. Onto(g, n + 1, Part(k + 1))
      <4>1. ASSUME NEW x \in Part(k + 1) PROVE \E i \in 1 .. n + 1 : g[i] = x
        <5>1. CASE x = k
          <6>1. n + 1 \in 1 .. n + 1
            OBVIOUS
          <6> QED
            BY <3>3, <5>1, <6>1
        <5>2. CASE x # k
          <6>1. PICK i \in 1 .. n : f[i] = x
            BY <3>1, <3>2, <4>1, <5>2
          <6>2. i \in 1 .. n + 1
            OBVIOUS
          <6> QED
            BY <3>3, <6>1, <6>2
        <5> QED
          BY <5>1, <5>2
      <4> QED
        BY <3>4, <4>1 DEF Onto
    <3>6. Rising(g, n + 1)
      <4> SUFFICES ASSUME NEW i \in 1 .. n + 1, NEW j \in 1 .. n + 1, i < j PROVE g[i] < g[j]
        BY DEF Rising
      <4>1. i \in 1 .. n
        OBVIOUS
      <4>2. CASE j = n + 1
        BY <3>2, <3>3, <4>1, <4>2
      <4>3. CASE j # n + 1
        <5>1. j \in 1 .. n
          BY <4>3
        <5> QED
          BY <2>1, <3>3, <4>1, <5>1 DEF Rising
      <4> QED
        BY <4>2, <4>3
    <3> HIDE DEF g, Part
    <3> QED
      BY <2>2, <3>5, <3>6
  <2> QED
    BY <2>3, <2>4
<1>3. E \in SUBSET (0 .. N + 1) /\ N + 1 \in Nat /\ N + 1 \in 0 .. N + 1
  OBVIOUS
<1>4. Part(N + 1) = S
  BY <1>0
<1> HIDE DEF E
<1>5. E = 0 .. N + 1
  BY <1>1, <1>2, <1>3, AllUpTo
<1>6. N + 1 \in E
  BY <1>3, <1>5
<1> QED
  BY <1>4, <1>6 DEF E

\* So what lies below a number has an order.
LEMMA OrderIs ==
  ASSUME NEW N \in Nat, NEW S \in SUBSET (0 .. N)
  PROVE  /\ InOrder(S) \in Seq(S)
         /\ Onto(InOrder(S), Len(InOrder(S)), S) /\ Rising(InOrder(S), Len(InOrder(S)))
<1>n. PICK n \in Nat : \E f : Onto(f, n, S) /\ Rising(f, n)
  BY OrderExists
<1>1. PICK f : Onto(f, n, S) /\ Rising(f, n)
  BY <1>n
<1>2. S \in SUBSET Int
  OBVIOUS
<1>3. InOrder(S) = f /\ Len(InOrder(S)) = n
  BY <1>1, <1>2, RisingIsOrder
<1> QED
  BY <1>1, <1>3 DEF Onto

\* The order of a set with a number m and, behind it, those of T further on by d.
Onwards(m, T, d) == {m} \cup {x + d : x \in T}

Below(m, T, d) == \A x \in T : m < x + d

\* e goes on as f does, further on by d.
GoesOn(e, m, f, d) ==
  /\ Len(e) = Len(f) + 1 /\ e[1] = m
  /\ \A k \in 1 .. Len(f) : e[k + 1] = f[k] + d

\* A number below a set of numbers comes first, and the order of the set follows, shifted as the set is.
LEMMA OrderGoesOn ==
  ASSUME NEW N \in Nat, NEW T \in SUBSET (0 .. N), NEW d \in Nat, NEW m \in Nat,
         Below(m, T, d)
  PROVE  GoesOn(InOrder(Onwards(m, T, d)), m, InOrder(T), d)
<1> USE DEF Below
<1> DEFINE S == Onwards(m, T, d)
           g == InOrder(T)
           n == Len(g)
           f == [k \in 1 .. n + 1 |-> IF k = 1 THEN m ELSE g[k - 1] + d]
<1>0. \A x \in T : x \in Nat
  OBVIOUS
<1>1. g \in Seq(T) /\ Onto(g, n, T) /\ Rising(g, n)
  BY OrderIs
<1> HIDE DEF g
<1>2. n \in Nat /\ g \in [1 .. n -> T] /\ \A x \in T : \E k \in 1 .. n : g[k] = x
  BY <1>1 DEF Onto
<1> HIDE DEF n
<1>3. \A k \in 1 .. n + 1 : k # 1 => k - 1 \in 1 .. n
  BY <1>2
<1>4. f[1] = m /\ \A k \in 1 .. n : f[k + 1] = g[k] + d
  <2>1. \A k \in 1 .. n : k + 1 \in 1 .. n + 1 /\ k + 1 # 1 /\ (k + 1) - 1 = k
    BY <1>2
  <2>2. 1 \in 1 .. n + 1
    BY <1>2
  <2> QED
    BY <2>1, <2>2
<1>S. S = {m} \cup {x + d : x \in T}
  BY DEF Onwards
<1> HIDE DEF S
<1>5. S \in SUBSET Int
  BY <1>S
<1>6. Onto(f, n + 1, S)
  <2>1. ASSUME NEW k \in 1 .. n + 1 PROVE (IF k = 1 THEN m ELSE g[k - 1] + d) \in S
    BY <1>2, <1>3, <1>S
  <2>2. f \in [1 .. n + 1 -> S]
    BY <2>1
  <2>3. ASSUME NEW x \in S PROVE \E k \in 1 .. n + 1 : f[k] = x
    <3>1. CASE x = m
      <4>1. 1 \in 1 .. n + 1
        BY <1>2
      <4> QED
        BY <1>4, <3>1, <4>1
    <3>2. CASE x # m
      <4>1. PICK y \in T : x = y + d
        BY <1>S, <3>2
      <4>2. PICK k \in 1 .. n : g[k] = y
        BY <1>2
      <4>3. k + 1 \in 1 .. n + 1
        BY <1>2
      <4> HIDE DEF f
      <4> QED
        BY <1>4, <4>1, <4>2, <4>3
    <3> QED
      BY <3>1, <3>2
  <2> HIDE DEF f
  <2> QED
    BY <2>2, <2>3 DEF Onto
<1>7. Rising(f, n + 1)
  <2> SUFFICES ASSUME NEW i \in 1 .. n + 1, NEW j \in 1 .. n + 1, i < j PROVE f[i] < f[j]
    BY DEF Rising
  <2>1. j # 1 /\ j - 1 \in 1 .. n /\ f[j] = g[j - 1] + d /\ g[j - 1] \in T
    BY <1>2, <1>3
  <2>2. CASE i = 1
    BY <1>4, <2>1, <2>2
  <2>3. CASE i # 1
    <3>1. i - 1 \in 1 .. n /\ f[i] = g[i - 1] + d /\ g[i - 1] \in T /\ i - 1 < j - 1
      BY <1>2, <1>3, <2>3
    <3>2. g[i - 1] < g[j - 1]
      BY <1>1, <2>1, <3>1 DEF Rising, n
    <3>3. g[i - 1] \in Nat /\ g[j - 1] \in Nat
      BY <1>0, <2>1, <3>1
    <3> HIDE DEF f
    <3> QED
      BY <2>1, <3>1, <3>2, <3>3
  <2> QED
    BY <2>2, <2>3
<1> HIDE DEF f
<1>8. InOrder(S) = f /\ Len(InOrder(S)) = n + 1
  BY <1>2, <1>5, <1>6, <1>7, RisingIsOrder
<1> QED
  BY <1>4, <1>8 DEF S, g, n, GoesOn

-----------------------------------------------------------------------------
(* Memory *)

Memories == [Addresses -> Chars]

\* No byte is copied from or to outside.
CopyFits(dest, src, n, order) ==
  \A k \in 1 .. n : dest + order[k] \in Addresses /\ src + order[k] \in Addresses

\* What is there after each of n bytes.
BytesCopied(after, m, dest, src, n, order) ==
  /\ after[0] = m
  /\ \A k \in 1 .. n :
       after[k] = [after[k - 1] EXCEPT ![dest + order[k]] = after[k - 1][src + order[k]]]

\* The bytes are copied one after the other.
LEMMA CopySteps ==
  ASSUME NEW m \in Memories, NEW dest, NEW src, NEW n \in Nat, NEW order, Len(order) = n,
         CopyFits(dest, src, n, order)
  PROVE  \E after \in [0 .. n -> Memories] :
           BytesCopied(after, m, dest, src, n, order) /\ CopyBytes(m, dest, src, order) = after[n]
<1> DEFINE Rec(h) == h = [k \in 0 .. n |->
                            IF k = 0 THEN m
                            ELSE [h[k - 1] EXCEPT ![dest + order[k]] = h[k - 1][src + order[k]]]]
           w == CHOOSE h : Rec(h)
           One(k, x) == [x EXCEPT ![dest + order[k]] = x[src + order[k]]]
           F == [p \in (0 .. n) \X Memories |-> IF p[1] = n THEN p[2] ELSE One(p[1] + 1, p[2])]
<1>1. ASSUME NEW k \in 1 .. n, NEW x \in Memories PROVE One(k, x) \in Memories
  BY DEF Memories, CopyFits
<1>2. F \in StepMaps(n, Memories)
  <2>1. ASSUME NEW k \in 0 .. n, NEW x \in Memories
        PROVE  (IF k = n THEN x ELSE One(k + 1, x)) \in Memories
    <3>1. CASE k = n
      BY <3>1
    <3>2. CASE k # n
      <4>1. k + 1 \in 1 .. n
        BY <3>2
      <4> HIDE DEF One
      <4> QED
        BY <1>1, <3>2, <4>1
    <3> QED
      BY <3>1, <3>2
  <2> HIDE DEF One
  <2> QED
    BY <2>1 DEF StepMaps
<1> DEFINE D == Memories
<1>3. m \in D /\ F \in StepMaps(n, D)
  BY <1>2
<1> HIDE DEF D, F
<1>4. PICK f \in [0 .. n -> D] : Iterates(f, n, m, F)
  BY <1>3, Iterated
<1>5. \A k \in 1 .. n : f[k] = One(k, f[k - 1])
  <2> SUFFICES ASSUME NEW k \in 1 .. n PROVE f[k] = One(k, f[k - 1])
    OBVIOUS
  <2>1. k - 1 \in 0 .. n - 1 /\ (k - 1) + 1 = k /\ k - 1 # n /\ k - 1 \in 0 .. n
    OBVIOUS
  <2>2. f[(k - 1) + 1] = F[<<k - 1, f[k - 1]>>]
    BY <1>4, <2>1 DEF Iterates
  <2>3. f[k - 1] \in Memories
    BY <1>4, <2>1 DEF D
  <2> HIDE DEF One
  <2>4. F[<<k - 1, f[k - 1]>>] = One((k - 1) + 1, f[k - 1])
    BY <2>1, <2>3 DEF F
  <2> QED
    BY <2>1, <2>2, <2>4
<1>6. Rec(f)
  <2>1. ASSUME NEW k \in 0 .. n PROVE f[k] = IF k = 0 THEN m ELSE One(k, f[k - 1])
    <3>1. CASE k = 0
      BY <1>4, <3>1 DEF Iterates
    <3>2. CASE k # 0
      <4>1. k \in 1 .. n
        BY <3>2
      <4> HIDE DEF One
      <4> QED
        BY <1>5, <3>2, <4>1
    <3> QED
      BY <3>1, <3>2
  <2> QED
    BY <1>4, <2>1
<1>7. Rec(w)
  BY <1>6
<1> HIDE DEF w
<1>8. w[0] = m /\ \A k \in 1 .. n : w[k] = One(k, w[k - 1])
  <2>1. \A k \in 0 .. n : w[k] = IF k = 0 THEN m ELSE One(k, w[k - 1])
    BY <1>7
  <2>2. 0 \in 0 .. n /\ \A k \in 1 .. n : k \in 0 .. n /\ k # 0
    OBVIOUS
  <2> HIDE DEF One
  <2> QED
    BY <2>1, <2>2
<1>9. w \in [0 .. n -> Memories]
  <2> DEFINE E == {k \in 0 .. n : w[k] \in Memories}
  <2>1. 0 \in E
    BY <1>8
  <2>2. ASSUME NEW k \in 0 .. n - 1, k \in E PROVE k + 1 \in E
    <3>1. k + 1 \in 1 .. n /\ (k + 1) - 1 = k /\ w[k] \in Memories
      BY <2>2
    <3>2. w[k + 1] = One(k + 1, w[k])
      BY <1>8, <3>1
    <3> HIDE DEF One
    <3> QED
      BY <1>1, <3>1, <3>2
  <2>3. E \in SUBSET (0 .. n)
    OBVIOUS
  <2> HIDE DEF E
  <2>4. E = 0 .. n
    BY <2>1, <2>2, <2>3, AllUpTo
  <2>5. \A k \in 0 .. n : w[k] \in Memories
    BY <2>4 DEF E
  <2> QED
    BY <1>7, <2>5
<1>10. CopyBytes(m, dest, src, order) = w[n]
  BY DEF CopyBytes, w
<1> QED
  BY <1>8, <1>9, <1>10 DEF BytesCopied

\* Every offset once, and none after its source was a target.
EachOnce(order, n) ==
  /\ order \in [1 .. n -> 0 .. n - 1]
  /\ \A i, j \in 1 .. n : i # j => order[i] # order[j]
  /\ \A o \in 0 .. n - 1 : \E k \in 1 .. n : order[k] = o

NoneTooLate(dest, src, order, n) ==
  \A i, j \in 1 .. n : i < j => dest + order[i] # src + order[j]

\* What the target of a copy has afterwards.
Moved(m, dest, src, n) ==
  [i \in Addresses |-> IF i \in dest .. dest + n - 1 THEN m[src + (i - dest)] ELSE m[i]]

\* Then what was at the source is at the target.
LEMMA CopyMoves ==
  ASSUME NEW m \in Memories, NEW dest \in Nat, NEW src \in Nat, NEW n \in Nat,
         dest + n <= Size, src + n <= Size,
         NEW order, EachOnce(order, n), NoneTooLate(dest, src, order, n)
  PROVE  CopyBytes(m, dest, src, order) = Moved(m, dest, src, n)
<1> USE StringsAssumption
<1>0. /\ \A k \in 1 .. n : order[k] \in Int /\ 0 <= order[k] /\ order[k] < n
      /\ \A i, j \in 1 .. n : i # j => order[i] # order[j]
      /\ \A o \in 0 .. n - 1 : \E k \in 1 .. n : order[k] = o
      /\ \A i, j \in 1 .. n : i < j => dest + order[i] # src + order[j]
  BY DEF EachOnce, NoneTooLate
<1>1. \A k \in 1 .. n : dest + order[k] \in Addresses /\ src + order[k] \in Addresses
  BY <1>0 DEF Addresses
<1>1a. CopyFits(dest, src, n, order)
  BY <1>1 DEF CopyFits
<1>2. order \in Seq(Nat) /\ Len(order) = n
  <2>1. order \in [1 .. n -> Nat]
    BY <1>0 DEF EachOnce
  <2> QED
    BY <2>1
<1>2a. PICK after \in [0 .. n -> Memories] :
        BytesCopied(after, m, dest, src, n, order) /\ CopyBytes(m, dest, src, order) = after[n]
  BY <1>1a, <1>2, CopySteps
<1>3. /\ after[0] = m /\ after \in [0 .. n -> Memories] /\ CopyBytes(m, dest, src, order) = after[n]
      /\ \A k \in 1 .. n :
           after[k] = [after[k - 1] EXCEPT ![dest + order[k]] = after[k - 1][src + order[k]]]
  BY <1>2a DEF BytesCopied
<1> DEFINE Done(k) == {order[j] : j \in 1 .. k}
           CopiedTo(k) == [i \in Addresses |-> IF i - dest \in Done(k) THEN m[src + (i - dest)] ELSE m[i]]
           E == {k \in 0 .. n : after[k] = CopiedTo(k)}
<1>4. 0 \in E
  <2>1. 1 .. 0 = {}
    OBVIOUS
  <2>2. Done(0) = {}
    BY <2>1
  <2>3. CopiedTo(0) = m
    BY <2>2 DEF Memories
  <2>4. 0 \in 0 .. n
    OBVIOUS
  <2> HIDE DEF CopiedTo
  <2> QED
    BY <1>3, <2>3, <2>4
<1>5. ASSUME NEW k \in 0 .. n - 1, k \in E PROVE k + 1 \in E
  <2> DEFINE o == order[k + 1]
  <2>1. /\ k + 1 \in 1 .. n /\ (k + 1) - 1 = k /\ after[k] = CopiedTo(k)
        /\ o \in Int /\ 0 <= o /\ o < n
    <3>1. k + 1 \in 1 .. n /\ (k + 1) - 1 = k
      OBVIOUS
    <3> HIDE DEF CopiedTo
    <3> QED
      BY <1>0, <1>5, <3>1
  <2> HIDE DEF E
  <2>2. after[k + 1] = [after[k] EXCEPT ![dest + o] = after[k][src + o]]
    BY <1>3, <2>1
  <2>3. Done(k + 1) = Done(k) \cup {o}
    <3>1. 1 .. k + 1 = 1 .. k \cup {k + 1}
      OBVIOUS
    <3>2. \A j \in 1 .. k + 1 : j \in 1 .. k \/ j = k + 1
      BY <3>1
    <3>3. k + 1 \in 1 .. k + 1 /\ \A j \in 1 .. k : j \in 1 .. k + 1
      OBVIOUS
    <3> QED
      BY <3>2, <3>3
  <2>4. (src + o) - dest \notin Done(k)
    <3>0. o \in Int /\ \A j \in 1 .. k : dest + order[j] # src + o /\ order[j] \in Int
      <4>1. k + 1 \in 1 .. n /\ \A j \in 1 .. k : j \in 1 .. n /\ j < k + 1
        OBVIOUS
      <4> QED
        BY <1>0, <4>1
    <3> HIDE DEF o
    <3> SUFFICES ASSUME NEW j \in 1 .. k, order[j] = (src + o) - dest PROVE FALSE
      OBVIOUS
    <3>1. dest + order[j] = src + o
      BY <3>0
    <3> QED
      BY <3>0, <3>1
  <2> HIDE DEF Done, o
  <2>5. src + o \in Addresses /\ dest + o \in Addresses
    BY <1>1, <2>1 DEF o
  <2>6. after[k][src + o] = m[src + o]
    BY <2>1, <2>4, <2>5
  <2>7. ASSUME NEW i \in Addresses PROVE after[k + 1][i] = CopiedTo(k + 1)[i]
    <3>1. after[k + 1][i] = IF i = dest + o THEN m[src + o] ELSE after[k][i]
      <4>1. after[k] \in Memories
        BY <1>3
      <4> QED
        BY <2>2, <2>5, <2>6, <4>1 DEF Memories
    <3>2. i - dest = o <=> i = dest + o
      <4>1. i \in Int /\ o \in Int
        BY <2>1 DEF Addresses
      <4> QED
        BY <4>1
    <3>3. CASE i = dest + o
      BY <2>3, <3>1, <3>2, <3>3
    <3>4. CASE i # dest + o
      BY <2>1, <2>3, <3>1, <3>2, <3>4
    <3> QED
      BY <3>3, <3>4
  <2>8. after[k + 1] \in Memories /\ k + 1 \in 0 .. n
    BY <1>3
  <2>9. after[k + 1] = CopiedTo(k + 1)
    <3> DEFINE x == after[k + 1]
    <3>1. x = [i \in Addresses |-> x[i]]
      BY <2>8 DEF Memories
    <3>2. \A i \in Addresses : x[i] = IF i - dest \in Done(k + 1) THEN m[src + (i - dest)] ELSE m[i]
      BY <2>7
    <3> HIDE DEF x
    <3> QED
      BY <3>1, <3>2 DEF x
  <2> HIDE DEF CopiedTo
  <2> QED
    BY <2>8, <2>9 DEF E
<1>6. E \in SUBSET (0 .. n)
  OBVIOUS
<1> HIDE DEF E
<1>7. E = 0 .. n
  BY <1>4, <1>5, <1>6, AllUpTo
<1>8. after[n] = CopiedTo(n)
  <2>1. n \in 0 .. n
    OBVIOUS
  <2> HIDE DEF CopiedTo
  <2> QED
    BY <1>7, <2>1 DEF E
<1>9. Done(n) = 0 .. n - 1
  <2>1. ASSUME NEW o \in Done(n) PROVE o \in 0 .. n - 1
    BY <1>0
  <2>2. ASSUME NEW o \in 0 .. n - 1 PROVE o \in Done(n)
    BY <1>0
  <2> HIDE DEF Done
  <2> QED
    BY <2>1, <2>2
<1> HIDE DEF Done
<1>10. \A i \in Addresses : i - dest \in 0 .. n - 1 <=> i \in dest .. dest + n - 1
  BY DEF Addresses
<1> QED
  BY <1>3, <1>8, <1>9, <1>10 DEF Moved

\* So it is when bytes are copied from the first on and the target does not begin in the source,
LEMMA UpwardsMoves ==
  ASSUME NEW m \in Memories, NEW dest \in Nat, NEW src \in Nat, NEW n \in Nat,
         dest + n <= Size, src + n <= Size, dest \notin src + 1 .. src + n - 1
  PROVE  CopyBytes(m, dest, src, Upwards(n)) = Moved(m, dest, src, n)
<1> DEFINE order == Upwards(n)
<1>1. order \in [1 .. n -> 0 .. n - 1] /\ \A k \in 1 .. n : order[k] = k - 1
  BY DEF Upwards
<1> HIDE DEF order
<1>2. \A i, j \in 1 .. n : i # j => order[i] # order[j]
  BY <1>1
<1>3. \A o \in 0 .. n - 1 : \E k \in 1 .. n : order[k] = o
  <2> TAKE o \in 0 .. n - 1
  <2>1. o + 1 \in 1 .. n /\ (o + 1) - 1 = o
    OBVIOUS
  <2> QED
    BY <1>1, <2>1
<1>4. \A i, j \in 1 .. n : i < j => dest + order[i] # src + order[j]
  <2> SUFFICES ASSUME NEW i \in 1 .. n, NEW j \in 1 .. n, i < j, dest + order[i] = src + order[j]
               PROVE  FALSE
    OBVIOUS
  <2>1. dest = src + (j - i) /\ j - i \in 1 .. n - 1
    BY <1>1
  <2> QED
    BY <2>1
<1>5. EachOnce(order, n) /\ NoneTooLate(dest, src, order, n)
  BY <1>1, <1>2, <1>3, <1>4 DEF EachOnce, NoneTooLate
<1> QED
  BY <1>5, CopyMoves DEF order

\* and from the last on if it does not begin before the source.
LEMMA DownwardsMoves ==
  ASSUME NEW m \in Memories, NEW dest \in Nat, NEW src \in Nat, NEW n \in Nat,
         dest + n <= Size, src + n <= Size, src <= dest
  PROVE  CopyBytes(m, dest, src, Reverse(Upwards(n))) = Moved(m, dest, src, n)
<1> DEFINE order == Reverse(Upwards(n))
<1>1. order \in [1 .. n -> 0 .. n - 1] /\ \A k \in 1 .. n : order[k] = n - k
  <2>1. Len(Upwards(n)) = n /\ \A k \in 1 .. n : Upwards(n)[k] = k - 1
    BY DEF Upwards
  <2>2. \A k \in 1 .. n : (n - k) + 1 \in 1 .. n /\ ((n - k) + 1) - 1 = n - k /\ n - k \in 0 .. n - 1
    OBVIOUS
  <2> QED
    BY <2>1, <2>2 DEF Reverse
<1> HIDE DEF order
<1>2. \A i, j \in 1 .. n : i # j => order[i] # order[j]
  BY <1>1
<1>3. \A o \in 0 .. n - 1 : \E k \in 1 .. n : order[k] = o
  <2> TAKE o \in 0 .. n - 1
  <2>1. n - o \in 1 .. n /\ n - (n - o) = o
    OBVIOUS
  <2> QED
    BY <1>1, <2>1
<1>4. \A i, j \in 1 .. n : i < j => dest + order[i] # src + order[j]
  BY <1>1
<1>5. EachOnce(order, n) /\ NoneTooLate(dest, src, order, n)
  BY <1>1, <1>2, <1>3, <1>4 DEF EachOnce, NoneTooLate
<1> QED
  BY <1>5, CopyMoves DEF order

\* However its ranges overlap, memmove copies; so does memcpy unless the target begins inside
\* the source.
LEMMA MemmoveIs == memory \in Memories => MemmoveCopies
<1> SUFFICES ASSUME memory \in Memories, NEW dest \in Addresses, NEW src \in Addresses,
                    NEW n \in 0 .. Size, Fits(dest, n), Fits(src, n)
             PROVE  /\ memmove(memory, dest, src, n) = Moved(memory, dest, src, n)
                    /\ dest \notin src + 1 .. src + n - 1 =>
                         memcpy(memory, dest, src, n) = Moved(memory, dest, src, n)
  BY DEF MemmoveCopies, Moved
<1> USE StringsAssumption
<1>1. dest \in Nat /\ src \in Nat /\ n \in Nat /\ dest + n <= Size /\ src + n <= Size
  BY DEF Addresses, Fits
<1>2. dest \notin src + 1 .. src + n - 1 => memcpy(memory, dest, src, n) = Moved(memory, dest, src, n)
  BY <1>1, UpwardsMoves DEF memcpy
<1>3. CASE dest < src
  <2>1. dest \notin src + 1 .. src + n - 1
    BY <1>1, <1>3
  <2> QED
    BY <1>1, <1>2, <1>3, <2>1, UpwardsMoves DEF memmove
<1>4. CASE ~(dest < src)
  <2>1. src <= dest
    BY <1>1, <1>4
  <2> QED
    BY <1>1, <1>2, <1>4, <2>1, DownwardsMoves DEF memmove
<1> QED
  BY <1>3, <1>4

-----------------------------------------------------------------------------
(* Strings in memory *)

\* The string at s ends at z.
EndsAt(m, s, z) == z \in s .. Size - 1 /\ m[z] = NUL /\ \A i \in s .. z - 1 : m[i] # NUL

\* What stands in memory up to the first zero is the string.
LEMMA StringIs ==
  ASSUME NEW m \in Memories, NEW s \in Nat, NEW z, EndsAt(m, s, z)
  PROVE  /\ Terminated(m, s) /\ StringAt(m, s) = [k \in 1 .. z - s |-> m[s + k - 1]]
         /\ StringAt(m, s) \in Seq(Chars) /\ Len(StringAt(m, s)) = z - s
<1> USE StringsAssumption DEF NUL
<1> DEFINE T == {i \in s .. Size - 1 : m[i] = NUL}
<1>1. z \in T /\ \A y \in T : z <= y
  BY DEF EndsAt
<1>2. Min(T) = z
  <2>1. T \in SUBSET Nat
    OBVIOUS
  <2>2. Min(T) \in T /\ \A y \in T : Min(T) <= y
    BY <1>1, <2>1, MinIsLeast
  <2> DEFINE q == Min(T)
  <2>3. q <= z /\ z <= q /\ q \in Nat /\ z \in Nat
    BY <1>1, <2>1, <2>2
  <2> HIDE DEF q
  <2>4. q = z
    BY <2>3
  <2> QED
    BY <2>4 DEF q
<1>3. StringAt(m, s) = [k \in 1 .. z - s |-> m[s + k - 1]]
  BY <1>2 DEF StringAt
<1>4. z - s \in Nat
  BY DEF EndsAt
<1>5. ASSUME NEW k \in 1 .. z - s PROVE m[s + k - 1] \in Chars
  <2>1. s + k - 1 \in Addresses /\ s + k - 1 \in s .. z - 1
    BY DEF Addresses, EndsAt
  <2> QED
    BY <2>1 DEF Memories, EndsAt
<1> QED
  BY <1>1, <1>3, <1>4, <1>5 DEF Terminated

\* And a terminated string ends at a zero.
LEMMA StringEnds ==
  ASSUME NEW m \in Memories, NEW s \in Nat, Terminated(m, s)
  PROVE  EndsAt(m, s, s + Len(StringAt(m, s))) /\ StringAt(m, s) \in Seq(Chars)
<1> USE StringsAssumption
<1> DEFINE T == {i \in s .. Size - 1 : m[i] = NUL}
           z == Min(T)
<1>1. T \in SUBSET Nat /\ T # {}
  BY DEF Terminated
<1>2. z \in T /\ \A y \in T : z <= y
  BY <1>1, MinIsLeast
<1> HIDE DEF z
<1>3. EndsAt(m, s, z)
  BY <1>2 DEF EndsAt
<1>4. Len(StringAt(m, s)) = z - s /\ StringAt(m, s) \in Seq(Chars)
  BY <1>3, StringIs
<1>5. s + (z - s) = z
  BY <1>2
<1> QED
  BY <1>3, <1>4, <1>5

\* strcat makes the concatenation and changes nothing else.
LEMMA CatIsAppended == memory \in Memories => CatAppends
<1> SUFFICES ASSUME memory \in Memories, NEW s1 \in Addresses, NEW s2 \in Addresses,
                    Terminated(memory, s1), Terminated(memory, s2),
                    Fits(s1, Len(StringAt(memory, s1)) + Len(StringAt(memory, s2)) + 1)
             PROVE  LET a == StringAt(memory, s1)
                        b == StringAt(memory, s2)
                        m == strcat(memory, s1, s2)
                    IN  /\ Terminated(m, s1) /\ StringAt(m, s1) = a \o b
                        /\ \A i \in Addresses \ (s1 + Len(a) .. s1 + Len(a) + Len(b)) : m[i] = memory[i]
  BY DEF CatAppends
<1> USE StringsAssumption
<1> DEFINE a   == StringAt(memory, s1)
           b   == StringAt(memory, s2)
           end == s1 + Len(a)
           n   == Len(b)
           c   == CopyBytes(memory, end, s2, Upwards(n))
           m   == [c EXCEPT ![end + n] = NUL]
<1>1. s1 \in Nat /\ s2 \in Nat /\ s1 < Size /\ s2 < Size
  BY DEF Addresses
<1>2. EndsAt(memory, s1, end) /\ EndsAt(memory, s2, s2 + n) /\ a \in Seq(Chars) /\ b \in Seq(Chars)
  BY <1>1, StringEnds
<1>3. /\ Len(a) \in Nat /\ n \in Nat /\ end \in Nat /\ end + n < Size /\ s2 + n < Size
      /\ memory[end] = NUL
  BY <1>1, <1>2 DEF Fits, EndsAt
<1>4. a = [k \in 1 .. Len(a) |-> memory[s1 + k - 1]] /\ b = [k \in 1 .. n |-> memory[s2 + k - 1]]
  <2>1. end - s1 = Len(a) /\ (s2 + n) - s2 = n
    BY <1>1, <1>3
  <2> QED
    BY <1>1, <1>2, <2>1, StringIs
<1>5. strcat(memory, s1, s2) = m
  BY DEF strcat
<1> HIDE DEF a, b, n, end
<1>6. c = Moved(memory, end, s2, n)
  <2>1. end \notin s2 + 1 .. s2 + n - 1
    BY <1>1, <1>2, <1>3 DEF EndsAt
  <2> QED
    BY <1>1, <1>3, <2>1, UpwardsMoves
<1> HIDE DEF c
<1>7. m \in Memories
  <2>1. c \in Memories
    <3>1. ASSUME NEW i \in Addresses
          PROVE  (IF i \in end .. end + n - 1 THEN memory[s2 + (i - end)] ELSE memory[i]) \in Chars
      <4>1. i \in end .. end + n - 1 => s2 + (i - end) \in Addresses
        BY <1>1, <1>3 DEF Addresses
      <4> QED
        BY <4>1 DEF Memories
    <3> QED
      BY <1>6, <3>1 DEF Moved, Memories
  <2>2. NUL \in Chars
    BY DEF NUL, Chars
  <2> QED
    BY <2>1, <2>2 DEF Memories
<1>8. ASSUME NEW i \in Addresses
      PROVE  m[i] = IF i = end + n THEN NUL
                    ELSE IF i \in end .. end + n - 1 THEN memory[s2 + (i - end)] ELSE memory[i]
  BY <1>6 DEF Moved
<1> HIDE DEF m
<1>9. EndsAt(m, s1, end + n)
  <2>1. end + n \in s1 .. Size - 1 /\ end + n \in Addresses
    BY <1>1, <1>2, <1>3 DEF EndsAt, Addresses
  <2>2. ASSUME NEW i \in s1 .. (end + n) - 1 PROVE m[i] # NUL
    <3>1. i \in Addresses /\ i # end + n
      BY <1>1, <1>3 DEF Addresses
    <3>2. CASE i < end
      <4>1. i \in s1 .. end - 1 /\ i \notin end .. end + n - 1
        BY <1>1, <1>3, <3>2
      <4> QED
        BY <1>2, <1>8, <3>1, <4>1 DEF EndsAt
    <3>3. CASE ~(i < end)
      <4>1. i \in end .. end + n - 1 /\ s2 + (i - end) \in s2 .. (s2 + n) - 1
        BY <1>1, <1>3, <3>3
      <4> QED
        BY <1>2, <1>8, <3>1, <4>1 DEF EndsAt
    <3> QED
      BY <3>2, <3>3
  <2> QED
    BY <1>8, <2>1, <2>2 DEF EndsAt
<1>10. Terminated(m, s1) /\ StringAt(m, s1) = [k \in 1 .. (end + n) - s1 |-> m[s1 + k - 1]]
  BY <1>1, <1>7, <1>9, StringIs
<1>11. StringAt(m, s1) = a \o b
  <2>1. (end + n) - s1 = Len(a) + n
    BY <1>1, <1>3 DEF end
  <2>2. ASSUME NEW k \in 1 .. Len(a) + n
        PROVE  m[s1 + k - 1] = IF k <= Len(a) THEN a[k] ELSE b[k - Len(a)]
    <3>1. s1 + k - 1 \in Addresses /\ s1 + k - 1 # end + n
      BY <1>1, <1>3 DEF Addresses, end
    <3>2. CASE k <= Len(a)
      <4>1. s1 + k - 1 \notin end .. end + n - 1 /\ k \in 1 .. Len(a)
        BY <1>1, <1>3, <3>2 DEF end
      <4> QED
        BY <1>4, <1>8, <3>1, <3>2, <4>1
    <3>3. CASE ~(k <= Len(a))
      <4>1. /\ s1 + k - 1 \in end .. end + n - 1 /\ k - Len(a) \in 1 .. n
            /\ s2 + ((s1 + k - 1) - end) = s2 + (k - Len(a)) - 1
        BY <1>1, <1>3, <3>3 DEF end
      <4> QED
        BY <1>4, <1>8, <3>1, <3>3, <4>1
    <3> QED
      BY <3>2, <3>3
  <2>3. /\ Len(a \o b) = Len(a) + n /\ a \o b \in Seq(Chars)
        /\ \A k \in 1 .. Len(a) + n : (a \o b)[k] = IF k <= Len(a) THEN a[k] ELSE b[k - Len(a)]
    BY <1>2, ConcatProperties DEF n
  <2> DEFINE ab == a \o b
  <2> HIDE DEF ab
  <2>4. ab = [k \in 1 .. Len(ab) |-> ab[k]]
    <3>1. ab \in Seq(Chars)
      BY <2>3 DEF ab
    <3> QED
      BY <3>1
  <2>5. \A k \in 1 .. Len(ab) : ab[k] = m[s1 + k - 1]
    BY <2>2, <2>3 DEF ab
  <2>6. Len(ab) = (end + n) - s1
    BY <2>1, <2>3 DEF ab
  <2> QED
    BY <1>10, <2>4, <2>5, <2>6 DEF ab
<1>12. \A i \in Addresses \ (end .. end + n) : m[i] = memory[i]
  <2> TAKE i \in Addresses \ (end .. end + n)
  <2>1. i # end + n /\ i \notin end .. end + n - 1
    BY <1>3 DEF Addresses
  <2> QED
    BY <1>8, <2>1
<1> QED
  BY <1>5, <1>10, <1>11, <1>12 DEF a, b, n, end

-----------------------------------------------------------------------------
(* Strings that are compared *)

\* memcmp, its operands swapped, says the opposite.
LEMMA ComparesTurned ==
  ASSUME NEW a \in Seq(Chars), NEW b \in Seq(Chars), NEW n \in Nat, n <= Len(a), n <= Len(b)
  PROVE  memcmp(a, b, n) + memcmp(b, a, n) = 0
<1> DEFINE differ == {i \in 1 .. n : a[i] # b[i]}
<1>1. {i \in 1 .. n : b[i] # a[i]} = differ
  OBVIOUS
<1>2. differ \in SUBSET Nat
  OBVIOUS
<1>3. ASSUME NEW i \in differ PROVE a[i] \in Int /\ b[i] \in Int /\ a[i] # b[i]
  <2>1. i \in 1 .. n /\ a[i] # b[i]
    OBVIOUS
  <2> HIDE DEF differ
  <2>2. i \in 1 .. Len(a) /\ i \in 1 .. Len(b)
    BY <2>1
  <2>3. a[i] \in Chars /\ b[i] \in Chars
    BY <2>2
  <2>4. \A x \in Chars : x \in Int
    BY DEF Chars
  <2> QED
    BY <2>1, <2>3, <2>4
<1> DEFINE i == Min(differ)
<1>4. memcmp(a, b, n) = IF differ = {} THEN 0 ELSE IF a[i] < b[i] THEN -1 ELSE 1
  BY DEF memcmp
<1> HIDE DEF differ
<1>5. memcmp(b, a, n) = IF differ = {} THEN 0 ELSE IF b[i] < a[i] THEN -1 ELSE 1
  BY <1>1 DEF memcmp
<1> HIDE DEF i
<1>6. CASE differ = {}
  BY <1>4, <1>5, <1>6
<1>7. CASE differ # {}
  <2>1. i \in differ
    BY <1>2, <1>7, MinIsLeast DEF i
  <2> QED
    BY <1>3, <1>4, <1>5, <1>7, <2>1
<1> QED
  BY <1>6, <1>7

\* Short strings have the length that strlen counts.
LEMMA ShortLength == \A n \in 0 .. STRLEN_RANGE - 1 : n % STRLEN_RANGE = n
<1> USE StringsAssumption
<1> TAKE n \in 0 .. STRLEN_RANGE - 1
<1> DEFINE w == STRLEN_RANGE
<1>1. w \in Nat \ {0} /\ n \in 0 .. w - 1
  OBVIOUS
<1> HIDE DEF w
<1>2. (w * 0 + n) % w = n
  BY <1>1, ModUnique
<1>3. w * 0 + n = n
  BY <1>1
<1> QED
  BY <1>2, <1>3 DEF w

\* isStrEqual compares lengths, as far as strlen counts, and as many bytes.
LEMMA EqualIs ==
  ASSUME NEW a, NEW b, Len(a) \in Nat, Len(b) \in Nat
  PROVE  /\ Len(a) % STRLEN_RANGE \in Nat
         /\ isStrEqual(a, b) <=> /\ Len(a) % STRLEN_RANGE = Len(b) % STRLEN_RANGE
                                /\ \A i \in 1 .. Len(a) % STRLEN_RANGE : a[i] = b[i]
<1> DEFINE n == Len(a) % STRLEN_RANGE
           differ == {i \in 1 .. n : a[i] # b[i]}
<1>1. n \in Nat
  BY StringsAssumption
<1> HIDE DEF n
<1>2. memcmp(a, b, n) = 0 <=> differ = {}
  <2>1. CASE differ = {}
    BY <2>1 DEF memcmp
  <2>2. CASE differ # {}
    BY <2>2 DEF memcmp
  <2> QED
    BY <2>1, <2>2
<1>3. differ = {} <=> \A i \in 1 .. n : a[i] = b[i]
  OBVIOUS
<1> HIDE DEF differ
<1> QED
  BY <1>1, <1>2, <1>3 DEF isStrEqual, strlen, n

\* Strings no longer than strlen can count are equal if isStrEqual says so.
LEMMA ComparedIs == memory \in Memories => ComparesStrings
<1> SUFFICES ASSUME memory \in Memories, NEW s1 \in Addresses, NEW s2 \in Addresses,
                    Terminated(memory, s1), Terminated(memory, s2)
             PROVE  LET a == StringAt(memory, s1)
                        b == StringAt(memory, s2)
                    IN  /\ a = b => isStrEqual(a, b)
                        /\ Len(a) < STRLEN_RANGE /\ Len(b) < STRLEN_RANGE /\ isStrEqual(a, b) => a = b
                        /\ \A n \in 0 .. Len(a) : n <= Len(b) => memcmp(a, b, n) + memcmp(b, a, n) = 0
  BY DEF ComparesStrings
<1> USE StringsAssumption
<1> DEFINE a == StringAt(memory, s1)
           b == StringAt(memory, s2)
<1>1. a \in Seq(Chars) /\ b \in Seq(Chars)
  <2>1. s1 \in Nat /\ s2 \in Nat
    BY DEF Addresses
  <2> QED
    BY <2>1, StringEnds
<1> HIDE DEF a, b
<1>2. a = b => isStrEqual(a, b)
  BY <1>1, EqualIs
<1>3. ASSUME Len(a) < STRLEN_RANGE, Len(b) < STRLEN_RANGE, isStrEqual(a, b) PROVE a = b
  <2>1. Len(a) % STRLEN_RANGE = Len(a) /\ Len(b) % STRLEN_RANGE = Len(b)
    <3>1. Len(a) \in 0 .. STRLEN_RANGE - 1 /\ Len(b) \in 0 .. STRLEN_RANGE - 1
      BY <1>1, <1>3
    <3> QED
      BY <3>1, ShortLength
  <2>2. Len(a) = Len(b) /\ \A i \in 1 .. Len(a) : a[i] = b[i]
    BY <1>1, <1>3, <2>1, EqualIs
  <2> QED
    BY <1>1, <2>2
<1>4. \A n \in 0 .. Len(a) : n <= Len(b) => memcmp(a, b, n) + memcmp(b, a, n) = 0
  <2> TAKE n \in 0 .. Len(a)
  <2>1. n \in Nat /\ n <= Len(a)
    BY <1>1
  <2> QED
    BY <1>1, <2>1, ComparesTurned
<1> QED
  BY <1>2, <1>3, <1>4 DEF a, b

-----------------------------------------------------------------------------
(* Paths *)

\* What stands before the first of some bytes.
LEMMA BeforeIs ==
  ASSUME NEW str \in Seq(Chars), NEW stop
  PROVE  /\ Before(str, stop) \in Seq(Chars) /\ Len(Before(str, stop)) \in 0 .. Len(str)
         /\ Before(str, stop) = SubSeq(str, 1, Len(Before(str, stop)))
         /\ \A i \in 1 .. Len(Before(str, stop)) : Before(str, stop)[i] = str[i] /\ str[i] \notin stop
         /\ Len(Before(str, stop)) < Len(str) => str[Len(Before(str, stop)) + 1] \in stop
<1> DEFINE n == Len(str)
           T == {i \in DOMAIN str : str[i] \in stop} \cup {n + 1}
           z == Min(T)
           b == SubSeq(str, 1, z - 1)
<1>1. n \in Nat /\ DOMAIN str = 1 .. n
  OBVIOUS
<1>2. T \in SUBSET Nat /\ n + 1 \in T
  BY <1>1
<1>3. z \in T /\ \A y \in T : z <= y
  BY <1>2, MinIsLeast
<1>4. /\ z \in 1 .. n + 1 /\ (z <= n => str[z] \in stop)
      /\ \A i \in 1 .. n : str[i] \in stop => z <= i
  BY <1>1, <1>3
<1>5. Before(str, stop) = b
  BY DEF Before
<1> HIDE DEF n, z, T
<1>6. b \in Seq(Chars) /\ Len(b) = z - 1 /\ \A i \in 1 .. z - 1 : b[i] = str[i]
  <2>1. \A i \in 1 .. z - 1 : i \in 1 .. n /\ str[i] \in Chars
    BY <1>1, <1>4 DEF n
  <2>2. 1 \in Int /\ z - 1 \in Int /\ (z - 1) - 1 + 1 = z - 1 /\ (1 <= z - 1 \/ z - 1 = 0)
    BY <1>1, <1>4
  <2>3. \A i \in 1 .. z - 1 : 1 + i - 1 = i
    BY <2>2
  <2> QED
    BY <2>1, <2>2, <2>3, SubSeqProperties
<1>7. z - 1 \in 0 .. n /\ (z - 1 < n => (z - 1) + 1 = z /\ z <= n)
  BY <1>1, <1>4
<1>8. \A i \in 1 .. z - 1 : str[i] \notin stop
  BY <1>1, <1>4
<1>9. b = SubSeq(str, 1, Len(b))
  BY <1>6
<1> HIDE DEF b
<1> QED
  BY <1>4, <1>5, <1>6, <1>7, <1>8, <1>9 DEF n

\* The path behind its first name.
Rest(p) == SubSeq(p, Len(get_parent(p)) + 2, Len(p))

\* A path is its first name, a slash, and the rest, which is shorter.
LEMMA RestIs ==
  ASSUME NEW p \in Seq(Chars)
  PROVE  /\ Len(get_parent(p)) \in 0 .. Len(p) /\ get_parent(p) \in Seq(Chars)
         /\ \A i \in 1 .. Len(get_parent(p)) : get_parent(p)[i] = p[i] /\ p[i] # SLASH
         /\ Len(get_parent(p)) = Len(p) => get_parent(p) = p
         /\ Rest(p) \in Seq(Chars)
         /\ Len(get_parent(p)) = Len(p) => Rest(p) = <<>>
         /\ Len(get_parent(p)) < Len(p) =>
              /\ p[Len(get_parent(p)) + 1] = SLASH
              /\ Len(Rest(p)) = Len(p) - Len(get_parent(p)) - 1
              /\ \A i \in 1 .. Len(Rest(p)) : Rest(p)[i] = p[Len(get_parent(p)) + 1 + i]
<1> DEFINE g == get_parent(p)
           l == Len(g)
           n == Len(p)
<1>1. /\ g \in Seq(Chars) /\ l \in 0 .. n /\ g = SubSeq(p, 1, l)
      /\ \A i \in 1 .. l : g[i] = p[i] /\ p[i] # SLASH
      /\ l < n => p[l + 1] = SLASH
  <2>1. g = Before(p, {SLASH})
    BY DEF get_parent
  <2> HIDE DEF g
  <2> QED
    BY <2>1, BeforeIs
<1> HIDE DEF g
<1>2. n \in Nat /\ l \in Nat /\ \A i \in 1 .. n : p[i] \in Chars
  BY <1>1
<1>3. l = n => g = p
  <2>1. SubSeq(p, 1, n) = p
    BY SubSeqFull
  <2> QED
    BY <1>1, <2>1
<1> HIDE DEF l, n
<1>4. /\ SubSeq(p, l + 2, n) \in Seq(Chars)
      /\ l = n => SubSeq(p, l + 2, n) = <<>>
      /\ l < n => /\ Len(SubSeq(p, l + 2, n)) = n - l - 1
                 /\ \A i \in 1 .. n - l - 1 : SubSeq(p, l + 2, n)[i] = p[l + 1 + i]
  <2>1. \A i \in l + 2 .. n : p[i] \in Chars
    BY <1>2
  <2>2. l + 2 \in Int /\ n \in Int /\ n - (l + 2) + 1 = n - l - 1 /\ (l < n => l + 2 <= n \/ n - l - 1 = 0)
    BY <1>2
  <2>3. \A i \in 1 .. n - l - 1 : (l + 2) + i - 1 = l + 1 + i
    BY <1>2
  <2>4. SubSeq(p, l + 2, n) \in Seq(Chars)
    BY <2>1, <2>2, SubSeqProperties
  <2>5. Len(SubSeq(p, l + 2, n)) = IF l + 2 <= n THEN n - (l + 2) + 1 ELSE 0
    BY <2>1, <2>2, SubSeqProperties
  <2>6. \A i \in 1 .. n - (l + 2) + 1 : SubSeq(p, l + 2, n)[i] = p[(l + 2) + i - 1]
    BY <2>1, <2>2, SubSeqProperties
  <2>7. l = n => SubSeq(p, l + 2, n) = <<>>
    <3>1. l = n => n < l + 2
      BY <1>2
    <3> QED
      BY <2>2, <3>1, SubSeqEmpty
  <2>8. l < n => Len(SubSeq(p, l + 2, n)) = n - l - 1
    BY <1>2, <2>2, <2>5
  <2>9. \A i \in 1 .. n - l - 1 : SubSeq(p, l + 2, n)[i] = p[l + 1 + i]
    BY <2>2, <2>3, <2>6
  <2> QED
    BY <2>4, <2>7, <2>8, <2>9
<1>5. Rest(p) = SubSeq(p, l + 2, n)
  BY DEF Rest, l, n, g
<1> DEFINE r == SubSeq(p, l + 2, n)
<1> HIDE DEF r
<1> QED
  BY <1>1, <1>2, <1>3, <1>4, <1>5 DEF l, n, g, r

\* Where a path is cut.
Cuts(p) == {i \in DOMAIN p : p[i] = SLASH} \cup {0, Len(p) + 1}

\* There is a name between any two cuts that follow each other.
LEMMA NamesAre ==
  ASSUME NEW p \in Seq(Chars)
  PROVE  /\ InOrder(Cuts(p)) \in Seq(Nat) /\ Len(InOrder(Cuts(p))) >= 2
         /\ Len(NamesIn(p)) = Len(InOrder(Cuts(p))) - 1 /\ NamesIn(p) \in Seq(Seq(Chars))
         /\ \A k \in 1 .. Len(NamesIn(p)) :
              NamesIn(p)[k] = SubSeq(p, InOrder(Cuts(p))[k] + 1, InOrder(Cuts(p))[k + 1] - 1)
<1> DEFINE N == Len(p) + 1
           S == Cuts(p)
           c == InOrder(S)
           n == Len(c)
<1>1. Len(p) \in Nat /\ DOMAIN p = 1 .. Len(p)
  OBVIOUS
<1>2. N \in Nat /\ S \in SUBSET (0 .. N) /\ 0 \in S /\ N \in S /\ N # 0
  BY <1>1 DEF Cuts
<1> HIDE DEF S, N
<1>3. c \in Seq(S) /\ Onto(c, n, S) /\ Rising(c, n)
  BY <1>2, OrderIs
<1> HIDE DEF c
<1>4. n \in Nat /\ c \in [1 .. n -> S]
  BY <1>3 DEF Onto
<1>5. n >= 2
  <2>1. PICK i \in 1 .. n : c[i] = 0
    BY <1>2, <1>3 DEF Onto
  <2>2. PICK j \in 1 .. n : c[j] = N
    BY <1>2, <1>3 DEF Onto
  <2>3. i # j
    BY <1>2, <2>1, <2>2
  <2> QED
    BY <1>4, <2>3
<1> HIDE DEF n
<1>6. c \in Seq(Nat)
  <2>1. \A x \in S : x \in Nat
    BY <1>2
  <2> QED
    BY <1>4, <2>1
<1>7. NamesIn(p) = [k \in 1 .. n - 1 |-> SubSeq(p, c[k] + 1, c[k + 1] - 1)]
  BY DEF NamesIn, Cuts, c, n, S
<1>8. n - 1 \in Nat
  BY <1>4, <1>5
<1>9. ASSUME NEW k \in 1 .. n - 1 PROVE SubSeq(p, c[k] + 1, c[k + 1] - 1) \in Seq(Chars)
  <2>1. k \in 1 .. n /\ k + 1 \in 1 .. n
    BY <1>4
  <2>2. c[k] \in 0 .. N /\ c[k + 1] \in 0 .. N
    BY <1>2, <1>4, <2>1
  <2>3. \A i \in c[k] + 1 .. c[k + 1] - 1 : i \in 1 .. Len(p)
    BY <1>1, <2>2 DEF N
  <2>4. \A i \in c[k] + 1 .. c[k + 1] - 1 : p[i] \in Chars
    BY <2>3
  <2>5. c[k] + 1 \in Int /\ c[k + 1] - 1 \in Int
    BY <2>2
  <2> QED
    BY <2>4, <2>5, SubSeqProperties
<1> DEFINE f == [k \in 1 .. n - 1 |-> SubSeq(p, c[k] + 1, c[k + 1] - 1)]
<1>10. f \in Seq(Seq(Chars)) /\ Len(f) = n - 1
  <2> DEFINE D == Seq(Chars)
             m == n - 1
             x(k) == SubSeq(p, c[k] + 1, c[k + 1] - 1)
  <2>1. m \in Nat /\ f = [k \in 1 .. m |-> x(k)] /\ \A k \in 1 .. m : x(k) \in D
    BY <1>8, <1>9
  <2> HIDE DEF D, x, f, m
  <2>2. f \in Seq(D) /\ Len(f) = m
    BY <2>1
  <2> QED
    BY <2>2 DEF D, m
<1> QED
  BY <1>5, <1>6, <1>7, <1>10 DEF c, n, S
\* The first name, and those behind it.
LEMMA NamesGoOn ==
  ASSUME NEW p \in Seq(Chars)
  PROVE  NamesIn(p) = IF Len(get_parent(p)) = Len(p) THEN <<p>>
                      ELSE <<get_parent(p)>> \o NamesIn(Rest(p))
<1> DEFINE g == get_parent(p)
           l == Len(g)
           n == Len(p)
           q == Rest(p)
           S == Cuts(p)
           T == Cuts(q)
           c == InOrder(S)
           d == InOrder(T)
           ns == NamesIn(p)
           ms == NamesIn(q)
<1>1. /\ l \in 0 .. n /\ g \in Seq(Chars) /\ q \in Seq(Chars)
      /\ \A i \in 1 .. l : g[i] = p[i] /\ p[i] # SLASH
      /\ l = n => g = p
      /\ l < n => /\ p[l + 1] = SLASH /\ Len(q) = n - l - 1
                 /\ \A i \in 1 .. Len(q) : q[i] = p[l + 1 + i]
  BY RestIs
<1>2. /\ Len(ns) = Len(c) - 1 /\ ns \in Seq(Seq(Chars)) /\ c \in Seq(Nat) /\ Len(c) >= 2
      /\ \A k \in 1 .. Len(ns) : ns[k] = SubSeq(p, c[k] + 1, c[k + 1] - 1)
  BY NamesAre
<1>3. /\ Len(ms) = Len(d) - 1 /\ ms \in Seq(Seq(Chars)) /\ d \in Seq(Nat) /\ Len(d) >= 2
      /\ \A k \in 1 .. Len(ms) : ms[k] = SubSeq(q, d[k] + 1, d[k + 1] - 1)
  BY <1>1, NamesAre
<1>4. n \in Nat /\ DOMAIN p = 1 .. n /\ \A i \in 1 .. n : p[i] \in Chars
  OBVIOUS
<1>5. CASE l = n
  <2> DEFINE f == [k \in 1 .. 2 |-> IF k = 1 THEN 0 ELSE n + 1]
  <2>1. S = {0, n + 1}
    BY <1>1, <1>4, <1>5 DEF Cuts
  <2>2. f[1] = 0 /\ f[2] = n + 1 /\ f \in [1 .. 2 -> {0, n + 1}]
    OBVIOUS
  <2>3. \A k \in 1 .. 2 : k = 1 \/ k = 2
    OBVIOUS
  <2>4. 1 \in 1 .. 2 /\ 2 \in 1 .. 2
    OBVIOUS
  <2> HIDE DEF f
  <2>5. Onto(f, 2, S) /\ Rising(f, 2)
    BY <1>4, <2>1, <2>2, <2>3, <2>4 DEF Onto, Rising
  <2>6. S \in SUBSET Int
    BY <1>4, <2>1
  <2> HIDE DEF S
  <2>7. c = f /\ Len(c) = 2
    BY <2>5, <2>6, RisingIsOrder
  <2>8. Len(ns) = 1 /\ ns[1] = SubSeq(p, 0 + 1, (n + 1) - 1)
    BY <1>2, <2>2, <2>7
  <2>9. ns[1] = p
    <3>1. SubSeq(p, 1, n) = p
      BY SubSeqFull
    <3>2. 0 + 1 = 1 /\ (n + 1) - 1 = n
      BY <1>4
    <3> QED
      BY <2>8, <3>1, <3>2
  <2> DEFINE D == Seq(Chars)
  <2>10. ns \in Seq(D)
    BY <1>2
  <2> HIDE DEF ns, D
  <2>11. ns = <<p>>
    BY <2>8, <2>9, <2>10
  <2> QED
    BY <1>5, <2>11 DEF ns
<1>6. CASE l # n
  <2>1. l < n /\ l \in Nat /\ Len(q) \in Nat /\ Len(q) + l + 1 = n /\ DOMAIN q = 1 .. Len(q)
    <3>1. DOMAIN q = 1 .. Len(q) /\ Len(q) \in Nat
      BY <1>1
    <3> HIDE DEF l, n, q
    <3> QED
      BY <1>1, <1>4, <1>6, <3>1
  <2>2. T \in SUBSET (0 .. Len(q) + 1) /\ Len(q) + 1 \in Nat
    BY <2>1 DEF Cuts
  <2>3. S = {0} \cup {x + (l + 1) : x \in T}
    <3>1. ASSUME NEW x \in S, x # 0 PROVE \E y \in T : x = y + (l + 1)
      <4>1. CASE x = n + 1
        <5>1. Len(q) + 1 \in T /\ (Len(q) + 1) + (l + 1) = n + 1
          BY <2>1 DEF Cuts
        <5> QED
          BY <4>1, <5>1
      <4>2. CASE x # n + 1
        <5>1. x \in 1 .. n /\ p[x] = SLASH
          BY <1>4, <3>1, <4>2 DEF Cuts
        <5>2. x > l
          BY <1>1, <2>1, <5>1
        <5>3. CASE x = l + 1
          <6>1. 0 \in T /\ x = 0 + (l + 1)
            BY <2>1, <5>3 DEF Cuts
          <6> QED
            BY <6>1
        <5>4. CASE x # l + 1
          <6> DEFINE y == x - (l + 1)
          <6>1. y \in 1 .. Len(q) /\ l + 1 + y = x /\ x = y + (l + 1)
            BY <2>1, <5>1, <5>2, <5>4
          <6>2. q[y] = SLASH
            BY <1>1, <2>1, <5>1, <6>1
          <6>3. y \in T
            BY <2>1, <6>1, <6>2 DEF Cuts
          <6> QED
            BY <6>1, <6>3
        <5> QED
          BY <5>3, <5>4
      <4> QED
        BY <4>1, <4>2
    <3>2. ASSUME NEW y \in T PROVE y + (l + 1) \in S
      <4>1. CASE y = 0
        <5>1. l + 1 \in 1 .. n /\ p[l + 1] = SLASH /\ y + (l + 1) = l + 1
          BY <1>1, <2>1, <4>1
        <5> QED
          BY <1>4, <5>1 DEF Cuts
      <4>2. CASE y = Len(q) + 1
        <5>1. y + (l + 1) = n + 1
          BY <2>1, <4>2
        <5> QED
          BY <5>1 DEF Cuts
      <4>3. CASE y # 0 /\ y # Len(q) + 1
        <5>1. y \in 1 .. Len(q) /\ q[y] = SLASH
          BY <2>1, <4>3 DEF Cuts
        <5>2. l + 1 + y \in 1 .. n /\ y + (l + 1) = l + 1 + y /\ p[l + 1 + y] = SLASH
          BY <1>1, <2>1, <5>1
        <5> QED
          BY <1>4, <5>2 DEF Cuts
      <4> QED
        BY <4>1, <4>2, <4>3
    <3>3. 0 \in S
      BY DEF Cuts
    <3> HIDE DEF S, T
    <3> QED
      BY <3>1, <3>2, <3>3
  <2>4. \A x \in T : 0 < x + (l + 1)
    BY <2>1, <2>2
  <2> HIDE DEF S, T
  <2>5. /\ Len(c) = Len(d) + 1 /\ c[1] = 0
        /\ \A k \in 1 .. Len(d) : c[k + 1] = d[k] + (l + 1)
    <3> DEFINE m == l + 1
               N == Len(q) + 1
    <3>1. m \in Nat /\ N \in Nat /\ 0 \in Nat /\ T \in SUBSET (0 .. N) /\ Below(0, T, m)
      BY <2>1, <2>2, <2>4 DEF Below
    <3>2. S = Onwards(0, T, m)
      BY <2>3 DEF Onwards
    <3> HIDE DEF m, N
    <3>3. GoesOn(InOrder(S), 0, InOrder(T), m)
      BY <3>1, <3>2, OrderGoesOn
    <3> QED
      BY <3>3 DEF m, GoesOn
  <2>6. d[1] = 0
    <3>1. Onto(d, Len(d), T) /\ Rising(d, Len(d))
      BY <2>2, OrderIs
    <3>2. 0 \in T /\ 1 \in 1 .. Len(d)
      BY <1>3 DEF T, Cuts
    <3>3. PICK k \in 1 .. Len(d) : d[k] = 0
      BY <3>1, <3>2 DEF Onto
    <3>4. d[1] \in Nat
      BY <1>3, <3>2
    <3>5. k # 1 => d[1] < d[k]
      BY <3>1, <3>2 DEF Rising
    <3> QED
      BY <3>3, <3>4, <3>5
  <2>7. Len(ns) = Len(ms) + 1 /\ Len(ms) \in Nat
    BY <1>2, <1>3, <2>5
  <2>8. ns[1] = g
    <3>1. 1 \in 1 .. Len(ns) /\ 1 \in 1 .. Len(d)
      BY <1>3, <2>7
    <3>2. c[2] = l + 1 /\ c[1] = 0
      <4>1. c[1 + 1] = 0 + (l + 1)
        BY <2>5, <2>6, <3>1
      <4> QED
        BY <2>1, <2>5, <4>1
    <3>3. ns[1] = SubSeq(p, 0 + 1, (l + 1) - 1)
      <4>1. ns[1] = SubSeq(p, c[1] + 1, c[1 + 1] - 1)
        BY <1>2, <3>1
      <4> QED
        BY <3>2, <4>1
    <3>4. SubSeq(p, 1, l) = g
      <4>1. g = Before(p, {SLASH})
        BY DEF get_parent
      <4> QED
        BY <4>1, BeforeIs
    <3>5. 0 + 1 = 1 /\ (l + 1) - 1 = l
      BY <2>1
    <3> HIDE DEF ns, l, g
    <3> QED
      BY <3>3, <3>4, <3>5
  <2>9. ASSUME NEW k \in 1 .. Len(ms) PROVE ns[k + 1] = ms[k]
    <3>1. k \in 1 .. Len(d) /\ k + 1 \in 1 .. Len(d) /\ k + 1 \in 1 .. Len(ns)
      BY <1>3, <2>7
    <3>2. c[k + 1] = d[k] + (l + 1) /\ c[(k + 1) + 1] = d[k + 1] + (l + 1)
      BY <2>5, <3>1
    <3>3. d[k] \in Nat /\ d[k + 1] \in Nat /\ d[k + 1] <= Len(q) + 1
      <4>1. d[k] \in T /\ d[k + 1] \in T
        <5>1. Onto(d, Len(d), T)
          BY <2>2, OrderIs
        <5> QED
          BY <3>1, <5>1 DEF Onto
      <4>2. \A x \in T : x \in Nat /\ x <= Len(q) + 1
        BY <2>2
      <4> HIDE DEF d, q
      <4> QED
        BY <4>1, <4>2
    <3> DEFINE x == d[k]
               y == d[k + 1]
               u == SubSeq(p, (x + (l + 1)) + 1, (y + (l + 1)) - 1)
               w == SubSeq(q, x + 1, y - 1)
    <3>4. ns[k + 1] = u /\ ms[k] = w
      BY <1>2, <1>3, <3>1, <3>2
    <3> HIDE DEF x, y, l, ns, ms
    <3>5. u = w
      <4>1. x \in Nat /\ y \in Nat /\ l \in Nat /\ y <= Len(q) + 1 /\ Len(q) \in Nat /\ Len(q) + l + 1 = n
        BY <2>1, <3>3 DEF x, y
      <4>2. \A i \in x + 1 .. y - 1 : i \in 1 .. Len(q) /\ q[i] \in Chars
        <5>1. \A i \in 1 .. Len(q) : q[i] \in Chars
          BY <1>1
        <5>2. \A i \in x + 1 .. y - 1 : i \in 1 .. Len(q)
          BY <4>1
        <5> QED
          BY <5>1, <5>2
      <4>3. \A i \in (x + (l + 1)) + 1 .. (y + (l + 1)) - 1 : i \in 1 .. n /\ p[i] \in Chars
        BY <1>4, <4>1
      <4>4. x + 1 \in Int /\ y - 1 \in Int /\ (x + (l + 1)) + 1 \in Int /\ (y + (l + 1)) - 1 \in Int
        BY <4>1
      <4>5. /\ w \in Seq(Chars) /\ Len(w) = IF x + 1 <= y - 1 THEN (y - 1) - (x + 1) + 1 ELSE 0
            /\ \A i \in 1 .. (y - 1) - (x + 1) + 1 : w[i] = q[(x + 1) + i - 1]
        BY <4>2, <4>4, SubSeqProperties
      <4>6. /\ u \in Seq(Chars)
            /\ Len(u) = IF (x + (l + 1)) + 1 <= (y + (l + 1)) - 1
                       THEN ((y + (l + 1)) - 1) - ((x + (l + 1)) + 1) + 1 ELSE 0
            /\ \A i \in 1 .. ((y + (l + 1)) - 1) - ((x + (l + 1)) + 1) + 1 :
                 u[i] = p[((x + (l + 1)) + 1) + i - 1]
        BY <4>3, <4>4, SubSeqProperties
      <4> HIDE DEF u, w
      <4>7. Len(u) = Len(w) /\ Len(w) \in Nat /\ (Len(w) # 0 => Len(w) = y - x - 1)
        <5>1. x + 1 <= y - 1 <=> (x + (l + 1)) + 1 <= (y + (l + 1)) - 1
          BY <4>1
        <5>2. /\ ((y + (l + 1)) - 1) - ((x + (l + 1)) + 1) + 1 = y - x - 1
              /\ (y - 1) - (x + 1) + 1 = y - x - 1
          BY <4>1
        <5>3. Len(w) \in Nat
          BY <4>5
        <5> QED
          BY <4>5, <4>6, <5>1, <5>2, <5>3
      <4>8. ASSUME NEW i \in 1 .. Len(w) PROVE u[i] = w[i]
        <5>1. Len(w) = y - x - 1 /\ i \in 1 .. y - x - 1
          BY <4>7, <4>8
        <5>2. w[i] = q[x + i]
          <6>1. i \in 1 .. (y - 1) - (x + 1) + 1 /\ (x + 1) + i - 1 = x + i
            BY <4>1, <5>1
          <6> QED
            BY <4>5, <6>1
        <5>3. u[i] = p[l + 1 + (x + i)]
          <6>1. /\ i \in 1 .. ((y + (l + 1)) - 1) - ((x + (l + 1)) + 1) + 1
                /\ ((x + (l + 1)) + 1) + i - 1 = l + 1 + (x + i)
            BY <4>1, <5>1
          <6> QED
            BY <4>6, <6>1
        <5>4. x + i \in 1 .. Len(q)
          BY <4>1, <5>1
        <5>5. q[x + i] = p[l + 1 + (x + i)]
          BY <1>1, <2>1, <5>4 DEF l
        <5> QED
          BY <5>2, <5>3, <5>5
      <4> QED
        BY <4>5, <4>6, <4>7, <4>8
    <3> QED
      BY <3>4, <3>5
  <2> DEFINE D == Seq(Chars)
             h == <<g>> \o ms
  <2>10. ns \in Seq(D) /\ ms \in Seq(D) /\ g \in D
    BY <1>1, <1>2, <1>3
  <2> HIDE DEF ns, ms, g, D
  <2>11. <<g>> \in Seq(D) /\ Len(<<g>>) = 1 /\ <<g>>[1] = g
    BY <2>10
  <2>12. /\ h \in Seq(D) /\ Len(h) = 1 + Len(ms)
         /\ \A i \in 1 .. 1 + Len(ms) : h[i] = IF i <= 1 THEN g ELSE ms[i - 1]
    <3>1. /\ h \in Seq(D) /\ Len(h) = Len(<<g>>) + Len(ms)
          /\ \A i \in 1 .. Len(<<g>>) + Len(ms) : h[i] = IF i <= Len(<<g>>) THEN <<g>>[i] ELSE ms[i - Len(<<g>>)]
      BY <2>10, <2>11, ConcatProperties
    <3>2. \A i \in 1 .. 1 + Len(ms) : i <= 1 => i = 1
      BY <2>7
    <3> QED
      BY <2>11, <3>1, <3>2
  <2> HIDE DEF h
  <2>13. ASSUME NEW i \in 1 .. Len(ns) PROVE ns[i] = h[i]
    <3>1. CASE i = 1
      BY <2>7, <2>8, <2>12, <3>1
    <3>2. CASE i # 1
      <4>1. i - 1 \in 1 .. Len(ms) /\ (i - 1) + 1 = i /\ ~(i <= 1) /\ i \in 1 .. 1 + Len(ms)
        BY <2>7, <3>2
      <4> QED
        BY <2>9, <2>12, <4>1
    <3> QED
      BY <3>1, <3>2
  <2>14. ns = h
    <3>1. Len(ns) = Len(h)
      BY <2>7, <2>12
    <3> QED
      BY <2>10, <2>12, <2>13, <3>1, SeqEqual
  <2> QED
    BY <1>6, <2>14 DEF ns, h, ms, l, n, g
<1> QED
  BY <1>5, <1>6

\* strlen can count the path behind its first name, and every name.
Countable(p) ==
  /\ Len(p) <= STRLEN_RANGE
  /\ \A k \in DOMAIN NamesIn(p) : Len(NamesIn(p)[k]) \in 1 .. STRLEN_RANGE - 1

\* Then each of the functions sees whether a name is the last, and where the next begins.
LEMMA NextName ==
  ASSUME NEW p \in Seq(Chars), Countable(p)
  PROVE  /\ p # <<>> /\ NamesIn(p) # <<>>
         /\ Len(get_parent(p)) = Len(p) =>
              /\ NamesIn(p) = <<p>> /\ get_parent(p) = p /\ Rest(p) = <<>>
              /\ isStrEqual(p, get_parent(p)) /\ isStrEqual(get_parent(p), p)
         /\ Len(get_parent(p)) # Len(p) =>
              /\ NamesIn(p) = <<get_parent(p)>> \o NamesIn(Rest(p))
              /\ Countable(Rest(p)) /\ Len(Rest(p)) < Len(p)
              /\ Onward(p) = Rest(p)
              /\ ~isStrEqual(p, get_parent(p)) /\ ~isStrEqual(get_parent(p), p)
<1> DEFINE g == get_parent(p)
           l == Len(g)
           n == Len(p)
           q == Rest(p)
           w == STRLEN_RANGE
           D == Seq(Chars)
<1>1. /\ l \in 0 .. n /\ g \in Seq(Chars) /\ q \in Seq(Chars) /\ (l = n => g = p /\ q = <<>>)
      /\ l < n => Len(q) = n - l - 1
  BY RestIs
<1>2. n \in Nat /\ n <= w /\ w \in Nat \ {0} /\ Len(q) \in Nat
  BY <1>1, StringsAssumption DEF Countable
<1>3. NamesIn(p) = IF l = n THEN <<p>> ELSE <<g>> \o NamesIn(q)
  BY NamesGoOn
<1>4. NamesIn(p) \in Seq(D) /\ NamesIn(q) \in Seq(D)
  BY <1>1, NamesAre
<1>5. CASE l = n
  <2>1. NamesIn(p) = <<p>>
    BY <1>3, <1>5
  <2>2. DOMAIN <<p>> = 1 .. 1 /\ <<p>>[1] = p /\ <<p>> # <<>> /\ 1 \in 1 .. 1
    OBVIOUS
  <2>3. n \in 1 .. w - 1
    BY <2>1, <2>2 DEF Countable
  <2>4. isStrEqual(p, g) /\ isStrEqual(g, p)
    BY <1>1, <1>2, <1>5, EqualIs
  <2>5. p # <<>>
    BY <2>3
  <2> QED
    BY <1>1, <1>5, <2>1, <2>2, <2>4, <2>5
<1>6. CASE l # n
  <2> HIDE DEF D
  <2>1. /\ NamesIn(p) = <<g>> \o NamesIn(q) /\ Len(NamesIn(p)) = Len(NamesIn(q)) + 1 /\ NamesIn(p)[1] = g
        /\ \A i \in 1 .. Len(NamesIn(q)) : NamesIn(p)[i + 1] = NamesIn(q)[i]
    <3>1. NamesIn(p) = <<g>> \o NamesIn(q)
      BY <1>3, <1>6
    <3>2. g \in D
      BY <1>1 DEF D
    <3> HIDE DEF g, q
    <3> QED
      BY <1>4, <3>1, <3>2, InFront
  <2>2. DOMAIN NamesIn(p) = 1 .. Len(NamesIn(p)) /\ DOMAIN NamesIn(q) = 1 .. Len(NamesIn(q)) /\ Len(NamesIn(q)) \in Nat
    BY <1>4
  <2>3. l \in 1 .. w - 1
    <3>1. 1 \in DOMAIN NamesIn(p)
      BY <2>1, <2>2
    <3> QED
      BY <2>1, <3>1 DEF Countable
  <2>4. \A k \in DOMAIN NamesIn(q) : Len(NamesIn(q)[k]) \in 1 .. w - 1
    <3> SUFFICES ASSUME NEW k \in DOMAIN NamesIn(q) PROVE Len(NamesIn(q)[k]) \in 1 .. w - 1
      OBVIOUS
    <3>1. k \in 1 .. Len(NamesIn(q)) /\ k + 1 \in DOMAIN NamesIn(p)
      BY <2>1, <2>2
    <3>2. NamesIn(p)[k + 1] = NamesIn(q)[k]
      BY <2>1, <3>1
    <3> QED
      BY <3>1, <3>2 DEF Countable
  <2>5. Len(q) < n /\ Len(q) <= w
    <3> HIDE DEF l, n, q, w
    <3> QED
      BY <1>1, <1>2, <1>6
  <2>6. Countable(q)
    BY <2>4, <2>5 DEF Countable
  <2>7. l % w = l /\ n % w # l
    <3>1. l % w = l
      BY <2>3, ShortLength
    <3>2. CASE n = w
      <4> HIDE DEF l, n, w
      <4>1. (w * 1 + 0) % w = 0
        BY <1>2, ModUnique
      <4>2. w * 1 + 0 = w
        BY <1>2
      <4> QED
        BY <2>3, <3>1, <3>2, <4>1, <4>2
    <3>3. CASE n # w
      <4>1. n \in 0 .. w - 1
        BY <1>2, <3>3
      <4> QED
        BY <1>6, <3>1, <4>1, ShortLength
    <3> QED
      BY <3>1, <3>2, <3>3
  <2>8. ~isStrEqual(p, g) /\ ~isStrEqual(g, p)
    <3>1. Len(p) \in Nat /\ Len(g) \in Nat
      BY <1>1, <1>2
    <3> QED
      BY <2>7, <3>1, EqualIs
  <2>9. Onward(p) = q
    BY <2>7 DEF Onward, strlen, Rest
  <2>10. p # <<>>
    BY <1>1, <2>3
  <2>11. NamesIn(p) # <<>>
    BY <2>1, <2>2
  <2> QED
    BY <1>6, <2>1, <2>5, <2>6, <2>8, <2>9, <2>10, <2>11
<1> QED
  BY <1>5, <1>6

\* What each of the three loops finds for a path, if the next is shorter.
OnWay(w) ==
  \A p \in Seq(Chars) :
    w[p] = IF isStrEqual(get_parent(p), p) THEN <<>> ELSE <<get_parent(p)>> \o w[Onward(p)]

OfGoal(w) ==
  \A p \in Seq(Chars) :
    w[p] = IF p = <<>> THEN <<>>
           ELSE IF isStrEqual(p, get_parent(p)) THEN <<p>> ELSE <<get_parent(p)>> \o w[Onward(p)]

OfName(w) ==
  \A p \in Seq(Chars) : w[p] = IF Rest(p) = <<>> THEN get_parent(p) ELSE w[Rest(p)]

\* It is shorter, but for an empty path, which is its own parent.
LEMMA PathsShorten ==
  ASSUME NEW p \in Seq(Chars)
  PROVE  /\ get_parent(p) \in Seq(Chars) /\ Onward(p) \in Seq(Chars) /\ Rest(p) \in Seq(Chars)
         /\ p # <<>> => Len(Onward(p)) < Len(p) /\ Len(Rest(p)) < Len(p)
         /\ p = <<>> => isStrEqual(get_parent(p), p) /\ Rest(p) = <<>>
<1> DEFINE g == get_parent(p)
           l == Len(g)
           n == Len(p)
           q == Rest(p)
           s == strlen(g)
           o == SubSeq(p, s + 2, n)
<1>1. /\ l \in 0 .. n /\ g \in Seq(Chars) /\ q \in Seq(Chars) /\ (l = n => g = p /\ q = <<>>)
      /\ l < n => Len(q) = n - l - 1
  BY RestIs
<1>2. n \in Nat /\ Len(q) \in Nat /\ s \in Nat /\ \A i \in 1 .. n : p[i] \in Chars
  <2>1. n \in Nat /\ Len(q) \in Nat /\ l \in Nat /\ \A i \in 1 .. n : p[i] \in Chars
    BY <1>1
  <2>2. s \in Nat
    BY <2>1, EqualIs DEF strlen
  <2> QED
    BY <2>1, <2>2
<1>3. Onward(p) = o
  BY DEF Onward
<1> HIDE DEF s
<1>4. o \in Seq(Chars) /\ Len(o) = IF s + 2 <= n THEN n - (s + 2) + 1 ELSE 0
  <2>1. \A i \in s + 2 .. n : p[i] \in Chars
    BY <1>2
  <2>2. s + 2 \in Int /\ n \in Int
    BY <1>2
  <2> QED
    BY <2>1, <2>2, SubSeqProperties
<1> HIDE DEF o
<1>5. p # <<>> => n >= 1
  OBVIOUS
<1>6. p = <<>> => n = 0
  OBVIOUS
<1>7. n = 0 => isStrEqual(g, p) /\ q = <<>>
  <2>1. n = 0 => l = n /\ g = p
    BY <1>1
  <2> QED
    BY <1>1, <1>2, <2>1, EqualIs
<1>8. p # <<>> => Len(o) < n /\ Len(q) < n
  <2>1. l = n => Len(q) = 0
    BY <1>1
  <2> HIDE DEF n, q, l
  <2> QED
    BY <1>1, <1>2, <1>4, <1>5, <2>1
<1> QED
  BY <1>1, <1>3, <1>4, <1>6, <1>7, <1>8

\* So each of them is a function of every path.
LEMMA WaysExist ==
  /\ \E w : OnWay(w) /\ w = [p \in Seq(Chars) |-> w[p]]
  /\ \E w : OfGoal(w) /\ w = [p \in Seq(Chars) |-> w[p]]
  /\ \E w : OfName(w) /\ w = [p \in Seq(Chars) |-> w[p]]
<1> DEFINE A == Seq(Chars)
           D == Seq(A)
           rank == [p \in A |-> Len(p)]
           S1 == {p \in A : isStrEqual(get_parent(p), p)}
           S2 == {p \in A : p = <<>> \/ isStrEqual(p, get_parent(p))}
           S3 == {p \in A : Rest(p) = <<>>}
           v1 == [p \in A |-> <<>>]
           v2 == [p \in A |-> IF p = <<>> THEN <<>> ELSE <<p>>]
           v3 == [p \in A |-> get_parent(p)]
           n1 == [p \in A |-> IF p \in S1 THEN p ELSE Onward(p)]
           n2 == [p \in A |-> IF p \in S2 THEN p ELSE Onward(p)]
           n3 == [p \in A |-> Rest(p)]
           G  == [x \in A \X D |-> <<get_parent(x[1])>> \o x[2]]
           G3 == [x \in A \X A |-> x[2]]
<1>1. rank \in [A -> Nat] /\ S1 \in SUBSET A /\ S2 \in SUBSET A /\ S3 \in SUBSET A
  OBVIOUS
<1>2. /\ \A p \in A : get_parent(p) \in A /\ Onward(p) \in A /\ Rest(p) \in A
      /\ \A p \in A \ S1 : p # <<>> /\ Len(Onward(p)) < Len(p)
      /\ \A p \in A \ S2 : p # <<>> /\ Len(Onward(p)) < Len(p)
      /\ \A p \in A \ S3 : p # <<>> /\ Len(Rest(p)) < Len(p)
  BY PathsShorten
<1> HIDE DEF A, S1, S2, S3
<1>3. v1 \in [A -> D] /\ v2 \in [A -> D] /\ v3 \in [A -> A]
  BY <1>2
<1>4. n1 \in [A -> A] /\ n2 \in [A -> A] /\ n3 \in [A -> A]
  BY <1>2
<1>5. G \in [A \X D -> D] /\ G3 \in [A \X A -> A]
  <2>1. ASSUME NEW p \in A, NEW s \in D PROVE <<get_parent(p)>> \o s \in D
    <3>1. get_parent(p) \in A
      BY <1>2
    <3> QED
      BY <3>1, InFront
  <2> HIDE DEF D
  <2>2. \A x \in A \X D : <<get_parent(x[1])>> \o x[2] \in D
    BY <2>1
  <2> QED
    BY <2>2
<1> HIDE DEF D
<1>6. /\ \A p \in A \ S1 : rank[n1[p]] < rank[p]
      /\ \A p \in A \ S2 : rank[n2[p]] < rank[p]
      /\ \A p \in A \ S3 : rank[n3[p]] < rank[p]
  <2>1. \A p \in A : rank[p] = Len(p)
    OBVIOUS
  <2>2. /\ \A p \in A \ S1 : n1[p] = Onward(p) /\ n1[p] \in A
        /\ \A p \in A \ S2 : n2[p] = Onward(p) /\ n2[p] \in A
        /\ \A p \in A \ S3 : n3[p] = Rest(p) /\ n3[p] \in A
    BY <1>2
  <2> HIDE DEF rank, n1, n2, n3
  <2> QED
    BY <1>2, <2>1, <2>2
<1>7. /\ Descends(A, D, rank, S1, v1, n1, G) /\ Descends(A, D, rank, S2, v2, n2, G)
      /\ Descends(A, A, rank, S3, v3, n3, G3)
  <2> HIDE DEF rank, n1, n2, n3, v1, v2, v3, G, G3
  <2> QED
    BY <1>1, <1>3, <1>4, <1>5, <1>6 DEF Descends
<1>8. \E w : OnWay(w) /\ w = [p \in A |-> w[p]]
  <2>1. PICK w \in [A -> D] : Follows(w, A, S1, v1, n1, G)
    <3> HIDE DEF rank, n1, v1, G
    <3> QED
      BY <1>7, Descending
  <2>2. ASSUME NEW p \in A
        PROVE  w[p] = IF isStrEqual(get_parent(p), p) THEN <<>> ELSE <<get_parent(p)>> \o w[Onward(p)]
    <3>1. w[p] = IF p \in S1 THEN v1[p] ELSE G[<<p, w[n1[p]]>>]
      <4> HIDE DEF n1, v1, G
      <4> QED
        BY <2>1 DEF Follows
    <3>2. CASE p \in S1
      <4>1. isStrEqual(get_parent(p), p)
        BY <3>2 DEF S1
      <4> QED
        BY <3>1, <3>2, <4>1
    <3>3. CASE p \notin S1
      <4>1. ~isStrEqual(get_parent(p), p) /\ n1[p] = Onward(p) /\ Onward(p) \in A
        BY <1>2, <3>3 DEF S1
      <4>2. G[<<p, w[Onward(p)]>>] = <<get_parent(p)>> \o w[Onward(p)]
        BY <4>1
      <4> QED
        BY <3>1, <3>3, <4>1, <4>2
    <3> QED
      BY <3>2, <3>3
  <2>3. w = [p \in A |-> w[p]]
    OBVIOUS
  <2> QED
    BY <2>2, <2>3 DEF OnWay, A
<1>9. \E w : OfGoal(w) /\ w = [p \in A |-> w[p]]
  <2>1. PICK w \in [A -> D] : Follows(w, A, S2, v2, n2, G)
    <3> HIDE DEF rank, n2, v2, G
    <3> QED
      BY <1>7, Descending
  <2>2. ASSUME NEW p \in A
        PROVE  w[p] = IF p = <<>> THEN <<>>
                      ELSE IF isStrEqual(p, get_parent(p)) THEN <<p>>
                      ELSE <<get_parent(p)>> \o w[Onward(p)]
    <3>1. w[p] = IF p \in S2 THEN v2[p] ELSE G[<<p, w[n2[p]]>>]
      <4> HIDE DEF n2, v2, G
      <4> QED
        BY <2>1 DEF Follows
    <3>2. CASE p \in S2
      <4>1. p = <<>> \/ isStrEqual(p, get_parent(p))
        BY <3>2 DEF S2
      <4> QED
        BY <3>1, <3>2, <4>1
    <3>3. CASE p \notin S2
      <4>1. p # <<>> /\ ~isStrEqual(p, get_parent(p)) /\ n2[p] = Onward(p) /\ Onward(p) \in A
        BY <1>2, <3>3 DEF S2
      <4>2. G[<<p, w[Onward(p)]>>] = <<get_parent(p)>> \o w[Onward(p)]
        BY <4>1
      <4> QED
        BY <3>1, <3>3, <4>1, <4>2
    <3> QED
      BY <3>2, <3>3
  <2>3. w = [p \in A |-> w[p]]
    OBVIOUS
  <2> QED
    BY <2>2, <2>3 DEF OfGoal, A
<1>10. \E w : OfName(w) /\ w = [p \in A |-> w[p]]
  <2>1. PICK w \in [A -> A] : Follows(w, A, S3, v3, n3, G3)
    <3> HIDE DEF rank, n3, v3, G3
    <3> QED
      BY <1>7, Descending
  <2>2. ASSUME NEW p \in A PROVE w[p] = IF Rest(p) = <<>> THEN get_parent(p) ELSE w[Rest(p)]
    <3>1. w[p] = IF p \in S3 THEN v3[p] ELSE G3[<<p, w[n3[p]]>>]
      <4> HIDE DEF n3, v3, G3
      <4> QED
        BY <2>1 DEF Follows
    <3>2. p \in S3 <=> Rest(p) = <<>>
      BY DEF S3
    <3>3. v3[p] = get_parent(p) /\ n3[p] = Rest(p) /\ Rest(p) \in A
      BY <1>2
    <3>4. G3[<<p, w[Rest(p)]>>] = w[Rest(p)]
      BY <3>3
    <3> QED
      BY <3>1, <3>2, <3>3, <3>4
  <2>3. w = [p \in A |-> w[p]]
    OBVIOUS
  <2> QED
    BY <2>2, <2>3 DEF OfName, A
<1> QED
  BY <1>8, <1>9, <1>10 DEF A

\* Whatever way they find, it is that of the names.
LEMMA WaysAre ==
  ASSUME NEW w1, OnWay(w1), NEW w2, OfGoal(w2), NEW w3, OfName(w3),
         NEW path \in Seq(Chars), Countable(path)
  PROVE  w1[path] = Front(NamesIn(path)) /\ w2[path] = NamesIn(path) /\ w3[path] = Last(NamesIn(path))
<1> DEFINE A == Seq(Chars)
           N == Len(path)
           Agrees(p) == w1[p] = Front(NamesIn(p)) /\ w2[p] = NamesIn(p) /\ w3[p] = Last(NamesIn(p))
           S == {n \in 0 .. N : \A p \in A : Countable(p) /\ Len(p) <= n => Agrees(p)}
<1>1. N \in Nat /\ S \in SUBSET (0 .. N)
  OBVIOUS
<1>2. ASSUME NEW p \in A, Countable(p),
             Len(get_parent(p)) # Len(p) => Agrees(Rest(p))
      PROVE  Agrees(p)
  <2> DEFINE g == get_parent(p)
             q == Rest(p)
             D == Seq(Chars)
  <2>1. /\ w1[p] = IF isStrEqual(g, p) THEN <<>> ELSE <<g>> \o w1[Onward(p)]
        /\ w2[p] = IF p = <<>> THEN <<>> ELSE IF isStrEqual(p, g) THEN <<p>> ELSE <<g>> \o w2[Onward(p)]
        /\ w3[p] = IF q = <<>> THEN g ELSE w3[q]
    BY DEF OnWay, OfGoal, OfName
  <2>2. g \in D /\ q \in D /\ NamesIn(q) \in Seq(D)
    <3>1. g \in D /\ q \in D
      BY RestIs
    <3> QED
      BY <3>1, NamesAre
  <2> HIDE DEF g, q
  <2>3. CASE Len(g) = Len(p)
    <3>1. NamesIn(p) = <<p>> /\ g = p /\ q = <<>> /\ p # <<>> /\ isStrEqual(p, g) /\ isStrEqual(g, p)
      BY <1>2, <2>3, NextName DEF g, q
    <3>2. Front(<<p>>) = <<>> /\ Last(<<p>>) = p
      BY FrontAndLast
    <3> QED
      BY <2>1, <3>1, <3>2
  <2>4. CASE Len(g) # Len(p)
    <3>1. /\ NamesIn(p) = <<g>> \o NamesIn(q) /\ p # <<>> /\ Onward(p) = q /\ Countable(q)
          /\ ~isStrEqual(p, g) /\ ~isStrEqual(g, p)
      BY <1>2, <2>4, NextName DEF g, q
    <3>2. q # <<>> /\ NamesIn(q) # <<>>
      BY <2>2, <3>1, NextName
    <3>3. Agrees(q)
      BY <1>2, <2>4 DEF g, q
    <3> HIDE DEF D
    <3>4. /\ Front(<<g>> \o NamesIn(q)) = <<g>> \o Front(NamesIn(q))
          /\ Last(<<g>> \o NamesIn(q)) = Last(NamesIn(q))
      BY <2>2, <3>2, FrontAndLast
    <3> QED
      BY <2>1, <3>1, <3>2, <3>3, <3>4
  <2> QED
    BY <2>3, <2>4
<1> HIDE DEF Agrees
<1>3. 0 \in S
  <2> SUFFICES ASSUME NEW p \in A, Countable(p), Len(p) <= 0 PROVE FALSE
    BY <1>1
  <2>1. p # <<>>
    BY NextName
  <2>2. Len(p) >= 1
    BY <2>1
  <2> QED
    BY <2>2
<1>4. ASSUME NEW n \in 0 .. N - 1, n \in S PROVE n + 1 \in S
  <2> SUFFICES ASSUME NEW p \in A, Countable(p), Len(p) <= n + 1 PROVE Agrees(p)
    BY <1>1, <1>4
  <2>1. ASSUME Len(get_parent(p)) # Len(p) PROVE Agrees(Rest(p))
    <3>1. Countable(Rest(p)) /\ Len(Rest(p)) < Len(p)
      BY <2>1, NextName
    <3>2. Rest(p) \in A
      BY RestIs
    <3>3. Len(Rest(p)) <= n
      <4>1. Len(Rest(p)) \in Nat /\ Len(p) \in Nat
        BY <3>2
      <4> QED
        BY <3>1, <4>1
    <3> QED
      BY <1>4, <3>1, <3>2, <3>3
  <2> QED
    BY <1>2, <2>1
<1> HIDE DEF S
<1>5. S = 0 .. N
  BY <1>1, <1>3, <1>4, AllUpTo
<1>6. N \in S
  BY <1>1, <1>5
<1> QED
  BY <1>6 DEF S, Agrees

\* The functions of the shell take this way.
LEMMA WaysTaken ==
  ASSUME NEW path \in Seq(Chars), Countable(path)
  PROVE  /\ FoldersOnWay(path) = Front(NamesIn(path)) /\ FoldersOfGoal(path) = NamesIn(path)
         /\ get_only_filename(path) = parse_filename(Last(NamesIn(path)))
<1> DEFINE One(h) == h = [p \in Seq(Chars) |->
                            IF isStrEqual(get_parent(p), p) THEN <<>>
                            ELSE <<get_parent(p)>> \o h[Onward(p)]]
           Two(h) == h = [p \in Seq(Chars) |->
                            IF p = <<>> THEN <<>>
                            ELSE IF isStrEqual(p, get_parent(p)) THEN <<p>>
                            ELSE <<get_parent(p)>> \o h[Onward(p)]]
           Three(h) == h = [p \in Seq(Chars) |->
                              IF SubSeq(p, Len(get_parent(p)) + 2, Len(p)) = <<>> THEN get_parent(p)
                              ELSE h[SubSeq(p, Len(get_parent(p)) + 2, Len(p))]]
           w1 == CHOOSE h : One(h)
           w2 == CHOOSE h : Two(h)
           w3 == CHOOSE h : Three(h)
<1>1. One(w1) /\ OnWay(w1)
  <2>1. PICK w : OnWay(w) /\ w = [p \in Seq(Chars) |-> w[p]]
    BY WaysExist
  <2>2. One(w)
    BY <2>1 DEF OnWay
  <2>3. One(w1)
    BY <2>2
  <2> HIDE DEF w1
  <2> QED
    BY <2>3 DEF OnWay
<1>2. Two(w2) /\ OfGoal(w2)
  <2>1. PICK w : OfGoal(w) /\ w = [p \in Seq(Chars) |-> w[p]]
    BY WaysExist
  <2>2. Two(w)
    BY <2>1 DEF OfGoal
  <2>3. Two(w2)
    BY <2>2
  <2> HIDE DEF w2
  <2> QED
    BY <2>3 DEF OfGoal
<1>3. Three(w3) /\ OfName(w3)
  <2>1. PICK w : OfName(w) /\ w = [p \in Seq(Chars) |-> w[p]]
    BY WaysExist
  <2>2. Three(w)
    BY <2>1 DEF OfName, Rest
  <2>3. Three(w3)
    BY <2>2
  <2> HIDE DEF w3
  <2> QED
    BY <2>3 DEF OfName, Rest
<1>4. FoldersOnWay(path) = w1[path]
  BY DEF FoldersOnWay
<1>5. FoldersOfGoal(path) = w2[path]
  BY DEF FoldersOfGoal
<1>6. get_only_filename(path) = parse_filename(w3[path])
  BY DEF get_only_filename
<1> HIDE DEF w1, w2, w3
<1> QED
  BY <1>1, <1>2, <1>3, <1>4, <1>5, <1>6, WaysAre

\* A file name is cut at its first dot.
LEMMA FileIsNamed ==
  ASSUME NEW file \in Seq(Chars), Len(file) < STRLEN_RANGE
  PROVE  FileNamed(parse_filename(file), file)
<1> DEFINE n == Len(file)
           b == Before(file, {DOT})
           m == Len(b)
           j == IF m + 4 <= n THEN m + 4 ELSE n
           e == IF m = n THEN <<>> ELSE SubSeq(file, m + 2, j)
           f == [name |-> b, ext |-> e]
<1>1. /\ b \in Seq(Chars) /\ m \in 0 .. n
      /\ \A i \in 1 .. m : b[i] = file[i] /\ file[i] # DOT
      /\ m < n => file[m + 1] = DOT
  BY BeforeIs
<1> HIDE DEF b
<1>2. n \in Nat /\ DOMAIN file = 1 .. n /\ m \in Nat /\ DOMAIN b = 1 .. m /\ \A i \in 1 .. n : file[i] \in Chars
  BY <1>1
<1>3. strlen(file) = n
  <2>1. n \in 0 .. STRLEN_RANGE - 1
    BY <1>2, StringsAssumption
  <2> QED
    BY <2>1, ShortLength DEF strlen
<1>4. SubSeq(file, 1, n) = file
  BY SubSeqFull
<1> HIDE DEF n, m
<1>5. Min({m + 4, n}) = j
  <2>1. {m + 4, n} \in SUBSET Nat /\ {m + 4, n} # {}
    BY <1>2
  <2>2. Min({m + 4, n}) \in {m + 4, n} /\ \A y \in {m + 4, n} : Min({m + 4, n}) <= y
    BY <2>1, MinIsLeast
  <2> QED
    BY <1>2, <2>2
<1>6. parse_filename(file) = f
  <2>1. Before(SubSeq(file, 1, strlen(file)), {DOT}) = b
    BY <1>3, <1>4 DEF b
  <2>2. parse_filename(file) = [name |-> b, ext |-> IF Len(b) = strlen(file) THEN <<>>
                                                   ELSE SubSeq(file, Len(b) + 2, Min({Len(b) + 4, Len(file)}))]
    BY <2>1 DEF parse_filename
  <2> QED
    BY <1>3, <1>5, <2>2 DEF m, n
<1>7. f.name = b /\ f.ext = e
  OBVIOUS
<1> HIDE DEF f
<1>8. CASE m = n
  <2>1. b = file
    <3>1. Len(b) = Len(file) /\ \A i \in 1 .. Len(b) : b[i] = file[i]
      BY <1>1, <1>8 DEF m, n
    <3> QED
      BY <1>1, <3>1, SeqEqual
  <2>2. DOT \notin {file[k] : k \in DOMAIN file}
    BY <1>1, <1>2, <1>8
  <2> QED
    BY <1>6, <1>8, <2>1, <2>2 DEF FileNamed, f
<1>9. CASE m # n
  <2>1. m < n /\ file[m + 1] = DOT /\ m + 1 \in 1 .. n
    BY <1>1, <1>2, <1>9
  <2>2. DOT \in {file[k] : k \in DOMAIN file}
    BY <1>2, <2>1
  <2>3. DOT \notin {b[k] : k \in DOMAIN b}
    BY <1>1, <1>2
  <2> DEFINE x == SubSeq(file, m + 2, j)
             h == b \o <<DOT>>
             u == h \o x
  <2>4. e = x
    BY <1>9
  <2>5. j \in Nat /\ j <= n /\ j <= m + 4 /\ (j < m + 4 => j = n) /\ j >= m + 1
    BY <1>2, <2>1
  <2> HIDE DEF j
  <2>6. x \in Seq(Chars) /\ Len(x) = j - m - 1 /\ \A i \in 1 .. j - m - 1 : x[i] = file[m + 1 + i]
    <3>1. m + 2 \in Int /\ j \in Int /\ j - (m + 2) + 1 = j - m - 1 /\ (m + 2 <= j \/ j - m - 1 = 0)
      BY <1>2, <2>5
    <3>2. \A i \in m + 2 .. j : file[i] \in Chars
      BY <1>2, <2>5
    <3>3. \A i \in 1 .. j - m - 1 : (m + 2) + i - 1 = m + 1 + i
      BY <1>2, <2>5
    <3>4. /\ x \in Seq(Chars) /\ Len(x) = IF m + 2 <= j THEN j - (m + 2) + 1 ELSE 0
          /\ \A i \in 1 .. j - (m + 2) + 1 : x[i] = file[(m + 2) + i - 1]
      BY <3>1, <3>2, SubSeqProperties
    <3> HIDE DEF x
    <3>5. Len(x) = j - m - 1
      BY <1>2, <2>5, <3>1, <3>4
    <3>6. \A i \in 1 .. j - m - 1 : x[i] = file[m + 1 + i]
      BY <3>1, <3>3, <3>4
    <3> QED
      BY <3>4, <3>5, <3>6
  <2> HIDE DEF x
  <2>7. h \in Seq(Chars) /\ Len(h) = m + 1 /\ \A i \in 1 .. m + 1 : h[i] = file[i]
    <3>1. <<DOT>> \in Seq(Chars) /\ Len(<<DOT>>) = 1 /\ <<DOT>>[1] = DOT
      BY DEF Chars, DOT
    <3>2. h \in Seq(Chars) /\ Len(h) = m + 1 /\ \A i \in 1 .. m + 1 : h[i] = IF i <= m THEN b[i] ELSE <<DOT>>[i - m]
      BY <1>1, <3>1, ConcatProperties DEF m
    <3> HIDE DEF h
    <3>3. ASSUME NEW i \in 1 .. m + 1 PROVE h[i] = file[i]
      <4>1. CASE i <= m
        <5>1. i \in 1 .. m
          BY <1>2, <4>1
        <5> QED
          BY <1>1, <3>2, <4>1, <5>1
      <4>2. CASE ~(i <= m)
        <5>1. i = m + 1 /\ i - m = 1
          BY <1>2, <4>2
        <5> QED
          BY <2>1, <3>1, <3>2, <4>2, <5>1
      <4> QED
        BY <4>1, <4>2
    <3> QED
      BY <3>2, <3>3
  <2> HIDE DEF h
  <2>8. u \in Seq(Chars) /\ Len(u) = j /\ \A i \in 1 .. j : u[i] = file[i]
    <3>1. /\ u \in Seq(Chars) /\ Len(u) = Len(h) + Len(x)
          /\ \A i \in 1 .. Len(h) + Len(x) : u[i] = IF i <= Len(h) THEN h[i] ELSE x[i - Len(h)]
      BY <2>6, <2>7, ConcatProperties
    <3> HIDE DEF u
    <3>2. Len(h) + Len(x) = j
      BY <1>2, <2>5, <2>6, <2>7
    <3>3. ASSUME NEW i \in 1 .. j PROVE u[i] = file[i]
      <4>1. CASE i <= m + 1
        <5>1. i \in 1 .. m + 1
          BY <1>2, <4>1
        <5> QED
          BY <2>7, <3>1, <3>2, <4>1, <5>1
      <4>2. CASE ~(i <= m + 1)
        <5>1. i - (m + 1) \in 1 .. j - m - 1 /\ m + 1 + (i - (m + 1)) = i
          BY <1>2, <2>5, <4>2
        <5> QED
          BY <2>6, <2>7, <3>1, <3>2, <4>2, <5>1
      <4> QED
        BY <4>1, <4>2
    <3> QED
      BY <3>1, <3>2, <3>3
  <2> HIDE DEF u
  <2>9. IsPrefix(u, file)
    <3>1. SubSeq(u, 1, j) = u
      BY <2>8, SubSeqFull
    <3>2. \A i \in 1 .. j : 1 + i - 1 = i /\ file[i] \in Chars
      BY <1>2, <2>5
    <3>3. 1 \in Int /\ j \in Int /\ j - 1 + 1 = j /\ (1 <= j \/ j = 0)
      BY <2>5
    <3>4. /\ SubSeq(file, 1, j) \in Seq(Chars) /\ Len(SubSeq(file, 1, j)) = j
          /\ \A i \in 1 .. j : SubSeq(file, 1, j)[i] = file[i]
      BY <3>2, <3>3, SubSeqProperties
    <3> DEFINE s == SubSeq(file, 1, j)
    <3> HIDE DEF s
    <3>5. s = u
      <4>1. s \in Seq(Chars) /\ Len(s) = Len(u) /\ \A i \in 1 .. Len(s) : s[i] = u[i]
        BY <2>8, <3>4 DEF s
      <4> QED
        BY <2>8, <4>1, SeqEqual
    <3> QED
      BY <2>5, <2>8, <3>1, <3>5 DEF IsPrefix, s, n
  <2>10. Len(x) < 3 => n = m + 1 + Len(x)
    BY <1>2, <2>5, <2>6
  <2> QED
    BY <1>6, <1>7, <2>2, <2>3, <2>4, <2>9, <2>10 DEF FileNamed, u, h, n, m
<1> QED
  BY <1>8, <1>9

\* Where a string stands it is one of bytes.
LEMMA PathsAre == memory \in Memories => PathsTakenApart
<1> SUFFICES ASSUME memory \in Memories,
                    NEW s \in {a \in Addresses : Terminated(memory, a)}
             PROVE  \E path \in {StringAt(memory, s)} :
                      /\ Len(path) <= STRLEN_RANGE
                      /\ \A k \in DOMAIN NamesIn(path) : Len(NamesIn(path)[k]) \in 1 .. STRLEN_RANGE - 1
                      => /\ FoldersOnWay(path) = Front(NamesIn(path))
                         /\ FoldersOfGoal(path) = NamesIn(path)
                         /\ FileNamed(get_only_filename(path), Last(NamesIn(path)))
  BY DEF PathsTakenApart
<1> DEFINE path == StringAt(memory, s)
<1>1. path \in Seq(Chars)
  <2>1. s \in Nat /\ Terminated(memory, s)
    BY StringsAssumption DEF Addresses
  <2> QED
    BY <2>1, StringEnds
<1> HIDE DEF path
<1> SUFFICES ASSUME Countable(path)
             PROVE  /\ FoldersOnWay(path) = Front(NamesIn(path)) /\ FoldersOfGoal(path) = NamesIn(path)
                    /\ FileNamed(get_only_filename(path), Last(NamesIn(path)))
  BY DEF Countable, path
<1>2. /\ FoldersOnWay(path) = Front(NamesIn(path)) /\ FoldersOfGoal(path) = NamesIn(path)
      /\ get_only_filename(path) = parse_filename(Last(NamesIn(path)))
  BY <1>1, WaysTaken
<1>3. Last(NamesIn(path)) \in Seq(Chars) /\ Len(Last(NamesIn(path))) < STRLEN_RANGE
  <2> DEFINE ns == NamesIn(path)
             D == Seq(Chars)
  <2>1. ns \in Seq(D) /\ ns # <<>>
    BY <1>1, NamesAre, NextName
  <2> HIDE DEF ns, D
  <2>2. Len(ns) \in DOMAIN ns /\ ns[Len(ns)] \in D
    BY <2>1
  <2>3. Len(ns[Len(ns)]) \in 1 .. STRLEN_RANGE - 1
    BY <2>2 DEF Countable, ns
  <2> QED
    BY <2>2, <2>3, StringsAssumption DEF Last, ns, D
<1>4. FileNamed(parse_filename(Last(NamesIn(path))), Last(NamesIn(path)))
  BY <1>3, FileIsNamed
<1> QED
  BY <1>2, <1>4

-----------------------------------------------------------------------------
(* Numbers *)

\* What reading the characters of a string from the left comes to.
Reads(v, str) ==
  /\ v[0] = 0
  /\ \A k \in 1 .. Len(str) : v[k] = v[k - 1] * 10 + (str[k] - FirstDigit)

\* strToInt takes one character after the other, from the left.
LEMMA ReadIs ==
  ASSUME NEW str \in Seq(Int)
  PROVE  \E v \in [0 .. Len(str) -> Int] : Reads(v, str) /\ strToInt(str) = v[Len(str)]
<1> DEFINE n == Len(str)
           A == SUBSET (1 .. n)
           Rec(h) == h = [S \in A |-> IF S = {} THEN 0
                                      ELSE h[S \ {Max(S)}] * 10 + (str[Max(S)] - FirstDigit)]
           w == CHOOSE h : Rec(h)
           rank == [S \in A |-> IF S = {} THEN 0 ELSE Max(S)]
           stop == {{}}
           zero == [S \in A |-> 0]
           next == [S \in A |-> S \ {Max(S)}]
           G == [x \in A \X Int |-> x[2] * 10 + (IF x[1] = {} THEN 0 ELSE str[Max(x[1])] - FirstDigit)]
<1>1. n \in Nat /\ DOMAIN str = 1 .. n /\ \A i \in 1 .. n : str[i] \in Int
  OBVIOUS
<1> HIDE DEF n
<1>2. ASSUME NEW S \in A, S # {}
      PROVE  Max(S) \in S /\ Max(S) \in 1 .. n /\ \A y \in S : y <= Max(S)
  <2>1. S \in SUBSET (0 .. n)
    BY <1>1
  <2> QED
    BY <1>1, <1>2, <2>1, MaxIsGreatest
<1>3. strToInt(str) = w[1 .. n]
  BY <1>1 DEF strToInt, FoldLeft, MapThenFoldSet
<1>4. Descends(A, Int, rank, stop, zero, next, G)
  <2>1. rank \in [A -> Nat]
    <3>1. \A S \in A : (IF S = {} THEN 0 ELSE Max(S)) \in Nat
      BY <1>2
    <3> QED
      BY <3>1
  <2>2. stop \in SUBSET A /\ zero \in [A -> Int] /\ next \in [A -> A]
    OBVIOUS
  <2>3. G \in [A \X Int -> Int]
    <3>1. ASSUME NEW S \in A, NEW x \in Int
          PROVE  x * 10 + (IF S = {} THEN 0 ELSE str[Max(S)] - FirstDigit) \in Int
      <4>1. S # {} => str[Max(S)] \in Int
        BY <1>1, <1>2
      <4> HIDE DEF A
      <4> QED
        BY <4>1 DEF FirstDigit
    <3> HIDE DEF A
    <3> QED
      BY <3>1
  <2>4. ASSUME NEW S \in A \ stop PROVE rank[next[S]] < rank[S]
    <3> DEFINE T == S \ {Max(S)}
    <3>1. S # {} /\ S \in A /\ T \in A /\ next[S] = T /\ rank[S] = Max(S)
      BY <2>4
    <3>2. Max(S) \in 1 .. n /\ \A y \in S : y <= Max(S)
      BY <1>2, <3>1
    <3>3. CASE T = {}
      BY <3>1, <3>2, <3>3
    <3>4. CASE T # {}
      <4>1. Max(T) \in T /\ Max(T) \in 1 .. n
        BY <1>2, <3>1, <3>4
      <4>2. Max(T) # Max(S) /\ Max(T) <= Max(S)
        BY <3>2, <4>1
      <4>3. rank[T] = Max(T)
        BY <3>1, <3>4
      <4> QED
        BY <3>1, <3>2, <4>1, <4>2, <4>3
    <3> QED
      BY <3>3, <3>4
  <2> HIDE DEF A, rank, stop, zero, next, G
  <2> QED
    BY <2>1, <2>2, <2>3, <2>4 DEF Descends
<1>5. Rec(w)
  <2>1. PICK h \in [A -> Int] : Follows(h, A, stop, zero, next, G)
    <3> HIDE DEF A, rank, stop, zero, next, G
    <3> QED
      BY <1>4, Descending
  <2>2. ASSUME NEW S \in A
        PROVE  h[S] = IF S = {} THEN 0 ELSE h[S \ {Max(S)}] * 10 + (str[Max(S)] - FirstDigit)
    <3>1. h[S] = IF S \in stop THEN zero[S] ELSE G[<<S, h[next[S]]>>]
      <4> HIDE DEF A, stop, zero, next, G
      <4> QED
        BY <2>1 DEF Follows
    <3>2. CASE S = {}
      BY <3>1, <3>2
    <3>3. CASE S # {}
      <4>1. next[S] = S \ {Max(S)} /\ S \ {Max(S)} \in A /\ S \notin stop /\ zero[S] = 0
        BY <3>3
      <4>2. h[S \ {Max(S)}] \in Int
        BY <2>1, <4>1
      <4>3. G[<<S, h[S \ {Max(S)}]>>] = h[S \ {Max(S)}] * 10 + (str[Max(S)] - FirstDigit)
        BY <3>3, <4>2
      <4> QED
        BY <3>1, <3>3, <4>1, <4>3
    <3> QED
      BY <3>2, <3>3
  <2>3. Rec(h)
    BY <2>1, <2>2
  <2> QED
    BY <2>3
<1> HIDE DEF w
<1> DEFINE v == [k \in 0 .. n |-> w[1 .. k]]
<1>6. \A k \in 0 .. n : v[k] = w[1 .. k]
  OBVIOUS
<1>7. v[0] = 0
  <2>1. 1 .. 0 = {} /\ {} \in A /\ 0 \in 0 .. n
    BY <1>1
  <2>2. w[{}] = 0
    BY <1>5, <2>1
  <2> QED
    BY <2>1, <2>2
<1>8. ASSUME NEW k \in 1 .. n PROVE v[k] = v[k - 1] * 10 + (str[k] - FirstDigit)
  <2> DEFINE S == 1 .. k
  <2>1. S \in A /\ S # {} /\ k \in S
    <3>1. k \in S
      OBVIOUS
    <3>2. \A i \in S : i \in 1 .. n
      BY <1>1
    <3> HIDE DEF S
    <3> QED
      BY <3>1, <3>2
  <2>2. Max(S) = k
    <3> DEFINE m == Max(S)
    <3>1. m \in S /\ k <= m
      BY <1>2, <2>1
    <3> HIDE DEF m
    <3>2. m = k
      BY <3>1
    <3> QED
      BY <3>2 DEF m
  <2>3. S \ {k} = 1 .. k - 1 /\ k - 1 \in 0 .. n /\ k \in 0 .. n
    BY <1>1
  <2>4. w[S] = w[S \ {Max(S)}] * 10 + (str[Max(S)] - FirstDigit)
    <3> HIDE DEF S
    <3> QED
      BY <1>5, <2>1
  <2> HIDE DEF v
  <2>5. v[k] = w[S] /\ v[k - 1] = w[S \ {k}]
    BY <1>6, <2>3
  <2> QED
    BY <2>2, <2>4, <2>5
<1> HIDE DEF v
<1>9. \A k \in 0 .. n : v[k] \in Int
  <2> DEFINE E == {k \in 0 .. n : v[k] \in Int}
  <2>1. 0 \in E
    BY <1>1, <1>7
  <2>2. ASSUME NEW k \in 0 .. n - 1, k \in E PROVE k + 1 \in E
    <3>1. k + 1 \in 1 .. n /\ (k + 1) - 1 = k /\ v[k] \in Int
      BY <1>1, <2>2
    <3>2. v[k + 1] = v[k] * 10 + (str[k + 1] - FirstDigit)
      BY <1>8, <3>1
    <3>3. str[k + 1] \in Int
      BY <1>1, <3>1
    <3>4. v[k + 1] \in Int
      BY <3>1, <3>2, <3>3 DEF FirstDigit
    <3> QED
      BY <3>1, <3>4
  <2>3. E \in SUBSET (0 .. n)
    OBVIOUS
  <2> HIDE DEF E
  <2>4. E = 0 .. n
    BY <1>1, <2>1, <2>2, <2>3, AllUpTo
  <2> QED
    BY <2>4 DEF E
<1>10. v \in [0 .. n -> Int]
  BY <1>9 DEF v
<1>11. strToInt(str) = v[n]
  BY <1>1, <1>3, <1>6
<1> QED
  BY <1>7, <1>8, <1>10, <1>11 DEF Reads, n

\* Reading nothing, and one character more.
LEMMA ReadMore ==
  /\ strToInt(<<>>) = 0
  /\ \A str \in Seq(Int), c \in Int :
       strToInt(str) \in Int /\ strToInt(Append(str, c)) = strToInt(str) * 10 + (c - FirstDigit)
<1>1. strToInt(<<>>) = 0
  <2>1. <<>> \in Seq(Int) /\ Len(<<>>) = 0
    OBVIOUS
  <2>2. PICK v : Reads(v, <<>>) /\ strToInt(<<>>) = v[Len(<<>>)]
    BY <2>1, ReadIs
  <2> QED
    BY <2>1, <2>2 DEF Reads
<1>2. ASSUME NEW str \in Seq(Int), NEW c \in Int
      PROVE  strToInt(str) \in Int /\ strToInt(Append(str, c)) = strToInt(str) * 10 + (c - FirstDigit)
  <2> DEFINE n == Len(str)
             more == Append(str, c)
  <2>1. /\ more \in Seq(Int) /\ Len(more) = n + 1 /\ more[n + 1] = c /\ n \in Nat
        /\ \A i \in 1 .. n : more[i] = str[i]
    BY AppendProperties
  <2>2. PICK v \in [0 .. n -> Int] : Reads(v, str) /\ strToInt(str) = v[n]
    BY ReadIs
  <2> HIDE DEF more
  <2>3. PICK u \in [0 .. Len(more) -> Int] : Reads(u, more) /\ strToInt(more) = u[Len(more)]
    BY <2>1, ReadIs
  <2> HIDE DEF n
  <2>4. \A k \in 0 .. n : u[k] = v[k]
    <3> DEFINE E == {k \in 0 .. n : u[k] = v[k]}
    <3>1. 0 \in E
      BY <2>1, <2>2, <2>3 DEF Reads
    <3>2. ASSUME NEW k \in 0 .. n - 1, k \in E PROVE k + 1 \in E
      <4>1. k + 1 \in 1 .. n /\ k + 1 \in 1 .. n + 1 /\ (k + 1) - 1 = k /\ u[k] = v[k]
        BY <2>1, <3>2
      <4>2. v[k + 1] = v[(k + 1) - 1] * 10 + (str[k + 1] - FirstDigit)
        BY <2>2, <4>1 DEF Reads, n
      <4>3. u[k + 1] = u[(k + 1) - 1] * 10 + (more[k + 1] - FirstDigit)
        BY <2>1, <2>3, <4>1 DEF Reads
      <4>4. u[k + 1] = v[k + 1]
        BY <2>1, <4>1, <4>2, <4>3
      <4> QED
        BY <4>1, <4>4
    <3>3. E \in SUBSET (0 .. n)
      OBVIOUS
    <3> HIDE DEF E
    <3>4. E = 0 .. n
      BY <2>1, <3>1, <3>2, <3>3, AllUpTo
    <3> QED
      BY <3>4 DEF E
  <2>5. u[n + 1] = u[(n + 1) - 1] * 10 + (more[n + 1] - FirstDigit)
    <3>1. n + 1 \in 1 .. Len(more)
      BY <2>1
    <3> QED
      BY <2>3, <3>1 DEF Reads
  <2>6. (n + 1) - 1 = n /\ n \in 0 .. n
    BY <2>1
  <2>7. strToInt(more) = v[n] * 10 + (c - FirstDigit)
    BY <2>1, <2>3, <2>4, <2>5, <2>6
  <2> QED
    BY <2>2, <2>6, <2>7 DEF more
<1> QED
  BY <1>1, <1>2

\* The digits of a number, the lowest first.
Decimals(d) ==
  /\ \A n \in Nat : d[n] \in Seq(Int)
  /\ \A n \in Nat : d[n] = IF n = 0 THEN <<>> ELSE <<FirstDigit + (n % 10)>> \o d[n \div 10]

\* A number is ten times its tenth and its last digit.
LEMMA TenthIs ==
  ASSUME NEW n \in Nat
  PROVE  /\ n \div 10 \in Nat /\ n % 10 \in 0 .. 9 /\ n = 10 * (n \div 10) + (n % 10)
         /\ n # 0 => n \div 10 < n
<1>1. n \div 10 \in Nat /\ n % 10 \in 0 .. 10 - 1 /\ n = 10 * (n \div 10) + (n % 10)
  BY SMT
<1> DEFINE q == n \div 10
           r == n % 10
<1> HIDE DEF q, r
<1>2. q \in Nat /\ r \in 0 .. 9 /\ n = 10 * q + r
  BY <1>1 DEF q, r
<1>3. n # 0 => q < n
  BY <1>2
<1>4. q \in Nat /\ r \in 0 .. 9 /\ n = 10 * q + r /\ (n # 0 => q < n)
  BY <1>2, <1>3
<1> QED
  BY <1>4 DEF q, r

\* intToStr finds them and turns them round.
LEMMA DigitsFound ==
  \E d : /\ Decimals(d)
         /\ \A num \in Int : intToStr(num) = IF num = 0 THEN <<FirstDigit>>
                                             ELSE IF num < 0 THEN <<>> ELSE Reverse(d[num])
<1> DEFINE Rec(h) == h = [n \in Nat |-> IF n = 0 THEN <<>> ELSE <<FirstDigit + (n % 10)>> \o h[n \div 10]]
           w == CHOOSE h : Rec(h)
           A == Nat
           D == Seq(Int)
           rank == [n \in A |-> n]
           stop == {0}
           none == [n \in A |-> <<>>]
           next == [n \in A |-> n \div 10]
           G == [x \in A \X D |-> <<FirstDigit + (x[1] % 10)>> \o x[2]]
<1>1. \A n \in A : /\ n \div 10 \in A /\ FirstDigit + (n % 10) \in Int
                   /\ n # 0 => n \div 10 < n
  <2>1. \A n \in Nat : n % 10 \in 0 .. 9
    BY TenthIs
  <2>2. \A n \in Nat : FirstDigit + (n % 10) \in Int
    BY <2>1 DEF FirstDigit
  <2> QED
    BY <2>2, TenthIs
<1>2. rank \in [A -> Nat] /\ stop \in SUBSET A /\ none \in [A -> D] /\ next \in [A -> A]
  BY <1>1
<1>3. G \in [A \X D -> D]
  <2>1. ASSUME NEW n \in A, NEW s \in D PROVE <<FirstDigit + (n % 10)>> \o s \in D
    BY <1>1, InFront
  <2> HIDE DEF A, D
  <2> QED
    BY <2>1
<1>4. \A n \in A \ stop : rank[next[n]] < rank[n]
  <2> SUFFICES ASSUME NEW n \in A, n # 0 PROVE rank[next[n]] < rank[n]
    OBVIOUS
  <2>1. next[n] = n \div 10 /\ next[n] \in A /\ n \div 10 < n
    BY <1>1
  <2> QED
    BY <2>1
<1>5. Descends(A, D, rank, stop, none, next, G)
  <2> HIDE DEF A, D, rank, stop, none, next, G
  <2> QED
    BY <1>2, <1>3, <1>4 DEF Descends
<1>6. PICK h \in [A -> D] : Follows(h, A, stop, none, next, G)
  <2> HIDE DEF A, D, rank, stop, none, next, G
  <2> QED
    BY <1>5, Descending
<1>7. ASSUME NEW n \in A PROVE h[n] = IF n = 0 THEN <<>> ELSE <<FirstDigit + (n % 10)>> \o h[n \div 10]
  <2>1. h[n] = IF n \in stop THEN none[n] ELSE G[<<n, h[next[n]]>>]
    <3> HIDE DEF A, D, stop, none, next, G
    <3> QED
      BY <1>6 DEF Follows
  <2>2. next[n] = n \div 10 /\ n \div 10 \in A /\ none[n] = <<>>
    BY <1>1
  <2>3. h[n \div 10] \in D
    BY <1>6, <2>2
  <2> HIDE DEF A, D
  <2>4. G[<<n, h[n \div 10]>>] = <<FirstDigit + (n % 10)>> \o h[n \div 10]
    BY <2>3
  <2> QED
    BY <2>1, <2>2, <2>4
<1>8. Rec(w)
  <2>1. Rec(h)
    BY <1>6, <1>7
  <2> QED
    BY <2>1
<1> HIDE DEF w
<1>9. \A n \in Nat : w[n] = IF n = 0 THEN <<>> ELSE <<FirstDigit + (n % 10)>> \o w[n \div 10]
  BY <1>8
<1>10. ASSUME NEW N \in Nat PROVE w[N] \in Seq(Int)
  <2> DEFINE E == {m \in 0 .. N : \A n \in 0 .. m : w[n] \in Seq(Int)}
  <2>1. 0 \in E
    <3>1. w[0] = <<>>
      BY <1>9
    <3>2. <<>> \in Seq(Int)
      OBVIOUS
    <3>3. \A n \in 0 .. 0 : n = 0
      OBVIOUS
    <3>4. \A n \in 0 .. 0 : w[n] \in Seq(Int)
      BY <3>1, <3>2, <3>3
    <3> QED
      BY <3>4
  <2>2. ASSUME NEW m \in 0 .. N - 1, m \in E PROVE m + 1 \in E
    <3> DEFINE n == m + 1
    <3>1. n \in Nat /\ n # 0 /\ n \div 10 \in 0 .. m
      <4>1. n \in Nat /\ n # 0
        OBVIOUS
      <4>2. n \div 10 \in Nat /\ n \div 10 < n
        BY <4>1, TenthIs
      <4> DEFINE q == n \div 10
      <4> HIDE DEF q
      <4>3. q \in 0 .. m
        BY <4>2 DEF q
      <4> QED
        BY <4>1, <4>3 DEF q
    <3>2. w[n] = <<FirstDigit + (n % 10)>> \o w[n \div 10]
      BY <1>9, <3>1
    <3>3. w[n] \in Seq(Int)
      <4>1. w[n \div 10] \in D
        BY <2>2, <3>1
      <4>2. FirstDigit + (n % 10) \in Int
        BY <1>1, <3>1
      <4> HIDE DEF n
      <4> QED
        BY <3>2, <4>1, <4>2, InFront
    <3>4. \A k \in 0 .. n : k \in 0 .. m \/ k = n
      OBVIOUS
    <3> QED
      BY <2>2, <3>3, <3>4
  <2>3. E \in SUBSET (0 .. N)
    OBVIOUS
  <2> HIDE DEF E
  <2>4. E = 0 .. N
    BY <2>1, <2>2, <2>3, AllUpTo
  <2>5. N \in E /\ N \in 0 .. N
    BY <2>4
  <2> QED
    BY <2>5 DEF E
<1>11. Decimals(w)
  BY <1>9, <1>10 DEF Decimals
<1>12. \A num \in Int : intToStr(num) = IF num = 0 THEN <<FirstDigit>>
                                        ELSE IF num < 0 THEN <<>> ELSE Reverse(w[num])
  BY DEF intToStr, w
<1> QED
  BY <1>11, <1>12

\* The digits of a number are read as the number.
LEMMA DigitsRead ==
  ASSUME NEW d, Decimals(d), NEW N \in Nat
  PROVE  strToInt(Reverse(d[N])) = N
<1> DEFINE E == {m \in 0 .. N : \A n \in 0 .. m : strToInt(Reverse(d[n])) = n}
<1>1. 0 \in E
  <2>1. d[0] = <<>>
    BY DEF Decimals
  <2>2. Reverse(<<>>) = <<>>
    <3>1. <<>> \in Seq(Int) /\ Len(<<>>) = 0
      OBVIOUS
    <3>2. Reverse(<<>>) \in Seq(Int) /\ Len(Reverse(<<>>)) = 0
      BY <3>1, ReverseIs
    <3> DEFINE e == Reverse(<<>>)
    <3> HIDE DEF e
    <3>3. e = <<>>
      BY <3>2, EmptySeq DEF e
    <3> QED
      BY <3>3 DEF e
  <2>3. strToInt(Reverse(d[0])) = 0
    BY <2>1, <2>2, ReadMore
  <2>4. \A n \in 0 .. 0 : n = 0
    OBVIOUS
  <2> QED
    BY <2>3, <2>4
<1>2. ASSUME NEW m \in 0 .. N - 1, m \in E PROVE m + 1 \in E
  <2> DEFINE n == m + 1
             q == n \div 10
             r == n % 10
  <2>1. n \in Nat /\ n # 0 /\ n \in 0 .. N
    OBVIOUS
  <2>2. q \in Nat /\ r \in 0 .. 9 /\ n = 10 * q + r /\ q < n
    BY <2>1, TenthIs
  <2>3. d[n] = <<FirstDigit + r>> \o d[q] /\ d[q] \in Seq(Int)
    BY <2>1, <2>2 DEF Decimals
  <2> HIDE DEF q, r
  <2>4. q \in 0 .. m
    BY <2>2
  <2>5. strToInt(Reverse(d[q])) = q
    BY <1>2, <2>4
  <2> HIDE DEF n
  <2>6. FirstDigit + r \in Int
    BY <2>2 DEF FirstDigit
  <2>7. Reverse(d[n]) = Append(Reverse(d[q]), FirstDigit + r)
    BY <2>3, <2>6, ReverseInFront
  <2>8. Reverse(d[q]) \in Seq(Int)
    BY <2>3, ReverseIs
  <2>9. strToInt(Reverse(d[n])) = q * 10 + ((FirstDigit + r) - FirstDigit)
    BY <2>5, <2>6, <2>7, <2>8, ReadMore
  <2>10. strToInt(Reverse(d[n])) = n
    BY <2>2, <2>9 DEF FirstDigit
  <2>11. \A k \in 0 .. n : k \in 0 .. m \/ k = n
    BY DEF n
  <2>12. \A k \in 0 .. n : strToInt(Reverse(d[k])) = k
    BY <1>2, <2>10, <2>11
  <2> QED
    BY <2>1, <2>12 DEF n
<1>3. E \in SUBSET (0 .. N)
  OBVIOUS
<1> HIDE DEF E
<1>4. E = 0 .. N
  BY <1>1, <1>2, <1>3, AllUpTo
<1>5. N \in E /\ N \in 0 .. N
  BY <1>4
<1> QED
  BY <1>5 DEF E

\* The number read from digits that do not begin with a zero has these.
LEMMA NumberShown ==
  ASSUME NEW d, Decimals(d), NEW str \in Seq(Int), Len(str) >= 1,
         \A k \in 1 .. Len(str) : str[k] \in FirstDigit .. FirstDigit + 9,
         str[1] # FirstDigit
  PROVE  strToInt(str) > 0 /\ strToInt(str) \in Nat /\ Reverse(d[strToInt(str)]) = str
<1> DEFINE n == Len(str)
<1>1. n \in Nat /\ n >= 1 /\ \A k \in 1 .. n : str[k] \in Int /\ str[k] - FirstDigit \in 0 .. 9
  BY DEF FirstDigit
<1>2. PICK v \in [0 .. n -> Int] : Reads(v, str) /\ strToInt(str) = v[n]
  BY ReadIs
<1>3. v[0] = 0 /\ \A k \in 1 .. n : v[k] = v[k - 1] * 10 + (str[k] - FirstDigit)
  BY <1>2 DEF Reads
<1>4. str[1] - FirstDigit # 0
  <2>1. str[1] \in Int
    BY <1>1
  <2> QED
    BY <2>1 DEF FirstDigit
<1> HIDE DEF n
<1> DEFINE Has(k) == /\ v[k] \in Nat /\ (k # 0 => v[k] > 0) /\ Len(d[v[k]]) = k /\ d[v[k]] \in Seq(Int)
                     /\ \A i \in 1 .. k : d[v[k]][i] = str[(k - i) + 1]
           E == {k \in 0 .. n : Has(k)}
<1>5. 0 \in E
  <2>1. v[0] = 0
    BY <1>3
  <2>2. d[0] = <<>>
    BY DEF Decimals
  <2>3. Len(<<>>) = 0 /\ <<>> \in Seq(Int)
    OBVIOUS
  <2>4. Has(0)
    BY <2>1, <2>2, <2>3
  <2>5. 0 \in 0 .. n
    BY <1>1
  <2> HIDE DEF Has
  <2> QED
    BY <2>4, <2>5
<1>6. ASSUME NEW k \in 0 .. n - 1, k \in E PROVE k + 1 \in E
  <2> DEFINE x == v[k]
             c == str[k + 1] - FirstDigit
             y == v[k + 1]
  <2>1. k \in 0 .. n /\ k + 1 \in 0 .. n /\ k + 1 \in 1 .. n /\ (k + 1) - 1 = k
    BY <1>1
  <2>2. x \in Nat /\ (k # 0 => x > 0) /\ c \in 0 .. 9 /\ (k = 0 => c # 0 /\ x = 0)
    <3>1. x \in Nat /\ (k # 0 => x > 0)
      BY <1>6
    <3>2. c \in 0 .. 9
      BY <1>1, <2>1
    <3>3. k = 0 => c # 0 /\ x = 0
      <4>1. k = 0 => k + 1 = 1
        OBVIOUS
      <4> QED
        BY <1>3, <1>4, <4>1
    <3> QED
      BY <3>1, <3>2, <3>3
  <2>3. y = x * 10 + c
    BY <1>3, <2>1
  <2> HIDE DEF c, x, y
  <2>4. y \in Nat /\ y > 0
    BY <2>2, <2>3
  <2>5. y \div 10 = x /\ y % 10 = c
    <3>2. y = 10 * x + c
      BY <2>2, <2>3
    <3>3. y \div 10 \in Nat /\ y % 10 \in 0 .. 9 /\ y = 10 * (y \div 10) + (y % 10)
      BY <2>4, TenthIs
    <3> DEFINE q == y \div 10
               r == y % 10
    <3> HIDE DEF q, r
    <3>4. q \in Nat /\ r \in 0 .. 9 /\ 10 * q + r = 10 * x + c
      BY <3>2, <3>3 DEF q, r
    <3>5. q = x /\ r = c
      BY <2>2, <3>4
    <3> QED
      BY <3>5 DEF q, r
  <2>6. d[y] = <<FirstDigit + c>> \o d[x] /\ d[y] \in Seq(Int)
    <3>1. y \in Nat /\ y # 0
      BY <2>4
    <3>2. d[y] \in Seq(Int) /\ d[y] = IF y = 0 THEN <<>> ELSE <<FirstDigit + (y % 10)>> \o d[y \div 10]
      BY <3>1 DEF Decimals
    <3> QED
      BY <2>5, <3>1, <3>2
  <2>7. FirstDigit + c = str[k + 1] /\ str[k + 1] \in Int
    <3>1. str[k + 1] \in Int
      BY <1>1, <2>1
    <3> QED
      BY <3>1 DEF c, FirstDigit
  <2>8. d[x] \in Seq(Int) /\ Len(d[x]) = k /\ \A i \in 1 .. k : d[x][i] = str[(k - i) + 1]
    BY <1>6 DEF x
  <2>9. Len(d[y]) = k + 1 /\ d[y][1] = str[k + 1] /\ \A i \in 1 .. k : d[y][i + 1] = d[x][i]
    BY <2>6, <2>7, <2>8, InFront
  <2>10. ASSUME NEW i \in 1 .. k + 1 PROVE d[y][i] = str[((k + 1) - i) + 1]
    <3>1. CASE i = 1
      <4>1. ((k + 1) - i) + 1 = k + 1
        BY <2>1, <3>1
      <4> QED
        BY <2>9, <3>1, <4>1
    <3>2. CASE i # 1
      <4>1. i - 1 \in 1 .. k /\ (i - 1) + 1 = i /\ (k - (i - 1)) + 1 = ((k + 1) - i) + 1
        BY <2>1, <3>2
      <4>2. d[y][i] = d[x][i - 1]
        BY <2>9, <4>1
      <4>3. d[x][i - 1] = str[(k - (i - 1)) + 1]
        BY <2>8, <4>1
      <4> QED
        BY <4>1, <4>2, <4>3
    <3> QED
      BY <3>1, <3>2
  <2>11. Has(k + 1)
    BY <2>4, <2>6, <2>9, <2>10 DEF y
  <2> QED
    BY <2>1, <2>11
<1>7. E \in SUBSET (0 .. n)
  OBVIOUS
<1> HIDE DEF E
<1>8. E = 0 .. n
  BY <1>1, <1>5, <1>6, <1>7, AllUpTo
<1>9. Has(n)
  <2>1. n \in E
    BY <1>1, <1>8
  <2> HIDE DEF Has
  <2> QED
    BY <2>1 DEF E
<1> DEFINE e == d[v[n]]
<1>10. /\ v[n] \in Nat /\ v[n] > 0 /\ e \in Seq(Int) /\ Len(e) = n
       /\ \A i \in 1 .. n : e[i] = str[(n - i) + 1]
  BY <1>1, <1>9
<1> HIDE DEF e
<1>11. Reverse(e) = str
  <2>1. Reverse(e) \in Seq(Int) /\ Len(Reverse(e)) = n /\ \A i \in 1 .. n : Reverse(e)[i] = e[(n - i) + 1]
    BY <1>10, ReverseIs
  <2> DEFINE r == Reverse(e)
  <2> HIDE DEF r
  <2>2. ASSUME NEW i \in 1 .. n PROVE r[i] = str[i]
    <3>1. (n - i) + 1 \in 1 .. n /\ (n - ((n - i) + 1)) + 1 = i
      BY <1>1
    <3> QED
      BY <1>10, <2>1, <3>1 DEF r
  <2>3. r \in Seq(Int) /\ Len(r) = Len(str) /\ \A i \in 1 .. Len(r) : r[i] = str[i]
    BY <2>1, <2>2 DEF r, n
  <2>4. r = str
    BY <2>3, SeqEqual
  <2> QED
    BY <2>4 DEF r
<1> QED
  BY <1>2, <1>10, <1>11 DEF e

\* Numbers shown are read back, digits read are shown again.
LEMMA NumbersAre == memory \in Memories => NumbersReadBack
<1> SUFFICES ASSUME memory \in Memories PROVE NumbersReadBack
  OBVIOUS
<1>1. PICK d : /\ Decimals(d)
               /\ \A num \in Int : intToStr(num) = IF num = 0 THEN <<FirstDigit>>
                                                   ELSE IF num < 0 THEN <<>> ELSE Reverse(d[num])
  BY DigitsFound
<1>2. strToInt(<<FirstDigit>>) = 0
  <2>1. <<FirstDigit>> = Append(<<>>, FirstDigit) /\ <<>> \in Seq(Int) /\ FirstDigit \in Int
    BY DEF FirstDigit
  <2>2. strToInt(Append(<<>>, FirstDigit)) = 0 * 10 + (FirstDigit - FirstDigit)
    BY <2>1, ReadMore
  <2> QED
    BY <2>1, <2>2 DEF FirstDigit
<1>3. ASSUME NEW num \in Numbers, num >= 0 PROVE strToInt(intToStr(num)) = num
  <2>1. num \in Nat
    <3>1. INT_MAX \in Nat
      BY DEF INT_MAX
    <3> QED
      BY <1>3, <3>1, StringsAssumption
  <2>2. CASE num = 0
    BY <1>1, <1>2, <2>1, <2>2
  <2>3. CASE num # 0
    <3>1. intToStr(num) = Reverse(d[num])
      BY <1>1, <2>1, <2>3
    <3> QED
      BY <1>1, <2>1, <3>1, DigitsRead
  <2> QED
    BY <2>2, <2>3
<1>4. ASSUME NEW s \in {a \in Addresses : Terminated(memory, a)},
             NEW str, str = StringAt(memory, s),
             \A k \in DOMAIN str : str[k] \in FirstDigit .. FirstDigit + 9,
             Len(str) \in 1 .. 9, str[1] = FirstDigit => Len(str) = 1
      PROVE  intToStr(strToInt(str)) = str
  <2>1. str \in Seq(Chars)
    <3>1. s \in Nat /\ Terminated(memory, s)
      BY StringsAssumption DEF Addresses
    <3> QED
      BY <1>4, <3>1, StringEnds
  <2>2. str \in Seq(Int) /\ DOMAIN str = 1 .. Len(str)
    <3>1. \A x \in Chars : x \in Int
      BY DEF Chars
    <3> QED
      BY <2>1, <3>1
  <2>3. CASE str[1] = FirstDigit
    <3>1. str = <<FirstDigit>>
      <4>1. Len(str) = 1
        BY <1>4, <2>3
      <4> QED
        BY <2>2, <2>3, <4>1
    <3> QED
      BY <1>1, <1>2, <3>1
  <2>4. CASE str[1] # FirstDigit
    <3>1. strToInt(str) > 0 /\ strToInt(str) \in Nat /\ Reverse(d[strToInt(str)]) = str
      BY <1>1, <1>4, <2>2, <2>4, NumberShown
    <3>2. strToInt(str) \in Int /\ strToInt(str) # 0 /\ ~(strToInt(str) < 0)
      BY <3>1
    <3> QED
      BY <1>1, <3>1, <3>2
  <2> QED
    BY <2>3, <2>4
<1> QED
  BY <1>3, <1>4 DEF NumbersReadBack

-----------------------------------------------------------------------------
(* Words *)

\* A line in memory, nothing but zeroes behind it.
LineIn(m, line) ==
  /\ m \in Memories /\ line \in Seq(Chars) /\ Len(line) < Size
  /\ \A i \in Addresses : IF i < Len(line) THEN m[i] = line[i + 1] /\ m[i] # NUL ELSE m[i] = NUL

\* Where a word is found, and what it is.
WordAt(m, rp, f, nx) ==
  /\ f \in Nat /\ nx \in Nat /\ rp <= f /\ f <= nx /\ nx < Size
  /\ m[f] # BLANK /\ \A i \in rp .. f - 1 : m[i] = BLANK
  /\ isBlank(m[nx]) /\ \A i \in f .. nx - 1 : ~isBlank(m[i])

TakesWord(m, rp, f, nx) ==
  LET next == get_next_word(m, rp)
  IN  /\ next.readPointer = nx /\ next.currentWord \in Seq(Chars)
      /\ Len(next.currentWord) = nx - f
      /\ \A i \in 1 .. nx - f : next.currentWord[i] = m[f + i - 1]

\* get_next_word finds a word or the end of the line, and stops behind it.
LEMMA WordFound ==
  ASSUME NEW m, NEW line, LineIn(m, line), NEW rp \in Addresses
  PROVE  \E f, nx \in Nat : WordAt(m, rp, f, nx) /\ TakesWord(m, rp, f, nx)
<1> USE StringsAssumption
<1> DEFINE F == {i \in rp .. Size - 1 : ~isBlank(m[i]) \/ m[i] = NUL}
           f == Min(F)
           X == {i \in f .. Size - 1 : isBlank(m[i])}
           nx == Min(X)
           bytes == [k \in 1 .. Size |-> m[k - 1]]
           word == SubSeq(bytes, f + 1, nx)
<1>1. Size - 1 \in Addresses /\ rp \in 0 .. Size - 1 /\ m[Size - 1] = NUL /\ Size \in Nat \ {0}
  <2>1. Size - 1 \in Addresses /\ rp \in 0 .. Size - 1 /\ Size \in Nat \ {0}
    BY DEF Addresses
  <2>2. ~(Size - 1 < Len(line))
    BY <2>1 DEF LineIn
  <2> QED
    BY <2>1, <2>2 DEF LineIn
<1>2. \A c : isBlank(c) <=> c = BLANK \/ c = NUL
  BY DEF isBlank
<1>3. BLANK # NUL
  BY DEF BLANK, NUL
<1>4. F \in SUBSET Nat /\ F # {}
  <2>1. Size - 1 \in F
    BY <1>1
  <2>2. F \in SUBSET Nat
    BY <1>1
  <2> QED
    BY <2>1, <2>2
<1>5. f \in F /\ \A y \in F : f <= y
  BY <1>4, MinIsLeast
<1>6. f \in rp .. Size - 1 /\ m[f] # BLANK /\ \A i \in rp .. f - 1 : m[i] = BLANK
  <2>1. f \in rp .. Size - 1 /\ (~isBlank(m[f]) \/ m[f] = NUL) /\ \A i \in rp .. Size - 1 : i < f => isBlank(m[i]) /\ m[i] # NUL
    <3>1. \A i \in rp .. Size - 1 : i < f => i \notin F
      BY <1>1, <1>5
    <3> QED
      BY <1>5, <3>1
  <2> HIDE DEF f
  <2>2. \A i \in rp .. f - 1 : i \in rp .. Size - 1 /\ i < f
    BY <1>1, <2>1
  <2> QED
    BY <1>2, <1>3, <2>1, <2>2
<1> HIDE DEF f
<1>7. X \in SUBSET Nat /\ X # {}
  <2>1. Size - 1 \in X
    BY <1>1, <1>2, <1>6
  <2>2. X \in SUBSET Nat
    BY <1>1, <1>6
  <2> QED
    BY <2>1, <2>2
<1>8. nx \in X /\ \A y \in X : nx <= y
  BY <1>7, MinIsLeast
<1>9. nx \in f .. Size - 1 /\ isBlank(m[nx]) /\ \A i \in f .. nx - 1 : ~isBlank(m[i])
  <2>1. nx \in f .. Size - 1 /\ isBlank(m[nx]) /\ \A i \in f .. Size - 1 : i < nx => ~isBlank(m[i])
    <3>1. \A i \in f .. Size - 1 : i < nx => i \notin X
      BY <1>1, <1>6, <1>8
    <3> QED
      BY <1>8, <3>1
  <2> HIDE DEF nx
  <2>2. \A i \in f .. nx - 1 : i \in f .. Size - 1 /\ i < nx
    BY <1>1, <1>6, <2>1
  <2> QED
    BY <2>1, <2>2
<1> HIDE DEF nx
<1>10. f \in Nat /\ nx \in Nat /\ rp <= f /\ f <= nx /\ nx < Size
  BY <1>1, <1>6, <1>9
<1>11. WordAt(m, rp, f, nx)
  BY <1>6, <1>9, <1>10 DEF WordAt
<1>12. get_next_word(m, rp) = [currentWord |-> word, readPointer |-> nx]
  BY DEF get_next_word, SkipBlanks, f, nx
<1>13. word \in Seq(Chars) /\ Len(word) = nx - f /\ \A i \in 1 .. nx - f : word[i] = m[f + i - 1]
  <2>1. \A i \in f + 1 .. nx : i \in 1 .. Size /\ bytes[i] = m[i - 1] /\ bytes[i] \in Chars
    <3> SUFFICES ASSUME NEW i \in f + 1 .. nx
                 PROVE  i \in 1 .. Size /\ bytes[i] = m[i - 1] /\ bytes[i] \in Chars
      OBVIOUS
    <3>1. i \in 1 .. Size /\ i - 1 \in Addresses
      BY <1>10 DEF Addresses
    <3>2. m[i - 1] \in Chars
      BY <3>1 DEF LineIn, Memories
    <3> QED
      BY <3>1, <3>2
  <2> HIDE DEF bytes
  <2>2. f + 1 \in Int /\ nx \in Int /\ nx - (f + 1) + 1 = nx - f /\ (f + 1 <= nx \/ nx - f = 0)
    BY <1>10
  <2>3. /\ word \in Seq(Chars) /\ Len(word) = IF f + 1 <= nx THEN nx - (f + 1) + 1 ELSE 0
        /\ \A i \in 1 .. nx - (f + 1) + 1 : word[i] = bytes[(f + 1) + i - 1]
    BY <2>1, <2>2, SubSeqProperties
  <2> HIDE DEF word
  <2>4. Len(word) = nx - f
    BY <1>10, <2>2, <2>3
  <2>5. ASSUME NEW i \in 1 .. nx - f PROVE word[i] = m[f + i - 1]
    <3>1. i \in 1 .. nx - (f + 1) + 1 /\ (f + 1) + i - 1 = f + i /\ f + i \in f + 1 .. nx
      BY <1>10
    <3>2. word[i] = bytes[f + i]
      BY <2>3, <3>1
    <3>3. bytes[f + i] = m[f + i - 1]
      <4> DEFINE j == f + i
      <4>1. j \in f + 1 .. nx /\ j - 1 = f + i - 1
        BY <1>10, <3>1
      <4> HIDE DEF j
      <4>2. bytes[j] = m[j - 1]
        BY <2>1, <4>1
      <4> QED
        BY <4>1, <4>2 DEF j
    <3> QED
      BY <3>2, <3>3
  <2> QED
    BY <2>3, <2>4, <2>5
<1> HIDE DEF word
<1>14. TakesWord(m, rp, f, nx)
  BY <1>12, <1>13 DEF TakesWord
<1> QED
  BY <1>10, <1>11, <1>14

\* The words that begin behind the first bytes of a line.
Behind(line, rp) == {i \in Beginnings(line) : i > rp}

EndOf(line, i) == Max({j \in i .. Len(line) : \A k \in i .. j : line[k] # BLANK})

WordsFrom(line, rp) ==
  [k \in 1 .. Len(InOrder(Behind(line, rp))) |->
     SubSeq(line, InOrder(Behind(line, rp))[k], EndOf(line, InOrder(Behind(line, rp))[k]))]

\* What cmdHandler reads from a place on.
ReadsWords(w, m) ==
  \A rp \in Addresses :
    w[rp] = IF get_next_word(m, rp).currentWord = <<>> THEN <<>>
            ELSE <<get_next_word(m, rp).currentWord>> \o w[get_next_word(m, rp).readPointer]

\* What cmdHandler reads is a sequence of words from every place in the line on.
LEMMA WordsExist ==
  ASSUME NEW m, NEW line, LineIn(m, line)
  PROVE  \E w : ReadsWords(w, m) /\ w = [rp \in Addresses |-> w[rp]]
<1> USE StringsAssumption
<1> DEFINE A == Addresses
           C == Seq(Chars)
           D == Seq(C)
           word(rp) == get_next_word(m, rp).currentWord
           to(rp) == get_next_word(m, rp).readPointer
           rank == [rp \in A |-> Size - rp]
           stop == {rp \in A : word(rp) = <<>>}
           none == [rp \in A |-> <<>>]
           next == [rp \in A |-> to(rp)]
           G == [x \in A \X D |-> <<word(x[1])>> \o x[2]]
<1>1. ASSUME NEW rp \in A
      PROVE  word(rp) \in C /\ to(rp) \in A /\ (word(rp) # <<>> => to(rp) > rp)
  <2>1. PICK f, nx \in Nat : WordAt(m, rp, f, nx) /\ TakesWord(m, rp, f, nx)
    BY WordFound
  <2>2. word(rp) \in Seq(Chars) /\ to(rp) = nx /\ Len(word(rp)) = nx - f
    BY <2>1 DEF TakesWord
  <2> HIDE DEF word, to
  <2>3. rp <= f /\ f <= nx /\ nx < Size /\ rp \in Nat
    BY <2>1 DEF WordAt, Addresses
  <2>4. word(rp) # <<>> => nx - f # 0
    BY <2>2
  <2> QED
    BY <2>2, <2>3, <2>4 DEF Addresses
<1> HIDE DEF word, to
<1>2. \A rp \in A : rp \in Nat /\ Size - rp \in Nat
  BY DEF Addresses
<1> HIDE DEF A, C
<1>3. rank \in [A -> Nat] /\ stop \in SUBSET A /\ none \in [A -> D] /\ next \in [A -> A]
  BY <1>1, <1>2
<1>4. G \in [A \X D -> D]
  <2>1. ASSUME NEW rp \in A, NEW s \in D PROVE <<word(rp)>> \o s \in D
    BY <1>1, InFront
  <2> HIDE DEF D
  <2> QED
    BY <2>1
<1>5. \A rp \in A \ stop : rank[next[rp]] < rank[rp]
  <2> SUFFICES ASSUME NEW rp \in A, word(rp) # <<>> PROVE rank[next[rp]] < rank[rp]
    OBVIOUS
  <2>1. next[rp] = to(rp) /\ to(rp) \in A /\ to(rp) > rp
    BY <1>1
  <2>2. rank[rp] = Size - rp /\ rank[to(rp)] = Size - to(rp)
    BY <2>1
  <2>3. rp \in Nat /\ to(rp) \in Nat /\ Size \in Nat
    BY <1>2, <2>1
  <2> HIDE DEF rank, next
  <2> QED
    BY <2>1, <2>2, <2>3
<1> HIDE DEF D
<1>6. Descends(A, D, rank, stop, none, next, G)
  <2> HIDE DEF rank, stop, none, next, G
  <2> QED
    BY <1>3, <1>4, <1>5 DEF Descends
<1>7. PICK w \in [A -> D] : Follows(w, A, stop, none, next, G)
  <2> HIDE DEF rank, stop, none, next, G
  <2> QED
    BY <1>6, Descending
<1>8. ASSUME NEW rp \in A PROVE w[rp] = IF word(rp) = <<>> THEN <<>> ELSE <<word(rp)>> \o w[to(rp)]
  <2>1. w[rp] = IF rp \in stop THEN none[rp] ELSE G[<<rp, w[next[rp]]>>]
    <3> HIDE DEF stop, none, next, G
    <3> QED
      BY <1>7 DEF Follows
  <2>2. next[rp] = to(rp) /\ to(rp) \in A /\ none[rp] = <<>>
    BY <1>1
  <2>3. w[to(rp)] \in D
    BY <1>7, <2>2
  <2>4. G[<<rp, w[to(rp)]>>] = <<word(rp)>> \o w[to(rp)]
    BY <2>3
  <2> QED
    BY <2>1, <2>2, <2>4
<1>9. w = [rp \in A |-> w[rp]]
  BY <1>7
<1>10. ReadsWords(w, m)
  BY <1>8 DEF ReadsWords, word, to, A
<1> QED
  BY <1>9, <1>10 DEF A

\* The word found is the first of those that begin behind, the others begin behind its end.
LEMMA BehindGoesOn ==
  ASSUME NEW m, NEW line, LineIn(m, line), NEW rp \in 0 .. Len(line), rp = 0 \/ isBlank(m[rp]),
         NEW f \in Nat, NEW nx \in Nat, WordAt(m, rp, f, nx)
  PROVE  /\ f <= nx /\ nx <= Len(line) /\ isBlank(m[nx])
         /\ f = nx => Behind(line, rp) = {}
         /\ f # nx => /\ rp < nx /\ EndOf(line, f + 1) = nx
                     /\ Behind(line, rp) = Onwards(f + 1, Behind(line, nx), 0)
                     /\ Below(f + 1, Behind(line, nx), 0)
<1> USE StringsAssumption
<1> DEFINE n == Len(line)
<1>1. n \in Nat /\ n < Size /\ DOMAIN line = 1 .. n /\ Size \in Nat /\ rp \in Nat /\ rp <= n
  BY DEF LineIn
<1> HIDE DEF n
<1>2. \A i \in 1 .. n : m[i - 1] = line[i] /\ m[i - 1] # NUL
  <2> SUFFICES ASSUME NEW i \in 1 .. n PROVE m[i - 1] = line[i] /\ m[i - 1] # NUL
    OBVIOUS
  <2>1. i - 1 \in Addresses /\ i - 1 < n /\ (i - 1) + 1 = i
    BY <1>1 DEF Addresses
  <2> QED
    BY <2>1 DEF LineIn, n
<1>3. m[n] = NUL
  <2>1. n \in Addresses /\ ~(n < n)
    BY <1>1 DEF Addresses
  <2> QED
    BY <2>1 DEF LineIn, n
<1>4. \A c : isBlank(c) <=> c = BLANK \/ c = NUL
  BY DEF isBlank
<1>5. BLANK # NUL
  BY DEF BLANK, NUL
<1>6. /\ rp <= f /\ f <= nx /\ m[f] # BLANK /\ \A i \in rp .. f - 1 : m[i] = BLANK
      /\ isBlank(m[nx]) /\ \A i \in f .. nx - 1 : ~isBlank(m[i])
  BY DEF WordAt
<1>7. f <= n
  <2> SUFFICES ASSUME ~(f <= n) PROVE FALSE
    OBVIOUS
  <2>1. n \in rp .. f - 1
    BY <1>1
  <2> QED
    BY <1>3, <1>5, <1>6, <2>1
<1>8. nx <= n
  <2> SUFFICES ASSUME ~(nx <= n) PROVE FALSE
    OBVIOUS
  <2>1. n \in f .. nx - 1
    BY <1>1, <1>7
  <2> QED
    BY <1>3, <1>4, <1>6, <2>1
<1>9. /\ Beginnings(line) \subseteq 1 .. n
      /\ \A i \in 1 .. n : i \in Beginnings(line) <=> m[i - 1] # BLANK /\ (i > 1 => m[i - 2] = BLANK)
  <2>1. Beginnings(line) \subseteq 1 .. n
    BY <1>1 DEF Beginnings
  <2>2. ASSUME NEW i \in 1 .. n
        PROVE  i \in Beginnings(line) <=> m[i - 1] # BLANK /\ (i > 1 => m[i - 2] = BLANK)
    <3>1. i \in Beginnings(line) <=> line[i] # BLANK /\ (i > 1 => line[i - 1] = BLANK)
      BY <1>1 DEF Beginnings
    <3>2. ASSUME i > 1 PROVE line[i - 1] = m[i - 2]
      <4>1. i - 1 \in 1 .. n /\ (i - 1) - 1 = i - 2
        BY <1>1, <3>2
      <4> QED
        BY <1>2, <4>1
    <3>3. line[i] = m[i - 1]
      BY <1>2
    <3> QED
      BY <3>1, <3>2, <3>3
  <2> QED
    BY <2>1, <2>2
<1>10. ASSUME NEW i \in Beginnings(line), i > rp PROVE i >= f + 1 /\ i \in 1 .. n
  <2>1. i \in 1 .. n /\ m[i - 1] # BLANK
    BY <1>9
  <2>2. i - 1 \notin rp .. f - 1
    BY <1>6, <2>1
  <2> QED
    BY <1>1, <1>10, <2>1, <2>2
<1>11. ASSUME f = nx PROVE Behind(line, rp) = {}
  <2>1. m[f] = NUL
    BY <1>4, <1>6, <1>11
  <2>2. f = n
    <3> SUFFICES ASSUME f < n PROVE FALSE
      BY <1>1, <1>7
    <3>1. f + 1 \in 1 .. n /\ (f + 1) - 1 = f
      BY <1>1
    <3> QED
      BY <1>2, <2>1, <3>1
  <2>3. ASSUME NEW i \in Behind(line, rp) PROVE FALSE
    <3>1. i \in Beginnings(line) /\ i > rp
      BY DEF Behind
    <3>2. i >= f + 1 /\ i \in 1 .. n
      BY <1>10, <3>1
    <3> QED
      BY <1>1, <2>2, <3>2
  <2> QED
    BY <2>3
<1>12. ASSUME f # nx
       PROVE  /\ rp < nx /\ EndOf(line, f + 1) = nx
              /\ Behind(line, rp) = Onwards(f + 1, Behind(line, nx), 0)
              /\ Below(f + 1, Behind(line, nx), 0)
  <2>1. f < nx /\ f < n /\ rp < nx /\ f + 1 \in 1 .. n
    BY <1>1, <1>6, <1>8, <1>12
  <2>2. \A i \in f .. nx - 1 : m[i] # BLANK /\ m[i] # NUL
    BY <1>4, <1>6
  <2>3. f + 1 \in Behind(line, rp)
    <3>1. m[(f + 1) - 1] # BLANK
      <4>1. (f + 1) - 1 = f
        OBVIOUS
      <4> QED
        BY <1>6, <4>1
    <3>2. f + 1 > 1 => m[(f + 1) - 2] = BLANK
      <4>1. (f + 1) - 2 = f - 1
        OBVIOUS
      <4>2. CASE f = rp
        <5>1. ~isBlank(m[f])
          <6>1. f \in f .. nx - 1
            BY <2>1
          <6> QED
            BY <1>6, <6>1
        <5>2. f = 0
          BY <4>2, <5>1
        <5> QED
          BY <5>2
      <4>3. CASE f # rp
        <5>1. f - 1 \in rp .. f - 1
          BY <1>1, <1>6, <4>3
        <5> QED
          BY <1>6, <4>1, <5>1
      <4> QED
        BY <4>2, <4>3
    <3>3. f + 1 > rp
      BY <1>1, <1>6
    <3> QED
      BY <1>9, <2>1, <3>1, <3>2, <3>3 DEF Behind
  <2>4. ASSUME NEW i \in Behind(line, rp), i # f + 1 PROVE i \in Behind(line, nx)
    <3>1. i \in Beginnings(line) /\ i > rp
      BY DEF Behind
    <3>2. i >= f + 1 /\ i \in 1 .. n
      BY <1>10, <3>1
    <3>3. i > 1 /\ m[i - 2] = BLANK
      <4>1. i > 1
        BY <2>4, <3>2
      <4> QED
        BY <1>9, <3>1, <4>1
    <3>4. i - 2 \notin f .. nx - 1
      BY <2>2, <3>3
    <3>5. i > nx
      BY <1>1, <2>1, <2>4, <3>2, <3>4
    <3> QED
      BY <3>1, <3>5 DEF Behind
  <2>5. ASSUME NEW i \in Behind(line, nx) PROVE i \in Behind(line, rp) /\ f + 1 < i /\ i + 0 = i
    <3>1. i \in Beginnings(line) /\ i > nx /\ i \in 1 .. n
      BY <1>9 DEF Behind
    <3>2. i > rp /\ f + 1 < i /\ i + 0 = i
      <4>1. i # f + 1
        BY <2>1, <3>1
      <4> QED
        BY <1>1, <2>1, <3>1, <4>1
    <3> QED
      BY <3>1, <3>2 DEF Behind
  <2>6. Behind(line, rp) = Onwards(f + 1, Behind(line, nx), 0) /\ Below(f + 1, Behind(line, nx), 0)
    <3>1. Onwards(f + 1, Behind(line, nx), 0) = {f + 1} \cup Behind(line, nx)
      BY <2>5 DEF Onwards
    <3>2. Behind(line, rp) = {f + 1} \cup Behind(line, nx)
      BY <2>3, <2>4, <2>5
    <3>3. Below(f + 1, Behind(line, nx), 0)
      BY <2>5 DEF Below
    <3> QED
      BY <3>1, <3>2, <3>3
  <2>7. EndOf(line, f + 1) = nx
    <3> DEFINE J == {j \in f + 1 .. n : \A k \in f + 1 .. j : line[k] # BLANK}
               e == Max(J)
    <3>1. nx \in J
      <4>1. nx \in f + 1 .. n
        BY <1>1, <1>8, <2>1
      <4>2. ASSUME NEW k \in f + 1 .. nx PROVE line[k] # BLANK
        <5>1. k \in 1 .. n /\ k - 1 \in f .. nx - 1
          BY <1>1, <1>8
        <5> QED
          BY <1>2, <2>2, <5>1
      <4> QED
        BY <4>1, <4>2
    <3>2. J \in SUBSET (0 .. n)
      BY <1>1
    <3>3. e \in J /\ \A y \in J : y <= e
      BY <1>1, <3>1, <3>2, MaxIsGreatest
    <3>4. e \in f + 1 .. n /\ nx <= e /\ \A k \in f + 1 .. e : line[k] # BLANK
      BY <3>1, <3>3
    <3> HIDE DEF e, J
    <3>5. e = nx
      <4> SUFFICES ASSUME nx < e PROVE FALSE
        BY <3>4
      <4>1. nx + 1 \in f + 1 .. e /\ nx + 1 \in 1 .. n /\ (nx + 1) - 1 = nx
        BY <1>1, <2>1, <3>4
      <4>2. line[nx + 1] # BLANK /\ m[nx] = line[nx + 1] /\ m[nx] # NUL
        BY <1>2, <3>4, <4>1
      <4> QED
        BY <1>4, <1>6, <4>2
    <3> QED
      BY <3>5 DEF EndOf, e, J, n
  <2> QED
    BY <2>1, <2>6, <2>7
<1> QED
  BY <1>6, <1>8, <1>11, <1>12 DEF n

\* The words from a place on, with the one found there.
LEMMA WordsGoOn ==
  ASSUME NEW m, NEW line, LineIn(m, line), NEW w, ReadsWords(w, m),
         NEW rp \in 0 .. Len(line), rp = 0 \/ isBlank(m[rp]),
         \A nx \in 0 .. Len(line) : rp < nx /\ isBlank(m[nx]) => w[nx] = WordsFrom(line, nx)
  PROVE  w[rp] = WordsFrom(line, rp)
<1> USE StringsAssumption
<1> DEFINE n == Len(line)
           Word(i) == SubSeq(line, i, EndOf(line, i))
<1>1. n \in Nat /\ n < Size /\ rp \in Addresses /\ rp \in Nat /\ rp <= n
      /\ \A i \in 1 .. n : m[i - 1] = line[i] /\ line[i] \in Chars
  <2>1. n \in Nat /\ n < Size /\ rp \in Nat /\ rp <= n /\ \A i \in 1 .. n : line[i] \in Chars
    BY DEF LineIn
  <2>2. ASSUME NEW i \in 1 .. n PROVE m[i - 1] = line[i]
    <3>1. i - 1 \in Addresses /\ i - 1 < n /\ (i - 1) + 1 = i
      BY <2>1 DEF Addresses
    <3> QED
      BY <3>1 DEF LineIn
  <2>3. rp \in Addresses
    BY <2>1 DEF Addresses
  <2> QED
    BY <2>1, <2>2, <2>3
<1>2. \A r : WordsFrom(line, r) = [k \in 1 .. Len(InOrder(Behind(line, r))) |-> Word(InOrder(Behind(line, r))[k])]
  BY DEF WordsFrom
<1>3. PICK f \in Nat, nx \in Nat : WordAt(m, rp, f, nx) /\ TakesWord(m, rp, f, nx)
  BY <1>1, WordFound
<1>4. /\ f <= nx /\ nx <= n /\ isBlank(m[nx])
      /\ f = nx => Behind(line, rp) = {}
      /\ f # nx => /\ rp < nx /\ EndOf(line, f + 1) = nx
                  /\ Behind(line, rp) = Onwards(f + 1, Behind(line, nx), 0)
                  /\ Below(f + 1, Behind(line, nx), 0)
  BY <1>3, BehindGoesOn
<1> DEFINE next == get_next_word(m, rp)
           x == next.currentWord
<1>5. /\ next.readPointer = nx /\ x \in Seq(Chars) /\ Len(x) = nx - f
      /\ \A i \in 1 .. nx - f : x[i] = m[f + i - 1]
  BY <1>3 DEF TakesWord
<1>6. w[rp] = IF x = <<>> THEN <<>> ELSE <<x>> \o w[nx]
  BY <1>1, <1>5 DEF ReadsWords
<1> HIDE DEF x, next
<1>7. \A r : Behind(line, r) \in SUBSET (0 .. n)
  <2>1. \A r : Behind(line, r) \subseteq DOMAIN line
    BY DEF Behind, Beginnings
  <2>2. DOMAIN line = 1 .. n /\ 1 .. n \subseteq 0 .. n
    BY DEF LineIn
  <2> QED
    BY <2>1, <2>2
<1> HIDE DEF n, Word
<1>8. CASE f = nx
  <2>1. x = <<>>
    BY <1>5, <1>8
  <2> DEFINE c == InOrder({})
  <2>2. Len(c) = 0
    <3>1. c \in Seq({})
      <4>1. {} \in SUBSET (0 .. n)
        OBVIOUS
      <4> QED
        BY <1>1, <4>1, OrderIs
    <3> HIDE DEF c
    <3>2. Len(c) \in Nat /\ \A k \in 1 .. Len(c) : c[k] \in {}
      BY <3>1
    <3>3. Len(c) # 0 => 1 \in 1 .. Len(c)
      BY <3>2
    <3> QED
      BY <3>2, <3>3
  <2>3. WordsFrom(line, rp) = [k \in 1 .. 0 |-> Word(c[k])]
    <3>1. Behind(line, rp) = {}
      BY <1>4, <1>8
    <3> HIDE DEF c
    <3> QED
      BY <1>2, <2>2, <3>1 DEF c
  <2> HIDE DEF c
  <2>4. [k \in 1 .. 0 |-> Word(c[k])] = <<>>
    OBVIOUS
  <2> QED
    BY <1>6, <2>1, <2>3, <2>4
<1>9. CASE f # nx
  <2> DEFINE T == Behind(line, nx)
             c == InOrder(Behind(line, rp))
             e == InOrder(T)
             l == Len(e)
             V == WordsFrom(line, rp)
             U == WordsFrom(line, nx)
             D == {x} \cup {Word(e[k]) : k \in 1 .. l}
  <2>1. x # <<>>
    <3>1. nx - f # 0
      BY <1>4, <1>9
    <3> QED
      BY <1>5, <3>1
  <2>2. GoesOn(c, f + 1, e, 0)
    <3>1. T \in SUBSET (0 .. n) /\ f + 1 \in Nat /\ 0 \in Nat /\ Below(f + 1, T, 0)
      BY <1>4, <1>7, <1>9
    <3>2. Behind(line, rp) = Onwards(f + 1, T, 0)
      BY <1>4, <1>9
    <3> HIDE DEF T
    <3> QED
      BY <1>1, <3>1, <3>2, OrderGoesOn
  <2>3. l \in Nat /\ \A k \in 1 .. l : e[k] \in Nat
    <3>1. T \in SUBSET (0 .. n)
      BY <1>7
    <3> HIDE DEF T
    <3>2. e \in Seq(T)
      BY <1>1, <3>1, OrderIs
    <3>3. l \in Nat /\ \A k \in 1 .. l : e[k] \in T
      <4> HIDE DEF e
      <4> QED
        BY <3>2
    <3>4. \A y \in T : y \in Nat
      BY <3>1
    <3> QED
      BY <3>3, <3>4
  <2>4. V = [k \in 1 .. Len(c) |-> Word(c[k])] /\ U = [k \in 1 .. l |-> Word(e[k])]
    BY <1>2
  <2> HIDE DEF T, c, e, V, U, l
  <2>5. Len(c) = l + 1 /\ c[1] = f + 1 /\ \A k \in 1 .. l : c[k + 1] = e[k]
    <3>1. Len(c) = l + 1 /\ c[1] = f + 1 /\ \A k \in 1 .. l : c[k + 1] = e[k] + 0
      BY <2>2 DEF GoesOn, l
    <3>2. \A k \in 1 .. l : e[k] + 0 = e[k]
      BY <2>3
    <3> QED
      BY <3>1, <3>2
  <2>6. Word(f + 1) = x
    <3> DEFINE s == SubSeq(line, f + 1, nx)
    <3>1. Word(f + 1) = s
      BY <1>4, <1>9 DEF Word
    <3>2. \A i \in f + 1 .. nx : line[i] \in Chars
      BY <1>1, <1>4
    <3>3. f + 1 \in Int /\ nx \in Int /\ nx - (f + 1) + 1 = nx - f /\ f + 1 <= nx
      BY <1>4, <1>9
    <3>4. s \in Seq(Chars) /\ Len(s) = nx - f /\ \A i \in 1 .. nx - f : s[i] = line[(f + 1) + i - 1]
      BY <3>2, <3>3, SubSeqProperties
    <3> HIDE DEF s
    <3>5. ASSUME NEW i \in 1 .. Len(s) PROVE s[i] = x[i]
      <4> DEFINE j == f + i
      <4>1. i \in 1 .. nx - f /\ (f + 1) + i - 1 = j /\ f + i - 1 = j - 1 /\ j \in 1 .. n
        BY <1>1, <1>4, <3>4
      <4> HIDE DEF j
      <4>2. s[i] = line[j] /\ x[i] = m[j - 1]
        BY <1>5, <3>4, <4>1
      <4> QED
        BY <1>1, <4>1, <4>2
    <3>6. Len(s) = Len(x)
      BY <1>5, <3>4
    <3> QED
      BY <1>5, <3>1, <3>4, <3>5, <3>6, SeqEqual
  <2>7. U \in Seq(D) /\ Len(U) = l /\ x \in D
    <3>1. \A k \in 1 .. l : Word(e[k]) \in D
      OBVIOUS
    <3>2. x \in D
      OBVIOUS
    <3> HIDE DEF D
    <3> QED
      BY <2>3, <2>4, <3>1, <3>2
  <2>8. \A k \in 1 .. l : U[k] = Word(e[k])
    BY <2>4
  <2>9. \A k \in 1 .. l + 1 : k = 1 \/ (k - 1 \in 1 .. l /\ (k - 1) + 1 = k)
    BY <2>3
  <2>10. \A k \in 1 .. l + 1 : Word(c[k]) \in D
    <3> SUFFICES ASSUME NEW k \in 1 .. l + 1 PROVE Word(c[k]) \in D
      OBVIOUS
    <3>1. CASE k = 1
      BY <2>5, <2>6, <3>1
    <3>2. CASE k # 1
      <4>1. k - 1 \in 1 .. l /\ (k - 1) + 1 = k
        BY <2>9, <3>2
      <4>2. c[k] = e[k - 1]
        BY <2>5, <4>1
      <4> QED
        BY <4>1, <4>2
    <3> QED
      BY <3>1, <3>2
  <2> HIDE DEF D
  <2>11. V \in Seq(D) /\ Len(V) = l + 1 /\ \A k \in 1 .. l + 1 : V[k] = Word(c[k])
    BY <2>3, <2>4, <2>5, <2>10
  <2> DEFINE h == <<x>> \o U
  <2>12. h \in Seq(D) /\ Len(h) = l + 1 /\ h[1] = x /\ \A k \in 1 .. l : h[k + 1] = U[k]
    BY <2>7, InFront
  <2> HIDE DEF h
  <2>13. ASSUME NEW k \in 1 .. Len(V) PROVE V[k] = h[k]
    <3>1. k \in 1 .. l + 1
      BY <2>11
    <3>2. CASE k = 1
      BY <2>5, <2>6, <2>11, <2>12, <3>1, <3>2
    <3>3. CASE k # 1
      <4>1. k - 1 \in 1 .. l /\ (k - 1) + 1 = k
        BY <2>9, <3>1, <3>3
      <4>2. c[k] = e[k - 1] /\ h[k] = U[k - 1]
        BY <2>5, <2>12, <4>1
      <4> QED
        BY <2>8, <2>11, <3>1, <4>1, <4>2
    <3> QED
      BY <3>2, <3>3
  <2>14. V = h
    <3>1. Len(V) = Len(h)
      BY <2>11, <2>12
    <3> QED
      BY <2>11, <2>12, <2>13, <3>1, SeqEqual
  <2>15. w[nx] = U
    <3>1. nx \in 0 .. n /\ rp < nx /\ isBlank(m[nx])
      BY <1>1, <1>4, <1>9
    <3> QED
      BY <3>1 DEF n, U
  <2> QED
    BY <1>6, <2>1, <2>14, <2>15 DEF h, V
<1> QED
  BY <1>8, <1>9

\* And from the beginning on it is all words of the line, in order.
LEMMA WordsAre ==
  ASSUME NEW m, NEW line, LineIn(m, line), NEW w, ReadsWords(w, m)
  PROVE  w[0] = WordsFrom(line, 0)
<1> DEFINE n == Len(line)
           Agrees(rp) == (rp = 0 \/ isBlank(m[rp])) => w[rp] = WordsFrom(line, rp)
           E == {d \in 0 .. n : \A rp \in n - d .. n : Agrees(rp)}
<1>1. n \in Nat
  BY DEF LineIn
<1>2. ASSUME NEW rp \in 0 .. n, \A nx \in 0 .. n : rp < nx => Agrees(nx) PROVE Agrees(rp)
  <2> SUFFICES ASSUME rp = 0 \/ isBlank(m[rp]) PROVE w[rp] = WordsFrom(line, rp)
    OBVIOUS
  <2>1. \A nx \in 0 .. n : rp < nx /\ isBlank(m[nx]) => w[nx] = WordsFrom(line, nx)
    BY <1>2
  <2> QED
    BY <2>1, WordsGoOn
<1> HIDE DEF n, Agrees
<1>3. 0 \in E
  <2>1. n \in 0 .. n /\ \A nx \in 0 .. n : ~(n < nx)
    BY <1>1
  <2>2. Agrees(n)
    BY <1>2, <2>1
  <2>3. \A rp \in n - 0 .. n : rp = n
    BY <1>1
  <2>4. \A rp \in n - 0 .. n : Agrees(rp)
    BY <2>2, <2>3
  <2>5. 0 \in 0 .. n
    BY <1>1
  <2> QED
    BY <2>4, <2>5
<1>4. ASSUME NEW d \in 0 .. n - 1, d \in E PROVE d + 1 \in E
  <2> DEFINE r == n - (d + 1)
  <2>1. r \in 0 .. n /\ \A nx \in 0 .. n : r < nx => nx \in n - d .. n
    BY <1>1
  <2>2. Agrees(r)
    <3>1. \A nx \in 0 .. n : r < nx => Agrees(nx)
      BY <1>4, <2>1
    <3> HIDE DEF r
    <3> QED
      BY <1>2, <2>1, <3>1
  <2>3. \A rp \in n - (d + 1) .. n : rp = r \/ rp \in n - d .. n
    BY <1>1
  <2>4. \A rp \in n - (d + 1) .. n : Agrees(rp)
    BY <1>4, <2>2, <2>3
  <2>5. d + 1 \in 0 .. n
    BY <1>1
  <2> QED
    BY <2>4, <2>5
<1>5. E \in SUBSET (0 .. n)
  OBVIOUS
<1> HIDE DEF E
<1>6. E = 0 .. n
  BY <1>1, <1>3, <1>4, <1>5, AllUpTo
<1>7. n \in E
  BY <1>1, <1>6
<1>8. 0 \in n - n .. n
  BY <1>1
<1>9. Agrees(0)
  BY <1>7, <1>8 DEF E
<1> QED
  BY <1>9 DEF Agrees

\* So it is from a buffer that was cleared before the line was typed.
LEMMA WordsAreRead == memory \in Memories => WordsInOrder
<1> SUFFICES ASSUME memory \in Memories, Terminated(memory, 0),
                    NEW line, line = StringAt(memory, 0)
             PROVE  WordsRead(memset(memory, Len(line), NUL, Size - Len(line))) = Words(line)
  BY DEF WordsInOrder
<1> USE StringsAssumption
<1> DEFINE n == Len(line)
           m == memset(memory, n, NUL, Size - n)
<1>1. line \in Seq(Chars) /\ EndsAt(memory, 0, 0 + n)
  BY StringEnds
<1>2. n \in Nat
  BY <1>1
<1>3. n < Size /\ memory[n] = NUL /\ \A i \in 0 .. n - 1 : memory[i] # NUL
  BY <1>1, <1>2 DEF EndsAt
<1>4. line = [k \in 1 .. n |-> memory[k - 1]]
  <2>1. line = [k \in 1 .. (0 + n) - 0 |-> memory[0 + k - 1]]
    BY <1>1, <1>2, StringIs
  <2>2. (0 + n) - 0 = n /\ \A k \in 1 .. n : 0 + k - 1 = k - 1
    BY <1>2
  <2> QED
    BY <2>1, <2>2
<1> HIDE DEF n
<1>5. LineIn(m, line)
  <2>1. NUL % 256 = 0
    BY DEF NUL
  <2>2. m = [i \in Addresses |-> IF i \in n .. n + (Size - n) - 1 THEN 0 ELSE memory[i]]
    BY <2>1 DEF memset
  <2> HIDE DEF m
  <2>3. ASSUME NEW i \in Addresses PROVE i \in n .. n + (Size - n) - 1 <=> ~(i < n)
    BY <1>2, <1>3 DEF Addresses
  <2>4. \A i \in Addresses : m[i] = IF i < n THEN memory[i] ELSE 0
    BY <2>2, <2>3
  <2>5. m \in Memories
    <3>1. 0 \in Chars
      BY DEF Chars
    <3> QED
      BY <2>2, <2>4, <3>1 DEF Memories
  <2>6. ASSUME NEW i \in Addresses, i < n PROVE m[i] = line[i + 1] /\ m[i] # NUL
    <3>1. i \in 0 .. n - 1 /\ i + 1 \in 1 .. n /\ (i + 1) - 1 = i
      BY <1>2, <2>6 DEF Addresses
    <3>2. line[i + 1] = memory[i]
      BY <1>4, <3>1
    <3> QED
      BY <1>3, <2>4, <2>6, <3>1, <3>2
  <2>7. \A i \in Addresses : ~(i < n) => m[i] = NUL
    BY <2>4 DEF NUL
  <2> QED
    BY <1>1, <1>3, <2>5, <2>6, <2>7 DEF LineIn, n
<1> HIDE DEF m
<1> DEFINE Rec(h) == h = [rp \in Addresses |->
                            IF get_next_word(m, rp).currentWord = <<>> THEN <<>>
                            ELSE <<get_next_word(m, rp).currentWord>> \o h[get_next_word(m, rp).readPointer]]
           w == CHOOSE h : Rec(h)
<1>6. ReadsWords(w, m)
  <2>1. PICK h : ReadsWords(h, m) /\ h = [rp \in Addresses |-> h[rp]]
    BY <1>5, WordsExist
  <2>2. Rec(h)
    BY <2>1 DEF ReadsWords
  <2>3. Rec(w)
    BY <2>2
  <2> HIDE DEF w
  <2> QED
    BY <2>3 DEF ReadsWords
<1>7. WordsRead(m) = w[0]
  BY DEF WordsRead
<1> HIDE DEF w
<1>8. w[0] = WordsFrom(line, 0)
  BY <1>5, <1>6, WordsAre
<1>9. Behind(line, 0) = Beginnings(line)
  <2>1. \A i \in Beginnings(line) : i \in 1 .. n
    BY <1>1 DEF Beginnings, n
  <2>2. \A i \in Beginnings(line) : i > 0
    BY <1>2, <2>1
  <2> QED
    BY <2>2 DEF Behind
<1>10. WordsFrom(line, 0) = Words(line)
  BY <1>9 DEF WordsFrom, Words, EndOf
<1> QED
  BY <1>7, <1>8, <1>10 DEF m, n

-----------------------------------------------------------------------------
(* The library *)

\* The memory holds bytes, whatever is typed.
HoldsBytes == memory \in Memories

\* And then the library keeps its promises.
LEMMA AllUnderstood == HoldsBytes => LineUnderstood
  BY MemmoveIs, CatIsAppended, ComparedIs, WordsAreRead, PathsAre, NumbersAre
     DEF HoldsBytes, LineUnderstood, CopiesWhole

\* Whatever is typed into a memory of any size, copies are whole, comparisons true, and the
\* words, names and numbers of a line are found as they stand (string.c 5-105, user-buffer.c
\* 26-38, shell_cmd.c 16-113).
THEOREM StringsKeepTheirWord == StringsSpec => []LineUnderstood
<1>1. StringsInit => HoldsBytes
  BY DEF StringsInit, Cleared, HoldsBytes, Memories, NUL, Chars
<1>2. HoldsBytes /\ [FillByte]_memory => HoldsBytes'
  BY StringsAssumption DEF FillByte, HoldsBytes, Memories
<1> QED
  BY <1>1, <1>2, AllUnderstood, PTL DEF StringsSpec
=============================================================================
