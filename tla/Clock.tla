------------------------------- MODULE Clock -------------------------------
(***************************************************************************)
(* The reader of the real-time clock, cmos.c.  The clock chip moves on by  *)
(* itself while read_rtc takes its registers one by one: between any two   *)
(* port reads it can begin or end an update, and while it updates a        *)
(* register can read as anything.                                          *)
(***************************************************************************)
EXTENDS Integers

CONSTANTS SECONDS_PER_MINUTE, \* of the chip: 60
          MINUTES_PER_HOUR,   \* of the chip: 60
          PASSES,             \* passes over the registers that fit between two updates
          Noise               \* what a register can read as during an update

ASSUME ClockAssumption ==
  /\ SECONDS_PER_MINUTE \in 1 .. 60 /\ MINUTES_PER_HOUR \in 1 .. 60
  /\ PASSES \in Nat /\ PASSES >= 3
  /\ Noise \subseteq 0 .. 255

VARIABLES now,       \* the time of day the chip has
          update,    \* its update-in-progress flag
          registerB, \* the format of its registers
          since,     \* passes ended since the last update, up to PASSES
          pc,        \* where read_rtc and show_HMS are
          regs,      \* second, minute, hour
          last,      \* last_second, last_minute, last_hour
          compared,  \* is the pass one of the do loop?
          base,      \* the chip's time when the pass began
          shown      \* the digits on the screen

clockVars == <<now, update, registerB, since, pc, regs, last, compared, base, shown>>

Times == [hour : 0 .. 23, minute : 0 .. MINUTES_PER_HOUR - 1, second : 0 .. SECONDS_PER_MINUTE - 1]
Byte  == 0 .. 255
Registers == [hour : Byte, minute : Byte, second : Byte]

Zero == [hour |-> 0, minute |-> 0, second |-> 0]

ToBCD(n) == (n \div 10) * 16 + (n % 10)

-----------------------------------------------------------------------------
(* The chip *)

Later(t) ==
  IF t.second + 1 < SECONDS_PER_MINUTE THEN [t EXCEPT !.second = @ + 1]
  ELSE IF t.minute + 1 < MINUTES_PER_HOUR THEN [t EXCEPT !.second = 0, !.minute = @ + 1]
  ELSE [hour |-> (t.hour + 1) % 24, minute |-> 0, second |-> 0]

\* On the twelve-hour clock 12 comes before 1, and 128 marks the afternoon.
Twelve(h) == IF h % 12 = 0 THEN 12 ELSE h % 12

Digits(n) == IF registerB.binary THEN n ELSE ToBCD(n)

Encoded(t) ==
  [hour   |-> IF registerB.day24 THEN Digits(t.hour)
              ELSE Digits(Twelve(t.hour)) + (IF t.hour >= 12 THEN 128 ELSE 0),
   minute |-> Digits(t.minute),
   second |-> Digits(t.second)]

\* An update comes every second, and a second is long for the reader.
BeginUpdate ==
  /\ ~update
  /\ since = PASSES
  /\ update' = TRUE
  /\ UNCHANGED <<now, registerB, since, pc, regs, last, compared, base, shown>>

EndUpdate ==
  /\ update
  /\ update' = FALSE
  /\ now' = Later(now)
  /\ since' = IF pc = "idle" THEN PASSES ELSE 0
  /\ UNCHANGED <<registerB, pc, regs, last, compared, base, shown>>

-----------------------------------------------------------------------------
(* read_rtc *)

\* What get_RTC_register can return for r.
Reading(r) ==
  IF update THEN Noise \cup {Encoded(now)[r], Encoded(Later(now))[r]} ELSE {Encoded(now)[r]}

\* Syscall 16, which the clock program makes over and over.  The digits of the call
\* before stay on the screen, but nothing reads them: the model forgets them.
StartRead ==
  /\ pc = "idle"
  /\ pc' = "wait"
  /\ base' = now
  /\ shown' = <<>>
  /\ UNCHANGED <<now, update, registerB, since, regs, last, compared>>

\* get_update_in_progress_flag is clear.
WaitForUpdate ==
  /\ pc = "wait"
  /\ ~update
  /\ base' = now
  /\ regs' = Zero \* every one is read before it is used
  /\ pc' = "second"
  /\ UNCHANGED <<now, update, registerB, since, last, compared, shown>>

ReadSecond ==
  /\ pc = "second"
  /\ \E v \in Reading("second") : regs' = [regs EXCEPT !.second = v]
  /\ pc' = "minute"
  /\ UNCHANGED <<now, update, registerB, since, last, compared, base, shown>>

ReadMinute ==
  /\ pc = "minute"
  /\ \E v \in Reading("minute") : regs' = [regs EXCEPT !.minute = v]
  /\ pc' = "hour"
  /\ UNCHANGED <<now, update, registerB, since, last, compared, base, shown>>

\* Seeded fault: only the seconds are compared.
SecondsAgree(read) == compared /\ last.second = read.second

\* Seeded fault: the loop goes on while the values are the same.
Differ(read) == compared /\ last # read

\* The values of the pass before are compared, once there has been one.
Agree(read) == compared /\ last = read

ReadHour ==
  /\ pc = "hour"
  /\ \E v \in Reading("hour") :
       LET read == [regs EXCEPT !.hour = v]
       IN  /\ regs' = read
           /\ pc' = IF Agree(read) THEN "convert" ELSE "wait"
           /\ last' = read
  /\ compared' = TRUE
  /\ since' = IF since < PASSES THEN since + 1 ELSE since
  /\ UNCHANGED <<now, update, registerB, base, shown>>

FromBCD(n) == (n % 16) + (n \div 16) * 10

\* Seeded fault: the mark of the afternoon counts as tens.
HourOfAll(h) == FromBCD(h) % 256

\* The hour from its register: the mark of the afternoon stays out of the digits.
HourFromBCD(h) == FromBCD(h % 128) + (h \div 128) * 128

To24(h) == IF ~registerB.day24 /\ h >= 128 THEN ((h % 128) + 12) % 24 ELSE h

Zone(h) == (h + 7) % 24

Convert ==
  /\ pc = "convert"
  /\ regs' = IF registerB.binary
             THEN [regs EXCEPT !.hour = Zone(To24(@))]
             ELSE [second |-> FromBCD(regs.second) % 256, minute |-> FromBCD(regs.minute) % 256,
                   hour |-> Zone(To24(HourFromBCD(regs.hour)))]
  /\ pc' = "draw"
  /\ last' = Zero \* the locals of read_rtc end with it
  /\ compared' = FALSE
  /\ since' = IF update THEN since ELSE PASSES
  /\ UNCHANGED <<now, update, registerB, base, shown>>

-----------------------------------------------------------------------------
(* show_HMS *)

Tens(n)  == (n \div 10) % 10
Units(n) == n % 10

\* intToStrPad gives 0 three digits, one more than the array holds.  The arrays of
\* hour, minute and second lie below each other in this order, so the third may
\* fall on the first digit of the array above, which has been filled before.
Overrun(n, beside) == beside /\ n = 0

Faces(t, beside) ==
  [hour   |-> <<IF Overrun(t.minute, beside) THEN 0 ELSE Tens(t.hour), Units(t.hour)>>,
   minute |-> <<IF Overrun(t.second, beside) THEN 0 ELSE Tens(t.minute), Units(t.minute)>>,
   second |-> <<Tens(t.second), Units(t.second)>>]

Draw ==
  /\ pc = "draw"
  /\ \E beside \in BOOLEAN : shown' = Faces(regs, beside)
  /\ pc' = "idle"
  /\ UNCHANGED <<now, update, registerB, since, regs, last, compared, base>>

-----------------------------------------------------------------------------

ClockInit ==
  /\ now \in Times
  /\ update = FALSE
  /\ registerB \in [binary : BOOLEAN, day24 : BOOLEAN]
  /\ since = PASSES
  /\ pc = "idle"
  /\ regs = Zero
  /\ last = Zero
  /\ compared = FALSE
  /\ base = now
  /\ shown = <<>>

ReadRTC == WaitForUpdate \/ ReadSecond \/ ReadMinute \/ ReadHour \/ Convert

ClockNext == BeginUpdate \/ EndUpdate \/ StartRead \/ ReadRTC \/ Draw

ClockSpec == ClockInit /\ [][ClockNext]_clockVars

\* An update ends, and the kernel goes on: read_rtc runs with interrupts off.
FairClockSpec == ClockSpec /\ WF_clockVars(EndUpdate) /\ WF_clockVars(ReadRTC \/ Draw)

-----------------------------------------------------------------------------
(* Properties *)

\* Type invariant of the reader and the chip.
ClockTypeOK ==
  /\ now \in Times /\ base \in Times
  /\ update \in BOOLEAN
  /\ registerB \in [binary : BOOLEAN, day24 : BOOLEAN]
  /\ since \in 0 .. PASSES
  /\ pc \in {"idle", "wait", "second", "minute", "hour", "convert", "draw"}
  /\ regs \in Registers /\ last \in Registers
  /\ compared \in BOOLEAN

\* The pass so far was before any update: what has been read is what there was.
InPass == pc \in {"second", "minute", "hour"}

Undisturbed ==
  /\ ~update /\ now = base
  /\ pc \in {"minute", "hour"} => regs.second = Encoded(base).second
  /\ pc = "hour" => regs.minute = Encoded(base).minute

\* An update that disturbs a pass is the only one for a while: it comes PASSES passes
\* after the one before, so the pass before was undisturbed and read what was there
\* when this one began.
OneUpdateAtATime ==
  /\ update => since = PASSES
  /\ InPass /\ ~update /\ since # 0 => Undisturbed
  /\ InPass /\ compared /\ (~Undisturbed \/ since = PASSES) => last = Encoded(base)
  /\ pc = "wait" /\ compared /\ ~update /\ since = PASSES => last = Encoded(now)
  /\ pc \in {"idle", "draw"} => ~compared

\* The values the loop ends with are the registers of one moment, the beginning
\* of its last pass: two passes never agree on a mixture of two times, or on what
\* an update made of the registers.
ReadsOneMoment == pc = "convert" => regs = Encoded(base)

\* read_rtc converts the time of one moment ("to avoid getting dodgy/inconsistent
\* values due to RTC updates", cmos.c 27), because of the two passes that agree one at
\* most is disturbed: an inductive invariant, with the types it needs.
ClockInv == ClockTypeOK /\ OneUpdateAtATime /\ ReadsOneMoment

\* The time of day, seven hours later, unless the chip counts to twelve and it is
\* twelve o'clock: then the code takes noon for midnight and midnight for noon.
HourIsRight ==
  pc = "draw" =>
    /\ regs.minute = base.minute /\ regs.second = base.second
    /\ regs.hour = (base.hour + 7
                      + (IF ~registerB.day24 /\ base.hour % 12 = 0 THEN 12 ELSE 0)) % 24

\* What is on the screen is what was read, but for tens shown as 0 beside a
\* field that is 0.
ShownIsRead ==
  pc = "idle" /\ shown # <<>> =>
    /\ shown.second = <<Tens(regs.second), Units(regs.second)>>
    /\ shown.minute[2] = Units(regs.minute) /\ shown.hour[2] = Units(regs.hour)
    /\ regs.second # 0 => shown.minute[1] = Tens(regs.minute)
    /\ regs.minute # 0 => shown.hour[1] = Tens(regs.hour)

\* From the registers in any of their four formats to the digits on the screen, the
\* time of the moment read stays what it was, but for the two places where the code
\* errs (cmos.c 57-66, 68 with string.c 107).
TimeIsRight == HourIsRight /\ ShownIsRead

\* The loop ends, however often the registers changed under it.
ReadEnds == (pc # "idle") ~> (pc = "idle")

=============================================================================
