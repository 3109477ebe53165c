------------------------------- MODULE Sleep -------------------------------
(***************************************************************************)
(* sleep of user-syscall.c: a process polls the clock of timer.c until an  *)
(* unsigned difference of 32-bit words is exactly 0, while the timer hands *)
(* the CPU from one process to the next.  One process sleeps, the others   *)
(* come and go around it.  The scheduler is the one of module Scheduler    *)
(* for a process list whose last slot stays free: a process in state NEW   *)
(* is made READY and passed over the first time it would be its turn.      *)
(***************************************************************************)
EXTENDS Integers, FiniteSets

CONSTANTS PROCESSES,        \* slots in use: 0 .. PROCESSES - 1
          TICKS_PER_SECOND, \* 1000 in the build
          QUANTUM,          \* 10 ticks
          WORD,             \* what fits a uint32_t: 2^32
          Durations         \* what programs sleep, in ticks

ASSUME SleepAssumption ==
  /\ PROCESSES \in Nat \ {0}
  /\ QUANTUM \in Nat \ {0}
  /\ TICKS_PER_SECOND \in Nat \ {0}
  /\ TICKS_PER_SECOND % QUANTUM = 0
  /\ WORD \in Nat /\ TICKS_PER_SECOND < WORD
  /\ Durations \subseteq 0 .. WORD - 1

VARIABLES tick_counter, second_counter,
          alive,    \* slots that hold a process
          new,      \* those of them in state NEW, which the scheduler has not passed yet
          running,  \* the slot that has the CPU
          asleep,   \* is the sleeper inside sleep()?
          deadline, \* 1000*start + duration, as the expression has it
          duration,
          polled,   \* has the sleeper compared since it had the CPU or the tick came?
          elapsed,  \* ticks since sleep() took the time, up to WORD
          steady    \* no process has come or gone since, and none was NEW then

sleepVars == <<tick_counter, second_counter, alive, new, running,
               asleep, deadline, duration, polled, elapsed, steady>>

Slots   == 0 .. PROCESSES - 1
Sleeper == 0

-----------------------------------------------------------------------------
(* The clock and the turns *)

\* Seeded fault: the ticks start again at 1.
AdvanceFromOne ==
  IF tick_counter + 1 >= TICKS_PER_SECOND
  THEN /\ tick_counter' = 1
       /\ second_counter' = (second_counter + 1) % WORD
  ELSE tick_counter' = tick_counter + 1 /\ UNCHANGED second_counter

Advance ==
  IF tick_counter + 1 >= TICKS_PER_SECOND
  THEN /\ tick_counter' = tick_counter + 1 - TICKS_PER_SECOND
       /\ second_counter' = (second_counter + 1) % WORD
  ELSE tick_counter' = tick_counter + 1 /\ UNCHANGED second_counter

\* How many slots the scan from i looks at before j: around the end of the list, and i,
\* which was made READY before, comes last.
ScannedBefore(i, j) == (j - i - 1) % PROCESSES

\* The first READY slot.
NextSlot(i) ==
  CHOOSE j \in alive \ new : \A k \in alive \ new : ScannedBefore(i, j) <= ScannedBefore(i, k)

\* NEW slots that the scan comes by on its way: it makes them READY and goes on.
Passed(i) == {k \in new : ScannedBefore(i, k) < ScannedBefore(i, NextSlot(i))}

Switches == Cardinality(alive) > 1 /\ tick_counter' % QUANTUM = 0

\* A tick is long against one round of the loop: a sleeper that has the CPU from
\* one tick to the next compares at least once.
timer_isr ==
  /\ asleep /\ running = Sleeper => polled
  /\ Advance
  /\ running' = IF Switches THEN NextSlot(running) ELSE running
  /\ new' = IF Switches THEN new \ Passed(running) ELSE new
  /\ polled' = FALSE
  /\ elapsed' = IF asleep /\ elapsed < WORD THEN elapsed + 1 ELSE elapsed
  /\ UNCHANGED <<alive, asleep, deadline, duration, steady>>

\* Whoever runs creates a process, or destroys another one.
CreateProcess ==
  /\ \E i \in Slots \ alive : alive' = alive \cup {i} /\ new' = new \cup {i}
  /\ steady' = FALSE
  /\ UNCHANGED <<tick_counter, second_counter, running, asleep, deadline, duration, polled, elapsed>>

DestroyProcess ==
  /\ \E i \in alive \ {running, Sleeper} : alive' = alive \ {i} /\ new' = new \ {i}
  /\ steady' = FALSE
  /\ UNCHANGED <<tick_counter, second_counter, running, asleep, deadline, duration, polled, elapsed>>

-----------------------------------------------------------------------------
(* sleep *)

\* Syscall 18 as one word, the way the condition of the loop adds it up.
Now == (TICKS_PER_SECOND * second_counter + tick_counter) % WORD

\* Seeded fault: the part of the second is left out of the start.
DeadlineOfSeconds(d) == (TICKS_PER_SECOND * second_counter + d) % WORD

Deadline(d) == (Now + d) % WORD

\* The first syscall 18.  A tick may come before the loop's first comparison.
StartSleep ==
  /\ running = Sleeper /\ ~asleep
  /\ asleep' = TRUE
  /\ \E d \in Durations : duration' = d /\ deadline' = Deadline(d)
  /\ polled' = TRUE
  /\ elapsed' = 0
  /\ steady' = (new = {})
  /\ UNCHANGED <<tick_counter, second_counter, alive, new, running>>

\* Seeded fault: the difference is looked at as if it had a sign.
SignedOver == (deadline - Now) % WORD \in {0} \cup ((WORD + 1) \div 2) .. WORD - 1

\* while (... > 0), in unsigned arithmetic.
Over == (deadline - Now) % WORD = 0

\* One more syscall 18 and the comparison.
Poll ==
  /\ running = Sleeper /\ asleep
  /\ asleep' = ~Over
  /\ polled' = TRUE
  /\ UNCHANGED <<tick_counter, second_counter, alive, new, running, deadline, duration, elapsed, steady>>

-----------------------------------------------------------------------------

SleepInit ==
  /\ tick_counter = 0 /\ second_counter = 0
  /\ alive \in {S \in SUBSET Slots : Sleeper \in S}
  /\ new \in SUBSET (alive \ {Sleeper})
  /\ running = Sleeper
  /\ asleep = FALSE
  /\ deadline = 0 /\ duration = 0 /\ elapsed = 0
  /\ polled = TRUE
  /\ steady = TRUE

SleepNext == timer_isr \/ CreateProcess \/ DestroyProcess \/ StartSleep \/ Poll

SleepSpec == SleepInit /\ [][SleepNext]_sleepVars

-----------------------------------------------------------------------------
(* Properties *)

\* Type invariant.
SleepTypeOK ==
  /\ tick_counter \in 0 .. TICKS_PER_SECOND - 1
  /\ second_counter \in 0 .. WORD - 1
  /\ alive \subseteq Slots /\ Sleeper \in alive \ new /\ running \in alive \ new
  /\ new \subseteq alive
  /\ deadline \in 0 .. WORD - 1 /\ duration \in Durations \cup {0}
  /\ elapsed \in 0 .. WORD

Late == asleep /\ elapsed > duration

\* However the counters carry and wrap, a sleep that ends has lasted its duration,
\* or missed that tick and gone on until a whole word of ticks was over.
LastsItsDuration ==
  [][asleep /\ ~asleep' => elapsed = duration \/ elapsed = WORD]_sleepVars

\* The one tick the loop can end at is missed only by a sleeper that does not have
\* the CPU in it, or has only begun to sleep when it ends.
MissedOnlyWithoutCPU ==
  [][~Late /\ Late' => running # Sleeper \/ duration = 0]_sleepVars

\* A sleep of whole rounds of all processes ends in the part of the sleeper's own
\* turn it began in, as long as nobody comes or goes and nobody was NEW when it began: a
\* process that is passed over once shortens that round (scheduler.c 43).
\* The shell's sleep(2, 0) (user-shell.c 29) is 200 slices, whole rounds for 1, 2, 4, 5,
\* 8 and 10 processes.
WholeRoundsAreMet ==
  asleep /\ steady /\ duration > 0 /\ duration % (QUANTUM * Cardinality(alive)) = 0
    => ~Late

\* What the state is made of, and that sleeps of whole rounds are not missed.
SleepInv == SleepTypeOK /\ WholeRoundsAreMet
=============================================================================
