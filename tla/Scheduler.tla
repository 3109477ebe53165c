----------------------------- MODULE Scheduler -----------------------------
(***************************************************************************)
(* The round-robin scheduler of scheduler.c and the timer interrupt of     *)
(* timer.c that drives it.                                                 *)
(***************************************************************************)
EXTENDS Process

CONSTANTS TICKS_PER_SECOND, \* 1000 in the build
          QUANTUM,          \* 10 ticks
          SECONDS           \* second_counter is a uint32_t: 2^32

ASSUME SchedulerAssumption ==
  /\ TICKS_PER_SECOND \in Nat \ {0}
  /\ QUANTUM \in Nat \ {0}
  /\ SECONDS \in Nat \ {0}

VARIABLES current_process_list_id, tick_counter, second_counter

vars == <<processVars, current_process_list_id, tick_counter, second_counter>>

SchedulerInit ==
  /\ current_process_list_id = -1
  /\ tick_counter = 0
  /\ second_counter = 0

-----------------------------------------------------------------------------
(* scheduler_switch_to_next_process, for a process list whose context has    *)
(* been saved.                                                              *)

\* The current slot becomes READY whatever state it was in.
Yielded(list) ==
  IF current_process_list_id = -1 THEN list
  ELSE [list EXCEPT ![current_process_list_id].state = "READY"]

\* The first slot of the list the loop looks at.  The increment before the loop
\* does not wrap: from the last slot it leads to process_list[PROCESS_COUNT_MAX],
\* and the increment in the loop from there to 1.
FirstSlot ==
  IF current_process_list_id = PROCESS_COUNT_MAX - 1 THEN 1 ELSE current_process_list_id + 1

\* How many slots the loop passes before it looks at slot i.
Distance(i) == (i - FirstSlot) % PROCESS_COUNT_MAX

Nearest(S) == CHOOSE i \in S : \A j \in S : Distance(i) <= Distance(j)

InState(list, s) == {i \in Slots : list[i].state = s}

\* The loop stops at the first READY slot; NEW slots it passes become READY, so
\* without any READY slot it stops at the nearest of them in its second round.
Candidates(list) ==
  IF InState(list, "READY") # {} THEN InState(list, "READY") ELSE InState(list, "NEW")

\* Seeded fault: the loop leaves NEW slots NEW.
NeverPassed(list, i, target) == FALSE

Passed(list, i, target) ==
  InState(list, "READY") # {} => Distance(i) < Distance(target)

\* The process list when the loop has stopped at target.
Switched(list, target) ==
  [i \in Slots |->
     IF i = target THEN [list[i] EXCEPT !.state = "RUNNING"]
     ELSE IF list[i].state = "NEW" /\ Passed(list, i, target)
     THEN [list[i] EXCEPT !.state = "READY"]
     ELSE list[i]]

\* cr3 and the registers are loaded from the target's PCB.  A garbage directory
\* leaves no kernel to return to.
process_context_switch(list, target) ==
  /\ cr3' = list[target].dir
  /\ cpu' = [of     |-> IF list[target].eip = 0 THEN list[target].pid ELSE list[target].eip,
             eflags |-> list[target].eflags]
  /\ mode' = IF list[target].dir = Garbage THEN "crashed" ELSE "user"

scheduler_switch_to_next_process(saved) ==
  LET list == Yielded(saved)
  IN  IF Candidates(list) = {}
      THEN \* nothing to run: the loop never ends
           /\ mode' = "hung"
           /\ process_list' = list
           /\ UNCHANGED <<cr3, cpu, current_process_list_id>>
      ELSE LET target == Nearest(Candidates(list))
           IN  /\ process_list' = Switched(list, target)
               /\ current_process_list_id' = target
               /\ process_context_switch(list, target)

\* From the last slot the loop first reads the word after the list as a state;
\* if it happens to equal READY the machine runs a process that is none.
SwitchOutsideList(saved) ==
  /\ current_process_list_id = PROCESS_COUNT_MAX - 1
  /\ mode' = "crashed"
  /\ process_list' = Yielded(saved)
  /\ UNCHANGED <<cr3, cpu, current_process_list_id>>

-----------------------------------------------------------------------------
(* timer_isr *)

\* process_get_current_running_pcb_pointer looks for one of these.
Running == {i \in Slots : process_list[i].state = "RUNNING"}

AdvanceClock ==
  IF tick_counter + 1 >= TICKS_PER_SECOND
  THEN /\ tick_counter' = tick_counter + 1 - TICKS_PER_SECOND
       /\ second_counter' = (second_counter + 1) % SECONDS
  ELSE /\ tick_counter' = tick_counter + 1
       /\ UNCHANGED second_counter

Preempts == active_process_count > 1 /\ tick_counter' % QUANTUM = 0

\* The saved context: every register comes from the interrupt frame but eflags
\* (and cs, ss), which like the directory are those already in the PCB.
SavedContext(pcb) == [pcb EXCEPT !.eip = cpu.of]

\* scheduler_save_context_to_current_running_pcb: ctx goes to the slot the
\* scheduler remembers, not to the one it was taken from.
Saved(ctx) ==
  [process_list EXCEPT ![current_process_list_id].eip    = ctx.eip,
                       ![current_process_list_id].eflags = ctx.eflags,
                       ![current_process_list_id].dir    = ctx.dir]

Tick ==
  /\ mode \in {"setup", "init", "user"}
  /\ AdvanceClock
  /\ ~Preempts
  /\ UNCHANGED <<processVars, current_process_list_id>>

Preempt ==
  /\ mode \in {"setup", "init", "user"}
  /\ AdvanceClock
  /\ Preempts
  /\ Running # {}
  /\ LET saved == Saved(SavedContext(process_list[Least(Running)]))
     IN  \/ scheduler_switch_to_next_process(saved)
         \/ SwitchOutsideList(saved)
  /\ UNCHANGED <<paging, active_process_count, next_pid, reply>>

\* No process is RUNNING: the context is read through a NULL pointer.  Either
\* that faults for ever (main_interrupt_handler ignores exceptions), or page 0 of
\* the killed process is still in the TLB and its code is taken for a context.
PreemptWithoutRunning ==
  /\ mode \in {"setup", "init", "user"}
  /\ AdvanceClock
  /\ Preempts
  /\ Running = {}
  /\ \/ /\ mode' = "hung"
        /\ UNCHANGED <<cr3, cpu, process_list, current_process_list_id>>
     \/ \E flags \in Flags :
          LET saved == Saved(SavedContext([FreePCB EXCEPT !.eflags = flags]))
          IN  scheduler_switch_to_next_process(saved) \/ SwitchOutsideList(saved)
  /\ UNCHANGED <<paging, active_process_count, next_pid, reply>>

timer_isr == Tick \/ Preempt \/ PreemptWithoutRunning
=============================================================================
