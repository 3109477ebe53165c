------------------------------- MODULE Kernel -------------------------------
(***************************************************************************)
(* The kernel's multitasking core: kernel_setup, the process syscalls of   *)
(* interrupt.c and the timer, over the process manager and the page        *)
(* manager.  Syscalls and the timer run behind interrupt gates, so each is *)
(* one step and they interleave in any order while user code runs; during  *)
(* kernel_setup (IF = 1) only the timer can come between two steps.        *)
(***************************************************************************)
EXTENDS Scheduler

Init == ProcessInit /\ SchedulerInit

-----------------------------------------------------------------------------
(* kernel_setup *)

\* The init process: buf is 0 and ceil_div(0x100000 + 4 MiB, 4 MiB) is 2.
\* It is readable unless the disk has no shell.
InitRequest(readable) == [higher_half |-> FALSE, needed |-> 2, readable |-> readable]

CreateInitProcess(readable) ==
  /\ mode = "setup"
  /\ \E ret \in 0 .. 4, alive \in BOOLEAN :
       /\ process_create_user_process(InitRequest(readable), ret, alive)
       /\ mode' = IF alive THEN "init" ELSE "crashed"
  /\ UNCHANGED <<cpu, reply, current_process_list_id, tick_counter, second_counter>>

\* scheduler_init leaves current_process_list_id at -1, where it is; without
\* an init process the scheduler's loop never ends.
StartScheduler ==
  /\ mode = "init"
  /\ scheduler_switch_to_next_process(process_list)
  /\ UNCHANGED <<paging, active_process_count, next_pid, reply, tick_counter, second_counter>>

-----------------------------------------------------------------------------
(* The syscalls of the running code.  The caller zeroes the word $edx points *)
(* to first, as the shell does.                                             *)

clockVars == <<current_process_list_id, tick_counter, second_counter>>

\* Syscall 13.
SyscallDestroy(pid) ==
  /\ mode = "user"
  /\ \E found \in BOOLEAN :
       /\ process_destroy(pid, found)
       /\ LET bool == IF found THEN 1 ELSE 0 IN reply' = [ret |-> bool, edx |-> bool]
  /\ UNCHANGED <<cr3, next_pid, mode, cpu, clockVars>>

\* Syscall 14: the return code of process_create_user_process is dropped.
SyscallCreate(rq) ==
  /\ mode = "user"
  /\ \E ret \in 0 .. 4, alive \in BOOLEAN :
       /\ process_create_user_process(rq, ret, alive)
       /\ mode' = IF alive THEN "user" ELSE "crashed"
       /\ reply' = [ret |-> ret, edx |-> 0]
  /\ UNCHANGED <<cpu, clockVars>>

\* Syscall 20, made by crt0 when main returns: the slot number is passed where
\* process_destroy takes a pid, and the call returns to its caller.
SyscallExit ==
  /\ mode = "user"
  /\ \E found \in BOOLEAN : process_destroy(current_process_list_id, found)
  /\ UNCHANGED <<cr3, next_pid, mode, cpu, reply, clockVars>>

-----------------------------------------------------------------------------
(* User code *)

\* An instruction of the running program sets flag bits.
UserSetsFlags ==
  /\ mode = "user"
  /\ cpu.eflags = "base"
  /\ cpu' = [cpu EXCEPT !.eflags = "changed"]
  /\ UNCHANGED <<paging, cr3, process_list, active_process_count, next_pid, mode, reply, clockVars>>

\* Code running on a directory that has been freed loses its kernel mapping as
\* soon as the TLB forgets an entry: no handler can be reached.
UserLosesKernel ==
  /\ mode = "user"
  /\ cr3 \in Directories /\ ~paging.kernel_present[cr3]
  /\ mode' = "crashed"
  /\ UNCHANGED <<paging, cr3, process_list, active_process_count, next_pid, cpu, reply, clockVars>>

Next ==
  \/ \E readable \in BOOLEAN : CreateInitProcess(readable)
  \/ StartScheduler
  \/ \E pid \in 0 .. MaxPid : SyscallDestroy(pid)
  \/ \E rq \in Requests : SyscallCreate(rq)
  \/ SyscallExit
  \/ UserSetsFlags
  \/ UserLosesKernel
  \/ timer_isr

\* The PIT keeps firing and nothing masks it; kernel_setup runs to its end.
Fairness == WF_vars(timer_isr) /\ WF_vars(StartScheduler)

Spec     == Init /\ [][Next]_vars
FairSpec == Spec /\ Fairness

-----------------------------------------------------------------------------
(* Properties *)

\* Type invariant of the kernel's state.
TypeOK ==
  /\ paging \in PagingType
  /\ cr3 \in Directories \cup {KernelDirectory, Garbage}
  /\ process_list \in [Slots -> PCBType]
  /\ active_process_count \in Int
  /\ next_pid \in Nat \ {0}
  /\ mode \in Modes
  /\ cpu \in [of : Nat, eflags : Flags]
  /\ reply \in [ret : 0 .. 4, edx : 0 .. 4]
  /\ current_process_list_id \in Slots \cup {-1}
  /\ tick_counter \in 0 .. TICKS_PER_SECOND - 1
  /\ second_counter \in 0 .. SECONDS - 1

\* What a PCB says it holds, for a slot in use by a process that was created (a
\* slot revived by a preemption without running process has pid 0).
Named(i) == Live(i) /\ process_list[i].pid # 0

\* The slot in state RUNNING is the one the scheduler remembers, so there is at
\* most one, and the context timer_isr takes from the running PCB is saved back
\* to that PCB (timer.c 19, scheduler.c 31 find it in two different ways).
RunningIsCurrent == \A i \in Running : i = current_process_list_id

\* No two processes have one pid, and none has a pid that is still to be
\* handed out: kill(pid) can only hit the process that was meant, however slots
\* are reused and creations fail half-way (process.c 42, 97, 111).
LivePidsUnique ==
  /\ \A i, j \in Slots : Named(i) /\ Named(j) /\ i # j
                           => process_list[i].pid # process_list[j].pid
  /\ \A i \in Slots : Named(i) => process_list[i].pid < next_pid

\* Every process has a page directory of its own: one that is marked used, holds
\* the kernel's mapping and belongs to no other process, whatever sequence of
\* creations, failures and destructions led here (paging.c 154, 193).
OwnDirectory ==
  \A i \in Slots : Live(i) /\ process_list[i].dir # Garbage =>
    LET d == process_list[i].dir
    IN  /\ paging.page_directory_used[d] /\ paging.kernel_present[d]
        /\ \A j \in Slots \ {i} : Live(j) => process_list[j].dir # d

\* While a process is RUNNING cr3 holds its page directory: creation switches
\* away and back on every path (process.c 105-117), and a destroyed process
\* is no longer RUNNING.
RunningInOwnSpace == \A i \in Running : cr3 = process_list[i].dir

\* Frame f is mapped for the user in directory d.
Maps(d, f) == \E p \in UserPages : paging.user[d][p] = f

\* No two directories map one frame of memory, frame 0 apart: a destroyed
\* process never gives its frames back, so none can be handed out twice.
UserFramesPrivate ==
  \A d, e \in Directories, f \in Frames \ {0} : Maps(d, f) /\ Maps(e, f) => d = e

\* A process that goes on living keeps its page mappings through everybody
\* else's creations and destructions (paging.c 158, 197).
MappingsStable ==
  [][\A i \in Slots :
       Named(i) /\ process_list[i].dir # Garbage
         /\ Live(i)' /\ process_list'[i].pid = process_list[i].pid
         /\ process_list'[i].dir = process_list[i].dir
       => paging'.user[process_list[i].dir] = paging.user[process_list[i].dir]]_vars

\* The kernel implements the process table its clients see.
LiveSlot(pid) == CHOOSE i \in Slots : Live(i) /\ process_list[i].pid = pid

TableSpace ==
  [pid \in {process_list[i].pid : i \in {j \in Slots : Named(j)}} |-> process_list[LiveSlot(pid)].dir]

TableRunning == IF Running = {} THEN 0 ELSE process_list[Least(Running)].pid

Table == INSTANCE ProcessTable WITH
  Spaces  <- Directories,
  Lost    <- Garbage,
  space   <- TableSpace,
  running <- TableRunning,
  issued  <- next_pid - 1

\* Refinement: whatever happens to slots, counters and page tables, clients see
\* fresh pids, separate address spaces and one process dispatched at a time.
ImplementsProcessTable == Table!Spec

-----------------------------------------------------------------------------
(* The inductive invariant.  Three parts strengthen what is claimed: pids    *)
(* are distinct in all slots, since a slot that was freed only half-way can  *)
(* be revived by the scheduler with the pid it still holds; a slot that is   *)
(* not live names no directory; and a frame a user page maps is marked used. *)

DistinctPids ==
  /\ \A i, j \in Slots : process_list[i].pid # 0 /\ i # j
                           => process_list[i].pid # process_list[j].pid
  /\ \A i \in Slots : process_list[i].pid < next_pid

FreeSlotsHaveNoDirectory ==
  \A i \in Slots : ~Live(i) => process_list[i].dir = Garbage

MappedFramesMarked ==
  \A d \in Directories, f \in Frames \ {0} : Maps(d, f) => paging.page_frame_map[f]

\* The named properties above with the parts that make them inductive.
KernelInv ==
  /\ TypeOK
  /\ RunningIsCurrent
  /\ DistinctPids
  /\ FreeSlotsHaveNoDirectory
  /\ OwnDirectory
  /\ RunningInOwnSpace
  /\ MappedFramesMarked
  /\ UserFramesPrivate

-----------------------------------------------------------------------------
(* Workloads in which nobody destroys the process that is running: a shell   *)
(* whose user does not kill it, programs that do not return from main while  *)
(* their slot number is their pid.                                           *)

OrderlyNext ==
  \/ \E readable \in BOOLEAN : CreateInitProcess(readable)
  \/ StartScheduler
  \/ \E pid \in (0 .. MaxPid) \ {process_list[i].pid : i \in Running} : SyscallDestroy(pid)
  \/ \E rq \in Requests : SyscallCreate(rq)
  \/ current_process_list_id \notin {process_list[i].pid : i \in Running} /\ SyscallExit
  \/ UserSetsFlags
  \/ timer_isr

OrderlySpec == Init /\ [][OrderlyNext]_vars /\ Fairness

\* The CPU always runs the code of the process marked RUNNING, and the context
\* saved in a slot is that of the slot's own process: slots are wiped when they
\* are freed, so a successor starts at its entry point (process.c 59, timer.c
\* 20-34).
ContextsOwn ==
  /\ mode = "user" => \E i \in Running : cpu.of = process_list[i].pid
  /\ \A i \in Slots : Live(i) => process_list[i].eip \in {0, process_list[i].pid}

Pids == {process_list[i].pid : i \in {j \in Slots : Named(j)}}

\* ps never shows a process that is not there, and leaves out one that is only if a
\* slot at or below its own is free, whatever was killed and created (process.c 137,
\* shell_cmd.c 749).
PsShowsTruth ==
  /\ \A shown \in ps : shown.pid \in Pids
  /\ \A i \in Slots : (\A k \in 0 .. i : Live(k)) => \E shown \in ps : shown.pid = process_list[i].pid

\* kill, with what the syscall leaves in its retcode.
kill == IF reply.edx # 0 THEN 0 ELSE 1

\* What kill says of its victim is true: a process of that pid was there and is gone,
\* or there was none; and it takes nobody else (process.c 40-65, shell_cmd.c 795).
KillTellsTruth ==
  [][\A pid \in 0 .. MaxPid :
       SyscallDestroy(pid) => /\ kill' = 0 <=> pid \in Pids
                              /\ Pids' = Pids \ {pid}]_vars

\* Page directories marked used that no process has.
LeakedDirectories ==
  {d \in Directories : paging.page_directory_used[d]
                         /\ \A i \in Slots : Live(i) => process_list[i].dir # d}

\* Destruction, and the undoing of a failed creation, give back the directory
\* that creation took: only a creation with no slot left loses one (process.c
\* 55, 95, 111).
DirectoriesReleased ==
  [][LeakedDirectories' # LeakedDirectories => Inactive = {}]_vars

\* Nobody is forgotten: a process that waits for the CPU gets it, a NEW one too
\* although the scheduler's loop passes it over once (scheduler.c 43-51), unless
\* it is destroyed, the counter of processes does not show two of them (it counts
\* down on creations that fail) or the last slot is in use, after which slot 0 is
\* skipped.
EveryProcessRuns ==
  \A i \in Slots :
    process_list[i].state \in {"NEW", "READY"}
      ~> \/ i \in Running \/ ~Live(i)
         \/ active_process_count <= 1
         \/ Live(PROCESS_COUNT_MAX - 1)
         \/ mode = "crashed"

-----------------------------------------------------------------------------
(* What the repository says of itself and the code does not do. *)

\* crt0 ends a program with "syscall exit" (crt0.s 6): the caller is destroyed.
ExitEndsCaller == [][SyscallExit => \A i \in Running : ~Live(i)']_vars
=============================================================================
