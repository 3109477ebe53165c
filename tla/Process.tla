------------------------------- MODULE Process -------------------------------
(***************************************************************************)
(* The process manager of process.c: the process list, its counter, and    *)
(* process creation and destruction.  Every entry point runs inside an     *)
(* interrupt gate (IF = 0) or before the first process, so each is one     *)
(* atomic action; "assumes no reentrancy in ISR" (process.h) holds.        *)
(***************************************************************************)
EXTENDS Paging

CONSTANTS PROCESS_COUNT_MAX, \* 16 in the build
          MaxPid,            \* bound of the model on next_pid
          NeededFrames       \* page_frame_count_needed of the requests made

ASSUME ProcessAssumption ==
  /\ PROCESS_COUNT_MAX \in Nat /\ PROCESS_COUNT_MAX >= 2
  /\ MaxPid \in Nat \ {0}
  /\ NeededFrames \subseteq Nat \ {0}

VARIABLES paging,               \* page_manager_state and page_directory_manager
          cr3,                  \* the directory in use
          process_list, active_process_count, next_pid,
          mode,                 \* how far the machine got, see Modes
          cpu,                  \* registers: whose code runs, with which flags
          reply                 \* last syscall: what the handler returned, what *edx holds

processVars == <<paging, cr3, process_list, active_process_count, next_pid, mode, cpu, reply>>

Slots == 0 .. PROCESS_COUNT_MAX - 1

\* Values of cr3 and of a saved directory address besides Directories.
KernelDirectory == -1
Garbage         == -2

\* What flag bits a process runs with: those process creation gives it, or others
\* its own instructions have set.
Flags == {"base", "changed"}

\* setup: kernel_setup before the init process; init: init process created,
\* scheduler not started; user: processes run; hung: the kernel spins with no
\* way out; crashed: a fault it cannot take, the machine resets.
Modes == {"setup", "init", "user", "hung", "crashed"}

States == {"TERMINATED", "RUNNING", "NEW", "READY"}

\* context.eip: 0 is the entry point, otherwise the pid whose code it points to.
PCBType == [pid    : Nat,
            state  : States,
            frames : Nat,     \* memory.page_frame_used_count
            dir    : Directories \cup {Garbage},
            eip    : Nat,
            eflags : Flags]

\* memset(pcb, 0): the directory of a free slot is never read.
FreePCB == [pid |-> 0, state |-> "TERMINATED", frames |-> 0, dir |-> Garbage,
            eip |-> 0, eflags |-> "base"]

Live(i) == process_list[i].state # "TERMINATED"

Least(S) == CHOOSE x \in S : \A y \in S : x <= y

Inactive == {i \in Slots : ~Live(i)}

ProcessInit ==
  /\ paging = page_manager_state_init
  /\ cr3 = KernelDirectory
  /\ process_list = [i \in Slots |-> FreePCB]
  /\ active_process_count = 0
  /\ next_pid = 1
  /\ mode = "setup"
  /\ cpu = [of |-> 0, eflags |-> "base"]
  /\ reply = [ret |-> 0, edx |-> 0]

-----------------------------------------------------------------------------
(* process_destroy *)

Matching(pid) == {i \in Slots : process_list[i].pid = pid /\ Live(i)}

\* The frame number paging_free_user_page_frame reads for address 0.
EntryZero(pg, d) == IF d \in Directories /\ pg.user[d][0] # Unmapped THEN pg.user[d][0] ELSE 0

\* Seeded fault: the PCB is not wiped.
DestroyUnwiped(i) ==
  LET pcb == process_list[i]
      pg1 == paging_free_user_page_frames(paging, EntryZero(paging, pcb.dir), pcb.frames)
  IN  /\ pcb.dir \in Directories
      /\ paging' = paging_free_page_directory(pg1, pcb.dir)
      /\ process_list' = [process_list EXCEPT ![i].state = "TERMINATED"]
      /\ active_process_count' = active_process_count - 1

\* The slot's directory is one of page_directory_list: all of it is released.
DestroySlot(i) ==
  LET pcb == process_list[i]
      pg1 == paging_free_user_page_frames(paging, EntryZero(paging, pcb.dir), pcb.frames)
  IN  /\ pcb.dir \in Directories
      /\ paging' = paging_free_page_directory(pg1, pcb.dir)
      /\ process_list' = [process_list EXCEPT ![i] = FreePCB]
      /\ active_process_count' = active_process_count - 1

\* paging_free_page_directory does not know the address: return false, with the
\* state already TERMINATED and everything else left in the slot.
DestroyLostSlot(i) ==
  /\ process_list[i].dir = Garbage
  /\ paging' = paging_free_user_page_frames(paging, 0, process_list[i].frames)
  /\ process_list' = [process_list EXCEPT ![i].state = "TERMINATED"]
  /\ UNCHANGED active_process_count

\* process_destroy(pid) as a syscall of the running code: found tells its result.
process_destroy(pid, found) ==
  IF Matching(pid) = {}
  THEN /\ found = FALSE
       /\ UNCHANGED <<paging, process_list, active_process_count>>
  ELSE LET i == Least(Matching(pid))
       IN  \/ found = TRUE /\ DestroySlot(i)
           \/ found = FALSE /\ DestroyLostSlot(i)

-----------------------------------------------------------------------------
(* process_create_user_process: ret is its return code, alive whether the   *)
(* machine survives it.                                                     *)

PROCESS_CREATE_SUCCESS                   == 0
PROCESS_CREATE_FAIL_MAX_PROCESS_EXCEEDED == 1
PROCESS_CREATE_FAIL_INVALID_ENTRYPOINT   == 2
PROCESS_CREATE_FAIL_NOT_ENOUGH_MEMORY    == 3
PROCESS_CREATE_FAIL_FS_READ_FAILURE      == 4

\* What a program asks for: exec with buf 0, another one with a buf in the kernel's half
\* perhaps.  How many frames ceil_div gives and whether read() finds the executable depend
\* on the file.  exec's retcode is the edx of reply; what exec does with it is to print.
Requests == [higher_half : BOOLEAN, needed : NeededFrames, readable : BOOLEAN]

\* The first check of the request that fails, or 0.
Refusal(rq) ==
  IF active_process_count >= PROCESS_COUNT_MAX THEN PROCESS_CREATE_FAIL_MAX_PROCESS_EXCEEDED
  ELSE IF rq.higher_half THEN PROCESS_CREATE_FAIL_INVALID_ENTRYPOINT
  ELSE IF ~paging_allocate_check(paging, rq.needed) \/ rq.needed > PROCESS_PAGE_FRAME_COUNT_MAX
       THEN PROCESS_CREATE_FAIL_NOT_ENOUGH_MEMORY
  ELSE 0

CreateRefused(rq, ret, alive) ==
  /\ Refusal(rq) # 0
  /\ ret = Refusal(rq)
  /\ alive = TRUE
  /\ UNCHANGED <<paging, cr3, process_list, active_process_count, next_pid>>

\* The page manager after the address space of the new process is built in d.
AddressSpace(d, n) ==
  paging_allocate_user_page_frames(paging_create_new_page_directory(paging, d), d, n)

\* Seeded fault: pids follow the number of processes.
CountedPCB(i, d, n) ==
  [process_list[i] EXCEPT !.pid = active_process_count + 1, !.state = "NEW", !.frames = n,
                          !.dir = d, !.eflags = "base"]

\* What creation writes in the slot; eip is not written, it is 0 in a wiped slot.
NewPCB(i, d, n) ==
  [process_list[i] EXCEPT !.pid = next_pid, !.state = "NEW", !.frames = n,
                          !.dir = d, !.eflags = "base"]

CanCreate(rq) == Refusal(rq) = 0 /\ next_pid <= MaxPid

\* The executable is read through the new directory, cr3 is set back, and the
\* process is counted.
CreateSucceeds(rq, ret, alive) ==
  /\ ret = PROCESS_CREATE_SUCCESS
  /\ alive = TRUE
  /\ CanCreate(rq) /\ rq.readable
  /\ UnusedDirectories(paging) # {} /\ Inactive # {}
  /\ LET d == Least(UnusedDirectories(paging))
         i == Least(Inactive)
     IN  /\ paging' = AddressSpace(d, rq.needed)
         /\ process_list' = [process_list EXCEPT ![i] = NewPCB(i, d, rq.needed)]
  /\ next_pid' = next_pid + 1
  /\ active_process_count' = active_process_count + 1
  /\ UNCHANGED cr3

\* read() fails: process_destroy undoes the creation, which was not counted yet,
\* while cr3 still holds the new directory.  Clearing its kernel entries is
\* survived only if the TLB still has them: afterwards cr3 is set back, or the
\* machine resets.
CreateReadFails(rq, ret, alive) ==
  /\ ret = PROCESS_CREATE_FAIL_FS_READ_FAILURE
  /\ alive \in BOOLEAN
  /\ CanCreate(rq) /\ ~rq.readable
  /\ UnusedDirectories(paging) # {} /\ Inactive # {}
  /\ LET d  == Least(UnusedDirectories(paging))
         i  == Least(Inactive)
         pg == AddressSpace(d, rq.needed)
     IN  /\ paging' = paging_free_page_directory(
                        paging_free_user_page_frames(pg, EntryZero(pg, d), rq.needed), d)
         /\ process_list' = [process_list EXCEPT ![i] = FreePCB]
  /\ next_pid' = next_pid + 1
  /\ active_process_count' = active_process_count - 1
  /\ UNCHANGED cr3

\* No free slot although the counter allowed it: the PCB is written at
\* process_list[-1], whose last word page_frame_used_count is
\* active_process_count, and the rest over whatever lies before it.  On a read
\* failure process_destroy does not find the pid.
CreateOutsideList(rq, ret, alive) ==
  /\ ret = IF rq.readable THEN PROCESS_CREATE_SUCCESS ELSE PROCESS_CREATE_FAIL_FS_READ_FAILURE
  /\ alive \in BOOLEAN
  /\ CanCreate(rq)
  /\ UnusedDirectories(paging) # {} /\ Inactive = {}
  /\ paging' = AddressSpace(Least(UnusedDirectories(paging)), rq.needed)
  /\ next_pid' = next_pid + 1
  /\ active_process_count' = IF rq.readable THEN rq.needed + 1 ELSE rq.needed
  /\ UNCHANGED <<cr3, process_list>>

\* paging_create_new_page_directory returned NULL, and cr3 is loaded with it.
CreateWithoutDirectory(rq, ret, alive) ==
  /\ ret = 0
  /\ alive = FALSE
  /\ CanCreate(rq)
  /\ UnusedDirectories(paging) = {}
  /\ UNCHANGED <<paging, cr3, process_list, active_process_count, next_pid>>

process_create_user_process(rq, ret, alive) ==
  \/ CreateRefused(rq, ret, alive)
  \/ CreateSucceeds(rq, ret, alive)
  \/ CreateReadFails(rq, ret, alive)
  \/ CreateOutsideList(rq, ret, alive)
  \/ CreateWithoutDirectory(rq, ret, alive)

-----------------------------------------------------------------------------
(* process_get_processes_info *)

\* For every slot it is the state of slot 0 that is tested: the caller's array, which
\* the shell has zeroed, gets the metadata of all slots or of none.
process_get_processes_info ==
  [i \in Slots |-> IF Live(0) THEN [pid |-> process_list[i].pid, state |-> process_list[i].state]
                   ELSE [pid |-> 0, state |-> "TERMINATED"]]

\* ps prints up to the first pid that is 0.
ps ==
  LET info == process_get_processes_info
  IN  {info[i] : i \in {j \in Slots : \A k \in 0 .. j : info[k].pid # 0}}
=============================================================================
