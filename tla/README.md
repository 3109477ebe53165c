# OSBINLADEN in TLA+

TLA+ models of the kernel in this repository (a 32-bit x86 teaching kernel in C with
paging, user processes, a preemptive scheduler, a FAT32-like file system and a shell), with
TLC configurations that check them on small instances and TLAPS proofs that hold for every
size. File names below are relative to `src/src/` unless they begin with `src/`.

Contents: [inventory](#1-inventory), [modules](#2-modules-and-how-they-correspond-to-the-code),
[runs](#3-what-is-checked), [fairness](#4-fairness), [proofs](#5-what-is-proved),
[divergences](#6-where-the-code-does-not-do-what-the-repository-says),
[limits](#7-what-is-abstracted-and-what-is-not-modelled), [plan](#8-plan).

## 1. Inventory

| component (files) | state | operations | must be true |
|---|---|---|---|
| Page manager (`paging.c`) | `page_frame_map`, `free_page_frame_count`, 32 page directories and their `page_directory_used` | check, allocate and free a user frame; create and free a directory | no frame but frame 0 mapped twice, a directory in use keeps its mappings, marks agree with what is mapped |
| Process manager (`process.c`) | `process_list` (16 PCBs), `active_process_count`, `next_pid` | `process_create_user_process`, `process_destroy`, listing | pids unique, each process its own directory, a failed creation is undone |
| Scheduler (`scheduler.c`, `context_switch.s`) | `current_process_list_id` | save a context, round-robin switch | the slot RUNNING, the slot remembered and cr3 agree; nobody waits for ever |
| Timer (`timer.c`) | `tick_counter`, `second_counter` | `timer_isr`: clock, and preemption every 10 ticks when more than one process lives | the saved context belongs to the process preempted |
| Interrupts (`interrupt.c`, `intsetup.s`, `idt.c`, `gdt.c`, `context_switch.s`) | the two interrupt controllers, IDT, GDT, TSS, the frame on the kernel stack | remap, mask and acknowledge; the stub of every vector, the dispatch, the syscalls behind interrupt gates, the return | no interrupt before what serves it is loaded; the handler sees the interrupted registers, everybody gets their own back; every line is acknowledged |
| Kernel entry (`kernel.c`, `crt0.s`) | how far set-up got | format or mount the disk, create the shell as first process, start the scheduler | the machine gets to user mode or stops |
| FAT32 driver (`fat32.c`) | the FAT and two table buffers in memory; on disk a signature, the FAT, directory tables, file clusters | format, mount, read, write (file or folder), delete, delete_all, move, read_directory | chains disjoint and ended, tables without holes, FAT in memory = FAT on disk, a crash loses only what was operated on |
| Disk driver (`disk.c`, `portio.c`) | the device's registers and where it is in its command, two loop counters | read and write blocks, word by word through one port | driver and device agree on block and word; blocks whole and in their places; every call returns, also beyond the disk |
| Shell (`user-shell.c`, `shell_cmd.c`) | `cwd_cluster_number`, current word | cd, ls, mkdir, cat, cp, rm, rm -r, mv, find, exec, ps, kill; each several syscalls | the current folder stays a folder; paths resolve to what they name |
| Line editor (`user-buffer.c`) | `userBuffer`, positions | append, backspace, newline, words | stays inside the buffer |
| Keyboard (`keyboard.c`) | one-character buffer, shift | ISR, fetch and clear | no key lost |
| Character frame (`charframe.c`) | character and colour arrays, cursor | put, newline, backspace, arrows, scroll | cursor inside the frame |
| Real-time clock (`cmos.c`), clock program (`user-clock.c`) | registers read, registers of the pass before | read until two passes agree, convert from one of four formats, draw | what is shown is the time of one moment; the loop ends |
| `sleep` (`user-syscall.c`) | deadline | poll until a difference of unsigned words is 0 | no sleep ends early; when it is missed |
| String library (`stdlib/string.c`) and parsing (`user-buffer.c`, `shell_cmd.c`) | none | mem*, str*, conversions, words of a line, names of a path | copies whole; words and names are those typed |
| Graphics, fonts, GDT, port I/O, real-mode switch, image inserter, archived framebuffer | output, constant tables, build tools | | |

How they interact. User programs reach everything by `int 0x30`; the handler runs with
interrupts off until `iret`, so a syscall is atomic for other processes and for the timer.
The timer is what interleaves: it may preempt between any two instructions of a user
program, it saves the interrupt frame in the PCB found in state RUNNING by way of the slot
the scheduler remembers, and the scheduler loads cr3 and the registers of the next process.
Creation of a process calls the page manager, switches cr3, calls the FAT32 driver to read
the executable, and calls destruction when that fails. The driver shares nothing with the
rest but the disk (`Disk` says what it can rely on there), nor does the console but the CPU, so the kernel core, the file system with
the shell over it, the console, and each clock are modelled apart. What passes between them is
an arbitrary choice in each: whether a read finds the executable (`readable` in the kernel's
requests), who gets the CPU next (`Interrupts`), when a process comes or goes (`Sleep`).

What is hard here: steps of creation, destruction and preemption in any order, including a
process that destroys itself and runs on; creations that fail half-way; counters that go out
of step with what they count; array indices that come from "not found" results; a cache of
the FAT written back by every operation; several disk writes that a power cut can separate;
long sequences of creations, removals and moves of files; commands of several syscalls with
another shell in between; a stub that rebuilds a frame word by word; a device that is still storing when its driver has
returned; a chip that changes under
its reader; a loop that waits for one exact millisecond. `PROJECT.json` lists these hazards,
each at its line with the properties about it.

## 2. Modules and how they correspond to the code

```
Paging <- Process <- Scheduler <- Kernel <- MCKernel          Fat32 <- FileSystem <- MCFileSystem
                                    ^   \                             ^  |  ^
        KernelProofs ---------------'    INSTANCE ProcessTable        |  |  Shell <- MCShell
                                                                      |  |    ^
                                                                      |  |  ShellProofs
                                                                      |  INSTANCE FileTree
                                                       FileSystemProofs <- ShellProofs

Console <- MCConsole            Sleep <- MCSleep      Clock <- MCClock      Strings <- MCShell
   ^   \                          ^                     ^                     ^
   |    INSTANCE LineEditor       '---------------- LibraryProofs ------------'
ConsoleProofs

Interrupts <- MCInterrupts      Disk <- MCDisk
   ^                              ^  \
InterruptsProofs                  |   INSTANCE BlockStore
                                DiskProofs
```

`A <- B` means that B EXTENDS A. The proof modules also EXTEND `Lemmas`, which has the facts about
numbers, recursion and sequences that none of them has to itself.

**Paging.** The page manager as a record with one operator per function of `paging.c`. A
directory is what the kernel writes in it: whether the kernel's entries are present and the
frame every user page maps. The pages of a program are numbered from its entry point (every
program is linked and loaded at 0), the last number is the stack page. A run of calls of
`paging_allocate_user_page_frame` or `paging_free_user_page_frame` in a loop is one
operator. A frame number one past the memory (`BeyondMemory`) is what the allocation loop
leaves when it finds nothing.

**Process.** `process_list`, the counter, pids; `process_create_user_process` with each of its
outcomes as a disjunct (refused, done, executable unreadable, no slot left although the
counter allows one, no directory left) and `process_destroy` (whole slot released, or
stopping half-way when the directory is not one of the list). The PCB has pid, state, frame
count, directory, and of the registers whose code `eip` points into and whether `eflags` is
what creation set.

**Scheduler.** `scheduler_switch_to_next_process` computes in closed form the slot where the
loop stops and which NEW slots it turns READY on the way, with the increment before the loop
that does not wrap. `timer_isr` is a tick without preemption, a preemption, or a preemption
when no process is RUNNING (context read through a null pointer).

**Kernel.** `kernel_setup` from the creation of the first process, syscalls 13 (destroy), 14
(create), 20 (exit), user instructions that change flags, and the loss of a machine that runs
on a directory freed under it. `mode` says how far the machine got; `"hung"` and `"crashed"`
are terminal.

**ProcessTable.** What clients are promised: processes with fresh pids, each in an address
space nobody else has, at most one dispatched. `Kernel!Table` maps slots to pids.

**Fat32.** Every operation of `fat32.c`, those that only read included. The disk is a
function from clusters to a signature, a FAT, a directory table or the bytes of a part of a
file. An operation runs inside one syscall: it is one action that updates the FAT in memory
and leaves its cluster writes, in the code's order, in `queue`; `Flush` does one of them,
`Crash` can come between any two and forgets memory. This is exact because no operation reads a
cluster after having written it, with the exception the module's header names, and nothing
else can run until the syscall ends (`Ready`).

**FileSystem.** The driver with its clients (requests with parents found on a walk from the
root, and with the clusters that entries "about themselves" name), power-up, crashes, and a
second specification, `CarefulSpec`, with clients that keep away from three known errors: they
leave a free entry in every folder, write only files that fit, and move only to another
folder outside the source. Under it crashes are not steps: `CrashConfined` says instead what
the disk holds at every point at which the power could go.

**FileTree.** What users are promised: a tree of named folders and files in which each change
is all or nothing. `FileSystem!Tree` maps the disk image with pending writes to it.

**Console.** The keyboard ISR, the shell's input loop as it goes from syscall to syscall, the
line editor and the character frame, with the glyph drawn on every cell of the screen. The ISR
can come between any two steps of the loop; arrow keys change the frame inside it. Characters
are classes, and carry the number of the key they come from, so that a key taken twice or out of
order shows. `typed` and `taken` are history variables that the code does not have.

**LineEditor.** What is promised to whoever types: the line is made by keys in the order they
were typed, each at most once.

**Shell.** `cd`, `mkdir`, `rm`, `rmr`, `cp`, `mv` of one shell, followed from syscall to syscall:
each folder of a path is looked up by a syscall of its own, `cp` reads and writes in two. Between
any two of them another shell runs a command of one syscall in a current folder of its own, or
goes to another folder. `command` is what the shell has in its local variables: the path still to
resolve, the clusters found, what `cp` has read. `report` is the return code the command prints a
message for, after its way through one byte of a wider word. The disk and the syscalls are those
of `FileSystem`, with the writes of a syscall done in one step (`Settle`), since nothing crashes
here. `ls`, `cat`, `find` and the path in the prompt change nothing; they are operators that
properties evaluate in every state. `cat` is a set of outcomes, because its switch is on a word of which the
syscall writes one byte and nobody the others.

**Interrupts.** From the BIOS to the first program: the steps of `kernel_setup` that interrupts
depend on, in its order; the two 8259 controllers with requests, service and mask; what the CPU
pushes; the stub and its two ways of making a frame; `main_interrupt_handler`; what the timer
saves and `process_context_switch` loads, by the offsets of the assembly code against the order of
the C struct; segment checks. A word is a triple of whose it is, which register it comes from and
which value, so a word in the wrong place shows. `interrupted`, the registers at the moment the interrupt
came, is a history variable. Lines are raised at any step; a tick comes during a syscall too, which can last
several of them, and one that comes while one is held is lost.

**Sleep.** `sleep` polls the counters of `timer_isr` with the unsigned arithmetic of the code
(words of `WORD` values), while the timer passes the CPU around the processes that live and others
come and go. A process is created in state NEW: the scan turns it READY and passes it over the first
time it comes by (`Passed`). `elapsed` and `steady` are history variables.

**Clock.** The clock chip, which updates its registers by itself and reads as anything
meanwhile, and `read_rtc`, one port read per step: pass over the registers, comparison with the
pass before, conversion, and the digits `show_HMS` draws. `since` counts the passes between two
updates, the one fact about time that the loop relies on.

**Disk.** `read_blocks` and `write_blocks` at the level of port accesses. The driver is a program
with a program counter (`pc`), its two loop variables and its pointer: it waits for the device,
writes address and command to the registers (`Issue`), waits before each block (`WaitForBlock`) and
moves one word per step. The device goes on by itself: it seeks, offers or takes the words of a
block, stores a block after its last word, counts the blocks left, and aborts on a block that the
disk does not have. It takes no command while it is busy. A byte is two digits of `NIBBLE` values,
16 in the code, so that the four registers and the nibble of an address all count on a disk of a
few blocks. The two wrappers of `fat32.c` and the boot sector are the callers.

**BlockStore.** What the file system relies on: blocks fetched and stored one after the other, each
whole and in its place, absent blocks without effect, and at most the last block lost in a power
cut. `Disk!Promise` maps the block that the device is storing to the disk, as a reader would find it.

**Strings.** `string.c` over a memory of a few bytes, and the functions that take a line, a path
and a file name apart. A copy is the loop of the code, byte after byte in its order. What the
functions are for is said without loops: the words and names of a line are the pieces between its
cuts, taken in order (`InOrder`).

**MCKernel, MCFileSystem, MCConsole, MCShell, MCInterrupts, MCSleep, MCClock, MCDisk**
only give instances; MCShell adds to the commands of `Shell` the memory of `Strings`, which is filled
with anything before the first of them. Operators commented "Seeded fault" are variants of the operator that follows them
with one plausible error; no specification uses them. They show that a property is sensitive to
the code it is about.

Every definition that models code is listed in `PROJECT.json` with its lines.

## 3. What is checked

| run | specification, instance | properties |
|---|---|---|
| `kernel` | `Spec`; 3 slots, 6 frames, 6 directories, pids to 5, requests for 2 or 4 frames of at most 3 | `KernelInv` (with the type invariant), `LivePidsUnique`, `OwnDirectory`, `UserFramesPrivate`, `MappingsStable`, refinement `ImplementsProcessTable` |
| `kernel_orderly` | `OrderlySpec`; 4 slots, 8 frames, 4 directories, pids to 4 | `ContextsOwn`, `PsShowsTruth`, `DirectoriesReleased`, `KillTellsTruth`, `EveryProcessRuns` (liveness) |
| `fs` | `CarefulSpec`; 6 clusters (3 for data), 3 entries per folder after "." and "..", clusters of 2 units, files of 1 and 3 units, folders; two names | `ChainsOwn`, `ParentLinks`, `CrashConfined`, `FilesReadBack`, `OnlyDeleteAllLeaks`, refinement `ImplementsFileTree` |
| `fs_all` | `FileSystemSpec`; the same disk with 2 entries per folder, three names, up to 4 operations with any number of crashes and restarts | `DriverInv` (type, and `FatCached`) |
| `shell` | `MCSpec`, which is `ShellSpec` with a memory of its own before it; 7 clusters, 3 entries per folder after "." and "..", a file of 3 units on the disk, files of 2 and 3 units, up to 4 commands of either shell, paths `a`, `b`, `../a`, `b/a`, `..`; every content of six bytes of memory of five kinds, `strlen` counting to 5 | `ShellInv` (type, `ChainsOwn`, `PromptIsPath`), `FindsAll`, `LineUnderstood` (`CopiesWhole`, `ComparesStrings`, words, paths and numbers), `ShellsKeepTree`, `CommandsDoAsAsked` |
| `console` | `ConsoleSpec`; a screen of 4 rows of 4 cells, up to 4 keys of 9 kinds | `FrameShowsLine`, `ConsoleInv` (type, `ScreenShowsFrame`), refinement `ImplementsLineEditor` |
| `interrupts` | `FairSpec`; 3 processes, lines 0 (timer), 1 (keyboard) and 14 (disk), exceptions 6 and 13 | `NoInterruptTooEarly`, `FrameTrue`, `RegistersOwn`, `InterruptsInv` (type, `AllAcknowledged`), `EveryRequestServed` (liveness) |
| `sleep` | `SleepSpec`; 3 processes, slices of 2 ticks, 6 ticks a second, words of 16 values, sleeps of 0, 1, 2, 4, 6 and 8 ticks | `SleepInv` (type, `WholeRoundsAreMet`), `LastsItsDuration`, `MissedOnlyWithoutCPU` |
| `clock` | `FairClockSpec`; 2 seconds a minute, 2 minutes an hour, 24 hours, 3 passes between updates, registers that read 0 or 255 during one, all four formats | `ClockInv` (type, `OneUpdateAtATime`, `ReadsOneMoment`), `TimeIsRight`, `ReadEnds` (liveness) |
| `disk` | `FairSpec`; bytes of 4 values, 67 blocks of 2 words, clusters of 2 blocks, 8 words of memory; calls for clusters 1, 2, 8, 32, 33, 63 and the boot sector | `DiskInv` (type, `InBuffer`, `AtItsBlock`, `WhenIdle`, `BeforeBlock`, `WithinBlock`), refinement `ImplementsBlockStore`, `EveryCallReturns` (liveness) |
| `kernel_exit`, `fs_write_full` | each one statement of the repository that the code does not keep | see section 6 |

**kernel.** Any interleaving of exec, kill (of anyone, oneself included), exit and the timer.
The state marked RUNNING, the slot the scheduler remembers and cr3 stay in step; pids stay
unique however slots are reused; each process has a marked directory of its own which nobody
changes; no frame but 0 is shared; and the table of processes that clients see behaves as
promised. The abstract `Clobber` step is needed: a process that kills itself is preempted
through a null pointer and its registers are saved over whoever was created in its slot
meanwhile. Six frames let a process be created, its frames leak (section 6) and the next
allocation run past the memory with the counter still allowing it; three slots and five pids
let slots be reused, the counter fall behind, a creation find no slot, and a slot be revived
by the scheduler. Every preemption point occurs: the tick and quantum counters run
independently of the rest.

**kernel_orderly.** As long as nobody destroys the process that is running, the CPU runs the
code of the process marked RUNNING, contexts saved in slots belong to their processes, `ps` shows
processes that are there, `kill` says of its victim what happened to it, every
creation that fails gives its directory back (except one with no slot left), and every waiting
process gets the CPU. `EveryProcessRuns` names its exceptions: the process is destroyed; the
counter, which failed creations lower, no longer shows two processes, so nothing is
preempted; or the last slot is in use, after which the scan starts beyond the list and slot 0
is skipped. Four slots are the least with which the last one stays free while three processes
take turns.

**fs.** The state space is complete: the instance has no bound on the number of operations. With
three data clusters a two-cluster file can be fragmented, fill the hole left by a removed file
and be followed by a folder; a folder can be moved into another with a file in it; the cluster an
empty folder's self entry names is later taken by a file. `CrashConfined` compares at every
point between two writes what the disk shows with what it will show. `FilesReadBack` is about
files by `read` and folders by `read_directory`, both of which stop at the first free entry. It does not say
what `read` has to do of a folder: the code opens it, the comments promise 1 (section 6). `SYMMETRY` permutes names, which the driver only
compares for equality; no liveness is checked with it.

**fs_all.** Without any care on the clients' side: full folders, files that do not fit, moves
into a folder's own inside, requests through self entries, a disk whose formatting was cut off,
clusters shared by two entries, endless walks and recursions. The bound of four operations is
the price for crashes at every point and for three names; it reaches every outcome of every
operation. What survives all of this is that the FAT in memory is the one on the disk whenever
a syscall can begin.

**shell.** The commands of two shells on one disk. Whatever they do to each other's folders, the
tree changes only as a tree of files can (`ShellsKeepTree`): a current folder that was removed has
a cluster whose table still names its old entries, and may be a file's by now. A command that
nobody disturbs does what its words say, or nothing; with a disturbance between its syscalls it
may fail half-way, but only as the tree allows. `PromptIsPath` reads the prompt of a shell in any
folder against the tree, after moves of the folder or of one above it. `FindsAll` reads `find`,
`ls` and `cat` against it: `cat` must not report success for what is not there, nor the absence of what is,
and what it reads of a file is the file's beginning. Of `cp`, `CommandsDoAsAsked` claims the content
only for files of one cluster; the copy of a longer one is its first cluster, which is not what the words say
(section 6), and of it only the place in the tree is claimed. Seven clusters leave four for data: the file the disk comes with takes
two, which leaves room for a folder in a folder, or for a file that takes over a removed folder's
cluster. Four commands are enough to make a folder, go there, have it removed and its cluster
reused by a command of the other. Both shells keep to `CarefulSpec`'s limits, and `cp` and `mv` to paths that
do not lead through a folder's entry about itself (section 6).

They also work only in folders that are there or that show nothing (`Standing`). A third kind exists, a
folder cut off from the root that still has a table: the half-done table of a new folder is written to
the cluster of one that was removed (`fat32.c:30`), or a folder is moved into one that was. A folder
moved from there into the tree brings all that is in it: without the condition `ShellsKeepTree` fails. Four commands
are too few for it, which came out when the theorem was proved. The claim no longer rests on that bound, as
`ShellsKeepTree`, `ShellInv` and `FindsAll` are theorems for any number of commands (section 5);
`CommandsDoAsAsked` does.

**console.** Keys are lost (a second one before the fetch), cut short by keys without a
character, shifted, and come during command output and before the prompt. The line is what
`LineEditor` says for all of them. For whoever uses neither tab nor arrows, what stands before the
cursor is the prompt and the line, and the screen shows what the frame holds; with them the code
itself lets line and frame part. Rows of four cells with a prompt of two make a line of two
letters wrap and be erased backwards over the end of its row, four rows make the cursor leave the
screen, and four keys are enough for a command that prints, wraps, or clears and a line after
it.

**interrupts.** From any state in which the BIOS leaves the controllers' masks and requests, with
lines raised at any moment: the order of `kernel_setup` lets no interrupt through before its
tables stand. Interrupts are on from `sti` in the middle of set-up, also while the first process
is switched to in ring 0, which a preemption then has to survive; exceptions with and without
error code, from programs, and the syscall take the same stub. Three processes so that a switch
goes neither back nor always to the same one, and so that a process can be made and destroyed by
another while a third is preempted. The line of the disk is masked and stays so: it shows that a
request behind a mask disturbs nothing. `FrameTrue` compares what the C handler sees in its frame with the registers at the moment of the
interrupt, flags included; `RegistersOwn`, what a program gets back, leaves the flags out, since the code loses
them. `EveryRequestServed` is about requests that a controller holds: ticks that are lost because one is held
already, as in a long syscall, are not owed to anybody.

**sleep.** The difference that ends a sleep is 0 for one tick in a word of them. `LastsItsDuration`
is that carries and wraps never make it 0 early, and that a sleep that missed its tick ends a whole
word later. `MissedOnlyWithoutCPU` says who can miss it, `WholeRoundsAreMet` why the programs of
the repository do not: their durations are whole rounds of 1, 2, 4, 5, 8 or 10 processes. It is claimed
of sleeps during which nobody comes or goes and before which nobody came who is NEW yet: a process that is
passed over once shortens a round by a slice, and a sleeper can miss its tick by that (without this condition TLC finds it). A word of 16 with 6
ticks a second wraps in the middle of a second, as 2^32 does with 1000; 2 ticks a slice are the
least with which a sleep can begin inside one.

**clock.** An update may begin and end between any two port reads. The loop compares with the pass
before, and of two passes that may agree at most one is disturbed, because two updates are a
second apart: so what is converted is what the chip had at the beginning of the last pass. Three
passes between updates are the least for which the loop is right; the machine makes thousands.
Two seconds and two minutes let every register change alone and all of them at once, and every
hour of the day is there in each of the four formats.

**disk.** Calls one after the other, the next one coming while the device still stores the last
block, with power cuts in between. The clusters lie at both sides of every carry between the
registers of an address (bytes of 4 values: blocks 3 and 4, 15 and 16, 63 and 64), across the end of
the disk (cluster 33: one block there, one not) and beyond it (63). The disk holds different words
at addresses that differ in one byte, so a block from the wrong place shows. Driver and device stay
in step through all of it although the driver never looks at the error bit and only assumes that a
ready device has the next block.

**shell, strings.** Copies that overlap in each direction, strings longer than `strlen` can count (it
returns one byte), strings that `strcat` appends to themselves, and every line, path and file name
that fits six bytes made of blanks, dots, slashes and digits.

Bounds. `MaxPid` caps `next_pid` (a creation beyond it does not happen), `SECONDS` and
`TICKS_PER_SECOND` are the wrap points of the clock, `MaxCalls` bounds the operations of
`FileSystemSpec` (0 and unused in `CarefulSpec`) and the commands of `ShellSpec`, `MaxTyped` the
keys typed, `WORD` and `elapsed` the words and the time of `Sleep`, `since` in `Clock` stops at `PASSES`, `FillByte` fills the
memory of `Strings` once from its beginning to its end. Everything else is finite by
itself. `CHECK_DEADLOCK FALSE`: the kernel really stops when it hangs or crashes, and a bounded
number of file operations, commands or keys ends. `interrupts`, `sleep`, `clock` and `disk`
are checked for deadlock.

## 4. Fairness

- `WF(timer_isr)`: the PIT is programmed once and nothing masks it; user code runs with
  interrupts on.
- `WF(StartScheduler)`: `kernel_setup` runs on to `scheduler_switch_to_next_process` after it
  has created the first process.
- `WF(Flush)`: a syscall that has begun goes on to its last disk write while the machine is on.

- `Interrupts!FairSpec`: weak fairness of the handler's steps, which nothing interrupts; strong
  fairness of the steps of `kernel_setup` and of the delivery of each line, both of which are
  disabled again and again while a handler runs: the CPU looks for interrupts after every
  instruction, and between two of them there is time for an instruction.
- `WF(EndUpdate)`, `WF(ReadRTC \/ Draw)`: the chip ends its update, and `read_rtc` runs with
  interrupts off. Nothing makes the clock program ask again.

- `Disk!FairSpec`: weak fairness of the driver, which runs inside a syscall with interrupts off, and
  of the device, which ends what it has begun. Nothing makes the file system call.

No fairness is assumed of user programs: they need not ever make a syscall. `Sleep` needs none: its
properties say when a sleep can end, not that the sleeper is given the CPU.

## 5. What is proved

`KernelProofs` proves, with TLAPS, for every number of slots, frames, directories, pids, ticks
and every set of requests that satisfies the ASSUMEs of `Paging`, `Process` and `Scheduler`
(sizes positive, at least two slots and frames, a page larger than the number of frames):

- `KernelInvariant`: `Spec => []KernelInv`;
- from it `KernelTypeOK`, `KernelRunningIsCurrent`, `KernelLivePidsUnique`,
  `KernelOwnDirectory`, `KernelRunningInOwnSpace`, `KernelUserFramesPrivate`.

`KernelInv` adds three facts to the properties, without which they are not inductive:

- `DistinctPids`: pids differ in all slots, not only live ones. A slot that
  `process_destroy` left half-way is TERMINATED with its pid still in it, and the scheduler can
  mark it READY again, since it does so with the slot it remembers whatever its state.
- `FreeSlotsHaveNoDirectory`: for the same reason, a slot revived must not bring back a
  directory that meanwhile belongs to another process.
- `MappedFramesMarked`: a frame that is mapped is marked used, frame 0 apart; allocation only
  looks at the marks. Freeing keeps it because it only ever clears the mark of frame 0:
  `PhysicalIndexZero` is the lemma that a frame number divided by the page size is 0.

The proof splits the invariant in four parts (tables, CPU, clock, reply) by the variables they
read. Lemmas say what each operator of `Paging` does to a directory (`AddressSpaceEffect`,
`FreeDirectoryEffect`, ...), then one lemma per outcome of creation and destruction and per step
of the timer shows the parts preserved; `LeastInSet` and `NearestInSet` say that the slot,
directory or scheduler target picked is one of those looked for, by well-foundedness of `<` on
the naturals. `KernelStep` has one step per action.

It goes on, from the same ASSUMEs, to what a step may do:

- `KernelMappingsStable`: `Spec => MappingsStable`. By `OwnDirectory` and the lemmas about
  `Paging`, the directories creation takes and destruction frees are nobody else's.
- `KernelImplementsProcessTable`: `Spec => ImplementsProcessTable`, the refinement, one lemma per
  kind of step. The mapping picks slots by pid, so it is first stated for any list (`SpaceIn`,
  `RunningIn`), with lemmas for a list that gains, loses or changes one process. `KernelInv` is not
  enough for the timer: `Yielded` makes the remembered slot READY whatever it was. The
  additional invariant `CurrentInv` says that if its process is gone it holds no pid, so that it
  comes back as nobody, and if it is not gone it has its directory, so that it cannot be left
  half-way by a destruction. It holds as long as the machine can take an interrupt.

and, for workloads in which nobody destroys the running process,

- `OrderlyInvariant`: `OrderlySpec => [](KernelInv /\ OrderlyInv)`. `OrderlyInv` says that a slot in
  use holds a pid, a directory of the list and a context of its own, that the others are wiped,
  that the counter is at most 1 before the scheduler starts, and that afterwards the remembered
  slot is RUNNING its own code. The middle part is why a preemption without running process, which
  would break all of it, cannot come during set-up;
- from it `OrderlyContextsOwn`, `OrderlyPsShowsTruth`, `OrderlyKillTellsTruth` and
  `OrderlyDirectoriesReleased`.

`LibraryProofs` proves three modules. Of `Clock`, for every number of seconds and minutes up to 60, every number of passes
from 3 on and every set of values a register may read as during an update, it proves `ClockInvariant` and
`ClockTimeIsRight`. `ClockInv` carries `OneUpdateAtATime`: an update that disturbs a pass comes at least
`PASSES` passes after the one before, so the pass before it was undisturbed and read what the
chip had when this one began. Two passes that agree are therefore that time, not a mixture.

Of `Sleep` it proves, for every word longer than a second, every number of ticks in a second and
in a slice, every set of slots and of durations that satisfies the ASSUME of `Sleep`,
`SleepTimeInvariant`, `SleepInvariant`, `SleepLastsItsDuration` and `SleepMissedOnlyWithoutCPU`.
The invariant of the first (`TimeInv`) is that `(deadline - Now) - (duration - elapsed)` is 0 or a word up or down: the two counters together
count ticks modulo a word however they carry (`ModNext`), and the remainder of a sum of two words
is at most one word off (`ModNear`). The rest is that a sleeper whose tick has come and who has
looked at the clock in it does not sleep any more.

`SleepInvariant` is `SleepInv`, the type and `WholeRoundsAreMet`. Its inductive invariant
`RoundsInv` adds `TurnInv`: while nobody comes or goes nobody is NEW, so the scan stops at the next slot
taken (`NextSlotFirst`), and the number of the running slot among the
taken ones and the tick within its slice are what a clock of slots and ticks shows `elapsed` ticks
after the sleeper began (`ClockOfTurns`: one tick moves its hands as `timer_isr` moves
`tick_counter` and the turn; `RoundEndsAtFirst`: after whole rounds they are back where they were). The
duration of whole rounds therefore ends in the sleeper's own slice, and the late tick that
`WholeRoundsAreMet` excludes cannot be.

Of `Strings` it proves `StringsKeepTheirWord`, that `LineUnderstood` holds for memory of every size, whatever bytes
are typed into it, and for every range of `strlen`. The invariant is no more than that the memory holds bytes
(`HoldsBytes`): that a byte written anywhere breaks none of the five promises is the point, and each of
them is a lemma about loops.

- `MemmoveIs` and `CatIsAppended`: a copy goes right when the order of its bytes reads none that was
  written before (`CopyMoves`, along the loop), and each direction of `memmove` is such an order
  (`UpwardsMoves`, `DownwardsMoves`). `strcat` runs upwards to a target that is never inside its source
  unless it overtakes the zero it waits for (`CatEnds`).
- `ComparedIs`: `strlen` loses a length modulo its range, so that strings that are not as long as it can count
  are compared whole; `memcmp` turned round finds the same first difference (`ComparesTurned`).
- `PathsAre`: the names of a path behind its first one are the names of the path but the first
  (`NamesGoOn`), so the three functions that cut off a name and look again go through the same names in the same order
  (`WaysAre`); the file's name ends at its first dot (`FileIsNamed`).
- `WordsAreRead`: behind the place reached, the next word begins at the least beginning left
  (`BehindGoesOn`), and the words from there are that word and the words behind it (`WordsGoOn`).
- `NumbersAre`: reading a string is one step per character from the left (`ReadIs`); the digits of a
  number read back are that number (`DigitsRead`), and a number read, written without leading
  zeroes, shows as the string it was read from (`NumberShown`).

`ConsoleProofs` proves, for a screen of any size whose rows are words of four cells, any printable
prompt, any output and any number of keys, the refinement `ConsoleImplementsLineEditor` and the
invariants `ConsoleInvariant` and `ConsoleFrameShowsLine`. For the refinement the invariant `LineInv` says which keys the two characters on
their way come from: the one in the keyboard's buffer and the one fetched are of keys after the
last taken, the first after the second (`KeysInOrder`), so that a key lost is only skipped; and a
newline is in the line between its being taken and the command and at no other time
(`NewlineEndsLine`), which is what lets the mapping count a line as over when its newline is in.
The frame does not occur in it: what the line is does not depend on the echo.

The frame's own invariant, `FrameInv`, holds as long as neither a tab nor an arrow was used: every cell
but the cursor's shows the character the frame has there (`Clean`), the cursor's cell shows a mark or
a blank (`CursorDrawn`), and prompt and line stand before the cursor (`LineShown`). It must hold
between any two characters of an output as well, so `puts` is taken one character at a time
(`AllUpTo` over its recursion), and one lemma per character says where it lands. Backspace is the
step that needs all of it: it looks back over zeroes for a character to erase, and finds one of the
line because the line is what stands there.

`FileSystemProofs` proves `DriverInvariant`, for every disk of up to 268435440 clusters, every length
of folder and set of requests with names that are not empty, through power-up, crashes between any
two writes and an interrupted formatting. The invariant is `DriverKept`: while the machine is on, the last
FAT among the pending writes is the one in memory (`LastFatIs`), or none is pending and the disk's
is it. Types are the larger part of it: of chains, which are taken by their places in the set of
empty clusters (`PlaceTaken`, `PlaceIsOwn`), and of what `delete_all_folder` erases, which is defined by
recursion on the depth of folders.

For careful clients (`CarefulSpec`: nobody fills a folder to its last entry, writes a file that
does not fit, moves within a folder or a folder into itself, and the machine is not cut off) it also
proves `CarefulChainsOwn`, `CarefulParentLinks`, `CarefulFilesReadBack`, `CarefulCrashConfined` and
`CarefulOnlyDeleteAllLeaks`, again for every disk, length of folder, size, number of files and depth of
folders, and that the driver implements `FileTree` (`CarefulImplementsFileTree`, below). None of the five
is inductive alone. The invariant of most is `TreeKept`: before power-up the disk is zero, and after it the disk as the pending
writes will leave it (`Image`) is `Sound`:

- the folders at or below the root (`Live`) are closed, the least such set (`BelowIsLeast`): what is
  shown to have a parent in a closed set is live, and nothing else has to be looked at;
- every live table is `Tidy`: the entries in use come first, a hole is left behind them, and what
  is not in use has no name. This is what `read` needs, and what makes `RemoveEntry` lose no other entry
  (`RemovedIs`) and `AddEntry` overwrite none (`AddedIs`);
- every place, an entry in a live table, owns a chain (`Owned`): its clusters are `Linked` one to the next in
  the FAT up to the end mark, without repetition, as many as the size asks for, and no two
  places share one (`OwnChains`);
- a folder's ".." is the place's folder.

`ChainOf` brings the walk along the FAT, a recursive function, back to `Linked`, a statement about a
sequence, and only `LinkedKept`, `ChainLinked` and the like are used from there on. That no two places share
a cluster also says that a folder has one place (`OnePlace`), and with it that the folders are
without cycle (`NoCycle`): a folder inside itself would leave a smaller closed set. Without that, a
move of a folder, or what `delete_all` erases, could not be told from the rest.

An operation is then three steps: what it queues makes an image (`WrittenHere`, `WrittenLast`: the last
write to a cluster counts); the image differs from the disk as one of `Links`, `Unlinks` and `Moves` says;
and each of these keeps `Sound` (`LinkedSound`, `UnlinkedSound`, `MovedSound`). The order of the writes does not matter
for this, and `Flush` leaves the image what it is (`FlushedImage`).

What a crash leaves (`CrashConfined`) is about every prefix of the queue, and there the image of the
whole is no help. The invariant `CrashKept` says for each prefix that the disk it would leave differs
from the image only in the file or folder f operated on and what is below it (`Confined`); a write done
turns the prefixes of the queue into those of its tail. That it holds when an operation has queued
its writes is shown write by write: each of them leaves alone (`Spares`) the entries that are not
about f in the tables of a set K of folders, the clusters of the files these name, and the words of
the FAT for them; so do any number of them, in any order (`WritesSpare`). K is the live folders, or for
`delete_all` of a folder those that stay. From K only entries about f lead out (`Apart`, which soundness
gives by `ApartLive` and `ApartBelow`), so that a folder reached in one of two such disks is reached in the
other or is below f (`LiveCarried`), and what the one shows the other shows too (`SparedView`). For f
itself nothing is said, and nothing could be: between its two tables a file that moves is in neither.

`Adding`, `Removing`, `Deleting` and `Moving` are what the operations do in these terms
(`WriteAdds`, `DeleteRemoves`, `DeleteAllRemoves`, `MoveMoves`), each with both halves, the image and the prefixes.
`OnlyDeleteAllLeaks` is read off them: after all but a removal by `delete_all` every live folder is live or its
cluster free (`LiveWithin`), hence every chain still belongs to an entry or has been freed to its end
(`LinkedLeaks`, `UnlinkedLeaks`, `MovedLeaks`). For a folder that moves this needs that it does not go into
itself, twice: the place it goes to is live because it is not below it, and what is below it is
live because that place is.

Recursion on a number is within reach all the same. A recursive function is a CHOOSE; `Iterated` shows that one
with the defining property exists, by the least number up to which none would, and then
`WalkSteps`, `BelowSteps` and `ErasedSteps` say of a walk, of the folders below a folder and of what is
erased that each step is made from the one before. `AllUpTo` is the induction, over a set of numbers
instead of an operator. `Descending` does the same for functions whose argument is no number that is counted up:
it is enough that what comes next has a smaller rank, such as the rest of a path or the tenth of a number.

`CarefulImplementsFileTree` is the refinement: every step of the driver is one change of the tree
of files that a path and a content make, or none. The tree of a disk (`TreeOf`) is made from its objects,
pairs of a path and an entry, which the model computes by recursion up to a bound. Four things
lead from there to a proof about operations:

- The objects are the least set that has the root and, with a folder, what the folder names
  (`ObjectsLeast`, `ObjectInduction`). The bound does not cut it short, because in a sound disk no folder is
  deeper than there are clusters (`NotTooDeep`, `ObjectsClosed`).
- A path has one object (`PathOnce`). That rests on one more invariant, `NamesKept`: in a live
  folder no two entries have the same name and extension, and folders have size 0 (`Labelled`). It is what
  `write` and `move` refuse duplicates for. `Adding` and `Moving` therefore also say that the name is new
  (`NewIn`), and that the chain written holds what was asked for (`Made`).
- What an operation does to tables is carried to the objects (`LinkedObjects`, `UnlinkedObjects`,
  `MovedObjects`) and from there to the tree (`LinkedTree`, `UnlinkedTree`, `MovedTree`). A move changes the path
  of everything below the folder moved: `Carried` is the map of old paths to new.
- The content of everything else stays: its chain is left alone in both the FAT and the clusters
  (`OutsideKept`, `OuterKept`, `InnerKept`).

Power-up formats an empty disk to an empty tree (`EmptyTree`, `BootStarts`), and a write done is a
stutter because the image is what the tree is read from. `MapStarts` and `MapSteps` put these
together. The refinement says nothing of crashes, which `CrashConfined` is about.

`ShellProofs` proves what the run `shell` checks of two shells on a disk: `ShellsNeverHarmTheTree`
(`ShellsKeepTree`), `ShellsKeepTheirWord` (`ShellInv`) and `ShellsShowWhatIsThere` (`FindsAll`), for
every disk, length of folder, set of names and paths and number of commands that satisfies the ASSUMEs
of `Fat32` and `Shell` (nothing is called "..", the first file fits and leaves room in the root, `cp`
writes a cluster). The specification says that shells keep to careful requests in folders that are
`Standing`; what has to be shown is that the requests they make are then
those of careful clients, although a shell goes on using the cluster of its folder after the other one
removed it and gave it to a file. The inductive invariant `ShellKept` has

- `ShellDisk`: the driver's invariants (`DriverKept`, `TreeKept`, `CrashKept`, `Labelled`) and `Titled`: a
  folder's entry about itself has the name its parent has for it, the next one is called "..", and no name
  has an extension. `AddingTitles`, `RemovingTitles` and `MovingTitles` carry it over what an operation does;
- `WellFormed`: a command has the paths it needs, and clusters that folders can have;
- `MovesAside`: if the cluster of the current folder is a file's by now, the paths of `mv` lead there at
  most from there itself, and if not none leads to the cluster of a file. `move` writes the table of its destination without
  looking, and could write it over that file.

Where a shell stands is a folder of the tree or nothing (`StandingIs`). In nothing, everything is
refused or finds nothing (`NothingThere`), with one exception: `mv` from the tree into a folder that
was removed takes the entry away and puts it nowhere, which for the tree is a removal (`MoveLoses`). So
every command does one careful operation or none (`DoesOrRefuses`), and there is one lemma per action
of a shell up to `ShellStepKeeps`.

What a shell shows is then read off a sound disk. The prompt goes up from folder to folder
(`PromptSteps`), and by induction over the objects of the tree that walk is the path of the folder
(`AllPrompted`); that it does not go up a cycle is `NotTooDeep` again. For `find`, what it has at each depth is made from what it has at one level less
(`FindSteps`): by induction over the levels everything it has is there (`FindSound`), by induction over
objects everything that is there it has (`FindUp`), so it answers exactly with the paths of that name
(`FindIs`). `ListIs` is about `ls`, and `CatIs` about what `cat` reads; its outcomes follow.

`InterruptsProofs` proves, for every set of processes and register values and every set of
exceptions but 21 and 29, which nothing in this system turns on, `InterruptsInvariant`,
`NotTooEarly`, `FramesAreTrue` and `RegistersAreOwn`. All four follow from one inductive invariant,
`EntryInvariant: Spec => []EntryInv`, which follows a word from where it is pushed to where it is
popped. Its parts say what holds

- of the set-up, which tables stand and what is masked at each of its steps (`SetupDone`), so that
  an interrupt can only find what it needs;
- of every process that has the CPU or waits for it (`ProcessesInv`, `ContextsSaved`): its registers,
  or its saved context, are those it had last;
- at the entry to the stub, in the common part of it and in the handler (`AtEntry`, `InHandler`):
  the stack is what lay there before, the frame of the code interrupted, and the words of the stub
  in the order of the structs of `interrupt.h`. The stack's length is therefore known at every step,
  in ring 0 during the set-up (`Bottom`) as in ring 3, which makes the offsets of `esp` and of the
  error code a matter of counting;
- of the moment of the interrupt (`Taken`, `Seen`): the registers the history variable has are those the CPU
  pushed and the stub pushes after it, up to the call of the handler;
- of the acknowledgement (`Service`): a line is in service only from its delivery to `pic_ack`.

`DiskProofs` proves, for every size of byte, block, cluster, disk and memory and every set of
requests that satisfies the two ASSUMEs of `Disk`:

- `DiskInvariant`: `Spec => []DiskInv`. Between calls the device is ready or
  storing the last block it got; before a block it is at the driver's block or about to be, has
  refused it, or is storing the block before; within a block it is at the driver's word. `Issue` is
  the step that needs arithmetic: `AddressOfDigits` and `AddressInRegisters` say that the digits put
  into four registers make the block's number again, modulo what 28 bits (in the model seven digits,
  `LBA_END`) can name;
- `DiskImplementsBlockStore`: every step is one of `BlockStore` or a stutter. The last word of a
  block written is the step that changes the abstract disk, since the device is then bound to store
  it; the device's own `Store` only makes it proof against a power cut. The invariant is needed to
  know that the words the device has collected are those of the caller's buffer (`WithinBlock`), and
  that no second block is waiting to be stored.

Only model-checked:

- `CommandsDoAsAsked`: it compares what a command did with the words it was given several syscalls
  before. An invariant for it has to say of every command under way, by recursion over its path, where the
  names already taken have led in a tree that stays the same for as long as nobody else changes it;
- `EveryProcessRuns`, `EveryRequestServed`, `ReadEnds` and `EveryCallReturns`: liveness, as ENABLED, is out of
  the prover's reach.

## 6. Where the code does not do what the repository says

Two of these are runs in which TLC finds the statement violated; `PROJECT.json` quotes it.

- `kernel_exit` — exit passes a slot number for a pid (`interrupt.c:220`).
- `fs_write_full` — a write into a full folder succeeds without an entry, and overwrites the
  end of the FAT in memory and on disk (`fat32.c:292`).

The others are in the models as the code has them; a property that meets one names it as its
exception.

Kernel:
- the create syscall drops the return code that its comment says goes to `$edx`
  (`interrupt.c:171`): in `SyscallCreate` `reply.edx` stays 0, and `exec` reports success whatever
  happened;
- the kernel's own second frame goes to the first process (`paging.c:53`);
- destroyed processes leave their frames marked: `virtual_addr_used` is never written, so frame 0
  is freed over and over and the counter grows (`process.c:49`, against `paging.h:83`);
- preemption does not save `eflags` (`timer.c:33`, against `process.h:50`);
- slot 0 starves while the last slot is in use and others are READY (`scheduler.c:41`);
- `ps` hides the processes behind a slot that is free: it stops at the first pid 0, and the
  kernel tests the state of slot 0 for all slots (`process.c:137`);
- `cpu.stack` of the frame is, by its comment, "kernel state before C function called, not user stack"
  (`header/cpu/interrupt.h:131`), but the stub puts the program's `esp` there when it comes from ring 3
  (`intsetup.s:36`), and `timer_isr` saves it from there (`timer.c:25`): `FrameTrue` claims what the code needs;
- ticks that come while one is held are lost: a syscall that uses the disk for longer than two milliseconds,
  with interrupts off, makes the clock late;
- `pic_ack` is called with a vector where it expects a line, so the slave controller gets its end of
  interrupt always, which is harmless.

Disk driver:
- `write_blocks` is said to block until the write is completed (`header/driver/disk.h:41`), but
  returns while the device stores the last block (`disk.c:44`). The next call waits for it, so only a
  power cut in that moment makes a difference: the one block that `BlockStore` allows to be lost;
- `ATA_DRQ_wait` waits for the ready bit, not for a request for data (`disk.c:9`), and nothing looks at
  the error bit: a call for blocks that the disk does not have reads anything, or writes nothing,
  and returns. With the wait its name promises it would never return.

File system:
- `delete_all` frees one cluster of all it deletes (`fat32.c:457`);
- a move within one folder leaves both entries (`fat32.c:618`);
- the "." of a new folder names another cluster than the folder's (`fat32.c:30`), and a half-made
  table is written there; a path through a folder's own name leads to it;
- `read` opens folders and returns 0, where its comment says 1, "not a file" (`fat32.c:150`,
  `header/filesystem/fat32.h:232`): a 1 is for an entry with the name and another
  extension, and 2 for what is not found where the header says 3. So `cat` of a
  folder shows its table, against "return 1: Bukan sebuah file" (`shell_cmd.c:244`), and `cp` of a folder makes a file
  that holds a table. `read` also ignores the buffer's size when it is not a multiple of a cluster;
- `delete` in a full folder leaves a hole that hides later entries (`fat32.c:405`);
- a folder moved inside its own subfolder becomes a cycle;
- a formatting cut short leaves a disk that mounts with an empty FAT.

Shell and programs:
- `cp` is said to copy a file (`shell_cmd.c:296`) and prints "Copy berhasil", but copies one cluster of it,
  and gives the copy the size of a whole cluster (`shell_cmd.c:323`): a longer file is cut off without a
  word, a shorter one gets zeroes behind it;
- a path for `cp` or `mv` that ends in a slash takes the folder and the name both from its last
  part;
- `cat` and `mv` do not initialise the word for the return code, of which the syscall writes one
  byte: a success may be reported as none of the cases, so that `cat` prints nothing and returns 3 for a file it
  has read (`shell_cmd.c:264`); -1 arrives as 255. What `cat` does print ends at the first zero, its length
  counted modulo 256 (`stdlib/string.c:47`);
- a folder that was removed can be made to have a table again, cut off from the root: by the half-done
  table of a new folder in its cluster (`fat32.c:30`), or by a move into it, since `move` does not look
  whether its destination is a folder. A shell that still stands there can work in it (`shell_cmd.c:128`);
- the path in the prompt of a shell whose folder was removed and overwritten need not end;
- a sleeper that creates a process and then sleeps whole rounds can miss its tick for lack of the CPU, since the
  new process is passed over once (`scheduler.c:43`);
- `find` and the words of a line write into arrays of fixed size without a bound;
- the twelve-hour format takes noon for midnight and midnight for noon (`cmos.c:57`);
- `intToStrPad` makes three digits of 0 (`string.c:107`), which may fall on the field beside;
- a tab enters the line but is echoed as the zero byte behind it (`user-buffer.c:135`); nothing
  scrolls the screen.

## 7. What is abstracted and what is not modelled

- Memory contents. Frames shared with the kernel or mapped past the memory are modelled as
  mappings; what programs then destroy is not followed. A PCB written at index -1 sets the
  counter to what the code writes there; the bytes before it belong to nothing modelled.
- The TLB. Where the code goes on after clearing the mapping it runs on, both outcomes (entry
  still cached, or reset) are choices.
- Instruction-level timing: user code is its syscalls and a step that changes flags.
  State WAITING is never set by the code and is left out.
- `second_counter` and `next_pid` wrap at 2^32: the first wraps at `SECONDS`, the second is
  bounded.
- Torn writes: a cluster (4 blocks) is written whole or not at all.
- The bytes of a file never pass for a directory table. Clients only read folders as folders,
  but the driver does not check; a request whose parent is not a table finds no entries.
- The word before the FAT, written when a chain runs out of clusters, and the entry beyond the
  table, read for a full folder, are outside what the model keeps.
- A cursor outside the character buffer: from there on the frame is not followed.
- One shell reads the keyboard. A command's output is one of a few sequences of characters, printed
  in one step; the keys that come meanwhile come before or after it.
- Shell: the two shells are one followed syscall by syscall and one whose commands are one
  syscall; operands are names and paths from a small set (taking them apart is `Strings`), never
  empty, and the fixed arrays of the shell are long enough for them. The prompt is read in folders
  that exist. Nobody works in a folder cut off from the root that has a table (`Standing`, section 3).
- Interrupts: the kernel stack does not overflow; a handler's C code is its effect on what is
  modelled and leaves the general registers with values of its own. Exceptions come from programs;
  one inside the kernel is mode `"hung"` or `"crashed"` of `Kernel`. Who is next is a free choice among the
  processes, and kills of the running process belong to `Kernel`.
- Sleep: the processes take turns in slots whose last one stays free (`Scheduler` has the other
  case), and nobody destroys the one that runs; a process that has the CPU from one tick to the next polls at least once in it.
- Clock: an update lasts any number of port reads and ends; the chip's time zone is fixed, as in
  the code.
- Strings: strings are zero-terminated inside the memory; calls that would leave it are not made,
  nor a `strcat` whose loop overtakes its own zero (`CatEnds`). The numbers
  converted to text are those of an `int`, and those read back have at most nine digits: a longer one
  may overflow in the code, which `strToInt` of the model does not.
- Disk: the device is busy at once after a command (the code waits no 400 ns before it looks), and
  refuses only blocks the disk does not have; the driver is the only one to use it. Calls are for at
  least one block and fewer than a byte can count: the file system never asks for none, which the
  device would take for 256, nor for 64 clusters. A word is a member of any set.
- Syscalls that only draw, or copy a cluster to the caller, are not actions.
- Not modelled, with no state that a property could be about: graphics and fonts (the glyph of
  every cell is in `Console`), the real-mode switch, descriptor bits,
  the splash screen, the image inserter (it calls the same `write` over an image in memory), and
  the archived framebuffer, which is not built.

## 8. Plan

Done, in this order: the kernel core with its invariant proved; the file system with its tree; the
console; the shell over the file system; interrupts and registers; sleep; the clock with its
proof; strings; the refinements of the process table and the line editor, the orderly workloads
and the durations of sleep proved; interrupt delivery proved; the disk driver with its refinement,
proved; the file system for careful clients proved, its refinement of the tree included; strings
proved; the shells over the file system proved, but for what a command does from its words to its end.

What would come next:

1. **Interrupts over Scheduler**: the choice of the next process in `Interrupts` replaced by the
   scheduler's, so that a process destroyed by itself is followed down to its registers.
2. **`CommandsDoAsAsked`** as a theorem, with the invariant section 5 describes.
3. **Two full shells**: both followed syscall by syscall; needs a smaller state for the disk.
