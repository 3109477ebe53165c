----------------------------- MODULE Interrupts -----------------------------
(***************************************************************************)
(* How the CPU gets into the kernel and back: kernel_setup up to the first *)
(* process, the tables it loads, the interrupt controller, the stub every  *)
(* interrupt goes through, the frame it leaves for C, and the registers    *)
(* that the timer saves and process_context_switch loads.                  *)
(*                                                                         *)
(* A word, in a register or on the stack, is a triple that says whose it   *)
(* is, what it is and which value of it, so that a word in the wrong place *)
(* shows.  Who gets the CPU next is the business of module Scheduler.      *)
(***************************************************************************)
EXTENDS Integers, Sequences, FiniteSets

CONSTANTS Processes, \* numbers of the processes, the first is init
          Irqs,      \* lines of the controllers on which something happens
          Faults     \* exceptions that programs raise

IRQ_TIMER    == 0
IRQ_KEYBOARD == 1
Init1        == 1

ASSUME InterruptsAssumption ==
  /\ Processes \subseteq Nat \ {0} /\ Init1 \in Processes /\ IsFiniteSet(Processes)
  /\ {IRQ_TIMER, IRQ_KEYBOARD} \subseteq Irqs /\ Irqs \subseteq 0 .. 15
  /\ Faults \subseteq 0 .. 31 \ {21, 29} \* nothing turns on what raises these two

VARIABLES pc,            \* "kernel_setup", "user", "entry", "handler", "return" or "crashed"
          boot,          \* the next step of kernel_setup
          interruptible, \* the interrupt flag
          regs,          \* the registers
          stack,         \* the kernel stack, its top last
          pic,           \* both interrupt controllers
          gates,         \* of the interrupt descriptor table: who may call each vector
          tables,        \* what lgdt, lidt and ltr have loaded
          tss,           \* the task state segment: is it in the GDT, has it a stack?
          vector,        \* what is being handled
          interrupted,   \* the registers just before it came, for FrameTrue alone
          pcb,           \* saved contexts
          active,        \* processes of the list
          current,       \* the one that has the CPU
          own            \* which values of its registers each process has

vars == <<pc, boot, interruptible, regs, stack, pic, gates, tables, tss,
          vector, interrupted, pcb, active, current, own>>
tableVars   == <<gates, tables, tss>>
handled     == <<vector, interrupted>>
processVars == <<pcb, active, current, own>>

-----------------------------------------------------------------------------
(* Words, registers, segments *)

General  == {"eax", "ebx", "ecx", "edx", "esi", "edi", "ebp"}
Segments == {"ds", "es", "fs", "gs"}
Regs     == General \cup Segments \cup {"esp", "eip", "eflags", "cs", "ss"}

Selector(s) == <<0, "selector", s>>
Ring(word)  == word[3] % 4

KERNEL_CODE == Selector(8)
KERNEL_DATA == Selector(16)
USER_CODE   == Selector(24 + 3)
USER_DATA   == Selector(32 + 3)

Descriptor(kind, dpl) == [kind |-> kind, dpl |-> dpl]

global_descriptor_table ==
  << Descriptor("code", 0), Descriptor("data", 0), Descriptor("code", 3),
     Descriptor("data", 3), Descriptor("tss", 0), Descriptor("code16", 0), Descriptor("data16", 0) >>

Described(s) == global_descriptor_table[s[3] \div 8]

\* What the CPU accepts in ds..gs, in ss and in cs when it is, or comes, in a ring.
DataFor(s, ring) ==
  Described(s).kind = "data" /\ Described(s).dpl >= ring /\ Described(s).dpl >= Ring(s)
StackFor(s, ring) == Described(s) = Descriptor("data", ring) /\ Ring(s) = ring
CodeFor(s, ring)  == Described(s) = Descriptor("code", ring)

Accepted(new) ==
  LET ring == Ring(new.cs)
  IN  /\ CodeFor(new.cs, ring) /\ StackFor(new.ss, ring)
      /\ \A r \in Segments : DataFor(new[r], ring)

\* The registers of process p in user mode, at its v-th values.
UserRegs(p, v) ==
  [r \in Regs |-> IF r \in Segments \cup {"ss"} THEN USER_DATA
                  ELSE IF r = "cs" THEN USER_CODE ELSE <<p, r, v>>]

KernelStackTop(s) == <<0, "esp", Len(s)>>

SetupRegs ==
  [r \in Regs |-> IF r \in Segments \cup {"ss"} THEN KERNEL_DATA
                  ELSE IF r = "cs" THEN KERNEL_CODE ELSE <<0, r, 0>>]

\* What C makes of the general registers.
Clobbered == [r \in General |-> <<0, r, 1>>]

-----------------------------------------------------------------------------
(* The interrupt controllers *)

PIC1_OFFSET == 32
PIC2_OFFSET == 40

Line(irq, base1, base2) == IF irq < 8 THEN base1 + irq ELSE base2 + irq - 8

\* The slave hangs on line 2 of the master.
Priority(irq) == IF irq < 8 THEN irq ELSE 2

Requests == {i \in pic.requested \ pic.masked :
               \A j \in pic.service : Priority(i) < Priority(j)}

Foremost(i) == i \in Requests /\ \A j \in Requests : Priority(i) <= Priority(j)

\* The edge of a line; a second one while the first waits is lost.  A tick is long
\* against the handling of an interrupt, but not against a syscall, which may read the
\* disk with interrupts off.
Request(i) ==
  /\ i = IRQ_TIMER => pc \in {"kernel_setup", "user"} \/ vector = 48
  /\ i \notin pic.requested
  /\ pic' = [pic EXCEPT !.requested = @ \cup {i}]
  /\ UNCHANGED <<pc, boot, interruptible, regs, stack, tableVars, handled, processVars>>

\* Seeded fault: the lines are left as the BIOS had them.
RemapOnly ==
  [pic EXCEPT !.base1 = PIC1_OFFSET, !.base2 = PIC2_OFFSET, !.requested = {}, !.service = {},
              !.masked = {}]

\* ICW1 clears what was requested and in service; then every line is masked.
pic_remap ==
  [base1 |-> PIC1_OFFSET, base2 |-> PIC2_OFFSET, requested |-> {}, service |-> {}, masked |-> Irqs]

Unmasked(irq) == [pic EXCEPT !.masked = @ \ {irq}]

\* Seeded fault: no end of interrupt.
NoAck(irq) == pic

\* An end of interrupt ends the foremost one in service.
Ended(service) == {i \in service : \E j \in service : Priority(j) < Priority(i)}

\* irq is a vector here, so both controllers get an end of interrupt.
pic_ack(irq) ==
  LET slave == {i \in pic.service : i >= 8}
      rest  == IF irq >= 8 THEN pic.service \ (slave \ Ended(slave)) ELSE pic.service
  IN  [pic EXCEPT !.service = Ended(rest)]

-----------------------------------------------------------------------------
(* What the CPU does with an interrupt *)

\* Vectors for which the CPU pushes an error code.
ErrorCodes == {8, 10, 11, 12, 13, 14, 17, 21, 29, 30}
ErrorWord  == IF vector \in ErrorCodes THEN <<0, "error", 1>> ELSE <<0, "error", 0>>

Pushed(v) == IF v \in ErrorCodes THEN <<<<0, "error", 1>>>> ELSE <<>>

\* Interrupts that come from ring 3 take their stack from the TSS.
StackIsFound == tables.tr /\ tss.stack

Crash ==
  /\ pc' = "crashed"
  /\ UNCHANGED <<boot, interruptible, regs, stack, tableVars, handled, processVars>>

\* The interrupt gates clear the interrupt flag.
Enter(v) ==
  IF ~(tables.idt /\ v \in DOMAIN gates /\ CodeFor(KERNEL_CODE, 0) /\ StackFor(KERNEL_DATA, 0)
         /\ (Ring(regs.cs) = 3 => StackIsFound))
  THEN Crash
  ELSE /\ pc' = "entry"
       /\ vector' = v
       /\ interrupted' = regs
       /\ interruptible' = FALSE
       /\ stack' = (IF Ring(regs.cs) = 3 THEN <<regs.ss, regs.esp>> ELSE stack)
                     \o <<regs.eflags, regs.cs, regs.eip>> \o Pushed(v)
       /\ regs' = [regs EXCEPT !.cs = KERNEL_CODE, !.ss = KERNEL_DATA]
       /\ UNCHANGED <<boot, tableVars, processVars>>

Deliver(i) ==
  /\ pc \in {"kernel_setup", "user"}
  /\ interruptible
  /\ Foremost(i)
  /\ pic' = [pic EXCEPT !.requested = @ \ {i}, !.service = @ \cup {i}]
  /\ Enter(Line(i, pic.base1, pic.base2))

\* Returning from the handler repeats the instruction that raised it.
Fault(n) ==
  /\ pc = "user"
  /\ Enter(n)
  /\ UNCHANGED pic

\* int 0x30; without a gate that programs may use it is a general protection fault.
SystemCall ==
  /\ pc = "user"
  /\ Enter(IF gates[48] = 3 THEN 48 ELSE 13)
  /\ UNCHANGED pic

-----------------------------------------------------------------------------
(* intsetup.s *)

\* Vectors whose stub pushes 0 for the error code.
NoErrorCodeStubs == 0 .. 63 \ {8, 10, 11, 12, 13, 14, 17, 30}

\* The word k places under the top; beneath the kernel's own frames lies what C left there.
Under(s, k) == IF k < Len(s) THEN s[Len(s) - k] ELSE <<0, "unknown", 0>>

Pushad(s) ==
  s \o << regs.eax, regs.ecx, regs.edx, regs.ebx, KernelStackTop(s), regs.ebp, regs.esi, regs.edi >>

\* Seeded fault: frame.cpu.stack.esp stays what pushad pushed.
KernelEsp(s) == s

\* If ds is a user's, the interrupt came from ring 3: the esp of the interrupted
\* program, under the frame, goes to the place of the one pushad pushed.
InterruptedEsp(s) ==
  IF Ring(Under(s, 11)) = 0 THEN s ELSE [s EXCEPT ![Len(s) - 3] = Under(s, 17)]

call_generic_handler ==
  /\ pc = "entry"
  /\ pc' = "handler"
  /\ stack' = InterruptedEsp(Pushad(
                stack \o (IF vector \in NoErrorCodeStubs THEN <<<<0, "error", 0>>>> ELSE <<>>)
                      \o << <<0, "vector", vector>>, regs.ds, regs.es, regs.fs, regs.gs >>))
  /\ regs' = [r \in Regs |-> IF r \in Segments THEN KERNEL_DATA
                             ELSE IF r \in General THEN Clobbered[r] ELSE regs[r]]
  /\ UNCHANGED <<boot, interruptible, pic, tableVars, handled, processVars>>

\* What popad, the pops, add esp and iret take from the stack, in their order.
Popped == << "edi", "esi", "ebp", "skipped", "ebx", "edx", "ecx", "eax", "gs", "fs", "es", "ds",
             "skipped", "skipped", "eip", "cs", "eflags" >>

PopPlace(r) == CHOOSE k \in DOMAIN Popped : Popped[k] = r

Restored(r) == Under(stack, PopPlace(r) - 1)

\* iret takes esp and ss as well when it goes back to ring 3.
ReturnFromHandler ==
  /\ pc = "return"
  /\ LET user == Ring(Restored("cs")) = 3
         left == IF user THEN <<>> ELSE SubSeq(stack, 1, Len(stack) - Len(Popped))
     IN  /\ stack' = left
         /\ regs' = [r \in Regs |->
                       IF r = "esp" THEN IF user THEN Under(stack, 17) ELSE KernelStackTop(left)
                       ELSE IF r = "ss" THEN IF user THEN Under(stack, 18) ELSE KERNEL_DATA
                       ELSE Restored(r)]
         /\ pc' = IF ~Accepted(regs') THEN "crashed" ELSE IF user THEN "user" ELSE "kernel_setup"
  /\ interruptible' = TRUE \* whoever was interrupted had the flag set
  /\ UNCHANGED <<boot, pic, tableVars, handled, processVars>>

-----------------------------------------------------------------------------
(* main_interrupt_handler *)

\* struct InterruptFrame, from its lowest address.
InterruptFrame == << "edi", "esi", "ebp", "esp", "ebx", "edx", "ecx", "eax", "gs", "fs", "es", "ds",
                     "int_number", "error_code", "eip", "cs", "eflags" >>

frame(f) == Under(stack, (CHOOSE k \in DOMAIN InterruptFrame : InterruptFrame[k] = f) - 1)

int_number == frame("int_number")[3]

\* Seeded fault: ecx and edx are exchanged.
SavedMixed(context) ==
  [r \in Regs |-> IF r \in {"eflags", "cs", "ss"} THEN context[r]
                  ELSE IF r = "ecx" THEN frame("edx") ELSE IF r = "edx" THEN frame("ecx")
                  ELSE frame(r)]

\* The flags, cs and ss stay what they were in the PCB.
SavedContext(context) ==
  [r \in Regs |-> IF r \in {"eflags", "cs", "ss"} THEN context[r] ELSE frame(r)]

\* struct AllCPURegister, and the offsets process_context_switch loads from.
AllCPURegister == << "eax", "ebx", "ecx", "edx", "esi", "edi", "esp", "ebp", "eip", "eflags",
                     "cs", "ds", "es", "fs", "gs", "ss" >>

LoadedFrom ==
  [eax |-> 0, ebx |-> 4, ecx |-> 8, edx |-> 12, esi |-> 16, edi |-> 20, esp |-> 24, ebp |-> 28,
   eip |-> 32, eflags |-> 36, cs |-> 40, ds |-> 44, es |-> 48, fs |-> 52, gs |-> 56, ss |-> 60]

Loaded(context) == [r \in Regs |-> context[AllCPURegister[LoadedFrom[r] \div 4 + 1]]]

\* From an interrupt handler, which nothing interrupts, up to its iret.
process_context_switch(context) ==
  /\ regs' = Loaded(context)
  /\ pc' = IF Accepted(regs') THEN "user" ELSE "crashed"
  /\ stack' = <<>>
  /\ interruptible' = TRUE

\* The end of interrupt comes first: a switch does not come back here.
timer_isr ==
  /\ int_number = PIC1_OFFSET + IRQ_TIMER
  /\ pic' = pic_ack(PIC1_OFFSET + IRQ_TIMER)
  /\ \/ /\ pc' = "return" \* not the end of a quantum, or nobody else
        /\ UNCHANGED <<interruptible, regs, stack, processVars>>
     \/ \E p \in active \ {current} :
          /\ pcb' = [pcb EXCEPT ![current] = SavedContext(@)]
          /\ current' = p
          /\ process_context_switch(pcb[p])
          /\ UNCHANGED <<active, own>>

keyboard_isr ==
  /\ int_number = PIC1_OFFSET + IRQ_KEYBOARD
  /\ pic' = pic_ack(PIC1_OFFSET + IRQ_KEYBOARD)
  /\ pc' = "return"
  /\ UNCHANGED <<interruptible, regs, stack, processVars>>

\* Of the syscalls, those that change who can be switched to.
syscall ==
  /\ int_number = 48
  /\ pc' = "return"
  /\ \/ UNCHANGED processVars
     \/ \E p \in Processes \ active :
          /\ active' = active \cup {p}
          /\ pcb' = [pcb EXCEPT ![p] = UserRegs(p, 0)]
          /\ own' = [own EXCEPT ![p] = 0]
          /\ UNCHANGED current
     \/ \E p \in active \ {current} :
          /\ active' = active \ {p}
          /\ UNCHANGED <<pcb, current, own>>
  /\ UNCHANGED <<interruptible, regs, stack, pic>>

IgnoredInterrupt ==
  /\ int_number \notin {PIC1_OFFSET + IRQ_TIMER, PIC1_OFFSET + IRQ_KEYBOARD, 48}
  /\ pc' = "return"
  /\ UNCHANGED <<interruptible, regs, stack, pic, processVars>>

main_interrupt_handler ==
  /\ pc = "handler"
  /\ timer_isr \/ keyboard_isr \/ syscall \/ IgnoredInterrupt
  /\ UNCHANGED <<boot, tableVars, handled>>

-----------------------------------------------------------------------------
(* kernel_setup *)

\* Seeded fault: the timer is activated before the descriptor table is loaded.
TimerFirst == << "load_gdt", "pic_remap", "activate_timer", "set_gates", "lidt", "sti",
                 "activate_keyboard", "gdt_install_tss", "set_tss_register", "set_tss_stack",
                 "create_init", "switch", "iret" >>

kernel_setup == << "load_gdt", "pic_remap", "set_gates", "lidt", "sti", "activate_keyboard",
                   "activate_timer", "gdt_install_tss", "set_tss_register", "set_tss_stack",
                   "create_init", "switch", "iret" >>

Setup(step) ==
  /\ pc = "kernel_setup"
  /\ kernel_setup[boot] = step
  /\ boot' = boot + 1

\* A gate for every stub; programs may only use that of the syscalls.
initialize_idt == [v \in 0 .. 63 |-> IF v = 48 THEN 3 ELSE 0]

\* From the frame of kernel_setup downwards.
set_tss_kernel_current_stack == [tss EXCEPT !.stack = TRUE]

SetupTables ==
  /\ \/ Setup("load_gdt") /\ tables' = [tables EXCEPT !.gdt = TRUE] /\ UNCHANGED <<gates, tss>>
     \/ Setup("set_gates") /\ gates' = initialize_idt /\ UNCHANGED <<tables, tss>>
     \/ Setup("lidt") /\ tables' = [tables EXCEPT !.idt = TRUE] /\ UNCHANGED <<gates, tss>>
     \/ Setup("gdt_install_tss") /\ tss' = [tss EXCEPT !.based = TRUE] /\ UNCHANGED <<gates, tables>>
     \/ \* ltr keeps the base the descriptor has now
        Setup("set_tss_register") /\ tables' = [tables EXCEPT !.tr = tss.based]
          /\ UNCHANGED <<gates, tss>>
     \/ Setup("set_tss_stack") /\ tss' = set_tss_kernel_current_stack /\ UNCHANGED <<gates, tables>>
  /\ UNCHANGED <<pc, interruptible, regs, stack, pic, handled, processVars>>

SetupDevices ==
  /\ \/ Setup("pic_remap") /\ pic' = pic_remap /\ UNCHANGED interruptible
     \/ Setup("sti") /\ interruptible' = TRUE /\ UNCHANGED pic
     \/ Setup("activate_keyboard") /\ pic' = Unmasked(IRQ_KEYBOARD) /\ UNCHANGED interruptible
     \/ \* between cli and sti
        Setup("activate_timer") /\ pic' = Unmasked(IRQ_TIMER) /\ interruptible' = TRUE
  /\ UNCHANGED <<pc, regs, stack, tableVars, handled, processVars>>

CreateInit ==
  /\ Setup("create_init")
  /\ active' = {Init1}
  /\ pcb' = [pcb EXCEPT ![Init1] = UserRegs(Init1, 0)]
  /\ UNCHANGED <<pc, interruptible, regs, stack, pic, tableVars, handled, current, own>>

\* The registers of init are loaded and its iret frame is on the stack, but the CPU
\* is in ring 0 still, and interruptible.
SwitchToInit ==
  /\ Setup("switch")
  /\ current' = Init1
  /\ LET new == Loaded(pcb[Init1])
     IN  /\ stack' = stack \o << new.ss, new.esp, new.eflags, new.cs, new.eip >>
         /\ regs' = [r \in Regs |-> IF r \in General \cup Segments THEN new[r]
                                    ELSE IF r = "esp" THEN KernelStackTop(stack')
                                    ELSE IF r = "eip" THEN <<0, "eip", 1>> ELSE regs[r]]
  /\ UNCHANGED <<pc, interruptible, pic, tableVars, handled, pcb, active, own>>

IretToInit ==
  /\ Setup("iret")
  /\ regs' = [regs EXCEPT !.eip = Under(stack, 0), !.cs = Under(stack, 1), !.eflags = Under(stack, 2),
                          !.esp = Under(stack, 3), !.ss = Under(stack, 4)]
  /\ pc' = IF Accepted(regs') THEN "user" ELSE "crashed"
  /\ stack' = <<>>
  /\ interruptible' = TRUE
  /\ UNCHANGED <<pic, tableVars, handled, processVars>>

SetupStep == SetupTables \/ SetupDevices \/ CreateInit \/ SwitchToInit \/ IretToInit

-----------------------------------------------------------------------------
(* Programs *)

\* Some instructions of the program that has the CPU.
UserStep ==
  /\ pc = "user"
  /\ own' = [own EXCEPT ![current] = 1 - @]
  /\ regs' = UserRegs(current, own'[current])
  /\ UNCHANGED <<pc, boot, interruptible, stack, pic, tableVars, handled, pcb, active, current>>

Init ==
  /\ pc = "kernel_setup" /\ boot = 1
  /\ interruptible = FALSE
  /\ regs = SetupRegs
  /\ stack = <<>>
  /\ \E masked, requested \in SUBSET Irqs :
       pic = [base1 |-> 8, base2 |-> 112, requested |-> requested, service |-> {}, masked |-> masked]
  /\ gates = <<>>
  /\ tables = [gdt |-> FALSE, idt |-> FALSE, tr |-> FALSE]
  /\ tss = [based |-> FALSE, stack |-> FALSE]
  /\ vector = 0 /\ interrupted = SetupRegs
  /\ pcb = [p \in Processes |-> UserRegs(p, 0)]
  /\ active = {} /\ current = Init1
  /\ own = [p \in Processes |-> 0]

HandlerStep == call_generic_handler \/ main_interrupt_handler \/ ReturnFromHandler

Next ==
  \/ SetupStep
  \/ HandlerStep
  \/ \E i \in Irqs : Request(i) \/ Deliver(i)
  \/ \E n \in Faults : Fault(n)
  \/ SystemCall
  \/ UserStep

Spec == Init /\ [][Next]_vars

\* The CPU goes on, and looks for interrupts after every instruction; between two
\* interrupts there is time for an instruction of kernel_setup.
FairSpec == Spec /\ WF_vars(HandlerStep) /\ SF_vars(SetupStep) /\ \A i \in Irqs : SF_vars(Deliver(i))

-----------------------------------------------------------------------------
(* Properties *)

\* Type invariant.
TypeOK ==
  /\ pc \in {"kernel_setup", "user", "entry", "handler", "return", "crashed"}
  /\ boot \in 1 .. Len(kernel_setup) + 1
  /\ interruptible \in BOOLEAN
  /\ DOMAIN regs = Regs /\ DOMAIN interrupted = Regs
  /\ pic.requested \cup pic.service \cup pic.masked \subseteq Irqs
  /\ DOMAIN gates \subseteq 0 .. 255 /\ vector \in 0 .. 255
  /\ active \subseteq Processes /\ current \in Processes
  /\ own \in [Processes -> 0 .. 1]

\* Whatever the BIOS left in the controllers and whenever a line is raised, no
\* interrupt is taken before its gate, the stack for it and the controllers'
\* vectors are in place (kernel.c 279-299).
NoInterruptTooEarly ==
  /\ pc # "crashed"
  /\ pic.service # {} => pic.base1 = PIC1_OFFSET /\ tables.gdt

\* The handler sees the registers as they were when the interrupt came, the flags
\* among them, at the places struct InterruptFrame names: "entirety of general CPU
\* states exactly before interrupt" (interrupt.h 130).  The next lines there say that
\* cpu.stack is the kernel's and not the user's, and the code does otherwise: a program's
\* esp is the program's, as intsetup.s 36 sees to and timer_isr needs to save it
\* (timer.c 25).  An esp of the kernel's own is what pushad pushed.
FrameTrue ==
  pc = "handler" =>
    /\ \A r \in Regs \ {"esp", "ss"} : frame(r) = interrupted[r]
    /\ Ring(frame("cs")) = 3 => frame("esp") = interrupted["esp"]
    /\ frame("int_number") = <<0, "vector", vector>>
    /\ frame("error_code") = ErrorWord

\* Back in its code a program finds its own registers as it left them, but for the
\* flags; and so does kernel_setup, even in the middle of its switch to init.
RegistersOwn ==
  /\ pc = "user" =>
       \A r \in Regs \ {"eflags"} : regs[r] = UserRegs(current, own[current])[r]
  /\ pc = "kernel_setup" /\ boot = Len(kernel_setup) =>
       /\ \A r \in General \cup Segments : regs[r] = UserRegs(Init1, 0)[r]
       /\ Len(stack) = 5

\* No program runs while the controllers wait for the end of an interrupt, which
\* would keep back the lines behind it for ever: timer_isr must acknowledge before
\* it switches away (timer.c 16).
AllAcknowledged == pc = "user" => pic.service = {}

\* What the state is made of, and that no acknowledgement is missing.
InterruptsInv == TypeOK /\ AllAcknowledged

\* Every request of the timer or the keyboard that the controllers hold reaches the
\* kernel, however many ticks are lost because one is held already.
EveryRequestServed ==
  \A i \in {IRQ_TIMER, IRQ_KEYBOARD} : i \in pic.requested ~> i \notin pic.requested
=============================================================================
