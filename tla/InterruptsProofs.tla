-------------------------- MODULE InterruptsProofs --------------------------
(***************************************************************************)
(* For any number of processes, any lines of the controllers, whatever the *)
(* BIOS left in them, and any exceptions: no interrupt comes too early,    *)
(* the handler sees the registers of the program it interrupted, everybody *)
(* gets their own back, and every interrupt is acknowledged.               *)
(***************************************************************************)
EXTENDS Interrupts, TLAPS

-----------------------------------------------------------------------------
(* Words and stacks *)

Names == Regs \cup {"selector", "error", "vector", "unknown"}
Words == Nat \X Names \X Nat

\* The word of a value is one.
LEMMA WordType ==
  ASSUME NEW p \in Nat, NEW name \in Names, NEW v \in Nat
  PROVE  <<p, name, v>> \in Words
BY DEF Words

\* The selectors are words; the kernel's are of ring 0, the programs' of ring 3.
LEMMA SelectorWords ==
  /\ {KERNEL_CODE, KERNEL_DATA, USER_CODE, USER_DATA} \subseteq Words
  /\ Ring(KERNEL_CODE) = 0 /\ Ring(KERNEL_DATA) = 0
  /\ Ring(USER_CODE) = 3 /\ Ring(USER_DATA) = 3
<1>1. \A n \in Nat : Selector(n) \in Words
  BY WordType DEF Selector, Names
<1>2. \A n \in Nat : Ring(Selector(n)) = n % 4
  BY DEF Selector, Ring
<1>3. 8 % 4 = 0 /\ 16 % 4 = 0 /\ (24 + 3) % 4 = 3 /\ (32 + 3) % 4 = 3
  OBVIOUS
<1> QED
  BY <1>1, <1>2, <1>3 DEF KERNEL_CODE, KERNEL_DATA, USER_CODE, USER_DATA

\* What the descriptors say of the selectors.
LEMMA Descriptors ==
  /\ Described(KERNEL_CODE) = Descriptor("code", 0)
  /\ Described(KERNEL_DATA) = Descriptor("data", 0)
  /\ Described(USER_CODE) = Descriptor("code", 3)
  /\ Described(USER_DATA) = Descriptor("data", 3)
<1>1. KERNEL_CODE[3] \div 8 = 1 /\ KERNEL_DATA[3] \div 8 = 2
      /\ USER_CODE[3] \div 8 = 3 /\ USER_DATA[3] \div 8 = 4
  BY DEF KERNEL_CODE, KERNEL_DATA, USER_CODE, USER_DATA, Selector
<1> QED
  BY <1>1 DEF Described, global_descriptor_table

\* The CPU takes the registers of programs and of the kernel, whose segments may
\* already be a program's.
LEMMA AcceptedRegs ==
  ASSUME NEW new,
         \/ new["cs"] = USER_CODE /\ new["ss"] = USER_DATA
            /\ \A r \in Segments : new[r] = USER_DATA
         \/ new["cs"] = KERNEL_CODE /\ new["ss"] = KERNEL_DATA
            /\ \A r \in Segments : new[r] \in {KERNEL_DATA, USER_DATA}
  PROVE  Accepted(new)
<1>1. CASE new["cs"] = USER_CODE /\ new["ss"] = USER_DATA
           /\ \A r \in Segments : new[r] = USER_DATA
  <2>1. CodeFor(new.cs, 3) /\ StackFor(new.ss, 3)
    BY <1>1, Descriptors, SelectorWords DEF CodeFor, StackFor
  <2>2. \A r \in Segments : DataFor(new[r], 3)
    BY <1>1, Descriptors, SelectorWords DEF DataFor, Descriptor
  <2> QED
    BY <1>1, <2>1, <2>2, SelectorWords DEF Accepted
<1>2. CASE new["cs"] = KERNEL_CODE /\ new["ss"] = KERNEL_DATA
           /\ \A r \in Segments : new[r] \in {KERNEL_DATA, USER_DATA}
  <2>1. CodeFor(new.cs, 0) /\ StackFor(new.ss, 0)
    BY <1>2, Descriptors, SelectorWords DEF CodeFor, StackFor
  <2>2. \A r \in Segments : DataFor(new[r], 0)
    BY <1>2, Descriptors, SelectorWords DEF DataFor, Descriptor
  <2> QED
    BY <1>2, <2>1, <2>2, SelectorWords DEF Accepted
<1> QED
  BY <1>1, <1>2

\* The registers of a program.
LEMMA UserRegsType ==
  ASSUME NEW p \in Nat, NEW v \in Nat
  PROVE  /\ UserRegs(p, v) \in [Regs -> Words]
         /\ UserRegs(p, v)["cs"] = USER_CODE /\ UserRegs(p, v)["ss"] = USER_DATA
         /\ \A r \in Segments : UserRegs(p, v)[r] = USER_DATA
<1>1. \A r \in Regs : <<p, r, v>> \in Words
  BY WordType DEF Names
<1>2. UserRegs(p, v) \in [Regs -> Words]
  BY <1>1, SelectorWords DEF UserRegs
<1>3. Segments \subseteq Regs /\ "cs" \in Regs /\ "ss" \in Regs
      /\ "cs" \notin Segments /\ "ss" \notin Segments
  BY DEF Regs, Segments
<1> QED
  BY <1>2, <1>3 DEF UserRegs

\* What is under the words just pushed.
LEMMA UnderPushed ==
  ASSUME NEW s \in Seq(Words), NEW t \in Seq(Words), NEW k \in Nat
  PROVE  Under(s \o t, k) = IF k < Len(t) THEN t[Len(t) - k] ELSE Under(s, k - Len(t))
BY DEF Under

-----------------------------------------------------------------------------
(* The tables of the code *)

\* Where the way back finds every register, counted from the top of the stack.
LEMMA PopPlaces ==
  /\ PopPlace("edi") = 1 /\ PopPlace("esi") = 2 /\ PopPlace("ebp") = 3
  /\ PopPlace("ebx") = 5 /\ PopPlace("edx") = 6 /\ PopPlace("ecx") = 7 /\ PopPlace("eax") = 8
  /\ PopPlace("gs") = 9 /\ PopPlace("fs") = 10 /\ PopPlace("es") = 11 /\ PopPlace("ds") = 12
  /\ PopPlace("eip") = 15 /\ PopPlace("cs") = 16 /\ PopPlace("eflags") = 17
<1>1. ASSUME NEW r, NEW n \in 1 .. 17, Popped[n] = r, \A k \in 1 .. 17 : Popped[k] = r => k = n
      PROVE  PopPlace(r) = n
  <2>1. DOMAIN Popped = 1 .. 17
    BY DEF Popped
  <2> QED
    BY <1>1, <2>1 DEF PopPlace
<1> HIDE DEF PopPlace
<1> QED
  BY <1>1 DEF Popped

\* Where C finds every field, likewise.
LEMMA FrameFields ==
  /\ frame("edi") = Under(stack, 0) /\ frame("esi") = Under(stack, 1)
  /\ frame("ebp") = Under(stack, 2) /\ frame("esp") = Under(stack, 3)
  /\ frame("ebx") = Under(stack, 4) /\ frame("edx") = Under(stack, 5)
  /\ frame("ecx") = Under(stack, 6) /\ frame("eax") = Under(stack, 7)
  /\ frame("gs") = Under(stack, 8) /\ frame("fs") = Under(stack, 9)
  /\ frame("es") = Under(stack, 10) /\ frame("ds") = Under(stack, 11)
  /\ frame("int_number") = Under(stack, 12) /\ frame("error_code") = Under(stack, 13)
  /\ frame("eip") = Under(stack, 14) /\ frame("cs") = Under(stack, 15)
  /\ frame("eflags") = Under(stack, 16)
<1>1. ASSUME NEW f, NEW n \in 1 .. 17, InterruptFrame[n] = f,
             \A k \in 1 .. 17 : InterruptFrame[k] = f => k = n
      PROVE  frame(f) = Under(stack, n - 1)
  <2>1. DOMAIN InterruptFrame = 1 .. 17
    BY DEF InterruptFrame
  <2>2. (CHOOSE k \in DOMAIN InterruptFrame : InterruptFrame[k] = f) = n
    BY <1>1, <2>1
  <2> QED
    BY <2>2 DEF frame
<1> HIDE DEF frame
<1> QED
  BY <1>1 DEF InterruptFrame

\* process_context_switch loads every register from its place in the struct.
LEMMA LoadedContext ==
  ASSUME NEW context \in [Regs -> Words]
  PROVE  Loaded(context) = context
<1>1. ASSUME NEW r \in Regs PROVE AllCPURegister[LoadedFrom[r] \div 4 + 1] = r
  <2>1. 0 \div 4 + 1 = 1 /\ 4 \div 4 + 1 = 2 /\ 8 \div 4 + 1 = 3 /\ 12 \div 4 + 1 = 4
        /\ 16 \div 4 + 1 = 5 /\ 20 \div 4 + 1 = 6 /\ 24 \div 4 + 1 = 7 /\ 28 \div 4 + 1 = 8
        /\ 32 \div 4 + 1 = 9 /\ 36 \div 4 + 1 = 10 /\ 40 \div 4 + 1 = 11 /\ 44 \div 4 + 1 = 12
        /\ 48 \div 4 + 1 = 13 /\ 52 \div 4 + 1 = 14 /\ 56 \div 4 + 1 = 15 /\ 60 \div 4 + 1 = 16
    OBVIOUS
  <2> QED
    BY <2>1 DEF Regs, General, Segments, LoadedFrom, AllCPURegister
<1>2. Loaded(context) = [r \in Regs |-> context[r]]
  BY <1>1 DEF Loaded
<1> QED
  BY <1>2

\* The number of every step of kernel_setup.
LEMMA SetupSteps ==
  ASSUME boot \in 1 .. 13
  PROVE  /\ Setup("load_gdt") => boot = 1 /\ boot' = 2
         /\ Setup("pic_remap") => boot = 2 /\ boot' = 3
         /\ Setup("set_gates") => boot = 3 /\ boot' = 4
         /\ Setup("lidt") => boot = 4 /\ boot' = 5
         /\ Setup("sti") => boot = 5 /\ boot' = 6
         /\ Setup("activate_keyboard") => boot = 6 /\ boot' = 7
         /\ Setup("activate_timer") => boot = 7 /\ boot' = 8
         /\ Setup("gdt_install_tss") => boot = 8 /\ boot' = 9
         /\ Setup("set_tss_register") => boot = 9 /\ boot' = 10
         /\ Setup("set_tss_stack") => boot = 10 /\ boot' = 11
         /\ Setup("create_init") => boot = 11 /\ boot' = 12
         /\ Setup("switch") => boot = 12 /\ boot' = 13
         /\ Setup("iret") => boot = 13 /\ boot' = 14
<1>1. ASSUME NEW step, NEW n \in 1 .. 13, kernel_setup[n] = step,
             \A k \in 1 .. 13 : kernel_setup[k] = step => k = n
      PROVE  Setup(step) => boot = n /\ boot' = n + 1
  BY <1>1 DEF Setup
<1> HIDE DEF Setup
<1> QED
  BY <1>1 DEF kernel_setup

-----------------------------------------------------------------------------
(* The inductive invariant *)

\* The step of kernel_setup after which programs run.
Booted == 14

\* What kernel_setup has done so far.
SetupDone ==
  /\ pc = "kernel_setup" => boot < Booted
  /\ pc = "user" => boot = Booted
  /\ interruptible \/ pc # "kernel_setup" => boot > 5
  /\ gates = IF boot > 3 THEN initialize_idt ELSE <<>>
  /\ boot > 1 => tables.gdt
  /\ boot > 4 => tables.idt
  /\ boot > 8 => tss.based
  /\ boot > 9 => tables.tr
  /\ boot > 10 => tss.stack
  /\ boot > 2 => /\ pic.base1 = PIC1_OFFSET /\ pic.base2 = PIC2_OFFSET
                 /\ Irqs \ {IRQ_TIMER, IRQ_KEYBOARD} \subseteq pic.masked

\* Before programs run there is nobody but init, untouched; afterwards the one that
\* has the CPU is in the list.
ProcessesInv ==
  /\ boot < Booted => active \subseteq {Init1} /\ current = Init1 /\ own[Init1] = 0
  /\ boot = 12 \/ boot = 13 => active = {Init1} /\ pcb[Init1] = UserRegs(Init1, 0)
  /\ boot = Booted => current \in active

\* Whoever waits for the CPU has its own registers in its PCB, the flags apart.
ContextsSaved ==
  /\ \A p \in Processes : pcb[p]["cs"] = USER_CODE /\ pcb[p]["ss"] = USER_DATA
  /\ \A p \in active \ {current} :
       \A r \in Regs \ {"eflags"} : pcb[p][r] = UserRegs(p, own[p])[r]

\* The word w is what belongs in register r of whoever runs or was interrupted: of
\* process p at its v-th values, or of kernel_setup at its step b, where only segments
\* matter until init's registers are loaded.
Belongs(b, p, v, r, w) ==
  IF b = Booted THEN r # "eflags" => w = UserRegs(p, v)[r]
  ELSE IF b = 13 /\ r \in General \cup Segments THEN w = UserRegs(Init1, 0)[r]
  ELSE /\ r \in Segments \cup {"ss"} => w = KERNEL_DATA
       /\ r = "cs" => w = KERNEL_CODE

Mine(r, w) == Belongs(boot, current, own[current], r, w)

\* How many words of the interrupted code there are at the bottom of the stack, and
\* that they are the frame the switch to init goes through.
Bottom == IF boot = 13 THEN 5 ELSE 0

InitFrame ==
  boot = 13 => /\ stack[1] = USER_DATA /\ stack[2] = UserRegs(Init1, 0)["esp"]
               /\ stack[4] = USER_CODE /\ stack[5] = UserRegs(Init1, 0)["eip"]

\* Words that only an interrupt from ring 3 finds on the stack.
Outer == IF boot = Booted THEN 2 ELSE 0

\* Between interrupts.
InCode ==
  pc \in {"kernel_setup", "user"} =>
    /\ \A r \in Regs : Mine(r, regs[r])
    /\ Len(stack) = Bottom

\* What the stub has before it of the registers the interrupt found.
Taken(e) ==
  /\ \A r \in General \cup Segments : regs[r] = interrupted[r]
  /\ Under(stack, e) = interrupted["eip"] /\ Under(stack, e + 1) = interrupted["cs"]
  /\ Under(stack, e + 2) = interrupted["eflags"]
  /\ boot = Booted => Under(stack, e + 3) = interrupted["esp"]

\* What C has before it of them.
Seen ==
  /\ \A r \in Regs \ {"esp", "ss"} : Under(stack, PopPlace(r) - 1) = interrupted[r]
  /\ boot = Booted => Under(stack, 3) = interrupted["esp"]

\* At the beginning of a stub; e words of error code are on top.
AtEntry ==
  pc = "entry" =>
    LET e == Len(Pushed(vector))
    IN  /\ Len(stack) = Bottom + Outer + 3 + e
        /\ regs["cs"] = KERNEL_CODE /\ regs["ss"] = KERNEL_DATA
        /\ \A r \in General \cup Segments : Mine(r, regs[r])
        /\ vector \in ErrorCodes => Under(stack, 0) = <<0, "error", 1>>
        /\ Mine("eip", Under(stack, e)) /\ Mine("cs", Under(stack, e + 1))
        /\ boot = Booted => Mine("esp", Under(stack, e + 3)) /\ Mine("ss", Under(stack, e + 4))
        /\ Taken(e)

\* While C runs and on the way back.
InHandler ==
  pc \in {"handler", "return"} =>
    /\ Len(stack) = Bottom + Outer + 17
    /\ \A r \in Regs \ {"esp", "ss"} : Mine(r, Under(stack, PopPlace(r) - 1))
    /\ Under(stack, 12) = <<0, "vector", vector>>
    /\ Under(stack, 13) = ErrorWord
    /\ boot = Booted => /\ Mine("esp", Under(stack, 3))
                        /\ Mine("esp", Under(stack, 17)) /\ Mine("ss", Under(stack, 18))
    /\ Seen

\* The line in service is the one being handled; programs alone raise exceptions.
Service ==
  /\ pic.service = IF pc \in {"entry", "handler"} /\ vector \in {32, 33} THEN {vector - 32} ELSE {}
  /\ pc \in {"entry", "handler", "return"} =>
       \/ vector \in {32, 33}
       \/ boot = Booted /\ vector \in 0 .. 63 \ {21, 29}

StateTypes ==
  /\ pc \in {"kernel_setup", "user", "entry", "handler", "return"}
  /\ boot \in 1 .. Booted
  /\ interruptible \in BOOLEAN
  /\ regs \in [Regs -> Words] /\ interrupted \in [Regs -> Words]
  /\ stack \in Seq(Words)
  /\ pic \in [base1 : Nat, base2 : Nat, requested : SUBSET Irqs, service : SUBSET Irqs,
              masked : SUBSET Irqs]
  /\ vector \in 0 .. 63
  /\ pcb \in [Processes -> [Regs -> Words]]
  /\ active \subseteq Processes /\ current \in Processes
  /\ own \in [Processes -> 0 .. 1]
  /\ DOMAIN tables = {"gdt", "idt", "tr"} /\ DOMAIN tss = {"based", "stack"}

EntryInv ==
  /\ StateTypes
  /\ SetupDone
  /\ ProcessesInv
  /\ ContextsSaved
  /\ InitFrame
  /\ InCode
  /\ AtEntry
  /\ InHandler
  /\ Service

\* The invariant holds initially.
LEMMA EntryStart == Init => EntryInv
<1> SUFFICES ASSUME Init PROVE EntryInv
  OBVIOUS
<1>1. /\ pc = "kernel_setup" /\ boot = 1 /\ interruptible = FALSE /\ regs = SetupRegs /\ stack = <<>>
      /\ gates = <<>> /\ tables = [gdt |-> FALSE, idt |-> FALSE, tr |-> FALSE]
      /\ tss = [based |-> FALSE, stack |-> FALSE] /\ vector = 0 /\ interrupted = SetupRegs
      /\ pcb = [p \in Processes |-> UserRegs(p, 0)] /\ active = {} /\ current = Init1
      /\ own = [p \in Processes |-> 0]
  BY DEF Init
<1>2. PICK masked \in SUBSET Irqs, requested \in SUBSET Irqs :
        pic = [base1 |-> 8, base2 |-> 112, requested |-> requested, service |-> {}, masked |-> masked]
  BY DEF Init
<1>3. SetupRegs \in [Regs -> Words]
  <2>1. \A r \in Regs : <<0, r, 0>> \in Words
    BY WordType DEF Names
  <2> QED
    BY <2>1, SelectorWords DEF SetupRegs
<1>4. \A r \in Regs : Mine(r, regs[r])
  BY <1>1 DEF Mine, Belongs, SetupRegs, Booted, Segments
<1>5. \A p \in Processes : p \in Nat
  BY InterruptsAssumption
<1>6. stack \in Seq(Words) /\ Len(stack) = 0
  BY <1>1
<1>7. pcb \in [Processes -> [Regs -> Words]]
  BY <1>1, <1>5, UserRegsType
<1>8. StateTypes
  <2>1. pic \in [base1 : Nat, base2 : Nat, requested : SUBSET Irqs, service : SUBSET Irqs,
                masked : SUBSET Irqs]
    BY <1>2
  <2>2. own \in [Processes -> 0 .. 1]
    BY <1>1
  <2>3. active \subseteq Processes /\ current \in Processes
    BY <1>1, InterruptsAssumption
  <2>5. boot \in 1 .. Booted /\ vector \in 0 .. 63
    BY <1>1 DEF Booted
  <2>6. interruptible \in BOOLEAN
    BY <1>1
  <2>4. DOMAIN tables = {"gdt", "idt", "tr"} /\ DOMAIN tss = {"based", "stack"}
    BY <1>1
  <2> QED
    BY <1>1, <1>3, <1>6, <1>7, <2>1, <2>2, <2>3, <2>4, <2>5, <2>6 DEF StateTypes
<1>9. SetupDone
  BY <1>1, <1>2 DEF SetupDone, Booted
<1>10. ProcessesInv
  BY <1>1, InterruptsAssumption DEF ProcessesInv, Booted
<1>11. ContextsSaved
  BY <1>1, <1>5, UserRegsType DEF ContextsSaved
<1>12. InitFrame /\ InCode /\ AtEntry /\ InHandler
  BY <1>1, <1>4, <1>6 DEF InitFrame, InCode, AtEntry, InHandler, Bottom
<1>13. Service
  BY <1>1, <1>2 DEF Service
<1> QED
  BY <1>8, <1>9, <1>10, <1>11, <1>12, <1>13 DEF EntryInv

-----------------------------------------------------------------------------
(* An interrupt is taken *)

\* Requests come at any moment and change nothing else.
LEMMA RequestKeeps ==
  ASSUME EntryInv, NEW i \in Irqs, Request(i)
  PROVE  EntryInv'
<1>1. /\ UNCHANGED <<pc, boot, interruptible, regs, stack, gates, tables, tss, vector,
                     interrupted, pcb, active, current, own>>
      /\ pic' = [pic EXCEPT !.requested = @ \cup {i}]
  BY DEF Request, tableVars, handled, processVars
<1>2. /\ pic' \in [base1 : Nat, base2 : Nat, requested : SUBSET Irqs, service : SUBSET Irqs,
                    masked : SUBSET Irqs]
      /\ pic'.base1 = pic.base1 /\ pic'.base2 = pic.base2 /\ pic'.service = pic.service
      /\ pic'.masked = pic.masked
  BY <1>1 DEF EntryInv, StateTypes
<1>3. StateTypes'
  BY <1>1, <1>2 DEF EntryInv, StateTypes
<1>4. SetupDone'
  BY <1>1, <1>2 DEF EntryInv, SetupDone
<1>5. ProcessesInv' /\ ContextsSaved' /\ InitFrame'
  BY <1>1 DEF EntryInv, ProcessesInv, ContextsSaved, InitFrame
<1>6. InCode' /\ InHandler'
  BY <1>1 DEF EntryInv, InCode, InHandler, Mine, Bottom, Outer, Under, PopPlace, ErrorWord, Seen
<1>7. AtEntry'
  BY <1>1 DEF EntryInv, AtEntry, Mine, Bottom, Outer, Under, Taken
<1>8. Service'
  BY <1>1, <1>2 DEF EntryInv, Service
<1> QED
  BY <1>3, <1>4, <1>5, <1>6, <1>7, <1>8 DEF EntryInv

\* What an error code is.
LEMMA PushedType ==
  ASSUME NEW v \in Nat
  PROVE  /\ Pushed(v) \in Seq(Words) /\ Len(Pushed(v)) = IF v \in ErrorCodes THEN 1 ELSE 0
         /\ v \in ErrorCodes => Pushed(v)[1] = <<0, "error", 1>>
<1>1. <<0, "error", 1>> \in Words
  BY WordType DEF Names
<1> QED
  BY <1>1 DEF Pushed

\* Concatenation keeps what is at the bottom.
LEMMA BottomKept ==
  ASSUME NEW s \in Seq(Words), NEW t \in Seq(Words)
  PROVE  /\ s \o t \in Seq(Words) /\ Len(s \o t) = Len(s) + Len(t)
         /\ \A k \in 1 .. Len(s) : (s \o t)[k] = s[k]
OBVIOUS

\* On an empty stack there is what was pushed.
LEMMA OnEmpty ==
  ASSUME NEW s \in Seq(Words), Len(s) = 0, NEW t \in Seq(Words)
  PROVE  \A k \in 1 .. Len(t) : (s \o t)[k] = t[k]
<1>1. s = <<>>
  OBVIOUS
<1> QED
  BY <1>1

\* Under all of them.
LEMMA UnderBelow ==
  ASSUME NEW s \in Seq(Words), NEW t \in Seq(Words), NEW k \in Nat
  PROVE  Under(s \o t, k + Len(t)) = Under(s, k)
<1>1. k + Len(t) \in Nat /\ ~(k + Len(t) < Len(t)) /\ k + Len(t) - Len(t) = k
  OBVIOUS
<1>2. Under(s \o t, k + Len(t))
        = IF k + Len(t) < Len(t) THEN t[Len(t) - (k + Len(t))] ELSE Under(s, k + Len(t) - Len(t))
  BY <1>1, UnderPushed
<1> QED
  BY <1>1, <1>2

\* The same for two sequences pushed one after the other.
LEMMA UnderTwo ==
  ASSUME NEW a \in Seq(Words), NEW b \in Seq(Words), NEW c \in Seq(Words)
  PROVE  /\ (a \o b) \o c \in Seq(Words)
         /\ Len((a \o b) \o c) = Len(a) + Len(b) + Len(c)
         /\ \A k \in 1 .. Len(a) : ((a \o b) \o c)[k] = a[k]
         /\ \A k \in Nat : k < Len(c) => Under((a \o b) \o c, k) = c[Len(c) - k]
         /\ \A k \in Nat : k < Len(b) => Under((a \o b) \o c, k + Len(c)) = b[Len(b) - k]
         /\ \A k \in Nat : Under((a \o b) \o c, k + Len(b) + Len(c)) = Under(a, k)
<1>1. /\ a \o b \in Seq(Words) /\ Len(a \o b) = Len(a) + Len(b)
      /\ \A k \in 1 .. Len(a) : (a \o b)[k] = a[k]
  BY BottomKept
<1>2. /\ (a \o b) \o c \in Seq(Words) /\ Len((a \o b) \o c) = Len(a \o b) + Len(c)
      /\ \A k \in 1 .. Len(a \o b) : ((a \o b) \o c)[k] = (a \o b)[k]
  BY <1>1, BottomKept
<1>3. Len(a) \in Nat /\ Len(b) \in Nat /\ Len(c) \in Nat
  OBVIOUS
<1>4. ASSUME NEW k \in Nat PROVE Under((a \o b) \o c, k + Len(c)) = Under(a \o b, k)
  BY <1>1, UnderBelow
<1>5. ASSUME NEW k \in Nat PROVE Under(a \o b, k + Len(b)) = Under(a, k)
  BY UnderBelow
<1>6. \A k \in Nat : k < Len(c) => Under((a \o b) \o c, k) = c[Len(c) - k]
  BY <1>1, UnderPushed
<1>7. \A k \in Nat : k < Len(b) => Under((a \o b) \o c, k + Len(c)) = b[Len(b) - k]
  BY <1>4, UnderPushed
<1>8. ASSUME NEW k \in Nat PROVE Under((a \o b) \o c, k + Len(b) + Len(c)) = Under(a, k)
  <2>1. k + Len(b) \in Nat
    BY <1>3
  <2> QED
    BY <1>4, <1>5, <2>1
<1>9. Len((a \o b) \o c) = Len(a) + Len(b) + Len(c)
  BY ONLY <1>1, <1>2
<1>10. \A k \in 1 .. Len(a) : ((a \o b) \o c)[k] = a[k]
  BY ONLY <1>1, <1>2, <1>3
<1> QED
  BY ONLY <1>2, <1>6, <1>7, <1>8, <1>9, <1>10

\* A vector that comes when its gate stands reaches its stub, and the words pushed are
\* those of the code interrupted.
LEMMA EntersStub ==
  ASSUME EntryInv, pc \in {"kernel_setup", "user"}, boot > 5,
         NEW v \in 0 .. 63 \ {21, 29}, v \in {32, 33} \/ boot = Booted,
         Enter(v),
         pic' \in [base1 : Nat, base2 : Nat, requested : SUBSET Irqs, service : SUBSET Irqs,
                  masked : SUBSET Irqs],
         pic'.base1 = pic.base1, pic'.base2 = pic.base2, pic'.masked = pic.masked,
         pic'.service = IF v \in {32, 33} THEN {v - 32} ELSE {}
  PROVE  EntryInv'
<1>1. /\ StateTypes /\ SetupDone /\ ProcessesInv /\ ContextsSaved /\ InitFrame /\ Service
      /\ \A r \in Regs : Mine(r, regs[r])
      /\ Len(stack) = Bottom
      /\ pc = "user" <=> boot = Booted
  BY DEF EntryInv, InCode, SetupDone, StateTypes, Booted
<1>2. /\ "cs" \in Regs /\ "ss" \in Regs /\ "esp" \in Regs /\ "eip" \in Regs /\ "eflags" \in Regs
      /\ General \subseteq Regs /\ Segments \subseteq Regs
      /\ "cs" \notin General \cup Segments /\ "ss" \notin General \cup Segments
  BY DEF Regs, General, Segments
<1>3. current \in Nat /\ own[current] \in Nat
  <2>1. current \in Processes /\ own \in [Processes -> 0 .. 1]
    BY <1>1 DEF StateTypes
  <2> QED
    BY <2>1, InterruptsAssumption
<1>4. /\ boot = Booted => regs["cs"] = USER_CODE
      /\ boot # Booted => regs["cs"] = KERNEL_CODE
  <2>1. Mine("cs", regs["cs"])
    BY <1>1, <1>2
  <2> QED
    BY <1>2, <1>3, <2>1, UserRegsType DEF Mine, Belongs
<1>5. Ring(regs.cs) = 3 <=> boot = Booted
  BY <1>4, SelectorWords
<1>6. /\ pc' = "entry" /\ vector' = v /\ interruptible' = FALSE
      /\ stack' = (IF Ring(regs.cs) = 3 THEN <<regs.ss, regs.esp>> ELSE stack)
                     \o <<regs.eflags, regs.cs, regs.eip>> \o Pushed(v)
      /\ regs' = [regs EXCEPT !.cs = KERNEL_CODE, !.ss = KERNEL_DATA] /\ interrupted' = regs
      /\ UNCHANGED <<boot, gates, tables, tss, pcb, active, current, own>>
  <2>1. tables.idt /\ v \in DOMAIN gates
    <3>1. tables.idt /\ gates = initialize_idt
      BY <1>1 DEF SetupDone, StateTypes, Booted
    <3> QED
      BY <3>1 DEF initialize_idt
  <2>2. CodeFor(KERNEL_CODE, 0) /\ StackFor(KERNEL_DATA, 0)
    BY Descriptors, SelectorWords DEF CodeFor, StackFor
  <2>3. Ring(regs.cs) = 3 => StackIsFound
    BY <1>1, <1>5 DEF StackIsFound, SetupDone, Booted
  <2> QED
    BY <2>1, <2>2, <2>3 DEF Enter, tableVars, handled, processVars
<1>7. /\ regs.ss \in Words /\ regs.esp \in Words /\ regs.eflags \in Words /\ regs.cs \in Words
      /\ regs.eip \in Words /\ stack \in Seq(Words)
  BY <1>1, <1>2 DEF StateTypes
<1>8. /\ Pushed(v) \in Seq(Words) /\ Len(Pushed(v)) = IF v \in ErrorCodes THEN 1 ELSE 0
      /\ v \in ErrorCodes => Pushed(v)[1] = <<0, "error", 1>>
  <2>1. v \in Nat
    OBVIOUS
  <2> QED
    BY <2>1, PushedType
<1> DEFINE A == IF boot = Booted THEN <<regs.ss, regs.esp>> ELSE stack
           B == <<regs.eflags, regs.cs, regs.eip>>
           e == Len(Pushed(v))
<1>9. /\ A \in Seq(Words) /\ Len(A) = Bottom + Outer
      /\ B \in Seq(Words) /\ Len(B) = 3 /\ B[3] = regs.eip /\ B[2] = regs.cs
      /\ B[1] = regs.eflags
      /\ e \in {0, 1}
  <2>1. B \in Seq(Words) /\ Len(B) = 3 /\ B[3] = regs.eip /\ B[2] = regs.cs
      /\ B[1] = regs.eflags
    BY <1>7
  <2>2. A \in Seq(Words) /\ Len(A) = Bottom + Outer
    <3>1. CASE boot = Booted
      <4>1. A = <<regs.ss, regs.esp>> /\ Bottom = 0 /\ Outer = 2
        BY <3>1 DEF Bottom, Outer, Booted
      <4> QED
        BY <1>7, <4>1
    <3>2. CASE boot # Booted
      <4>1. A = stack /\ Outer = 0 /\ Bottom \in {0, 5}
        BY <3>2 DEF Bottom, Outer
      <4> QED
        BY <1>1, <1>7, <4>1
    <3> QED
      BY <3>1, <3>2
  <2>3. e \in {0, 1}
    BY <1>8
  <2> QED
    BY <2>1, <2>2, <2>3
<1>10. /\ stack' \in Seq(Words) /\ Len(stack') = Bottom + Outer + 3 + e
       /\ \A k \in 1 .. Len(A) : stack'[k] = A[k]
       /\ e = 1 => Under(stack', 0) = Pushed(v)[1]
       /\ Under(stack', e) = regs.eip /\ Under(stack', e + 1) = regs.cs
       /\ Under(stack', e + 2) = regs.eflags
       /\ Under(stack', e + 3) = Under(A, 0) /\ Under(stack', e + 4) = Under(A, 1)
  <2>1. stack' = (A \o B) \o Pushed(v)
    BY <1>5, <1>6
  <2> HIDE DEF A, B
  <2>2. /\ stack' \in Seq(Words) /\ Len(stack') = Len(A) + Len(B) + e
        /\ \A k \in 1 .. Len(A) : stack'[k] = A[k]
        /\ \A k \in Nat : k < e => Under(stack', k) = Pushed(v)[e - k]
        /\ \A k \in Nat : k < 3 => Under(stack', k + e) = B[3 - k]
        /\ \A k \in Nat : Under(stack', k + 3 + e) = Under(A, k)
    <3>1. /\ (A \o B) \o Pushed(v) \in Seq(Words)
          /\ Len((A \o B) \o Pushed(v)) = Len(A) + Len(B) + Len(Pushed(v))
          /\ \A k \in 1 .. Len(A) : ((A \o B) \o Pushed(v))[k] = A[k]
          /\ \A k \in Nat : k < Len(Pushed(v)) =>
               Under((A \o B) \o Pushed(v), k) = Pushed(v)[Len(Pushed(v)) - k]
          /\ \A k \in Nat : k < Len(B) =>
               Under((A \o B) \o Pushed(v), k + Len(Pushed(v))) = B[Len(B) - k]
          /\ \A k \in Nat :
               Under((A \o B) \o Pushed(v), k + Len(B) + Len(Pushed(v))) = Under(A, k)
      <4>1. A \in Seq(Words) /\ B \in Seq(Words) /\ Pushed(v) \in Seq(Words)
        BY <1>8, <1>9
      <4> QED
        BY ONLY <4>1, UnderTwo, Zenon
    <3>2. /\ stack' \in Seq(Words) /\ Len(stack') = Len(A) + Len(B) + e
          /\ \A k \in 1 .. Len(A) : stack'[k] = A[k]
      BY <2>1, <3>1
    <3>3. \A k \in Nat : k < e => Under(stack', k) = Pushed(v)[e - k]
      BY <2>1, <3>1
    <3>4. \A k \in Nat : k < 3 => Under(stack', k + e) = B[3 - k]
      BY <1>9, <2>1, <3>1
    <3>5. ASSUME NEW k \in Nat PROVE Under(stack', k + 3 + e) = Under(A, k)
      <4>1. Under(stack', k + Len(B) + e) = Under(A, k)
        BY ONLY <2>1, <3>1, k \in Nat
      <4> QED
        BY ONLY <1>9, <4>1
    <3> QED
      BY ONLY <3>2, <3>3, <3>4, <3>5
  <2>3. e = 1 => Under(stack', 0) = Pushed(v)[1]
    BY <2>2
  <2>4. Under(stack', 0 + e) = B[3] /\ Under(stack', 1 + e) = B[2] /\ Under(stack', 2 + e) = B[1]
    <3>1. /\ 3 - 0 = 3 /\ 3 - 1 = 2 /\ 3 - 2 = 1 /\ 0 \in Nat /\ 1 \in Nat /\ 2 \in Nat
          /\ 0 < 3 /\ 1 < 3 /\ 2 < 3
      OBVIOUS
    <3>2. /\ Under(stack', 0 + e) = B[3 - 0] /\ Under(stack', 1 + e) = B[3 - 1]
          /\ Under(stack', 2 + e) = B[3 - 2]
      BY <2>2, <3>1
    <3> QED
      BY <3>1, <3>2
  <2>5. Under(stack', 0 + 3 + e) = Under(A, 0) /\ Under(stack', 1 + 3 + e) = Under(A, 1)
    BY <2>2
  <2>6. 0 + e = e /\ 1 + e = e + 1 /\ 2 + e = e + 2 /\ 0 + 3 + e = e + 3 /\ 1 + 3 + e = e + 4
        /\ Bottom + Outer + 3 + e = Len(A) + Len(B) + e
    BY <1>9
  <2> QED
    BY <1>9, <2>2, <2>3, <2>4, <2>5, <2>6
<1>11. StateTypes'
  <2>1. regs' \in [Regs -> Words]
    BY <1>1, <1>6, SelectorWords DEF StateTypes
  <2> QED
    BY <1>1, <1>6, <1>10, <2>1 DEF StateTypes
<1>12. SetupDone'
  BY <1>1, <1>6 DEF SetupDone
<1>13. ProcessesInv' /\ ContextsSaved'
  BY <1>1, <1>6 DEF ProcessesInv, ContextsSaved
<1>14. InitFrame'
  <2> SUFFICES ASSUME boot = 13 PROVE InitFrame'
    BY <1>6 DEF InitFrame
  <2>1. A = stack /\ Len(A) = 5
    BY <1>1 DEF Booted, Bottom
  <2>2. stack'[1] = stack[1] /\ stack'[2] = stack[2] /\ stack'[4] = stack[4] /\ stack'[5] = stack[5]
    BY <1>10, <2>1
  <2> QED
    BY <1>1, <1>6, <2>2 DEF InitFrame
<1>15. AtEntry'
  <2>1. Len(Pushed(vector'))  = e
    BY <1>6
  <2>2. Len(stack') = Bottom' + Outer' + 3 + e
    BY <1>6, <1>10 DEF Bottom, Outer
  <2>3. regs'["cs"] = KERNEL_CODE /\ regs'["ss"] = KERNEL_DATA
        /\ \A r \in General \cup Segments : regs'[r] = regs[r]
    BY <1>1, <1>2, <1>6 DEF StateTypes
  <2>4. \A r \in General \cup Segments : Mine(r, regs[r])'
    BY <1>1, <1>2, <1>6, <2>3 DEF Mine
  <2>5. vector' \in ErrorCodes => Under(stack', 0) = <<0, "error", 1>>
    BY <1>6, <1>8, <1>10
  <2>6. /\ Under(stack', e) = regs["eip"] /\ Under(stack', e + 1) = regs["cs"]
        /\ Under(stack', e + 2) = regs["eflags"]
    BY <1>10
  <2>7. boot = Booted => Under(stack', e + 3) = regs["esp"] /\ Under(stack', e + 4) = regs["ss"]
    <3>1. boot = Booted => Under(A, 0) = regs["esp"] /\ Under(A, 1) = regs["ss"]
      BY DEF Under
    <3> QED
      BY <1>10, <3>1
  <2>8. /\ Mine("eip", Under(stack, e))' /\ Mine("cs", Under(stack, e + 1))'
        /\ boot' = Booted => Mine("esp", Under(stack, e + 3))' /\ Mine("ss", Under(stack, e + 4))'
    BY <1>1, <1>2, <1>6, <2>6, <2>7 DEF Mine
  <2>9. Taken(e)'
    BY <1>6, <2>3, <2>6, <2>7 DEF Taken
  <2> QED
    BY <2>1, <2>2, <2>3, <2>4, <2>5, <2>8, <2>9 DEF AtEntry
<1>16. InCode' /\ InHandler'
  BY <1>6 DEF InCode, InHandler
<1>17. Service'
  BY <1>1, <1>6 DEF Service
<1> QED
  BY <1>11, <1>12, <1>13, <1>14, <1>15, <1>16, <1>17 DEF EntryInv

\* Only the timer and the keyboard get through, and not before the gates stand.
LEMMA DeliverKeeps ==
  ASSUME EntryInv, NEW i \in Irqs, Deliver(i)
  PROVE  EntryInv'
<1>1. /\ pc \in {"kernel_setup", "user"} /\ interruptible /\ Foremost(i)
      /\ pic' = [pic EXCEPT !.requested = @ \ {i}, !.service = @ \cup {i}]
      /\ Enter(Line(i, pic.base1, pic.base2))
  BY DEF Deliver
<1>2. boot > 5 /\ pic.base1 = 32 /\ pic.base2 = 40 /\ Irqs \ {0, 1} \subseteq pic.masked
  BY <1>1 DEF EntryInv, SetupDone, StateTypes, Booted, PIC1_OFFSET, PIC2_OFFSET, IRQ_TIMER, IRQ_KEYBOARD
<1>3. i \in {0, 1}
  BY <1>1, <1>2 DEF Foremost, Requests
<1>4. Line(i, pic.base1, pic.base2) = 32 + i
  BY <1>2, <1>3 DEF Line
<1>5. pic.service = {}
  BY <1>1 DEF EntryInv, Service
<1>6. /\ pic' \in [base1 : Nat, base2 : Nat, requested : SUBSET Irqs, service : SUBSET Irqs,
                    masked : SUBSET Irqs]
      /\ pic'.base1 = pic.base1 /\ pic'.base2 = pic.base2 /\ pic'.masked = pic.masked
      /\ pic'.service = {i}
  BY <1>1, <1>5 DEF EntryInv, StateTypes
<1> DEFINE v == 32 + i
<1>7. v \in 0 .. 63 \ {21, 29} /\ v \in {32, 33} /\ v - 32 = i
  BY <1>3
<1>8. Enter(v) /\ pic'.service = IF v \in {32, 33} THEN {v - 32} ELSE {}
  BY <1>1, <1>4, <1>6, <1>7
<1> HIDE DEF v
<1> QED
  BY <1>1, <1>2, <1>6, <1>7, <1>8, EntersStub

\* A program raises an exception, or calls the kernel.
LEMMA ProgramEnters ==
  ASSUME EntryInv, (\E n \in Faults : Fault(n)) \/ SystemCall
  PROVE  EntryInv'
<1>1. pc = "user" /\ pic' = pic
  BY DEF Fault, SystemCall
<1>2. boot = Booted /\ boot > 5 /\ gates = initialize_idt /\ pic.service = {}
  BY <1>1 DEF EntryInv, SetupDone, Service, Booted
<1>3. pic' \in [base1 : Nat, base2 : Nat, requested : SUBSET Irqs, service : SUBSET Irqs,
                masked : SUBSET Irqs]
  BY <1>1 DEF EntryInv, StateTypes
<1>4. PICK v \in 0 .. 63 \ {21, 29} : v \notin {32, 33} /\ Enter(v)
  <2>1. ASSUME NEW n \in Faults, Fault(n) PROVE n \in 0 .. 63 \ {21, 29} /\ n \notin {32, 33} /\ Enter(n)
    <3>1. n \in 0 .. 31 /\ n \notin {21, 29}
      BY InterruptsAssumption
    <3> QED
      BY <2>1, <3>1 DEF Fault
  <2>2. ASSUME SystemCall PROVE Enter(48)
    <3>1. gates[48] = 3
      BY <1>2 DEF initialize_idt
    <3> QED
      BY <2>2, <3>1 DEF SystemCall
  <2>3. 48 \in 0 .. 63 \ {21, 29} /\ 48 \notin {32, 33}
    OBVIOUS
  <2> QED
    BY <2>1, <2>2, <2>3
<1> QED
  BY <1>1, <1>2, <1>3, <1>4, EntersStub

-----------------------------------------------------------------------------
(* The stub *)

\* Every place of the stack has a word.
LEMMA UnderType ==
  ASSUME NEW s \in Seq(Words), NEW k \in Nat
  PROVE  Under(s, k) \in Words
<1>1. <<0, "unknown", 0>> \in Words
  BY WordType DEF Names
<1> QED
  BY <1>1 DEF Under

\* The place of esp gets the word 17 places under the top, if at all another one;
\* nothing else changes.
LEMMA EspReplaced ==
  ASSUME NEW s \in Seq(Words), Len(s) >= 17
  PROVE  /\ InterruptedEsp(s) \in Seq(Words) /\ Len(InterruptedEsp(s)) = Len(s)
         /\ \A k \in Nat : k # 3 => Under(InterruptedEsp(s), k) = Under(s, k)
         /\ Ring(Under(s, 11)) # 0 => Under(InterruptedEsp(s), 3) = Under(s, 17)
         /\ \A k \in 1 .. Len(s) - 4 : InterruptedEsp(s)[k] = s[k]
<1>1. CASE Ring(Under(s, 11)) = 0
  BY <1>1 DEF InterruptedEsp
<1>2. CASE Ring(Under(s, 11)) # 0
  <2> DEFINE w == Under(s, 17)
             t == [s EXCEPT ![Len(s) - 3] = w]
  <2>1. w \in Words
    BY UnderType
  <2>2. InterruptedEsp(s) = t
    BY <1>2 DEF InterruptedEsp
  <2> HIDE DEF w
  <2>3. Len(s) - 3 \in 1 .. Len(s)
    OBVIOUS
  <2>4. t \in Seq(Words) /\ Len(t) = Len(s)
    BY <2>1, <2>3
  <2>5. \A k \in 1 .. Len(s) : t[k] = IF k = Len(s) - 3 THEN w ELSE s[k]
    BY <2>1, <2>3
  <2> HIDE DEF t
  <2>6. \A k \in Nat : Under(t, k) = IF k = 3 THEN w ELSE Under(s, k)
    <3> SUFFICES ASSUME NEW k \in Nat PROVE Under(t, k) = IF k = 3 THEN w ELSE Under(s, k)
      OBVIOUS
    <3>1. CASE k < Len(s)
      <4>1. Len(s) - k \in 1 .. Len(s) /\ (Len(s) - k = Len(s) - 3 <=> k = 3)
        BY <3>1
      <4> QED
        BY <2>4, <2>5, <3>1, <4>1 DEF Under
    <3>2. CASE k >= Len(s)
      BY <2>4, <3>2 DEF Under
    <3> QED
      BY <3>1, <3>2
  <2> QED
    BY <2>2, <2>4, <2>5, <2>6 DEF w
<1> QED
  BY <1>1, <1>2

\* The words of a stub's stack, counted from the top.
StubStack(all, s, error, low, high) ==
  /\ all \in Seq(Words) /\ Len(all) = Len(s) + Len(error) + 13
  /\ \A k \in 1 .. Len(s) : all[k] = s[k]
  /\ \A k \in 0 .. 7 : Under(all, k) = high[8 - k]
  /\ \A k \in 8 .. 12 : Under(all, k) = low[13 - k]
  /\ Len(error) = 1 => Under(all, 13) = error[1]
  /\ \A k \in Nat : Under(all, k + 13 + Len(error)) = Under(s, k)

\* What the stub pushes on the stack the CPU left, with or without an error code.
LEMMA StubPushes ==
  ASSUME NEW s \in Seq(Words), NEW error \in Seq(Words), NEW low \in Seq(Words),
         NEW high \in Seq(Words), Len(low) = 5, Len(high) = 8, Len(error) = 0 \/ Len(error) = 1,
         NEW all, all = ((s \o error) \o low) \o high
  PROVE  StubStack(all, s, error, low, high)
<1> DEFINE a == (s \o error) \o low
<1>0. all = a \o high
  OBVIOUS
<1>1. /\ a \in Seq(Words) /\ Len(a) = Len(s) + Len(error) + 5
      /\ \A k \in 1 .. Len(s) : a[k] = s[k]
      /\ \A k \in Nat : k < 5 => Under(a, k) = low[5 - k]
      /\ \A k \in Nat : k < Len(error) => Under(a, k + 5) = error[Len(error) - k]
      /\ \A k \in Nat : Under(a, k + Len(error) + 5) = Under(s, k)
  <2>1. /\ (s \o error) \o low \in Seq(Words)
        /\ Len((s \o error) \o low) = Len(s) + Len(error) + Len(low)
        /\ \A k \in 1 .. Len(s) : ((s \o error) \o low)[k] = s[k]
        /\ \A k \in Nat : k < Len(low) => Under((s \o error) \o low, k) = low[Len(low) - k]
        /\ \A k \in Nat :
             k < Len(error) => Under((s \o error) \o low, k + Len(low)) = error[Len(error) - k]
        /\ \A k \in Nat : Under((s \o error) \o low, k + Len(error) + Len(low)) = Under(s, k)
    <3>1. s \in Seq(Words) /\ error \in Seq(Words) /\ low \in Seq(Words)
      OBVIOUS
    <3> QED
      BY ONLY <3>1, UnderTwo, Zenon
  <2> QED
    BY <2>1
<1> HIDE DEF a
<1>2. /\ all \in Seq(Words) /\ Len(all) = Len(a) + 8
      /\ \A k \in 1 .. Len(a) : all[k] = a[k]
  <2>1. /\ a \o high \in Seq(Words) /\ Len(a \o high) = Len(a) + Len(high)
        /\ \A k \in 1 .. Len(a) : (a \o high)[k] = a[k]
    BY <1>1, BottomKept
  <2> QED
    BY <1>0, <2>1
<1>3. ASSUME NEW k \in Nat, k < 8 PROVE Under(all, k) = high[8 - k]
  <2>1. Under(a \o high, k) = IF k < Len(high) THEN high[Len(high) - k] ELSE Under(a, k - Len(high))
    BY <1>1, UnderPushed
  <2> QED
    BY <1>0, <1>3, <2>1
<1>4. ASSUME NEW k \in Nat PROVE Under(all, k + 8) = Under(a, k)
  <2>1. Under(a \o high, k + Len(high)) = Under(a, k)
    BY <1>1, UnderBelow
  <2> QED
    BY <1>0, <2>1
<1>5. ASSUME NEW k \in 8 .. 12 PROVE Under(all, k) = low[13 - k]
  <2>1. k - 8 \in Nat /\ k - 8 < 5 /\ 5 - (k - 8) = 13 - k /\ (k - 8) + 8 = k
    OBVIOUS
  <2>2. Under(all, (k - 8) + 8) = low[5 - (k - 8)]
    BY <1>1, <1>4, <2>1
  <2> QED
    BY <2>1, <2>2
<1>6. Len(error) = 1 => Under(all, 13) = error[1]
  <2> SUFFICES ASSUME Len(error) = 1 PROVE Under(all, 13) = error[1]
    OBVIOUS
  <2>1. 0 + 5 \in Nat /\ 0 + 5 + 8 = 13 /\ 1 - 0 = 1 /\ 0 \in Nat /\ 0 < 1
    OBVIOUS
  <2>2. Under(a, 0 + 5) = error[1 - 0]
    BY <1>1, <2>1
  <2>3. Under(all, 0 + 5 + 8) = Under(a, 0 + 5)
    BY <1>4, <2>1
  <2> QED
    BY <2>1, <2>2, <2>3
<1>7. ASSUME NEW k \in Nat PROVE Under(all, k + 13 + Len(error)) = Under(s, k)
  <2>1. k + Len(error) + 5 \in Nat /\ k + Len(error) + 5 + 8 = k + 13 + Len(error)
    OBVIOUS
  <2>2. Under(all, k + Len(error) + 5 + 8) = Under(a, k + Len(error) + 5)
    BY <1>4, <2>1
  <2> QED
    BY <1>1, <2>1, <2>2
<1>8. Len(all) = Len(s) + Len(error) + 13 /\ \A k \in 1 .. Len(s) : all[k] = s[k]
  BY <1>1, <1>2
<1>9. \A k \in 0 .. 7 : Under(all, k) = high[8 - k]
  BY <1>3
<1> QED
  BY <1>2, <1>5, <1>6, <1>7, <1>8, <1>9 DEF StubStack

\* The stub saves what belongs to the code it interrupted where C and the way back
\* look for it.
LEMMA StubKeeps ==
  ASSUME EntryInv, call_generic_handler
  PROVE  EntryInv'
<1> DEFINE error == IF vector \in NoErrorCodeStubs THEN <<<<0, "error", 0>>>> ELSE <<>>
           low   == << <<0, "vector", vector>>, regs.ds, regs.es, regs.fs, regs.gs >>
           saved == (stack \o error) \o low
           high  == << regs.eax, regs.ecx, regs.edx, regs.ebx, KernelStackTop(saved),
                       regs.ebp, regs.esi, regs.edi >>
           all   == saved \o high
           e     == Len(Pushed(vector))
<1>1. /\ pc = "entry" /\ pc' = "handler"
      /\ stack' = InterruptedEsp(all)
      /\ regs' = [r \in Regs |-> IF r \in Segments THEN KERNEL_DATA
                                 ELSE IF r \in General THEN Clobbered[r] ELSE regs[r]]
      /\ UNCHANGED <<boot, interruptible, pic, gates, tables, tss, vector, interrupted,
                     pcb, active, current, own>>
  BY DEF call_generic_handler, Pushad, tableVars, handled, processVars
<1>2. /\ StateTypes /\ SetupDone /\ ProcessesInv /\ ContextsSaved /\ InitFrame /\ Service
      /\ Len(stack) = Bottom + Outer + 3 + e
      /\ \A r \in General \cup Segments : Mine(r, regs[r])
      /\ vector \in ErrorCodes => Under(stack, 0) = <<0, "error", 1>>
      /\ Mine("eip", Under(stack, e)) /\ Mine("cs", Under(stack, e + 1))
      /\ boot = Booted => Mine("esp", Under(stack, e + 3)) /\ Mine("ss", Under(stack, e + 4))
      /\ Taken(e)
  BY <1>1 DEF EntryInv, AtEntry
<1>3. /\ vector \in Nat /\ vector \in 0 .. 63 \ {21, 29}
      /\ e = IF vector \in ErrorCodes THEN 1 ELSE 0
      /\ vector \in NoErrorCodeStubs <=> vector \notin ErrorCodes
  <2>1. vector \in 0 .. 63 \ {21, 29}
    BY <1>1, <1>2 DEF Service
  <2>2. vector \in NoErrorCodeStubs <=> vector \notin ErrorCodes
    BY <2>1 DEF NoErrorCodeStubs, ErrorCodes
  <2> QED
    BY <2>1, <2>2, PushedType
<1>4. /\ stack \in Seq(Words) /\ error \in Seq(Words) /\ low \in Seq(Words) /\ high \in Seq(Words)
      /\ Len(low) = 5 /\ Len(high) = 8 /\ Len(error) = 1 - e /\ e \in {0, 1}
      /\ e = 0 => error[1] = ErrorWord
  <2>1. \A r \in General \cup Segments : regs[r] \in Words
    BY <1>2 DEF StateTypes, Regs
  <2>2. <<0, "error", 0>> \in Words /\ <<0, "vector", vector>> \in Words
    BY <1>3, WordType DEF Names
  <2>3. stack \in Seq(Words) /\ error \in Seq(Words) /\ low \in Seq(Words) /\ Len(low) = 5
    BY <1>2, <2>1, <2>2 DEF StateTypes, General, Segments
  <2>4. Len(error) = 1 - e /\ e \in {0, 1} /\ (e = 0 => error[1] = ErrorWord)
    BY <1>3 DEF ErrorWord
  <2>5. saved \in Seq(Words)
    BY <2>3
  <2> HIDE DEF saved
  <2>6. KernelStackTop(saved) \in Words
    BY <2>5, WordType DEF KernelStackTop, Names, Regs
  <2>7. high \in Seq(Words) /\ Len(high) = 8
    BY <2>1, <2>6 DEF General
  <2> QED
    BY <2>3, <2>4, <2>7
<1> HIDE DEF error, low, high, e
<1>5. /\ all \in Seq(Words) /\ Len(all) = Bottom + Outer + 17
      /\ \A k \in 1 .. Len(stack) : all[k] = stack[k]
      /\ \A k \in 0 .. 7 : Under(all, k) = high[8 - k]
      /\ \A k \in 8 .. 12 : Under(all, k) = low[13 - k]
      /\ Len(error) = 1 => Under(all, 13) = error[1]
      /\ \A k \in Nat : Under(all, k + 13 + Len(error)) = Under(stack, k)
  <2>1. StubStack(all, stack, error, low, high)
    <3>1. all = ((stack \o error) \o low) \o high
      OBVIOUS
    <3> HIDE DEF saved, all
    <3>2. /\ stack \in Seq(Words) /\ error \in Seq(Words) /\ low \in Seq(Words)
          /\ high \in Seq(Words)
          /\ Len(low) = 5 /\ Len(high) = 8 /\ (Len(error) = 0 \/ Len(error) = 1)
      BY <1>4
    <3> QED
      BY ONLY <3>1, <3>2, StubPushes, Zenon
  <2>2. Len(all) = Bottom + Outer + 17
    <3>1. Len(all) = Len(stack) + Len(error) + 13
      BY <2>1 DEF StubStack
    <3> QED
      BY <1>2, <1>4, <3>1 DEF Bottom, Outer
  <2> QED
    BY <2>1, <2>2 DEF StubStack
<1> HIDE DEF all
<1>6. Under(all, 13) = ErrorWord
  <2>1. CASE e = 0
    BY <1>4, <1>5, <2>1
  <2>2. CASE e = 1
    <3>1. Under(all, 0 + 13 + Len(error)) = Under(stack, 0) /\ 0 + 13 + Len(error) = 13
      BY <1>4, <1>5, <2>2
    <3>2. ErrorWord = <<0, "error", 1>> /\ Under(stack, 0) = <<0, "error", 1>>
      BY <1>2, <1>3, <2>2 DEF ErrorWord
    <3> QED
      BY <3>1, <3>2
  <2> QED
    BY <1>4, <2>1, <2>2
<1>7. /\ Under(all, 14) = Under(stack, e) /\ Under(all, 15) = Under(stack, e + 1)
      /\ Under(all, 16) = Under(stack, e + 2)
      /\ Under(all, 17) = Under(stack, e + 3) /\ Under(all, 18) = Under(stack, e + 4)
  <2>1. ASSUME NEW k \in Nat PROVE Under(all, k + 14) = Under(stack, e + k)
    <3>1. e + k \in Nat /\ (e + k) + 13 + Len(error) = k + 14
      BY <1>4
    <3>2. Under(all, (e + k) + 13 + Len(error)) = Under(stack, e + k)
      BY <1>5, <3>1
    <3> QED
      BY <3>1, <3>2
  <2>2. 0 + 14 = 14 /\ 1 + 14 = 15 /\ 2 + 14 = 16 /\ 3 + 14 = 17 /\ 4 + 14 = 18 /\ e + 0 = e
    BY <1>4
  <2>3. Under(all, 0 + 14) = Under(stack, e + 0) /\ Under(all, 1 + 14) = Under(stack, e + 1)
        /\ Under(all, 2 + 14) = Under(stack, e + 2)
        /\ Under(all, 3 + 14) = Under(stack, e + 3) /\ Under(all, 4 + 14) = Under(stack, e + 4)
    BY <2>1
  <2> QED
    BY <2>2, <2>3
<1>8. /\ Under(all, 0) = regs.edi /\ Under(all, 1) = regs.esi /\ Under(all, 2) = regs.ebp
      /\ Under(all, 4) = regs.ebx /\ Under(all, 5) = regs.edx /\ Under(all, 6) = regs.ecx
      /\ Under(all, 7) = regs.eax /\ Under(all, 8) = regs.gs /\ Under(all, 9) = regs.fs
      /\ Under(all, 10) = regs.es /\ Under(all, 11) = regs.ds
      /\ Under(all, 12) = <<0, "vector", vector>>
  <2>1. /\ high[8] = regs.edi /\ high[7] = regs.esi /\ high[6] = regs.ebp /\ high[4] = regs.ebx
        /\ high[3] = regs.edx /\ high[2] = regs.ecx /\ high[1] = regs.eax
    BY DEF high
  <2>2. /\ low[5] = regs.gs /\ low[4] = regs.fs /\ low[3] = regs.es /\ low[2] = regs.ds
        /\ low[1] = <<0, "vector", vector>>
    BY DEF low
  <2>3. \A k \in {0, 1, 2, 4, 5, 6, 7} : Under(all, k) = high[8 - k]
    <3>1. {0, 1, 2, 4, 5, 6, 7} \subseteq 0 .. 7
      OBVIOUS
    <3> QED
      BY ONLY <1>5, <3>1, Zenon
  <2>4. \A k \in {8, 9, 10, 11, 12} : Under(all, k) = low[13 - k]
    <3>1. {8, 9, 10, 11, 12} \subseteq 8 .. 12
      OBVIOUS
    <3> QED
      BY ONLY <1>5, <3>1, Zenon
  <2>5. /\ Under(all, 0) = high[8] /\ Under(all, 1) = high[7] /\ Under(all, 2) = high[6]
        /\ Under(all, 4) = high[4] /\ Under(all, 5) = high[3] /\ Under(all, 6) = high[2]
        /\ Under(all, 7) = high[1]
    BY <2>3
  <2>6. /\ Under(all, 8) = low[5] /\ Under(all, 9) = low[4] /\ Under(all, 10) = low[3]
        /\ Under(all, 11) = low[2] /\ Under(all, 12) = low[1]
    BY <2>4
  <2> QED
    BY <2>1, <2>2, <2>5, <2>6
<1>9. /\ stack' \in Seq(Words) /\ Len(stack') = Bottom + Outer + 17
      /\ \A k \in Nat : k # 3 => Under(stack', k) = Under(all, k)
      /\ Ring(Under(all, 11)) # 0 => Under(stack', 3) = Under(all, 17)
      /\ \A k \in 1 .. Bottom + Outer + 13 : stack'[k] = all[k]
  <2>1. Len(all) >= 17 /\ Len(all) - 4 = Bottom + Outer + 13
    <3>1. Bottom + Outer \in Nat
      BY DEF Bottom, Outer
    <3>2. Len(all) = Bottom + Outer + 17
      BY <1>5
    <3> QED
      BY <3>1, <3>2
  <2> QED
    BY <1>1, <1>5, <2>1, EspReplaced
<1>10. StateTypes'
  <2>1. regs' \in [Regs -> Words]
    <3>1. \A r \in General : Clobbered[r] \in Words
      BY WordType DEF Clobbered, Names, Regs
    <3> QED
      BY <1>1, <1>2, <3>1, SelectorWords DEF StateTypes
  <2> QED
    BY <1>1, <1>2, <1>9, <2>1 DEF StateTypes
<1>11. SetupDone'
  BY <1>1, <1>2 DEF SetupDone
<1>12. ProcessesInv' /\ ContextsSaved'
  BY <1>1, <1>2 DEF ProcessesInv, ContextsSaved
<1>13. InitFrame'
  <2> SUFFICES ASSUME boot = 13 PROVE InitFrame'
    BY <1>1 DEF InitFrame
  <2>1. Bottom = 5 /\ Outer = 0 /\ Len(stack) >= 5
    BY <1>2, <1>4 DEF Bottom, Outer, Booted
  <2>2. \A k \in 1 .. 5 : stack'[k] = stack[k]
    <3>1. ASSUME NEW k \in 1 .. 5
          PROVE  k \in 1 .. Len(stack) /\ k \in 1 .. Bottom + Outer + 13
      BY <1>4, <2>1
    <3> QED
      BY <1>5, <1>9, <3>1
  <2> QED
    BY <1>1, <1>2, <2>2 DEF InitFrame
<1>14. InHandler'
  <2>1. ASSUME NEW r, NEW w, Mine(r, w) PROVE Belongs(boot', current', own'[current'], r, w)
    BY <1>1, <2>1 DEF Mine
  <2>2. Len(stack') = Bottom' + Outer' + 17
    BY <1>1, <1>9 DEF Bottom, Outer
  <2>3. \A r \in Regs \ {"esp", "ss"} : /\ Mine(r, Under(stack', PopPlace(r) - 1))
                                       /\ Under(stack', PopPlace(r) - 1) = interrupted[r]
    <3>1. \A r \in General \cup Segments : Under(stack', PopPlace(r) - 1) = regs[r]
      <4>1. /\ Under(stack', 0) = regs.edi /\ Under(stack', 1) = regs.esi
            /\ Under(stack', 2) = regs.ebp /\ Under(stack', 4) = regs.ebx
            /\ Under(stack', 5) = regs.edx /\ Under(stack', 6) = regs.ecx
            /\ Under(stack', 7) = regs.eax /\ Under(stack', 8) = regs.gs
            /\ Under(stack', 9) = regs.fs /\ Under(stack', 10) = regs.es
            /\ Under(stack', 11) = regs.ds
        BY <1>8, <1>9
      <4> QED
        BY <4>1, PopPlaces DEF General, Segments
    <3>2. /\ Under(stack', PopPlace("eip") - 1) = Under(stack, e)
          /\ Under(stack', PopPlace("cs") - 1) = Under(stack, e + 1)
          /\ Under(stack', PopPlace("eflags") - 1) = Under(stack, e + 2)
      <4>1. /\ Under(stack', 14) = Under(stack, e) /\ Under(stack', 15) = Under(stack, e + 1)
            /\ Under(stack', 16) = Under(stack, e + 2)
        BY <1>7, <1>9
      <4> QED
        BY <4>1, PopPlaces
    <3>3. ASSUME NEW w PROVE Mine("eflags", w)
      BY DEF Mine, Belongs, General, Segments
    <3>4. Regs \ {"esp", "ss"} = General \cup Segments \cup {"eip", "cs", "eflags"}
      BY DEF Regs, General, Segments
    <3> QED
      BY <1>2, <3>1, <3>2, <3>3, <3>4 DEF Taken
  <2>4. Under(stack', 12) = <<0, "vector", vector'>> /\ Under(stack', 13) = ErrorWord'
    BY <1>1, <1>6, <1>8, <1>9 DEF ErrorWord
  <2>5. ASSUME boot = Booted
        PROVE  /\ Mine("esp", Under(stack', 3)) /\ Mine("esp", Under(stack', 17))
               /\ Mine("ss", Under(stack', 18)) /\ Under(stack', 3) = interrupted["esp"]
    <3>1. Ring(Under(all, 11)) = 3
      <4>1. Mine("ds", regs["ds"]) /\ "ds" \in Segments
        BY <1>2 DEF Segments
      <4>2. current \in Nat /\ own[current] \in Nat
        BY <1>2, InterruptsAssumption DEF StateTypes
      <4> QED
        BY <1>8, <2>5, <4>1, <4>2, UserRegsType, SelectorWords DEF Mine, Belongs
    <3> QED
      BY <1>2, <1>7, <1>9, <2>5, <3>1 DEF Taken
  <2>6. \A r \in Regs \ {"esp", "ss"} : Mine(r, Under(stack, PopPlace(r) - 1))'
    BY <2>1, <2>3 DEF Mine
  <2>7. boot' = Booted => Mine("esp", Under(stack, 3))' /\ Mine("esp", Under(stack, 17))'
                          /\ Mine("ss", Under(stack, 18))'
    BY <1>1, <2>1, <2>5 DEF Mine
  <2>8. Seen'
    BY <1>1, <2>3, <2>5 DEF Seen
  <2> QED
    BY <2>2, <2>4, <2>6, <2>7, <2>8 DEF InHandler
<1>15. InCode' /\ AtEntry'
  BY <1>1 DEF InCode, AtEntry
<1>16. Service'
  BY <1>1, <1>2 DEF Service
<1> QED
  BY <1>10, <1>11, <1>12, <1>13, <1>14, <1>15, <1>16 DEF EntryInv

-----------------------------------------------------------------------------
(* C, and the way back *)

\* In a handler, what the frame says of the interrupted program.
LEMMA InFrame ==
  ASSUME EntryInv, pc = "handler"
  PROVE  /\ int_number = vector
         /\ \A r \in Regs \ {"esp", "ss"} : Mine(r, frame(r))
         /\ boot = Booted => Mine("esp", frame("esp"))
         /\ \A r \in Regs \ {"ss"} : frame(r) \in Words
         /\ frame("int_number") = <<0, "vector", vector>>
         /\ frame("error_code") = ErrorWord
         /\ \A r \in Regs \ {"esp", "ss"} : frame(r) = interrupted[r]
         /\ boot = Booted => frame("esp") = interrupted["esp"]
<1>1. /\ \A r \in Regs \ {"esp", "ss"} : Mine(r, Under(stack, PopPlace(r) - 1))
      /\ Under(stack, 12) = <<0, "vector", vector>> /\ Under(stack, 13) = ErrorWord
      /\ boot = Booted => Mine("esp", Under(stack, 3))
      /\ stack \in Seq(Words) /\ Seen
  BY DEF EntryInv, InHandler, StateTypes
<1>2. \A r \in Regs \ {"esp", "ss"} : frame(r) = Under(stack, PopPlace(r) - 1)
  BY FrameFields, PopPlaces DEF Regs, General, Segments
<1>3. \A r \in Regs \ {"ss"} : frame(r) \in Words
  <2>1. \A k \in 0 .. 16 : Under(stack, k) \in Words
    BY <1>1, UnderType
  <2>2. /\ Under(stack, 0) \in Words /\ Under(stack, 1) \in Words /\ Under(stack, 2) \in Words
        /\ Under(stack, 3) \in Words /\ Under(stack, 4) \in Words /\ Under(stack, 5) \in Words
        /\ Under(stack, 6) \in Words /\ Under(stack, 7) \in Words /\ Under(stack, 8) \in Words
        /\ Under(stack, 9) \in Words /\ Under(stack, 10) \in Words /\ Under(stack, 11) \in Words
        /\ Under(stack, 14) \in Words /\ Under(stack, 15) \in Words /\ Under(stack, 16) \in Words
    BY <2>1
  <2> QED
    BY <2>2, FrameFields DEF Regs, General, Segments
<1>4. int_number = vector
  BY <1>1, FrameFields DEF int_number
<1> QED
  BY <1>1, <1>2, <1>3, <1>4, FrameFields DEF Seen

\* The end of interrupt ends what is in service, be its vector taken for a line.
LEMMA AckEnds ==
  ASSUME NEW i \in {0, 1}, pic.service = {i}, NEW irq \in Nat
  PROVE  pic_ack(irq) = [pic EXCEPT !.service = {}]
<1>1. Ended({i}) = {}
  BY DEF Ended, Priority
<1>2. {j \in pic.service : j >= 8} = {}
  OBVIOUS
<1>3. (IF irq >= 8 THEN pic.service \ ({} \ Ended({})) ELSE pic.service) = {i}
  OBVIOUS
<1> QED
  BY <1>1, <1>2, <1>3 DEF pic_ack

\* A handler that returns leaves the stub's frame as it is, and nothing in service.
LEMMA HandlerReturns ==
  ASSUME EntryInv, pc = "handler", pc' = "return",
         UNCHANGED <<boot, interruptible, regs, stack, gates, tables, tss, vector, interrupted,
                     current>>,
         pic' = [pic EXCEPT !.service = {}],
         pcb' \in [Processes -> [Regs -> Words]], active' \subseteq Processes,
         own' \in [Processes -> 0 .. 1], own'[current] = own[current],
         ProcessesInv', ContextsSaved'
  PROVE  EntryInv'
<1>1. StateTypes'
  <2>1. pic' \in [base1 : Nat, base2 : Nat, requested : SUBSET Irqs, service : SUBSET Irqs,
                  masked : SUBSET Irqs]
    BY DEF EntryInv, StateTypes
  <2> QED
    BY <2>1 DEF EntryInv, StateTypes
<1>2. /\ pic'.service = {} /\ pic'.base1 = pic.base1 /\ pic'.base2 = pic.base2
      /\ pic'.masked = pic.masked
  BY DEF EntryInv, StateTypes
<1>3. SetupDone'
  BY <1>2 DEF EntryInv, SetupDone
<1>4. InitFrame'
  BY DEF EntryInv, InitFrame
<1>5. InCode' /\ AtEntry'
  BY DEF InCode, AtEntry
<1>6. ASSUME NEW r, NEW w PROVE Mine(r, w) <=> Belongs(boot', current', own'[current'], r, w)
  BY DEF Mine
<1>7. InHandler'
  <2>1. /\ Len(stack) = Bottom + Outer + 17
        /\ \A r \in Regs \ {"esp", "ss"} : Mine(r, Under(stack, PopPlace(r) - 1))
        /\ Under(stack, 12) = <<0, "vector", vector>>
        /\ Under(stack, 13) = ErrorWord
        /\ boot = Booted => /\ Mine("esp", Under(stack, 3))
                            /\ Mine("esp", Under(stack, 17)) /\ Mine("ss", Under(stack, 18))
        /\ Seen
    BY DEF EntryInv, InHandler
  <2>2. Len(stack') = Bottom' + Outer' + 17
    BY <2>1 DEF Bottom, Outer
  <2>3. \A r \in Regs \ {"esp", "ss"} : Mine(r, Under(stack, PopPlace(r) - 1))'
    BY <1>6, <2>1 DEF Mine
  <2>4. Under(stack', 12) = <<0, "vector", vector'>> /\ Under(stack', 13) = ErrorWord'
    BY <2>1 DEF ErrorWord
  <2>5. boot' = Booted => /\ Mine("esp", Under(stack, 3))'
                          /\ Mine("esp", Under(stack, 17))' /\ Mine("ss", Under(stack, 18))'
    BY <1>6, <2>1 DEF Mine
  <2>6. Seen'
    BY <2>1 DEF Seen
  <2> QED
    BY <2>2, <2>3, <2>4, <2>5, <2>6 DEF InHandler
<1>8. Service'
  BY <1>2 DEF EntryInv, Service
<1> QED
  BY <1>1, <1>3, <1>4, <1>5, <1>7, <1>8 DEF EntryInv

\* The timer switches from one program to another.
LEMMA SwitchKeeps ==
  ASSUME EntryInv, pc = "handler", pic' = [pic EXCEPT !.service = {}],
         UNCHANGED <<boot, gates, tables, tss, vector, interrupted, active, own>>,
         NEW p \in active \ {current},
         pcb' = [pcb EXCEPT ![current] = SavedContext(@)], current' = p,
         process_context_switch(pcb[p])
  PROVE  EntryInv'
<1>1. StateTypes /\ SetupDone /\ ProcessesInv /\ ContextsSaved /\ Service
  BY DEF EntryInv
<1>2. boot = Booted
  BY <1>1 DEF ProcessesInv, StateTypes, Booted
<1>3. /\ p \in Processes /\ current \in Processes /\ current # p
      /\ p \in Nat /\ current \in Nat /\ own[p] \in Nat /\ own[current] \in Nat
  <2>1. /\ current \in Processes /\ active \subseteq Processes
        /\ own \in [Processes -> 0 .. 1]
    BY <1>1 DEF StateTypes
  <2> QED
    BY <2>1, InterruptsAssumption
<1>4. /\ pcb[p] \in [Regs -> Words] /\ pcb[p]["cs"] = USER_CODE /\ pcb[p]["ss"] = USER_DATA
      /\ \A r \in Regs \ {"eflags"} : pcb[p][r] = UserRegs(p, own[p])[r]
  BY <1>1, <1>3 DEF StateTypes, ContextsSaved
<1>5. /\ regs' = pcb[p] /\ stack' = <<>> /\ interruptible' = TRUE
      /\ pc' = IF Accepted(regs') THEN "user" ELSE "crashed"
  <2>1. Loaded(pcb[p]) = pcb[p]
    BY <1>4, LoadedContext
  <2> QED
    BY <2>1 DEF process_context_switch
<1>6. pc' = "user"
  <2>1. \A r \in Segments : pcb[p][r] = USER_DATA
    BY <1>3, <1>4, UserRegsType DEF Regs, Segments
  <2>2. Accepted(pcb[p])
    BY <1>4, <2>1, AcceptedRegs
  <2> QED
    BY <1>5, <2>2
<1>7. /\ SavedContext(pcb[current]) \in [Regs -> Words]
      /\ SavedContext(pcb[current])["cs"] = USER_CODE
      /\ SavedContext(pcb[current])["ss"] = USER_DATA
      /\ \A r \in Regs \ {"eflags"} :
           SavedContext(pcb[current])[r] = UserRegs(current, own[current])[r]
  <2> DEFINE old == pcb[current]
  <2>1. old \in [Regs -> Words] /\ old["cs"] = USER_CODE /\ old["ss"] = USER_DATA
    BY <1>1, <1>3 DEF StateTypes, ContextsSaved
  <2> HIDE DEF old
  <2>2. /\ \A r \in Regs \ {"eflags", "cs", "ss"} :
             frame(r) \in Words /\ frame(r) = UserRegs(current, own[current])[r]
    BY <1>2, InFrame DEF Mine, Belongs
  <2>3. "cs" \in Regs /\ "ss" \in Regs
    BY DEF Regs
  <2>4. /\ UserRegs(current, own[current])["cs"] = USER_CODE
        /\ UserRegs(current, own[current])["ss"] = USER_DATA
    BY <1>3, UserRegsType
  <2>5. /\ SavedContext(old) \in [Regs -> Words]
        /\ SavedContext(old)["cs"] = USER_CODE /\ SavedContext(old)["ss"] = USER_DATA
        /\ \A r \in Regs \ {"eflags"} : SavedContext(old)[r] = UserRegs(current, own[current])[r]
    BY <2>1, <2>2, <2>3, <2>4 DEF SavedContext
  <2> QED
    BY <2>5 DEF old
<1>8. /\ pcb' \in [Processes -> [Regs -> Words]] /\ pcb'[current] = SavedContext(pcb[current])
      /\ \A q \in Processes \ {current} : pcb'[q] = pcb[q]
  BY <1>1, <1>3, <1>7 DEF StateTypes
<1>9. /\ pic'.service = {} /\ pic'.base1 = pic.base1 /\ pic'.base2 = pic.base2
      /\ pic'.masked = pic.masked
      /\ pic' \in [base1 : Nat, base2 : Nat, requested : SUBSET Irqs, service : SUBSET Irqs,
                   masked : SUBSET Irqs]
  BY <1>1 DEF StateTypes
<1>10. StateTypes'
  <2>1. stack' \in Seq(Words)
    BY <1>5
  <2>2. regs' \in [Regs -> Words]
    BY <1>4, <1>5
  <2>3. active' \subseteq Processes /\ current' \in Processes
    BY <1>1, <1>3 DEF StateTypes
  <2> QED
    BY <1>1, <1>5, <1>6, <1>8, <1>9, <2>1, <2>2, <2>3 DEF StateTypes
<1>11. SetupDone'
  BY <1>1, <1>2, <1>6, <1>9 DEF SetupDone, Booted
<1>12. ProcessesInv'
  BY <1>2 DEF ProcessesInv, Booted
<1>13. ContextsSaved'
  <2>1. \A q \in Processes : pcb'[q]["cs"] = USER_CODE /\ pcb'[q]["ss"] = USER_DATA
    BY <1>1, <1>7, <1>8 DEF ContextsSaved
  <2>2. ASSUME NEW q \in active \ {p}, NEW r \in Regs \ {"eflags"}
        PROVE  pcb'[q][r] = UserRegs(q, own[q])[r]
    BY <1>1, <1>7, <1>8 DEF ContextsSaved, StateTypes
  <2> QED
    BY <2>1, <2>2 DEF ContextsSaved
<1>14. InCode'
  <2>1. ASSUME NEW r \in Regs PROVE Mine(r, regs[r])'
    BY <1>2, <1>4, <1>5 DEF Mine, Belongs
  <2>2. Len(stack') = Bottom'
    BY <1>2, <1>5 DEF Bottom, Booted
  <2> QED
    BY <2>1, <2>2 DEF InCode
<1>15. InitFrame' /\ AtEntry' /\ InHandler' /\ Service'
  BY <1>2, <1>6, <1>9 DEF InitFrame, AtEntry, InHandler, Service, Booted
<1> QED
  BY <1>10, <1>11, <1>12, <1>13, <1>14, <1>15 DEF EntryInv

\* Whatever C does with the interrupt.
LEMMA HandlerKeeps ==
  ASSUME EntryInv, main_interrupt_handler
  PROVE  EntryInv'
<1>1. /\ pc = "handler" /\ UNCHANGED <<boot, gates, tables, tss, vector, interrupted>>
      /\ timer_isr \/ keyboard_isr \/ syscall \/ IgnoredInterrupt
  BY DEF main_interrupt_handler, tableVars, handled
<1>2. StateTypes /\ ProcessesInv /\ ContextsSaved /\ Service
  BY DEF EntryInv
<1>3. int_number = vector
  BY <1>1, InFrame
<1>4. ASSUME vector \in {32, 33}, NEW irq \in Nat
      PROVE  pic_ack(irq) = [pic EXCEPT !.service = {}]
  <2>1. pic.service = {vector - 32} /\ vector - 32 \in {0, 1}
    BY <1>1, <1>2, <1>4 DEF Service
  <2> QED
    BY <2>1, AckEnds
<1>5. vector \notin {32, 33} => pic = [pic EXCEPT !.service = {}]
  BY <1>1, <1>2 DEF Service, StateTypes
<1>6. /\ pcb \in [Processes -> [Regs -> Words]] /\ active \subseteq Processes
      /\ own \in [Processes -> 0 .. 1] /\ current \in Processes
  BY <1>2 DEF StateTypes
<1>7. ASSUME pc' = "return", UNCHANGED <<interruptible, regs, stack, pcb, active, current, own>>,
             pic' = [pic EXCEPT !.service = {}]
      PROVE  EntryInv'
  <2>1. ProcessesInv' /\ ContextsSaved'
    BY <1>1, <1>2, <1>7 DEF ProcessesInv, ContextsSaved
  <2> QED
    BY <1>1, <1>6, <1>7, <2>1, HandlerReturns
<1>8. CASE timer_isr
  <2>1. pic' = [pic EXCEPT !.service = {}]
    BY <1>3, <1>4, <1>8 DEF timer_isr, PIC1_OFFSET, IRQ_TIMER
  <2>2. CASE pc' = "return" /\ UNCHANGED <<interruptible, regs, stack, processVars>>
    BY <1>7, <2>1, <2>2 DEF processVars
  <2>3. ASSUME NEW p \in active \ {current},
               pcb' = [pcb EXCEPT ![current] = SavedContext(@)], current' = p,
               process_context_switch(pcb[p]), UNCHANGED <<active, own>>
        PROVE  EntryInv'
    BY <1>1, <2>1, <2>3, SwitchKeeps
  <2> QED
    BY <1>8, <2>2, <2>3 DEF timer_isr
<1>9. CASE keyboard_isr
  BY <1>3, <1>4, <1>7, <1>9 DEF keyboard_isr, PIC1_OFFSET, IRQ_KEYBOARD, processVars
<1>10. CASE syscall
  <2>1. /\ vector = 48 /\ pc' = "return" /\ UNCHANGED <<interruptible, regs, stack>>
        /\ pic' = [pic EXCEPT !.service = {}]
    BY <1>3, <1>5, <1>10 DEF syscall
  <2>2. boot = Booted /\ current \in active
    BY <1>1, <1>2, <2>1 DEF Service, ProcessesInv
  <2>3. ASSUME NEW p \in Processes \ active, active' = active \cup {p},
               pcb' = [pcb EXCEPT ![p] = UserRegs(p, 0)], own' = [own EXCEPT ![p] = 0],
               UNCHANGED current
        PROVE  EntryInv'
    <3>1. p # current /\ p \in Nat
      BY <2>2, InterruptsAssumption
    <3>2. /\ UserRegs(p, 0) \in [Regs -> Words]
          /\ UserRegs(p, 0)["cs"] = USER_CODE /\ UserRegs(p, 0)["ss"] = USER_DATA
      BY <3>1, UserRegsType
    <3>3. /\ pcb' \in [Processes -> [Regs -> Words]] /\ pcb'[p] = UserRegs(p, 0)
          /\ \A q \in Processes \ {p} : pcb'[q] = pcb[q]
      BY <1>6, <2>3, <3>2
    <3>4. /\ own' \in [Processes -> 0 .. 1] /\ own'[p] = 0
          /\ \A q \in Processes \ {p} : own'[q] = own[q]
      BY <1>6, <2>3
    <3>5. own'[current] = own[current] /\ active' \subseteq Processes
      BY <1>6, <2>3, <3>1, <3>4
    <3>6. ProcessesInv'
      BY <1>1, <2>2, <2>3 DEF ProcessesInv, Booted
    <3>7. ContextsSaved'
      <4>1. \A q \in Processes : pcb'[q]["cs"] = USER_CODE /\ pcb'[q]["ss"] = USER_DATA
        BY <1>2, <3>2, <3>3 DEF ContextsSaved
      <4>2. ASSUME NEW q \in active' \ {current'}, NEW r \in Regs \ {"eflags"}
            PROVE  pcb'[q][r] = UserRegs(q, own'[q])[r]
        <5>1. CASE q = p
          BY <3>3, <3>4, <5>1
        <5>2. CASE q # p
          BY <1>2, <1>6, <2>3, <3>3, <3>4, <5>2 DEF ContextsSaved
        <5> QED
          BY <5>1, <5>2
      <4> QED
        BY <4>1, <4>2 DEF ContextsSaved
    <3> QED
      BY <1>1, <2>1, <2>3, <3>3, <3>4, <3>5, <3>6, <3>7, HandlerReturns
  <2>4. ASSUME NEW p \in active \ {current}, active' = active \ {p},
               UNCHANGED <<pcb, current, own>>
        PROVE  EntryInv'
    <3>1. ProcessesInv'
      BY <1>1, <2>2, <2>4 DEF ProcessesInv, Booted
    <3>2. ContextsSaved'
      BY <1>2, <2>4 DEF ContextsSaved
    <3> QED
      BY <1>1, <1>6, <2>1, <2>4, <3>1, <3>2, HandlerReturns
  <2>5. CASE UNCHANGED processVars
    BY <1>7, <2>1, <2>5 DEF processVars
  <2> QED
    BY <1>10, <2>3, <2>4, <2>5 DEF syscall
<1>11. CASE IgnoredInterrupt
  <2>1. vector \notin {32, 33}
    BY <1>3, <1>11 DEF IgnoredInterrupt, PIC1_OFFSET, IRQ_TIMER, IRQ_KEYBOARD
  <2> QED
    BY <1>5, <1>7, <1>11, <2>1 DEF IgnoredInterrupt, processVars
<1> QED
  BY <1>1, <1>8, <1>9, <1>10, <1>11

\* The interrupted code gets its registers back.
LEMMA ReturnKeeps ==
  ASSUME EntryInv, ReturnFromHandler
  PROVE  EntryInv'
<1> DEFINE user == Ring(Restored("cs")) = 3
           left == IF user THEN <<>> ELSE SubSeq(stack, 1, Len(stack) - Len(Popped))
<1>1. /\ pc = "return" /\ stack' = left /\ interruptible' = TRUE
      /\ regs' = [r \in Regs |->
                    IF r = "esp" THEN IF user THEN Under(stack, 17) ELSE KernelStackTop(left)
                    ELSE IF r = "ss" THEN IF user THEN Under(stack, 18) ELSE KERNEL_DATA
                    ELSE Restored(r)]
      /\ pc' = IF ~Accepted(regs') THEN "crashed" ELSE IF user THEN "user" ELSE "kernel_setup"
      /\ UNCHANGED <<boot, pic, gates, tables, tss, vector, interrupted, pcb, active, current, own>>
  BY DEF ReturnFromHandler, tableVars, handled, processVars
<1>2. /\ StateTypes /\ SetupDone /\ ProcessesInv /\ ContextsSaved /\ InitFrame /\ Service
      /\ Len(stack) = Bottom + Outer + 17
      /\ \A r \in Regs \ {"esp", "ss"} : Mine(r, Restored(r))
      /\ boot = Booted => Mine("esp", Under(stack, 17)) /\ Mine("ss", Under(stack, 18))
  BY <1>1 DEF EntryInv, InHandler, Restored
<1>3. current \in Nat /\ own[current] \in Nat /\ Init1 \in Nat /\ 0 \in Nat
  BY <1>2, InterruptsAssumption DEF StateTypes, Init1
<1>4. "cs" \in Regs \ {"esp", "ss"} /\ "cs" \notin General \cup Segments \cup {"ss"} /\ "ss" \in Regs
      /\ "ss" \notin General \cup Segments /\ Segments \subseteq Regs \ {"esp", "ss"}
      /\ "esp" \in Regs /\ "esp" \notin General \cup Segments \cup {"cs", "ss"}
  BY DEF Regs, General, Segments
<1>5. user <=> boot = Booted
  <2>1. Restored("cs") = IF boot = Booted THEN USER_CODE ELSE KERNEL_CODE
    BY <1>2, <1>3, <1>4, UserRegsType DEF Mine, Belongs
  <2> QED
    BY <2>1, SelectorWords
<1>6. left \in Seq(Words) /\ Len(left) = Bottom /\ \A k \in 1 .. Bottom : left[k] = stack[k]
  <2>1. Len(Popped) = 17
    BY DEF Popped
  <2>2. CASE user
    <3>1. Bottom = 0
      BY <1>5, <2>2 DEF Bottom, Booted
    <3> QED
      BY <2>2, <3>1
  <2>3. CASE ~user
    <3>1. Outer = 0 /\ Bottom \in {0, 5}
      BY <1>5, <2>3 DEF Outer, Bottom
    <3>2. stack \in Seq(Words) /\ left = SubSeq(stack, 1, Bottom) /\ Bottom <= Len(stack)
      BY <1>2, <2>1, <2>3, <3>1 DEF StateTypes
    <3> HIDE DEF left
    <3> QED
      BY <3>1, <3>2
  <2> QED
    BY <2>2, <2>3
<1> HIDE DEF left, user
<1>7. \A k \in Nat : Under(stack, k) \in Words
  BY <1>2, UnderType DEF StateTypes
<1>8. regs' \in [Regs -> Words]
  <2>1. \A r \in Regs \ {"esp", "ss"} : Restored(r) \in Words
    <3>1. \A r \in Regs \ {"esp", "ss"} : PopPlace(r) - 1 \in Nat
      BY PopPlaces DEF Regs, General, Segments
    <3> QED
      BY <1>7, <3>1 DEF Restored
  <2>2. KernelStackTop(left) \in Words
    BY <1>6, WordType DEF KernelStackTop, Names, Regs
  <2>3. Under(stack, 17) \in Words /\ Under(stack, 18) \in Words
    BY <1>7
  <2> QED
    BY <1>1, <2>1, <2>2, <2>3, SelectorWords
<1>9. \A r \in Regs : Mine(r, regs'[r])
  <2>1. \A r \in Regs \ {"esp", "ss"} : regs'[r] = Restored(r)
    BY <1>1
  <2>2. Mine("ss", regs'["ss"])
    <3>1. CASE boot = Booted
      BY <1>1, <1>2, <1>4, <1>5, <3>1
    <3>2. CASE boot # Booted
      BY <1>1, <1>4, <1>5, <3>2 DEF Mine, Belongs
    <3> QED
      BY <3>1, <3>2
  <2>3. Mine("esp", regs'["esp"])
    <3>1. CASE boot = Booted
      BY <1>1, <1>2, <1>4, <1>5, <3>1
    <3>2. CASE boot # Booted
      BY <1>4, <3>2 DEF Mine, Belongs
    <3> QED
      BY <3>1, <3>2
  <2> QED
    BY <1>2, <2>1, <2>2, <2>3
<1>10. Accepted(regs')
  <2>1. CASE boot = Booted
    <3>1. /\ regs'["cs"] = USER_CODE /\ regs'["ss"] = USER_DATA
          /\ \A r \in Segments : regs'[r] = USER_DATA
      <4>1. \A r \in Regs \ {"eflags"} : regs'[r] = UserRegs(current, own[current])[r]
        BY <1>9, <2>1 DEF Mine, Belongs
      <4>2. "eflags" \notin Segments
        BY DEF Segments
      <4> QED
        BY <1>3, <1>4, <4>1, <4>2, UserRegsType
    <3> QED
      BY <3>1, AcceptedRegs
  <2>2. CASE boot # Booted
    <3>1. regs'["cs"] = KERNEL_CODE /\ regs'["ss"] = KERNEL_DATA
      <4>1. Mine("cs", regs'["cs"]) /\ Mine("ss", regs'["ss"])
        BY <1>4, <1>9
      <4> QED
        BY <1>4, <2>2, <4>1 DEF Mine, Belongs
    <3>2. \A r \in Segments : regs'[r] \in {KERNEL_DATA, USER_DATA}
      BY <1>3, <1>4, <1>9, <2>2, UserRegsType DEF Mine, Belongs
    <3> QED
      BY <3>1, <3>2, AcceptedRegs
  <2> QED
    BY <2>1, <2>2
<1>11. pc' = IF boot = Booted THEN "user" ELSE "kernel_setup"
  BY <1>1, <1>5, <1>10
<1>12. StateTypes'
  BY <1>1, <1>2, <1>6, <1>8, <1>11 DEF StateTypes
<1>13. SetupDone'
  <2>1. boot > 5 /\ boot \in 1 .. Booted
    BY <1>1, <1>2 DEF SetupDone, StateTypes
  <2>2. (pc' = "kernel_setup" => boot' < Booted) /\ (pc' = "user" => boot' = Booted)
    BY <1>1, <1>11, <2>1 DEF Booted
  <2> QED
    BY <1>1, <1>2, <2>1, <2>2 DEF SetupDone
<1>14. ProcessesInv' /\ ContextsSaved'
  BY <1>1, <1>2 DEF ProcessesInv, ContextsSaved
<1>15. InitFrame'
  BY <1>1, <1>2, <1>6 DEF InitFrame, Bottom
<1>16. InCode'
  <2>1. ASSUME NEW r \in Regs PROVE Mine(r, regs[r])'
    BY <1>1, <1>9 DEF Mine
  <2>2. Len(stack') = Bottom'
    BY <1>1, <1>6 DEF Bottom
  <2> QED
    BY <2>1, <2>2 DEF InCode
<1>17. AtEntry' /\ InHandler'
  BY <1>11 DEF AtEntry, InHandler
<1>18. Service'
  BY <1>1, <1>2, <1>11 DEF Service
<1> QED
  BY <1>12, <1>13, <1>14, <1>15, <1>16, <1>17, <1>18 DEF EntryInv

-----------------------------------------------------------------------------
(* kernel_setup *)

\* What holds between two of its steps.
LEMMA InSetup ==
  ASSUME EntryInv, pc = "kernel_setup"
  PROVE  /\ boot \in 1 .. 13 /\ Booted = 14 /\ current = Init1 /\ own[Init1] = 0
         /\ pic.service = {} /\ Len(stack) = Bottom
         /\ \A r \in Regs : Mine(r, regs[r])
BY DEF EntryInv, SetupDone, StateTypes, ProcessesInv, Service, InCode, Booted

\* Up to the creation of init, only the segments of the kernel matter.
LEMMA SetupGoesOn ==
  ASSUME EntryInv, pc = "kernel_setup", boot < 12, boot' = boot + 1,
         UNCHANGED <<pc, regs, stack, vector, interrupted, current, own>>,
         interruptible' \in BOOLEAN,
         pic' \in [base1 : Nat, base2 : Nat, requested : SUBSET Irqs, service : SUBSET Irqs,
                  masked : SUBSET Irqs],
         pic'.service = {},
         pcb' \in [Processes -> [Regs -> Words]], active' \subseteq Processes,
         DOMAIN tables' = {"gdt", "idt", "tr"}, DOMAIN tss' = {"based", "stack"},
         SetupDone', ProcessesInv', ContextsSaved'
  PROVE  EntryInv'
<1>1. boot \in 1 .. 11 /\ Booted = 14 /\ Len(stack) = 0 /\ \A r \in Regs : Mine(r, regs[r])
  BY InSetup DEF Bottom
<1>2. StateTypes'
  BY <1>1 DEF EntryInv, StateTypes
<1>3. InCode'
  <2>1. ASSUME NEW r \in Regs PROVE Mine(r, regs[r])'
    <3>1. boot # 13 /\ boot # 14 /\ boot' # 13 /\ boot' # 14
      BY <1>1
    <3> QED
      BY <1>1, <3>1 DEF Mine, Belongs
  <2>2. Len(stack') = Bottom'
    BY <1>1 DEF Bottom
  <2> QED
    BY <2>1, <2>2 DEF InCode
<1>4. InitFrame' /\ AtEntry' /\ InHandler' /\ Service'
  BY <1>1 DEF InitFrame, AtEntry, InHandler, Service
<1> QED
  BY <1>2, <1>3, <1>4 DEF EntryInv

\* Nothing but the flag, the controllers and the tables changes before init is created.
LEMMA ProcessesLater ==
  ASSUME EntryInv, pc = "kernel_setup", boot < 11, boot' = boot + 1, UNCHANGED processVars
  PROVE  ProcessesInv' /\ ContextsSaved'
<1>1. boot' \in 2 .. 11 /\ boot < 14
  BY InSetup
<1> QED
  BY <1>1 DEF EntryInv, ProcessesInv, ContextsSaved, processVars, Booted

\* The tables.
LEMMA SetupTablesKeeps ==
  ASSUME EntryInv, SetupTables
  PROVE  EntryInv'
<1>1. /\ pc = "kernel_setup"
      /\ UNCHANGED <<pc, interruptible, regs, stack, pic, vector, interrupted, processVars>>
  BY DEF SetupTables, Setup, handled
<1>2. boot \in 1 .. 13 /\ pic.service = {}
  BY <1>1, InSetup
<1>3. /\ boot \in {1, 3, 4, 8, 9, 10} /\ boot' = boot + 1
      /\ \/ boot = 1 /\ tables' = [tables EXCEPT !.gdt = TRUE] /\ UNCHANGED <<gates, tss>>
         \/ boot = 3 /\ gates' = initialize_idt /\ UNCHANGED <<tables, tss>>
         \/ boot = 4 /\ tables' = [tables EXCEPT !.idt = TRUE] /\ UNCHANGED <<gates, tss>>
         \/ boot = 8 /\ tss' = [tss EXCEPT !.based = TRUE] /\ UNCHANGED <<gates, tables>>
         \/ boot = 9 /\ tables' = [tables EXCEPT !.tr = tss.based] /\ UNCHANGED <<gates, tss>>
         \/ boot = 10 /\ tss' = [tss EXCEPT !.stack = TRUE] /\ UNCHANGED <<gates, tables>>
  BY <1>2, SetupSteps DEF SetupTables, set_tss_kernel_current_stack
<1>4. SetupDone /\ StateTypes /\ DOMAIN tables = {"gdt", "idt", "tr"}
      /\ DOMAIN tss = {"based", "stack"}
  BY DEF EntryInv, StateTypes
<1>5. DOMAIN tables' = {"gdt", "idt", "tr"} /\ DOMAIN tss' = {"based", "stack"}
  BY <1>3, <1>4
<1>6. SetupDone'
  <2>1. boot' < Booted /\ pc' = "kernel_setup" /\ (interruptible' => boot' > 5)
    BY <1>1, <1>3, <1>4 DEF SetupDone, Booted
  <2>2. gates' = IF boot' > 3 THEN initialize_idt ELSE <<>>
    BY <1>3, <1>4 DEF SetupDone
  <2>3. boot' > 1 => tables'.gdt
    BY <1>3, <1>4 DEF SetupDone
  <2>4. boot' > 4 => tables'.idt
    BY <1>3, <1>4 DEF SetupDone
  <2>5. boot' > 8 => tss'.based
    BY <1>3, <1>4 DEF SetupDone
  <2>6. boot' > 9 => tables'.tr
    BY <1>3, <1>4 DEF SetupDone
  <2>7. boot' > 10 => tss'.stack
    BY <1>3, <1>4 DEF SetupDone
  <2>8. boot' > 2 => /\ pic'.base1 = PIC1_OFFSET /\ pic'.base2 = PIC2_OFFSET
                     /\ Irqs \ {IRQ_TIMER, IRQ_KEYBOARD} \subseteq pic'.masked
    <3>1. boot' > 2 => boot > 2
      BY <1>3
    <3> QED
      BY <1>1, <1>4, <3>1 DEF SetupDone
  <2> QED
    BY <2>1, <2>2, <2>3, <2>4, <2>5, <2>6, <2>7, <2>8 DEF SetupDone
<1>7. ProcessesInv' /\ ContextsSaved'
  BY <1>1, <1>3, ProcessesLater
<1> QED
  BY <1>1, <1>2, <1>3, <1>4, <1>5, <1>6, <1>7, SetupGoesOn DEF StateTypes, processVars

\* The controllers and the interrupt flag.
LEMMA SetupDevicesKeeps ==
  ASSUME EntryInv, SetupDevices
  PROVE  EntryInv'
<1>1. /\ pc = "kernel_setup"
      /\ UNCHANGED <<pc, regs, stack, gates, tables, tss, vector, interrupted, processVars>>
  BY DEF SetupDevices, Setup, tableVars, handled
<1>2. boot \in 1 .. 13 /\ pic.service = {}
  BY <1>1, InSetup
<1>3. /\ boot \in {2, 5, 6, 7} /\ boot' = boot + 1
      /\ \/ boot = 2 /\ pic' = pic_remap /\ UNCHANGED interruptible
         \/ boot = 5 /\ interruptible' = TRUE /\ UNCHANGED pic
         \/ boot = 6 /\ pic' = Unmasked(IRQ_KEYBOARD) /\ UNCHANGED interruptible
         \/ boot = 7 /\ pic' = Unmasked(IRQ_TIMER) /\ interruptible' = TRUE
  BY <1>2, SetupSteps DEF SetupDevices
<1>4. SetupDone /\ StateTypes
  BY DEF EntryInv
<1>5. /\ pic' \in [base1 : Nat, base2 : Nat, requested : SUBSET Irqs, service : SUBSET Irqs,
                   masked : SUBSET Irqs]
      /\ pic'.service = {}
      /\ boot' > 2 => /\ pic'.base1 = PIC1_OFFSET /\ pic'.base2 = PIC2_OFFSET
                      /\ Irqs \ {IRQ_TIMER, IRQ_KEYBOARD} \subseteq pic'.masked
  <2>1. CASE boot = 2
    BY <1>3, <2>1 DEF pic_remap, PIC1_OFFSET, PIC2_OFFSET
  <2>2. CASE boot # 2
    <3>1. boot > 2
      BY <1>3, <2>2
    <3>2. ASSUME NEW irq \in {IRQ_TIMER, IRQ_KEYBOARD}, pic' = Unmasked(irq)
          PROVE  /\ pic' \in [base1 : Nat, base2 : Nat, requested : SUBSET Irqs,
                              service : SUBSET Irqs, masked : SUBSET Irqs]
                 /\ pic'.base1 = pic.base1 /\ pic'.base2 = pic.base2 /\ pic'.service = {}
                 /\ pic'.masked = pic.masked \ {irq}
      BY <1>2, <1>4, <3>2 DEF StateTypes, Unmasked
    <3>3. /\ pic' \in [base1 : Nat, base2 : Nat, requested : SUBSET Irqs, service : SUBSET Irqs,
                       masked : SUBSET Irqs]
          /\ pic'.base1 = pic.base1 /\ pic'.base2 = pic.base2 /\ pic'.service = {}
          /\ pic.masked \ {IRQ_TIMER, IRQ_KEYBOARD} \subseteq pic'.masked
      <4>1. CASE boot = 5
        BY <1>2, <1>3, <1>4, <4>1 DEF StateTypes
      <4>2. CASE boot = 6
        BY <1>3, <3>2, <4>2
      <4>3. CASE boot = 7
        BY <1>3, <3>2, <4>3
      <4> QED
        BY <1>3, <2>2, <4>1, <4>2, <4>3
    <3> QED
      BY <1>4, <3>1, <3>3 DEF SetupDone
  <2> QED
    BY <2>1, <2>2
<1>6. interruptible' \in BOOLEAN /\ (interruptible' => boot' > 5)
  <2>1. interruptible \in BOOLEAN /\ (interruptible => boot > 5)
    BY <1>4 DEF SetupDone, StateTypes
  <2>2. CASE boot = 2 \/ boot = 6
    <3>1. interruptible' = interruptible
      BY <1>3, <2>2
    <3> QED
      BY <1>3, <2>1, <2>2, <3>1
  <2>3. CASE boot = 5 \/ boot = 7
    <3>1. boot' > 5 /\ (interruptible' = TRUE)
      BY <1>3, <2>3
    <3> QED
      BY <3>1
  <2> QED
    BY <1>3, <2>2, <2>3
<1>7. SetupDone'
  <2>1. boot' < Booted /\ pc' = "kernel_setup"
    BY <1>1, <1>3 DEF Booted
  <2>2. gates' = IF boot' > 3 THEN initialize_idt ELSE <<>>
    BY <1>1, <1>3, <1>4 DEF SetupDone
  <2>3. (boot' > 1 => tables'.gdt) /\ (boot' > 4 => tables'.idt)
    BY <1>1, <1>3, <1>4 DEF SetupDone
  <2>4. (boot' > 8 => tss'.based) /\ (boot' > 9 => tables'.tr) /\ (boot' > 10 => tss'.stack)
    BY <1>3
  <2> QED
    BY <1>5, <1>6, <2>1, <2>2, <2>3, <2>4 DEF SetupDone
<1>8. ProcessesInv' /\ ContextsSaved'
  BY <1>1, <1>3, ProcessesLater
<1> QED
  BY <1>1, <1>3, <1>4, <1>5, <1>6, <1>7, <1>8, SetupGoesOn DEF StateTypes, processVars

\* init gets its PCB, and nobody the CPU.
LEMMA CreateInitKeeps ==
  ASSUME EntryInv, CreateInit
  PROVE  EntryInv'
<1>1. /\ pc = "kernel_setup" /\ active' = {Init1}
      /\ pcb' = [pcb EXCEPT ![Init1] = UserRegs(Init1, 0)]
      /\ UNCHANGED <<pc, interruptible, regs, stack, pic, gates, tables, tss, vector,
                     interrupted, current, own>>
  BY DEF CreateInit, Setup, tableVars, handled
<1>2. boot = 11 /\ boot' = 12 /\ current = Init1 /\ own[Init1] = 0 /\ pic.service = {}
  BY <1>1, InSetup, SetupSteps DEF CreateInit
<1>3. StateTypes /\ SetupDone /\ ContextsSaved
  BY DEF EntryInv
<1>4. /\ Init1 \in Processes /\ UserRegs(Init1, 0) \in [Regs -> Words]
      /\ UserRegs(Init1, 0)["cs"] = USER_CODE /\ UserRegs(Init1, 0)["ss"] = USER_DATA
  <2>1. Init1 \in Nat /\ 0 \in Nat
    BY DEF Init1
  <2> QED
    BY <2>1, InterruptsAssumption, UserRegsType
<1>5. /\ pcb' \in [Processes -> [Regs -> Words]] /\ pcb'[Init1] = UserRegs(Init1, 0)
      /\ \A q \in Processes \ {Init1} : pcb'[q] = pcb[q]
  BY <1>1, <1>3, <1>4 DEF StateTypes
<1>6. SetupDone'
  BY <1>1, <1>2, <1>3 DEF SetupDone, Booted
<1>7. ProcessesInv'
  BY <1>1, <1>2, <1>5 DEF ProcessesInv, Booted
<1>8. ContextsSaved'
  <2>1. \A q \in Processes : pcb'[q]["cs"] = USER_CODE /\ pcb'[q]["ss"] = USER_DATA
    BY <1>3, <1>4, <1>5 DEF ContextsSaved
  <2> QED
    BY <1>1, <1>2, <2>1 DEF ContextsSaved
<1>9. active' \subseteq Processes
  BY <1>1, <1>4
<1> QED
  BY <1>1, <1>2, <1>3, <1>5, <1>6, <1>7, <1>8, <1>9, SetupGoesOn DEF StateTypes

\* The registers of init are loaded, and its frame is on the stack.
LEMMA SwitchToInitKeeps ==
  ASSUME EntryInv, SwitchToInit
  PROVE  EntryInv'
<1> DEFINE new == UserRegs(Init1, 0)
           top == << new["ss"], new["esp"], new["eflags"], new["cs"], new["eip"] >>
<1>1. /\ boot = 12 /\ boot' = 13 /\ pc = "kernel_setup" /\ own[Init1] = 0 /\ pic.service = {}
      /\ Len(stack) = 0 /\ \A r \in Regs : Mine(r, regs[r])
  <2>1. pc = "kernel_setup"
    BY DEF SwitchToInit, Setup
  <2>2. boot = 12 /\ boot' = 13
    BY <2>1, InSetup, SetupSteps DEF SwitchToInit
  <2> QED
    BY <2>1, <2>2, InSetup DEF Bottom
<1>2. StateTypes /\ SetupDone /\ ProcessesInv /\ ContextsSaved
  BY DEF EntryInv
<1>3. active = {Init1} /\ current = Init1 /\ pcb[Init1] = new
  BY <1>1, <1>2 DEF ProcessesInv, Booted
<1>4. /\ new \in [Regs -> Words] /\ new["cs"] = USER_CODE /\ new["ss"] = USER_DATA
  <2>1. Init1 \in Nat /\ 0 \in Nat
    BY DEF Init1
  <2> QED
    BY <2>1, UserRegsType
<1> HIDE DEF new
<1>5. Loaded(pcb[Init1]) = new
  BY <1>3, <1>4, LoadedContext
<1>6. /\ current' = Init1
      /\ stack' = stack \o top
      /\ regs' = [r \in Regs |-> IF r \in General \cup Segments THEN new[r]
                                 ELSE IF r = "esp" THEN KernelStackTop(stack')
                                 ELSE IF r = "eip" THEN <<0, "eip", 1>> ELSE regs[r]]
      /\ UNCHANGED <<pc, interruptible, pic, gates, tables, tss, vector, interrupted,
                     pcb, active, own>>
  BY <1>5 DEF SwitchToInit, tableVars, handled
<1>7. /\ "cs" \in Regs /\ "ss" \in Regs /\ "esp" \in Regs /\ "eip" \in Regs /\ "eflags" \in Regs
      /\ {"cs", "ss", "esp", "eip", "eflags"} \cap (General \cup Segments) = {}
  BY DEF Regs, General, Segments
<1>8. stack' \in Seq(Words) /\ Len(stack') = 5 /\ \A k \in 1 .. 5 : stack'[k] = top[k]
  <2>1. top \in Seq(Words) /\ Len(top) = 5
    BY <1>4, <1>7
  <2>2. stack \in Seq(Words)
    BY <1>2 DEF StateTypes
  <2> HIDE DEF top
  <2>3. stack' \in Seq(Words) /\ Len(stack') = 5
    BY <1>1, <1>6, <2>1, <2>2
  <2>4. \A k \in 1 .. Len(top) : stack'[k] = top[k]
    BY <1>1, <1>6, <2>1, <2>2, OnEmpty
  <2> QED
    BY <2>1, <2>3, <2>4
<1>9. regs' \in [Regs -> Words]
  <2>1. KernelStackTop(stack') \in Words /\ <<0, "eip", 1>> \in Words
    BY <1>8, WordType DEF KernelStackTop, Names, Regs
  <2> QED
    BY <1>2, <1>4, <1>6, <2>1 DEF StateTypes
<1>10. StateTypes'
  <2>1. current' = current /\ boot' \in 1 .. Booted
    BY <1>1, <1>3, <1>6 DEF Booted
  <2> HIDE DEF top
  <2> QED
    BY <1>2, <1>6, <1>8, <1>9, <2>1 DEF StateTypes
<1>11. SetupDone'
  BY <1>1, <1>2, <1>6 DEF SetupDone, Booted
<1>12. ProcessesInv' /\ ContextsSaved'
  BY <1>1, <1>2, <1>3, <1>6 DEF ProcessesInv, ContextsSaved, Booted, new
<1>13. InitFrame'
  <2>1. top[1] = USER_DATA /\ top[2] = new["esp"] /\ top[4] = USER_CODE /\ top[5] = new["eip"]
    BY <1>4
  <2> QED
    BY <1>8, <2>1 DEF InitFrame, new
<1>14. InCode'
  <2>1. ASSUME NEW r \in Regs PROVE Belongs(13, Init1, 0, r, regs'[r])
    <3>1. CASE r \in General \cup Segments
      BY <1>6, <3>1 DEF Belongs, Booted, new
    <3>2. CASE r \in {"cs", "ss"}
      <4>1. regs'[r] = regs[r] /\ Mine(r, regs[r])
        BY <1>1, <1>6, <1>7, <3>2
      <4>2. regs[r] = IF r = "cs" THEN KERNEL_CODE ELSE KERNEL_DATA
        BY <1>1, <1>7, <3>2, <4>1 DEF Mine, Belongs, Booted
      <4> QED
        BY <1>7, <3>2, <4>1, <4>2 DEF Belongs, Booted
    <3>3. CASE r \notin General \cup Segments \cup {"cs", "ss"}
      BY <3>3 DEF Belongs, Booted
    <3> QED
      BY <3>1, <3>2, <3>3
  <2>2. ASSUME NEW r \in Regs PROVE Mine(r, regs[r])'
    <3>1. own'[current'] = 0 /\ boot' = 13 /\ current' = Init1
      BY <1>1, <1>6
    <3> QED
      BY <2>1, <3>1 DEF Mine
  <2>3. Len(stack') = Bottom'
    BY <1>1, <1>8 DEF Bottom
  <2> QED
    BY <2>2, <2>3 DEF InCode
<1>15. AtEntry' /\ InHandler' /\ Service'
  BY <1>1, <1>6 DEF AtEntry, InHandler, Service
<1> QED
  BY <1>10, <1>11, <1>12, <1>13, <1>14, <1>15 DEF EntryInv

\* init starts with its own registers.
LEMMA IretToInitKeeps ==
  ASSUME EntryInv, IretToInit
  PROVE  EntryInv'
<1> DEFINE new == UserRegs(Init1, 0)
<1>1. pc = "kernel_setup"
  BY DEF IretToInit, Setup
<1>2. /\ boot = 13 /\ boot' = 14 /\ own[Init1] = 0 /\ pic.service = {} /\ current = Init1
      /\ Len(stack) = 5 /\ \A r \in Regs : Mine(r, regs[r])
  <2>1. boot = 13 /\ boot' = 14
    BY <1>1, InSetup, SetupSteps DEF IretToInit
  <2> QED
    BY <1>1, <2>1, InSetup DEF Bottom
<1>3. StateTypes /\ SetupDone /\ ProcessesInv /\ ContextsSaved /\ InitFrame /\ active = {Init1}
  BY <1>2 DEF EntryInv, ProcessesInv
<1>4. /\ new["cs"] = USER_CODE /\ new["ss"] = USER_DATA /\ \A r \in Segments : new[r] = USER_DATA
      /\ new \in [Regs -> Words]
  <2>1. Init1 \in Nat /\ 0 \in Nat
    BY DEF Init1
  <2> QED
    BY <2>1, UserRegsType
<1> HIDE DEF new
<1>5. /\ Under(stack, 0) = new["eip"] /\ Under(stack, 1) = USER_CODE
      /\ Under(stack, 2) \in Words /\ Under(stack, 3) = new["esp"] /\ Under(stack, 4) = USER_DATA
  <2>1. /\ stack[1] = USER_DATA /\ stack[2] = new["esp"]
        /\ stack[4] = USER_CODE /\ stack[5] = new["eip"]
    BY <1>2, <1>3 DEF InitFrame, new
  <2>2. Under(stack, 2) \in Words
    BY <1>3, UnderType DEF StateTypes
  <2> QED
    BY <1>2, <2>1, <2>2 DEF Under
<1>6. /\ regs' = [regs EXCEPT !.eip = new["eip"], !.cs = USER_CODE, !.eflags = Under(stack, 2),
                              !.esp = new["esp"], !.ss = USER_DATA]
      /\ pc' = IF Accepted(regs') THEN "user" ELSE "crashed"
      /\ stack' = <<>> /\ interruptible' = TRUE
      /\ UNCHANGED <<pic, gates, tables, tss, vector, interrupted, pcb, active, current, own>>
  BY <1>5 DEF IretToInit, tableVars, handled, processVars
<1>7. Regs = General \cup Segments \cup {"esp", "eip", "eflags", "cs", "ss"}
      /\ {"cs", "ss", "esp", "eip", "eflags"} \cap (General \cup Segments) = {}
  BY DEF Regs, General, Segments
<1>8. /\ regs' \in [Regs -> Words]
      /\ \A r \in General \cup Segments : regs'[r] = regs[r]
      /\ regs'["eip"] = new["eip"] /\ regs'["esp"] = new["esp"]
      /\ regs'["cs"] = USER_CODE /\ regs'["ss"] = USER_DATA
  <2>1. regs \in [Regs -> Words] /\ new["eip"] \in Words /\ new["esp"] \in Words
    BY <1>3, <1>4, <1>7 DEF StateTypes
  <2> QED
    BY <1>5, <1>6, <1>7, <2>1, SelectorWords
<1>9. \A r \in Regs \ {"eflags"} : regs'[r] = new[r]
  <2>1. \A r \in General \cup Segments : regs[r] = new[r]
    <3>1. ASSUME NEW r \in General \cup Segments PROVE regs[r] = new[r]
      <4>1. Mine(r, regs[r])
        BY <1>2, <1>7
      <4> QED
        BY <1>2, <4>1 DEF Mine, Belongs, Booted, new
    <3> QED
      BY <3>1
  <2> QED
    BY <1>4, <1>7, <1>8, <2>1
<1>10. pc' = "user"
  <2>1. \A r \in Segments : regs'[r] = USER_DATA
    BY <1>4, <1>7, <1>9
  <2>2. Accepted(regs')
    BY <1>8, <2>1, AcceptedRegs
  <2> QED
    BY <1>6, <2>2
<1>11. StateTypes'
  <2>1. stack' \in Seq(Words)
    BY <1>6
  <2> QED
    BY <1>2, <1>3, <1>6, <1>8, <1>10, <2>1 DEF StateTypes, Booted
<1>12. SetupDone'
  BY <1>2, <1>3, <1>6, <1>10 DEF SetupDone, Booted
<1>13. ProcessesInv' /\ ContextsSaved'
  BY <1>2, <1>3, <1>6 DEF ProcessesInv, ContextsSaved, Booted
<1>14. InCode'
  <2>1. ASSUME NEW r \in Regs PROVE Mine(r, regs[r])'
    <3>1. own'[current'] = 0 /\ boot' = 14 /\ current' = Init1
      BY <1>2, <1>6
    <3> QED
      BY <1>9, <3>1 DEF Mine, Belongs, Booted, new
  <2>2. Len(stack') = Bottom'
    BY <1>2, <1>6 DEF Bottom
  <2> QED
    BY <2>1, <2>2 DEF InCode
<1>15. InitFrame' /\ AtEntry' /\ InHandler' /\ Service'
  BY <1>2, <1>6, <1>10 DEF InitFrame, AtEntry, InHandler, Service
<1> QED
  BY <1>11, <1>12, <1>13, <1>14, <1>15 DEF EntryInv

\* A program computes.
LEMMA UserStepKeeps ==
  ASSUME EntryInv, UserStep
  PROVE  EntryInv'
<1>1. /\ pc = "user" /\ own' = [own EXCEPT ![current] = 1 - @]
      /\ regs' = UserRegs(current, own'[current])
      /\ UNCHANGED <<pc, boot, interruptible, stack, pic, gates, tables, tss, vector, interrupted,
                     pcb, active, current>>
  BY DEF UserStep, tableVars, handled
<1>2. /\ StateTypes /\ SetupDone /\ ProcessesInv /\ ContextsSaved /\ Service
      /\ boot = Booted /\ Len(stack) = Bottom
  BY <1>1 DEF EntryInv, SetupDone, InCode
<1>3. /\ own' \in [Processes -> 0 .. 1] /\ \A p \in Processes \ {current} : own'[p] = own[p]
      /\ current \in Processes
  <2>1. current \in Processes /\ own \in [Processes -> 0 .. 1] /\ own[current] \in 0 .. 1
    BY <1>2 DEF StateTypes
  <2>2. 1 - own[current] \in 0 .. 1
    BY <2>1
  <2> QED
    BY <1>1, <2>1, <2>2
<1>4. regs' \in [Regs -> Words]
  <2>1. current \in Nat /\ own'[current] \in Nat
    BY <1>3, InterruptsAssumption
  <2> QED
    BY <1>1, <2>1, UserRegsType
<1>5. StateTypes'
  BY <1>1, <1>2, <1>3, <1>4 DEF StateTypes
<1>6. SetupDone' /\ ProcessesInv'
  BY <1>1, <1>2 DEF SetupDone, ProcessesInv, Booted
<1>7. ContextsSaved'
  BY <1>1, <1>2, <1>3 DEF ContextsSaved, StateTypes
<1>8. InCode'
  BY <1>1, <1>2 DEF InCode, Mine, Belongs, Bottom
<1>9. InitFrame' /\ AtEntry' /\ InHandler' /\ Service'
  BY <1>1, <1>2 DEF InitFrame, AtEntry, InHandler, Service, Booted
<1> QED
  BY <1>5, <1>6, <1>7, <1>8, <1>9 DEF EntryInv

\* Every step keeps the invariant.
LEMMA EntryStep == EntryInv /\ [Next]_vars => EntryInv'
<1> SUFFICES ASSUME EntryInv, [Next]_vars PROVE EntryInv'
  OBVIOUS
<1>1. CASE SetupStep
  BY <1>1, SetupTablesKeeps, SetupDevicesKeeps, CreateInitKeeps, SwitchToInitKeeps,
     IretToInitKeeps DEF SetupStep
<1>2. CASE HandlerStep
  BY <1>2, StubKeeps, HandlerKeeps, ReturnKeeps DEF HandlerStep
<1>3. CASE \E i \in Irqs : Request(i) \/ Deliver(i)
  BY <1>3, RequestKeeps, DeliverKeeps
<1>4. CASE (\E n \in Faults : Fault(n)) \/ SystemCall
  BY <1>4, ProgramEnters
<1>5. CASE UserStep
  BY <1>5, UserStepKeeps
<1>6. CASE UNCHANGED vars
  <2>1. UNCHANGED <<pc, boot, interruptible, regs, stack, pic, gates, tables, tss, vector,
                    interrupted, pcb, active, current, own>>
    BY <1>6 DEF vars
  <2> QED
    BY <2>1 DEF EntryInv, StateTypes, SetupDone, ProcessesInv, ContextsSaved, InitFrame, InCode,
                AtEntry, InHandler, Service, Mine, Bottom, Outer, ErrorWord, Taken, Seen
<1> QED
  BY <1>1, <1>2, <1>3, <1>4, <1>5, <1>6 DEF Next

-----------------------------------------------------------------------------
(* Theorems *)

\* Wherever an interrupt comes in kernel_setup or in a program, what the CPU pushed,
\* what the stub pushed and what was there before lie on the kernel stack in that
\* order, every PCB but that of the one that runs has its process's registers, and
\* the controllers wait for one acknowledgement at most.
THEOREM EntryInvariant == Spec => []EntryInv
BY EntryStart, EntryStep, PTL DEF Spec

\* Types are kept, and no acknowledgement is missing when a program runs.
THEOREM InterruptsInvariant == Spec => []InterruptsInv
<1>1. EntryInv => InterruptsInv
  <2> SUFFICES ASSUME EntryInv PROVE InterruptsInv
    OBVIOUS
  <2>1. AllAcknowledged
    BY DEF EntryInv, Service, AllAcknowledged
  <2>2. TypeOK
    <3>1. boot \in 1 .. Len(kernel_setup) + 1
      BY DEF EntryInv, StateTypes, Booted, kernel_setup
    <3>2. DOMAIN gates \subseteq 0 .. 255 /\ vector \in 0 .. 255
      BY DEF EntryInv, StateTypes, SetupDone, initialize_idt
    <3>3. DOMAIN regs = Regs /\ pic.requested \cup pic.service \cup pic.masked \subseteq Irqs
      BY DEF EntryInv, StateTypes
    <3> QED
      BY <3>1, <3>2, <3>3 DEF EntryInv, StateTypes, TypeOK
  <2> QED
    BY <2>1, <2>2 DEF InterruptsInv
<1> QED
  BY <1>1, EntryInvariant, PTL

\* No interrupt is taken before its gate, its stack and the controllers' vectors are
\* in place.
THEOREM NotTooEarly == Spec => []NoInterruptTooEarly
<1>1. EntryInv => NoInterruptTooEarly
  <2> SUFFICES ASSUME EntryInv PROVE NoInterruptTooEarly
    OBVIOUS
  <2>1. pc # "crashed" /\ boot \in 1 .. 14
    BY DEF EntryInv, StateTypes, Booted
  <2>2. ASSUME pic.service # {} PROVE pic.base1 = PIC1_OFFSET /\ tables.gdt
    <3>1. boot > 5
      BY <2>2 DEF EntryInv, Service, SetupDone
    <3> QED
      BY <2>1, <3>1 DEF EntryInv, SetupDone
  <2> QED
    BY <2>1, <2>2 DEF NoInterruptTooEarly
<1> QED
  BY <1>1, EntryInvariant, PTL

\* The handler sees the registers as they were when the interrupt came, the flags among
\* them, and of a program its esp.
THEOREM FramesAreTrue == Spec => []FrameTrue
<1>1. EntryInv => FrameTrue
  <2> SUFFICES ASSUME EntryInv, pc = "handler", Ring(frame("cs")) = 3
               PROVE  frame("esp") = interrupted["esp"]
    BY InFrame DEF FrameTrue
  <2>1. boot = Booted
    <3>1. "cs" \in Regs \ {"esp", "ss"} /\ "cs" \notin General \cup Segments \cup {"ss"}
      BY DEF Regs, General, Segments
    <3>2. boot # Booted => frame("cs") = KERNEL_CODE
      BY <3>1, InFrame DEF Mine, Belongs
    <3> QED
      BY <3>2, SelectorWords
  <2> QED
    BY <2>1, InFrame
<1> QED
  BY <1>1, EntryInvariant, PTL

\* Back in its code a program, and kernel_setup in the middle of its switch to init,
\* finds its registers as it left them, but for the flags.
THEOREM RegistersAreOwn == Spec => []RegistersOwn
<1>1. EntryInv => RegistersOwn
  <2> SUFFICES ASSUME EntryInv PROVE RegistersOwn
    OBVIOUS
  <2>1. ASSUME pc = "user", NEW r \in Regs \ {"eflags"}
        PROVE  regs[r] = UserRegs(current, own[current])[r]
    BY <2>1 DEF EntryInv, SetupDone, InCode, Mine, Belongs
  <2>2. ASSUME pc = "kernel_setup", boot = Len(kernel_setup)
        PROVE  /\ \A r \in General \cup Segments : regs[r] = UserRegs(Init1, 0)[r]
               /\ Len(stack) = 5
    <3>1. boot = 13
      BY <2>2 DEF kernel_setup
    <3>2. \A r \in General \cup Segments : r \in Regs
      BY DEF Regs
    <3> QED
      BY <2>2, <3>1, <3>2 DEF EntryInv, InCode, Mine, Belongs, Bottom, Booted
  <2> QED
    BY <2>1, <2>2 DEF RegistersOwn
<1> QED
  BY <1>1, EntryInvariant, PTL
=============================================================================
