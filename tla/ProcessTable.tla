---------------------------- MODULE ProcessTable ----------------------------
(***************************************************************************)
(* What the process manager and the scheduler promise their clients, free  *)
(* of slots, counters and page tables: processes with fresh identifiers,   *)
(* each in an address space of its own, at most one of them on the CPU.    *)
(***************************************************************************)
EXTENDS Integers

CONSTANTS Spaces, \* address spaces
          Lost    \* the address space of a process whose context was clobbered

VARIABLES space,   \* address space of every process there is, by pid
          running, \* pid of the one on the CPU, 0 for none
          issued   \* identifiers handed out so far: 1 .. issued

tableVars == <<space, running, issued>>

Processes == DOMAIN space

Init == space = [p \in {} |-> Lost] /\ running = 0 /\ issued = 0

\* A new process gets the next identifier and an address space nobody has.
Create ==
  /\ \E s \in Spaces \ {space[p] : p \in Processes} :
       space' = [p \in Processes \cup {issued + 1} |-> IF p = issued + 1 THEN s ELSE space[p]]
  /\ issued' = issued + 1
  /\ UNCHANGED running

\* A creation that fails uses up an identifier and nothing else.
FailToCreate == issued' = issued + 1 /\ UNCHANGED <<space, running>>

Destroy(p) ==
  /\ space' = [q \in Processes \ {p} |-> space[q]]
  /\ running' = IF running = p THEN 0 ELSE running
  /\ UNCHANGED issued

\* A preemption; the process it takes off the CPU may have no successor when the
\* machine is lost in it.
Dispatch == running' \in Processes \cup {0} /\ UNCHANGED <<space, issued>>

\* A destroyed process that was on the CPU is preempted: its registers are saved
\* in the slot it had, over the context of the process q created there since,
\* and another process is dispatched.
Clobber ==
  /\ running = 0
  /\ \E q \in Processes : space' = [space EXCEPT ![q] = Lost]
  /\ running' \in Processes \cup {0}
  /\ UNCHANGED issued

Next == Create \/ FailToCreate \/ (\E p \in Processes : Destroy(p)) \/ Dispatch \/ Clobber

Spec == Init /\ [][Next]_tableVars
=============================================================================
