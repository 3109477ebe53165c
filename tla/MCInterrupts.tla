---------------------------- MODULE MCInterrupts ----------------------------
(* Values for the configuration of Interrupts. *)
EXTENDS Interrupts

\* The timer, the keyboard, and the disk, whose line on the slave stays masked.
IrqLines == {0, 1, 14}

\* One exception without and one with an error code: bad opcode, general protection.
RaisedFaults == {6, 13}
=============================================================================
