------------------------------ MODULE MCKernel ------------------------------
(* Kernel for TLC: the constants come from the .cfg files. *)
EXTENDS Kernel
=============================================================================
