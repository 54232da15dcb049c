------------------------------ MODULE MCKernel ------------------------------
(* Small instances of Kernel for TLC: the constants are given in the cfgs. *)
EXTENDS Kernel
=============================================================================
