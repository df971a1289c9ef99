------------------------------ MODULE MCIpcIrq ------------------------------
(***************************************************************************)
(* IpcIrq and IpcAtomic for TLC: one task interrupts inform, and two       *)
(* processes.                                                              *)
(***************************************************************************)
EXTENDS IpcAtomic

CONSTANTS tty, a, b, m1

Symmetry == Permutations(Procs \ IntTasks) \union Permutations(Types)
=============================================================================
