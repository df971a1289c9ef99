------------------------------- MODULE MCIpc -------------------------------
(***************************************************************************)
(* Ipc for TLC: one task an interrupt handler informs and two that none    *)
(* does, each free to make every call in every order.                      *)
(***************************************************************************)
EXTENDS Ipc

CONSTANTS tty, a, b, c, m1

Symmetry == Permutations(Procs \ IntTasks) \union Permutations(Types)
=============================================================================
