------------------------------- MODULE MCTty -------------------------------
(***************************************************************************)
(* Tty for TLC: two consoles, a ring of two codes, so that it fills and    *)
(* wraps, and the codes that edit a line, end it, or change the console.   *)
(***************************************************************************)
EXTENDS Tty
=============================================================================
