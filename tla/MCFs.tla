-------------------------------- MODULE MCFs --------------------------------
(***************************************************************************)
(* Fs for TLC: a process that may fork another, and two file names, one of *)
(* which leaves a tail behind the other.                                   *)
(***************************************************************************)
EXTENDS Fs

CONSTANTS a, b, f, g

MCNameLength == [n \in Names |-> IF n = f THEN 1 ELSE 3]
=============================================================================
