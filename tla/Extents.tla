------------------------------- MODULE Extents -------------------------------
(***************************************************************************)
(* The sector map as module Fs sees it: room for a number of files of one  *)
(* size, of which the first free one is taken.                             *)
(***************************************************************************)
EXTENDS Naturals, FiniteSetsExt

VARIABLES
  nr_extents,  \* how many there is room for
  smap,        \* those taken
  full         \* one was asked for and there was none left

vars == <<nr_extents, smap, full>>

Init == nr_extents \in Nat /\ smap = {} /\ full = FALSE

Alloc ==
  LET free == (1 .. nr_extents) \ smap IN
  /\ ~full /\ UNCHANGED nr_extents
  /\ IF free = {} THEN full' = TRUE /\ UNCHANGED smap
                  ELSE smap' = smap \union {Min(free)} /\ UNCHANGED full

Free(e) == ~full /\ e \in smap /\ smap' = smap \ {e} /\ UNCHANGED <<nr_extents, full>>

Next == Alloc \/ \E e \in smap : Free(e)

Spec == Init /\ [][Next]_vars
=============================================================================
