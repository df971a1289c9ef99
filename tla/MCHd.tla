-------------------------------- MODULE MCHd --------------------------------
(***************************************************************************)
(* Disks of ten sectors for the disk driver: a primary partition before  *)
(* an extended one with two logical ones; an extended partition whose      *)
(* chain is longer than there are numbers, before a primary one; an empty  *)
(* extended partition; an empty partition table.                           *)
(***************************************************************************)
EXTENDS Hd

Sub(t, b, n) == [table |-> t, start |-> b, size |-> n]

PrimaryFirst ==
  [prim |-> <<Entry("DATA", 1, 3), Entry("EXT_PART", 4, 4)>>,
   sub |-> <<<<>>, <<Sub(4, 5, 1), Sub(6, 7, 1)>>>>]

LongChain ==
  [prim |-> <<Entry("EXT_PART", 1, 8), Entry("DATA", 9, 1)>>,
   sub |-> <<<<Sub(1, 2, 1), Sub(3, 4, 1), Sub(5, 6, 1), Sub(7, 8, 1)>>, <<>>>>]

EmptyExtended ==
  [prim |-> <<Entry("EXT_PART", 1, 2), Entry("DATA", 3, 1)>>,
   sub |-> <<<<>>, <<>>>>]

Blank == [prim |-> <<Unused, Unused>>, sub |-> <<<<>>, <<>>>>]

MCLayouts == {PrimaryFirst, LongChain, EmptyExtended, Blank}
=============================================================================
