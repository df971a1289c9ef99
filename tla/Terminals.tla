----------------------------- MODULE Terminals -----------------------------
(* How many terminals there are (include/const.h): each has a console      *)
(* (module Console) and a line that is edited for its readers (Tty).       *)
EXTENDS Naturals

CONSTANT NR_CONSOLES

Consoles == 0 .. NR_CONSOLES - 1
=============================================================================
