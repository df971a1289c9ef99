----------------------------- MODULE MCServers -----------------------------
(***************************************************************************)
(* Servers for TLC: the five tasks and two user processes (TestA and TestB *)
(* of kernel/main.c), each with a terminal of its own, or TestA and a free *)
(* slot for its child, which shares its terminal.                          *)
(***************************************************************************)
EXTENDS Servers

CONSTANTS testA, testB, tty0, tty1

Scenario(started, on0, asked, keys, n) ==
  [founders |-> started,
   terminal |-> [u \in {testA, testB} |-> IF u \in on0 THEN tty0 ELSE tty1],
   asks |-> asked, keyboards |-> keys, lines |-> n]

Both(ofA, ofB, keys, n) ==
  Scenario({testA, testB}, {testA}, (testA :> ofA) @@ (testB :> ofB), keys, n)

OneTerminal(ofA, ofB, keys, n) ==
  Scenario({testA, testB}, {testA, testB}, (testA :> ofA) @@ (testB :> ofB), keys, n)

Family(ofParent, ofChild) ==
  Scenario({testA}, {testA, testB}, (testA :> ofParent) @@ (testB :> ofChild), {}, 0)

\* Two terminals, one of them typed on; one typed on twice; files and the time; a
\* terminal opened through the disk; two readers of one terminal; a child that
\* reads the terminal of its parent; forks for which no slot is left.
MCScenarios ==
  {Both({"READ"}, {"WRITE"}, {tty0}, 1),
   Both({"READ"}, {}, {tty0}, 2),
   Both({"FILE_WRITE", "GET_TICKS"}, {"FILE_READ"}, {}, 0),
   Both({"READ"}, {"OPEN"}, {}, 0),
   OneTerminal({"READ"}, {"READ"}, {tty0}, 1),
   Family({"READ", "FORK"}, {"READ"}),
   Family({"FORK"}, {"FILE_READ", "FORK"})}
=============================================================================
