------------------------------ MODULE MCSched ------------------------------
(***************************************************************************)
(* Sched for TLC: a task woken by interrupts, two processes, and Init.     *)
(* A task has twice the ticks of a process, as in kernel_main().           *)
(***************************************************************************)
EXTENDS Sched

MCPriority == [q \in Procs |-> IF q \in IntTasks THEN 4 ELSE 2]
=============================================================================
