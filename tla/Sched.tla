------------------------------- MODULE Sched -------------------------------
(***************************************************************************)
(* Choosing the process to run: schedule() and block() of kernel/proc.c,   *)
(* clock_handler() of kernel/clock.c, and the entry and exit paths of      *)
(* kernel/kernel.asm (save, sys_call, hwint_master, restart).              *)
(*                                                                         *)
(* A process runs at user level, or a system call of it runs in the        *)
(* kernel.  schedule() is reached from block(), with interrupts on, and    *)
(* from a clock interrupt that came at user level, with the clock masked   *)
(* (hwint_master).  It is taken statement by statement, for interrupts     *)
(* come between its statements: a clock interrupt charges a tick to        *)
(* whatever p_proc_ready is just then, and the handlers wake their tasks.  *)
(*                                                                         *)
(* What a process waits for is the business of Ipc; here it is blocked or  *)
(* it is not.                                                              *)
(***************************************************************************)
EXTENDS Naturals

CONSTANTS
  LastProc,    \* proc_table[0 .. LastProc]
  IntTasks,    \* the tasks an interrupt handler wakes
  InitProc,    \* the process that never makes a call (kernel/main.c, Init)
  Priority,    \* per process: the ticks of one round
  MaxNested    \* bound: clock interrupts during one stay in the kernel

Procs == 0 .. LastProc

ASSUME SchedAssumption ==
  /\ LastProc \in Nat
  /\ IntTasks \subseteq Procs \ {InitProc} /\ InitProc \in Procs
  /\ Priority \in [Procs -> Nat \ {0}]
  /\ MaxNested \in Nat

VARIABLES
  p_proc_ready,   \* the process that runs, or will when the kernel is left
  blocked,        \* the processes whose p_flags is not 0
  ticks,          \* per process: what is left of its round
  pc,             \* "user", "call", or where schedule() is
  p,              \* schedule(): the loop variable
  greatest_ticks, \* schedule(): the best so far
  masked,         \* schedule() was called by the clock handler
  nested          \* clock interrupts since the kernel was entered

kernelVars == <<p, greatest_ticks, masked>>
vars == <<p_proc_ready, blocked, ticks, pc, kernelVars, nested>>

ScanPcs == {"pick", "take", "set", "refill"}

TypeOK ==
  /\ p_proc_ready \in Procs
  /\ blocked \subseteq Procs
  /\ ticks \in [Procs -> Nat] /\ \A q \in Procs : ticks[q] <= Priority[q]
  /\ pc \in {"user", "call"} \union ScanPcs
  /\ p \in 0 .. LastProc + 1 /\ (pc \in {"take", "set"} => p \in Procs)
  /\ greatest_ticks \in Nat
  /\ masked \in BOOLEAN
  /\ nested \in 0 .. MaxNested

Init ==
  /\ p_proc_ready = 0
  /\ blocked = {}
  /\ ticks = Priority
  /\ pc = "user" /\ p = 0 /\ greatest_ticks = 0 /\ masked = FALSE
  /\ nested = 0

----------------------------------------------------------------------------
\* sys_call: the running process enters the kernel ...
Trap ==
  /\ pc = "user" /\ p_proc_ready # InitProc
  /\ pc' = "call"
  /\ UNCHANGED <<p_proc_ready, blocked, ticks, kernelVars, nested>>

\* ... may complete the call of another process ...
Unblock(q) ==
  /\ pc = "call" /\ q # p_proc_ready /\ q \in blocked
  /\ blocked' = blocked \ {q}
  /\ UNCHANGED <<p_proc_ready, ticks, pc, kernelVars, nested>>

\* ... and returns, or goes to sleep: p_flags, then block(), schedule().
Return ==
  /\ pc = "call"
  /\ pc' = "user" /\ nested' = 0
  /\ UNCHANGED <<p_proc_ready, blocked, ticks, kernelVars>>

Schedule(from_clock) ==
  /\ pc' = "pick" /\ p' = 0 /\ greatest_ticks' = 0 /\ masked' = from_clock

Block ==
  /\ pc = "call"
  /\ blocked' = blocked \union {p_proc_ready}
  /\ Schedule(FALSE)
  /\ UNCHANGED <<p_proc_ready, ticks, nested>>

----------------------------------------------------------------------------
\* Variant with a fault: p_flags is not tested.
PickAnybody ==
  /\ pc = "pick" /\ p <= LastProc
  /\ IF ticks[p] > greatest_ticks
       THEN pc' = "take" /\ p' = p
       ELSE pc' = pc /\ p' = p + 1
  /\ UNCHANGED <<p_proc_ready, blocked, ticks, greatest_ticks, masked, nested>>

\* schedule(): find the process that is not blocked and has most ticks left;
\* if all have used theirs, begin a new round and look again.
Pick ==
  /\ pc = "pick" /\ p <= LastProc
  /\ IF p \notin blocked /\ ticks[p] > greatest_ticks
       THEN pc' = "take" /\ p' = p
       ELSE pc' = pc /\ p' = p + 1
  /\ UNCHANGED <<p_proc_ready, blocked, ticks, greatest_ticks, masked, nested>>

Take ==
  /\ pc = "take"
  /\ greatest_ticks' = ticks[p]
  /\ pc' = "set"
  /\ UNCHANGED <<p_proc_ready, blocked, ticks, p, masked, nested>>

SetReady ==
  /\ pc = "set"
  /\ p_proc_ready' = p
  /\ pc' = "pick" /\ p' = p + 1
  /\ UNCHANGED <<blocked, ticks, greatest_ticks, masked, nested>>

\* Variant with a fault: a new round begins whatever was found.
NewRoundAlways ==
  /\ pc = "pick" /\ p > LastProc
  /\ pc' = "refill" /\ p' = 0
  /\ UNCHANGED <<p_proc_ready, blocked, ticks, greatest_ticks, masked, nested>>

NewRound ==
  /\ pc = "pick" /\ p > LastProc /\ greatest_ticks = 0
  /\ pc' = "refill" /\ p' = 0
  /\ UNCHANGED <<p_proc_ready, blocked, ticks, greatest_ticks, masked, nested>>

Refill ==
  /\ pc = "refill"
  /\ IF p <= LastProc
       THEN /\ ticks' = IF p \in blocked THEN ticks
                                      ELSE [ticks EXCEPT ![p] = Priority[p]]
            /\ pc' = pc /\ p' = p + 1
       ELSE /\ pc' = "pick" /\ p' = 0
            /\ UNCHANGED ticks
  /\ UNCHANGED <<p_proc_ready, blocked, greatest_ticks, masked, nested>>

\* restart: p_proc_ready goes on at user level.
Dispatch ==
  /\ pc = "pick" /\ p > LastProc /\ greatest_ticks # 0
  /\ pc' = "user" /\ p' = 0 /\ greatest_ticks' = 0 /\ masked' = FALSE
  /\ nested' = 0
  /\ UNCHANGED <<p_proc_ready, blocked, ticks>>

ScheduleStep == Pick \/ Take \/ SetReady \/ NewRound \/ Refill \/ Dispatch

----------------------------------------------------------------------------
\* Variant with a fault: no charge at all.
ChargeNothing == UNCHANGED ticks

\* clock_handler(): the process on the processor is charged one tick.
Charge ==
  ticks' = IF ticks[p_proc_ready] = 0 THEN ticks
           ELSE [ticks EXCEPT ![p_proc_ready] = @ - 1]

\* ... at user level (k_reenter is 0) it may lose the processor,
ClockAtUser ==
  /\ pc = "user"
  /\ Charge
  /\ IF ticks'[p_proc_ready] > 0 THEN UNCHANGED <<pc, kernelVars>>
                                 ELSE Schedule(TRUE)
  /\ UNCHANGED <<p_proc_ready, blocked, nested>>

\* ... inside the kernel (k_reenter is not 0) it may not.
ClockInKernel ==
  /\ pc # "user" /\ ~masked /\ nested < MaxNested
  /\ Charge
  /\ nested' = nested + 1
  /\ UNCHANGED <<p_proc_ready, blocked, pc, kernelVars>>

\* inform_int() by the clock or the disk handler, at any moment.
InterruptWakes(t) ==
  /\ t \in blocked
  /\ blocked' = blocked \ {t}
  /\ UNCHANGED <<p_proc_ready, ticks, pc, kernelVars, nested>>

CallStep == Return \/ Block \/ \E q \in Procs : Unblock(q)

Next ==
  \/ Trap \/ CallStep \/ ScheduleStep
  \/ ClockAtUser \/ ClockInKernel
  \/ \E t \in IntTasks : InterruptWakes(t)

\* The processor executes the kernel's statements; the timer never stops, and
\* it is not in step with the calls of the processes: it finds the machine at
\* user level again and again.
Fairness ==
  /\ WF_vars(CallStep) /\ WF_vars(ScheduleStep)
  /\ SF_vars(ClockAtUser)

Spec == Init /\ [][Next]_vars
FairSpec == Spec /\ Fairness

----------------------------------------------------------------------------
\* A blocked process never runs: whatever interrupts do while schedule()
\* looks, the process it settles on can go on at user level, and so can the
\* one that entered the kernel as long as it has not gone to sleep.
RunningIsReady == pc \in {"user", "call"} => p_proc_ready \notin blocked

\* What schedule() has found so far is ready, and has been given the
\* processor in p_proc_ready: leaving the loop needs no second look.
BestIsReady ==
  pc = "pick" /\ greatest_ticks # 0 =>
    p_proc_ready \notin blocked /\ p_proc_ready < p

\* A new round begins for a process only when schedule() has seen every ready
\* process with its ticks used up, down to 0 and not beyond, whatever ticks it was
\* charged inside the kernel: one that was ready all the time and has ticks left
\* is not made to start over.  (A task an interrupt wakes during the search may
\* be.)
RoundsAreUsedUp ==
  [][\A q \in Procs \ IntTasks : ticks'[q] > ticks[q] => ticks[q] = 0]_vars

\* Nobody starves: a process that stays ready gets the processor, however the
\* others trap, sleep, and are woken.  Init, which never sleeps, is one: so
\* schedule() always finds somebody, and the kernel is left again.
NoStarvation ==
  \A q \in Procs : []<>(q \in blocked \/ (pc = "user" /\ p_proc_ready = q))
=============================================================================
