---------------------------- MODULE SchedProofs ----------------------------
(***************************************************************************)
(* Proofs about Sched, for any number of processes, any ticks per round    *)
(* and any number of nested clock interrupts.                              *)
(*                                                                         *)
(* The invariant says what schedule() knows in the middle of its search:   *)
(* what it has found is ready and in p_proc_ready, what it is about to     *)
(* take is ready, and as long as it has found nothing, whoever it has      *)
(* passed by and is ready (and no interrupt wakes) has no ticks left.      *)
(***************************************************************************)
EXTENDS Sched, TLAPS

\* The processes the loop at hand has not to look at any more (pick, set), or
\* has still to refill.
Spent(q) ==
  \/ pc = "pick" /\ q < p
  \/ pc = "take" /\ q < p
  \/ pc = "set" /\ q <= p
  \/ pc = "refill" /\ q >= p

FoundInv ==
  /\ RunningIsReady /\ BestIsReady
  /\ pc \in {"take", "set"} => p \notin blocked
  /\ pc = "take" /\ greatest_ticks # 0 =>
       /\ p_proc_ready \notin blocked /\ p_proc_ready < p
       /\ ticks[p] > greatest_ticks
  /\ pc = "refill" => greatest_ticks = 0

SpentInv ==
  pc \in ScanPcs /\ greatest_ticks = 0 =>
    \A q \in Procs \ IntTasks : Spent(q) /\ q \notin blocked => ticks[q] = 0

IInv == TypeOK /\ FoundInv /\ SpentInv

LEMMA InitIInv == Init => IInv
<1>. SUFFICES ASSUME Init PROVE IInv
  OBVIOUS
<1>1. \A q \in Procs : Priority[q] \in Nat /\ Priority[q] <= Priority[q]
  BY SchedAssumption
<1>2. ticks \in [Procs -> Nat] /\ \A q \in Procs : ticks[q] <= Priority[q]
  BY <1>1, SchedAssumption DEF Init
<1>3. TypeOK
  <2>1. masked \in BOOLEAN
    BY Zenon DEF Init
  <2>. QED
    BY <1>2, <2>1, SchedAssumption DEF Init, TypeOK, Procs, ScanPcs
<1>4. FoundInv /\ SpentInv
  BY DEF Init, FoundInv, SpentInv, RunningIsReady, BestIsReady, ScanPcs
<1>. QED
  BY <1>3, <1>4 DEF IInv

LEMMA ChargeType ==
  ASSUME TypeOK, Charge
  PROVE  /\ ticks' \in [Procs -> Nat]
         /\ \A q \in Procs : ticks'[q] <= ticks[q]
         /\ \A q \in Procs : q # p_proc_ready => ticks'[q] = ticks[q]
         /\ \A q \in Procs : ticks'[q] <= Priority[q]
<1>1. /\ ticks' \in [Procs -> Nat]
      /\ \A q \in Procs : ticks'[q] <= ticks[q]
      /\ \A q \in Procs : q # p_proc_ready => ticks'[q] = ticks[q]
  <2>1. CASE ticks[p_proc_ready] = 0
    BY <2>1 DEF TypeOK, Charge
  <2>2. CASE ticks[p_proc_ready] # 0
    BY <2>2 DEF TypeOK, Charge
  <2>. QED
    BY <2>1, <2>2
<1>2. \A q \in Procs : /\ ticks[q] \in Nat /\ ticks'[q] \in Nat
                       /\ Priority[q] \in Nat /\ ticks[q] <= Priority[q]
  BY <1>1, SchedAssumption DEF TypeOK
<1>. QED
  BY <1>1, <1>2

LEMMA NextIInv == IInv /\ [Next]_vars => IInv'
<1>. SUFFICES ASSUME IInv, [Next]_vars PROVE IInv'
  OBVIOUS
<1>. USE SchedAssumption DEF IInv, TypeOK, ScanPcs, Procs, kernelVars
<1>. USE DEF FoundInv, SpentInv, RunningIsReady, BestIsReady, Spent
<1>1. CASE Trap
  BY <1>1 DEF Trap
<1>2. CASE Return
  BY <1>2 DEF Return
<1>3. CASE Block
  <2>1. TypeOK'
    <3>1. masked' \in BOOLEAN
      BY <1>3, Zenon DEF Block, Schedule
    <3>. QED
      BY <1>3, <3>1 DEF Block, Schedule
  <2>2. FoundInv'
    BY <1>3 DEF Block, Schedule
  <2>3. SpentInv'
    BY <1>3 DEF Block, Schedule
  <2>. QED
    BY <2>1, <2>2, <2>3
<1>4. CASE \E q \in Procs : Unblock(q)
  BY <1>4 DEF Unblock
<1>5. CASE Pick
  <2>1. TypeOK'
    BY <1>5 DEF Pick
  <2>2. FoundInv'
    BY <1>5 DEF Pick
  <2>3. SpentInv'
    BY <1>5 DEF Pick
  <2>. QED
    BY <2>1, <2>2, <2>3
<1>6. CASE Take
  <2>1. TypeOK'
    BY <1>6 DEF Take
  <2>2. FoundInv'
    BY <1>6 DEF Take
  <2>3. SpentInv'
    <3>1. ticks[p] \in Nat /\ greatest_ticks' = ticks[p] /\ pc' = "set"
      BY <1>6 DEF Take
    <3>2. CASE greatest_ticks' = 0
      <4>1. greatest_ticks = 0
        BY <1>6, <3>1, <3>2 DEF Take
      <4>2. SUFFICES ASSUME NEW q \in Procs \ IntTasks, q <= p, q \notin blocked
                     PROVE  ticks[q] = 0
        BY <1>6, <3>1 DEF Take
      <4>3. CASE q = p
        BY <3>1, <3>2, <4>3
      <4>4. CASE q < p
        BY <1>6, <4>1, <4>2, <4>4 DEF Take
      <4>. QED
        BY <4>2, <4>3, <4>4
    <3>. QED
      BY <3>1, <3>2
  <2>. QED
    BY <2>1, <2>2, <2>3
<1>7. CASE SetReady
  BY <1>7 DEF SetReady
<1>8. CASE NewRound
  BY <1>8 DEF NewRound
<1>9. CASE Refill
  <2>1. TypeOK'
    <3>1. \A q \in Procs : Priority[q] \in Nat
      BY SchedAssumption
    <3>2. /\ ticks' \in [Procs -> Nat]
          /\ \A q \in Procs : ticks'[q] <= Priority[q]
      <4>1. CASE p \in Procs \ blocked
        <5>1. ticks' = [ticks EXCEPT ![p] = Priority[p]]
          BY <1>9, <4>1 DEF Refill
        <5>2. \A q \in Procs : ticks'[q] = IF q = p THEN Priority[p] ELSE ticks[q]
          BY <5>1
        <5>3. \A q \in Procs : ticks'[q] \in Nat /\ ticks'[q] <= Priority[q]
          BY <3>1, <5>2
        <5>. QED
          BY <5>1, <5>3
      <4>2. CASE p \notin Procs \ blocked
        BY <1>9, <3>1, <4>2 DEF Refill
      <4>. QED
        BY <4>1, <4>2
    <3>. QED
      BY <1>9, <3>2 DEF Refill
  <2>2. FoundInv'
    BY <1>9 DEF Refill
  <2>3. SpentInv'
    BY <1>9 DEF Refill
  <2>. QED
    BY <2>1, <2>2, <2>3
<1>10. CASE Dispatch
  <2>1. TypeOK'
    <3>1. masked' \in BOOLEAN
      BY <1>10, Zenon DEF Dispatch
    <3>. QED
      BY <1>10, <3>1 DEF Dispatch
  <2>2. FoundInv'
    BY <1>10 DEF Dispatch
  <2>3. SpentInv'
    BY <1>10 DEF Dispatch
  <2>. QED
    BY <2>1, <2>2, <2>3
<1>11. CASE ClockAtUser
  <2>1. TypeOK'
    <3>1. CASE ticks'[p_proc_ready] > 0
      BY <1>11, <3>1, ChargeType DEF ClockAtUser
    <3>2. CASE ~(ticks'[p_proc_ready] > 0)
      <4>1. Schedule(TRUE)
        BY <1>11, <3>2 DEF ClockAtUser
      <4>2. masked' \in BOOLEAN
        BY <4>1, Zenon DEF Schedule
      <4>. QED
        BY <1>11, <4>1, <4>2, ChargeType DEF ClockAtUser, Schedule
    <3>. QED
      BY <3>1, <3>2
  <2>2. FoundInv'
    BY <1>11, ChargeType DEF ClockAtUser, Schedule
  <2>3. SpentInv'
    BY <1>11, ChargeType DEF ClockAtUser, Schedule
  <2>. QED
    BY <2>1, <2>2, <2>3
<1>12. CASE ClockInKernel
  <2>1. TypeOK'
    BY <1>12, ChargeType DEF ClockInKernel
  <2>2. FoundInv'
    <3>1. pc = "take" /\ greatest_ticks # 0 =>
            ticks'[p] = ticks[p]
      BY <1>12, ChargeType DEF ClockInKernel
    <3>. QED
      BY <1>12, <3>1 DEF ClockInKernel
  <2>3. SpentInv'
    BY <1>12, ChargeType DEF ClockInKernel
  <2>. QED
    BY <2>1, <2>2, <2>3
<1>13. CASE \E t \in IntTasks : InterruptWakes(t)
  BY <1>13 DEF InterruptWakes
<1>14. CASE UNCHANGED vars
  BY <1>14 DEF vars
<1>. QED
  BY <1>1, <1>2, <1>3, <1>4, <1>5, <1>6, <1>7, <1>8, <1>9, <1>10, <1>11,
     <1>12, <1>13, <1>14 DEF Next, CallStep, ScheduleStep

LEMMA Inductive == Spec => []IInv
BY InitIInv, NextIInv, PTL DEF Spec

\* Every variable keeps its type: in particular a process is never charged more
\* ticks than it has, and never holds more than one round.
THEOREM SchedTypeCorrect == Spec => []TypeOK
BY Inductive, PTL DEF IInv

\* However interrupts fall into the statements of schedule(), what runs at user
\* level or makes a call is never a process that is blocked.
THEOREM RunningReady == Spec => []RunningIsReady
BY Inductive, PTL DEF IInv, FoundInv

\* The search of schedule() may stop at its end without a second look.
THEOREM BestReady == Spec => []BestIsReady
BY Inductive, PTL DEF IInv, FoundInv

\* Nobody but a task that interrupts wake starts a new round with ticks left.
THEOREM RoundsUsedUp == Spec => RoundsAreUsedUp
<1>1. IInv /\ [Next]_vars =>
        [\A q \in Procs \ IntTasks : ticks'[q] > ticks[q] => ticks[q] = 0]_vars
  <2>. SUFFICES ASSUME IInv, Next, NEW q \in Procs \ IntTasks,
                       ticks'[q] > ticks[q]
                PROVE  ticks[q] = 0
    BY DEF vars
  <2>1. ~(UNCHANGED ticks)
    BY DEF IInv, TypeOK
  <2>2. ~Charge
    BY ChargeType DEF IInv, TypeOK
  <2>3. Refill
    BY <2>1, <2>2 DEF Next, CallStep, ScheduleStep, Trap, Return, Block, Unblock,
       Pick, Take, SetReady, NewRound, Dispatch, ClockAtUser, ClockInKernel,
       InterruptWakes
  <2>4. q = p /\ p \notin blocked /\ pc = "refill"
    BY <2>3, SchedAssumption DEF Refill, IInv, TypeOK
  <2>. QED
    BY <2>4 DEF IInv, FoundInv, SpentInv, Spent, ScanPcs, TypeOK
<1>. QED
  BY <1>1, Inductive, PTL DEF Spec, RoundsAreUsedUp
=============================================================================
