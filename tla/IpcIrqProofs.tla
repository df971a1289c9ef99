---------------------------- MODULE IpcIrqProofs ----------------------------
(***************************************************************************)
(* Proofs about IpcIrq and IpcAtomic, for any set of processes and of      *)
(* tasks interrupts inform: wherever interrupts strike in msg_send() and   *)
(* msg_receive(), between calls the proc table is consistent, and the only *)
(* assertions that can fail are those of a call interrupts are entitled to *)
(* meet.  And until one comes in the window of IpcAtomic, the statements   *)
(* implement the atomic calls of Ipc, interrupts everywhere else included. *)
(***************************************************************************)
EXTENDS IpcAtomic, IpcProofs

----------------------------------------------------------------------------
\* The inductive invariant.

\* FlagsInv of one process.
Slot(p) ==
  \/ Idle(p)
  \/ /\ p_flags[p] = {SENDING} /\ p_msg[p]
     /\ p_recvfrom[p] = NO_TASK /\ p_sendto[p] \in Procs \ {p}
  \/ /\ p_flags[p] = {RECEIVING} /\ p_msg[p]
     /\ p_recvfrom[p] \notin {p, NO_TASK} /\ p_sendto[p] = NO_TASK

\* NoMissedRendezvous of one process, in two parts.
MissesNoSender(d) ==
  Receiving(d) =>
    \A p \in Procs :
      p_recvfrom[d] \in {p, ANY} => ~(Sending(p) /\ p_sendto[p] = d)

MissesNoInterrupt(d) ==
  Receiving(d) /\ p_recvfrom[d] \in {ANY, INTERRUPT} => ~has_int_msg[d]

Call == [proc  : Procs,
         pc    : SendPcs \union ReceivePcs,
         peer  : Procs \union {ANY, INTERRUPT},
         m     : Message,
         reply : Procs \union {NO_TASK}]

\* Interrupts are noted only for the tasks they inform.
IrqTypes ==
  /\ TypeOK /\ ReplyInv
  /\ failed \in Nat /\ wild \in BOOLEAN
  /\ \A p \in Procs : has_int_msg[p] => p \in IntTasks
  /\ call # NoCall =>
       /\ call \in Call /\ call.peer # call.proc /\ call.reply # call.proc
       /\ call.pc \in SendPcs => call.peer \in Procs

\* The call in progress is writing the fields of p one by one.
InFlux(p) ==
  \/ InCall({"clear_flags", "clear_from"}) /\ p = call.peer
  \/ InCall({"set_msg", "set_from", "block", "blocked"}) /\ p = call.proc

\* Everybody else's fields agree; and only the caller that is about to block
\* may have missed an interrupt, which line 519 then finds.
SlotsInv ==
  /\ \A p \in Procs : InFlux(p) \/ Slot(p)
  /\ \A p \in Procs : MissesNoSender(p)
  /\ \A p \in Procs : \/ MissesNoInterrupt(p)
                      \/ InCall({"block", "blocked"}) /\ p = call.proc

\* An interrupt has woken t in the middle of a call.
Woken(t) == t \in IntTasks /\ Idle(t)

\* What msg_send() may rely on at each statement: its partner still waits, or
\* an interrupt has taken it away.
SendInv ==
  /\ InCall(SendPcs) => Idle(call.proc) /\ buf[call.proc] = call.m
  /\ InCall(SendPcs \ {"check"}) => ~Deadlock(call.proc, call.peer)
  /\ InCall({"enqueue"}) => ~WaitsFor(call.peer, call.proc)
  /\ InCall({"assert_msg", "copy", "clear_msg"}) =>
       WaitsFor(call.peer, call.proc) \/ Woken(call.peer)
  /\ InCall({"clear_flags"}) =>
       /\ ~p_msg[call.peer] /\ p_sendto[call.peer] = NO_TASK
       /\ \/ p_flags[call.peer] = {RECEIVING}
          \/ p_flags[call.peer] = {} /\ p_recvfrom[call.peer] = NO_TASK
  /\ InCall({"clear_from"}) =>
       /\ ~p_msg[call.peer] /\ p_sendto[call.peer] = NO_TASK
       /\ p_flags[call.peer] = {}
  /\ InCall({"wake"}) => Idle(call.peer)

\* The caller has set RECEIVING and not yet from whom.
HalfBlocked(msg) ==
  /\ p_flags[call.proc] = {RECEIVING} /\ p_msg[call.proc] = msg
  /\ p_recvfrom[call.proc] = NO_TASK /\ p_sendto[call.proc] = NO_TASK

\* What msg_receive() may rely on: that nobody it accepts is sending stays true,
\* but an interrupt can wake the caller before it sleeps.
ReceiveInv ==
  /\ InCall({"test_int", "copy_int", "clear_int", "assert_int", "pick",
             "set_flags"}) => Idle(call.proc)
  /\ InCall({"copy_int", "clear_int", "assert_int"}) =>
       call.peer \in {ANY, INTERRUPT}
  /\ InCall({"set_flags", "set_msg", "set_from", "block", "blocked"}) =>
       ~SenderReady(call.proc, call.peer)
  /\ InCall({"set_msg"}) => HalfBlocked(FALSE)
  /\ InCall({"set_from"}) => HalfBlocked(TRUE)
  /\ InCall({"block", "blocked"}) =>
       \/ /\ p_flags[call.proc] = {RECEIVING} /\ p_msg[call.proc]
          /\ p_recvfrom[call.proc] = call.peer
          /\ p_sendto[call.proc] = NO_TASK
       \/ Woken(call.proc) /\ call.peer \in {ANY, INTERRUPT}

TableInv == SlotsInv /\ SendInv /\ ReceiveInv

IrqInv ==
  /\ IrqTypes /\ QueueInv
  /\ Alive => TableInv
  /\ OnlyInterruptedFail

----------------------------------------------------------------------------
\* Steps from one statement to the next.
Moves ==
  /\ \/ Check \/ TestFlags \/ TestFrom \/ AssertMsg \/ Copy
     \/ ClearMsg \/ ClearFlags \/ ClearFrom
     \/ TestInt \/ CopyInt \/ ClearInt \/ SetFlags \/ SetMsg \/ SetFrom \/ Block
  /\ Alive'

Moved ==
  /\ Alive /\ Alive' /\ call # NoCall /\ call' \in Call /\ call' # NoCall
  /\ call'.proc = call.proc /\ call'.peer = call.peer
  /\ call'.m = call.m /\ call'.reply = call.reply
  /\ call.proc \in Procs /\ (call.pc \in SendPcs => call.peer \in Procs)

LEMMA MovedOn ==
  ASSUME IrqInv, Moves
  PROVE  /\ Moved /\ IrqTypes /\ QueueInv /\ TableInv
         /\ call'.peer # call'.proc /\ call'.reply # call'.proc
         /\ call'.pc \in SendPcs => call'.peer \in Procs
<1>. USE DEF At
<1>1. PICK c \in SendPcs \union ReceivePcs :
        Goto(c) /\ (c \in SendPcs => call.pc \in SendPcs)
  BY DEF Moves, Demand, Fail, Alive, SendPcs, ReceivePcs,
     Check, TestFlags, TestFrom, AssertMsg, Copy, ClearMsg, ClearFlags,
     ClearFrom, TestInt, CopyInt, ClearInt, SetFlags, SetMsg, SetFrom, Block
<1>2. /\ IrqTypes /\ QueueInv /\ TableInv
      /\ Alive /\ Alive' /\ call # NoCall
  BY DEF Moves, IrqInv, Check, TestFlags, TestFrom, AssertMsg, Copy, ClearMsg, ClearFlags,
     ClearFrom, TestInt, CopyInt, ClearInt, SetFlags, SetMsg, SetFrom, Block
<1>3. call \in Call /\ call' = [call EXCEPT !.pc = c]
  BY <1>1, <1>2 DEF IrqTypes, Goto
<1>4. /\ call' \in Call /\ call'.pc = c
      /\ call'.proc = call.proc /\ call'.peer = call.peer
      /\ call'.m = call.m /\ call'.reply = call.reply
  BY <1>3 DEF Call
<1>5. call' # NoCall
  BY <1>4 DEF NoCall, SendPcs, ReceivePcs
<1>. QED
  BY <1>1, <1>2, <1>3, <1>4, <1>5 DEF IrqTypes, Call, Moved

\* Check, AssertMsg and Block move on when their condition holds.
LEMMA CheckPasses ==
  ASSUME Moves, Check
  PROVE  /\ call.pc = "check" /\ ~Deadlock(call.proc, call.peer)
         /\ Goto("test_flags") /\ UNCHANGED <<ipcVars, buf>>
         /\ UNCHANGED <<reply_from, halted, failed, wild>>
BY DEF Moves, Check, At, Alive

LEMMA AssertMsgPasses ==
  ASSUME Moves, AssertMsg
  PROVE  /\ call.pc = "assert_msg" /\ p_msg[call.peer]
         /\ Goto("copy") /\ UNCHANGED <<ipcVars, buf>>
         /\ UNCHANGED <<reply_from, halted, failed, wild>>
BY DEF Moves, AssertMsg, Demand, Fail, At, Alive

LEMMA BlockPasses ==
  ASSUME Moves, Block
  PROVE  /\ call.pc = "block" /\ p_flags[call.proc] # {}
         /\ Goto("blocked") /\ UNCHANGED <<ipcVars, buf>>
         /\ UNCHANGED <<reply_from, halted, failed, wild>>
BY DEF Moves, Block, Demand, Fail, At, Alive

LEMMA MovesTypes ==
  ASSUME IrqInv, Moves
  PROVE  IrqTypes'
<1>. USE IpcAssumption DEF At, vars, ipcVars, SENDING, RECEIVING,
                           Moved, IrqTypes, TypeOK, ReplyInv, Call
<1>1. CASE Check
  BY MovedOn, <1>1, CheckPasses
<1>2. CASE TestFlags
  BY MovedOn, <1>2 DEF TestFlags
<1>3. CASE TestFrom
  BY MovedOn, <1>3 DEF TestFrom
<1>4. CASE AssertMsg
  BY MovedOn, <1>4, AssertMsgPasses
<1>5. CASE Copy
  BY MovedOn, <1>5 DEF Copy
<1>6. CASE ClearMsg
  BY MovedOn, <1>6 DEF ClearMsg
<1>7. CASE ClearFlags
  BY MovedOn, <1>7 DEF ClearFlags
<1>8. CASE ClearFrom
  BY MovedOn, <1>8 DEF ClearFrom
<1>9. CASE TestInt
  BY MovedOn, <1>9 DEF TestInt
<1>10. CASE CopyInt
  BY MovedOn, <1>10 DEF CopyInt, Message
<1>11. CASE ClearInt
  BY MovedOn, <1>11 DEF ClearInt
<1>12. CASE SetFlags
  BY MovedOn, <1>12 DEF SetFlags
<1>13. CASE SetMsg
  BY MovedOn, <1>13 DEF SetMsg
<1>14. CASE SetFrom
  BY MovedOn, <1>14 DEF SetFrom
<1>15. CASE Block
  BY MovedOn, <1>15, BlockPasses
<1>. QED
  BY <1>1, <1>2, <1>3, <1>4, <1>5, <1>6, <1>7, <1>8, <1>9, <1>10, <1>11,
     <1>12, <1>13, <1>14, <1>15 DEF Moves

LEMMA MovesQueue ==
  ASSUME IrqInv, Moves
  PROVE  QueueInv'
<1>1. \/ p_flags' = p_flags
      \/ p_flags' = [p_flags EXCEPT ![call.peer] = @ \ {RECEIVING}]
      \/ p_flags' = [p_flags EXCEPT ![call.proc] = @ \union {RECEIVING}]
  BY DEF Moves, vars, ipcVars, Check, TestFlags, TestFrom, AssertMsg, Copy, ClearMsg, ClearFlags,
     ClearFrom, TestInt, CopyInt, ClearInt, SetFlags, SetMsg, SetFrom, Block
<1>2. q_sending' = q_sending /\ p_sendto' = p_sendto
  BY DEF Moves, vars, ipcVars, Check, TestFlags, TestFrom, AssertMsg, Copy, ClearMsg, ClearFlags,
     ClearFrom, TestInt, CopyInt, ClearInt, SetFlags, SetMsg, SetFrom, Block
<1>3. p_flags \in [Procs -> SUBSET {SENDING, RECEIVING}] /\ SENDING # RECEIVING
  BY DEF IrqInv, IrqTypes, TypeOK, SENDING, RECEIVING
<1>4. \A p \in Procs : Sending(p)' <=> Sending(p)
  BY <1>1, <1>3 DEF Sending
<1>. QED
  BY <1>2, <1>4 DEF IrqInv, QueueInv

LEMMA MovesSlots ==
  ASSUME IrqInv, Moves
  PROVE  SlotsInv'
<1>. USE IpcAssumption, MovedOn
     DEF At, Goto, vars, ipcVars, SENDING, RECEIVING, Moved, TableInv, IrqTypes,
         TypeOK, Call, Slot, Idle, Woken, HalfBlocked, InFlux, InCall,
         SlotsInv, SendInv, ReceiveInv, SenderReady, MissesNoSender,
         MissesNoInterrupt, Receiving, Sending, WaitsFor
<1>1. CASE Check
  BY <1>1, CheckPasses
<1>2. CASE TestFlags
  BY <1>2 DEF TestFlags
<1>3. CASE TestFrom
  BY <1>3 DEF TestFrom
<1>4. CASE AssertMsg
  BY <1>4, AssertMsgPasses
<1>5. CASE Copy
  BY <1>5 DEF Copy
<1>6. CASE ClearMsg
  BY <1>6 DEF ClearMsg
<1>7. CASE ClearFlags
  BY <1>7 DEF ClearFlags
<1>8. CASE ClearFrom
  BY <1>8 DEF ClearFrom
<1>9. CASE TestInt
  BY <1>9 DEF TestInt
<1>10. CASE CopyInt
  BY <1>10 DEF CopyInt
<1>11. CASE ClearInt
  BY <1>11 DEF ClearInt
<1>12. CASE SetFlags
  BY <1>12 DEF SetFlags
<1>13. CASE SetMsg
  BY <1>13 DEF SetMsg
<1>14. CASE SetFrom
  <2>1. \A q \in Procs : call.peer \in {q, ANY}
                           => ~(Sending(q) /\ p_sendto[q] = call.proc)
    BY <1>14, NobodyReady DEF SetFrom
  <2>. QED
    BY <1>14, <2>1 DEF SetFrom
<1>15. CASE Block
  BY <1>15, BlockPasses
<1>. QED
  BY <1>1, <1>2, <1>3, <1>4, <1>5, <1>6, <1>7, <1>8, <1>9, <1>10, <1>11,
     <1>12, <1>13, <1>14, <1>15 DEF Moves

LEMMA MovesSend ==
  ASSUME IrqInv, Moves
  PROVE  SendInv'
<1>. USE IpcAssumption, MovedOn
     DEF At, Goto, vars, ipcVars, SENDING, RECEIVING, Moved, TableInv, IrqTypes,
         TypeOK, Call, Slot, Idle, Woken, HalfBlocked, InFlux, InCall,
         SlotsInv, SendInv, SendPcs, Deadlock, ClosedUnderSendto,
         Receiving, Sending, WaitsFor
<1>1. CASE Check
  <2>1. /\ call.pc = "check" /\ ~Deadlock(call.proc, call.peer)
        /\ Goto("test_flags") /\ UNCHANGED <<ipcVars, buf>>
    BY <1>1, CheckPasses
  <2>. QED
    BY <2>1
<1>2. CASE TestFlags
  BY <1>2 DEF TestFlags
<1>3. CASE TestFrom
  <2>1. call.peer \in Procs /\ Slot(call.peer)
    BY <1>3 DEF TestFrom
  <2>2. p_recvfrom[call.peer] \in {call.proc, ANY}
          <=> WaitsFor(call.peer, call.proc)
    BY <2>1
  <2>. HIDE DEF SlotsInv, Slot, InFlux, HalfBlocked, Woken
  <2>. QED
    BY <1>3, <2>2 DEF TestFrom
<1>4. CASE AssertMsg
  BY <1>4, AssertMsgPasses
<1>5. CASE Copy
  BY <1>5 DEF Copy
<1>6. CASE ClearMsg
  BY <1>6 DEF ClearMsg
<1>7. CASE ClearFlags
  BY <1>7 DEF ClearFlags
<1>8. CASE ClearFrom
  BY <1>8 DEF ClearFrom
<1>9. CASE TestInt
  BY <1>9 DEF TestInt
<1>10. CASE CopyInt
  BY <1>10 DEF CopyInt
<1>11. CASE ClearInt
  BY <1>11 DEF ClearInt
<1>12. CASE SetFlags
  BY <1>12 DEF SetFlags
<1>13. CASE SetMsg
  BY <1>13 DEF SetMsg
<1>14. CASE SetFrom
  BY <1>14 DEF SetFrom
<1>15. CASE Block
  BY <1>15, BlockPasses
<1>. QED
  BY <1>1, <1>2, <1>3, <1>4, <1>5, <1>6, <1>7, <1>8, <1>9, <1>10, <1>11,
     <1>12, <1>13, <1>14, <1>15 DEF Moves

LEMMA MovesReceive ==
  ASSUME IrqInv, Moves
  PROVE  ReceiveInv'
<1>. USE IpcAssumption, MovedOn
     DEF At, Goto, vars, ipcVars, SENDING, RECEIVING, Moved, TableInv, IrqTypes,
         TypeOK, Call, Slot, Idle, Woken, HalfBlocked, InFlux, InCall,
         ReceiveInv, SenderReady, IntPending, Sending
<1>1. CASE Check
  BY <1>1, CheckPasses
<1>2. CASE TestFlags
  BY <1>2 DEF TestFlags
<1>3. CASE TestFrom
  BY <1>3 DEF TestFrom
<1>4. CASE AssertMsg
  BY <1>4, AssertMsgPasses
<1>5. CASE Copy
  BY <1>5 DEF Copy
<1>6. CASE ClearMsg
  BY <1>6 DEF ClearMsg
<1>7. CASE ClearFlags
  BY <1>7 DEF ClearFlags
<1>8. CASE ClearFrom
  BY <1>8 DEF ClearFrom
<1>9. CASE TestInt
  BY <1>9 DEF TestInt
<1>10. CASE CopyInt
  BY <1>10 DEF CopyInt
<1>11. CASE ClearInt
  BY <1>11 DEF ClearInt
<1>12. CASE SetFlags
  BY <1>12 DEF SetFlags
<1>13. CASE SetMsg
  BY <1>13 DEF SetMsg
<1>14. CASE SetFrom
  BY <1>14 DEF SetFrom
<1>15. CASE Block
  BY <1>15, BlockPasses
<1>. QED
  BY <1>1, <1>2, <1>3, <1>4, <1>5, <1>6, <1>7, <1>8, <1>9, <1>10, <1>11,
     <1>12, <1>13, <1>14, <1>15 DEF Moves

LEMMA MovesKeep == IrqInv /\ Moves => IrqInv'
<1>. SUFFICES ASSUME IrqInv, Moves PROVE IrqInv'
  OBVIOUS
<1>1. TableInv'
  BY MovesSlots, MovesSend, MovesReceive DEF TableInv
<1>2. OnlyInterruptedFail'
  BY DEF Moves, OnlyInterruptedFail, Alive
<1>. QED
  BY <1>1, <1>2, MovesTypes, MovesQueue DEF IrqInv

----------------------------------------------------------------------------
\* Steps that end a call, or begin one.

\* Where no fields are half written, what Ipc has between calls holds.
LEMMA QuietIInv ==
  ASSUME IrqInv, Alive,
         ~InCall({"clear_flags", "clear_from",
                  "set_msg", "set_from", "block", "blocked"})
  PROVE  IInv
<1>1. SlotsInv /\ IrqTypes /\ QueueInv
  BY DEF IrqInv, TableInv
<1>2. \A p \in Procs : ~InFlux(p)
  BY DEF InFlux, InCall
<1>3. FlagsInv
  BY <1>1, <1>2 DEF SlotsInv, Slot, Idle, FlagsInv
<1>4. NoMissedRendezvous
  BY <1>1 DEF SlotsInv, MissesNoSender, MissesNoInterrupt, NoMissedRendezvous,
              InCall
<1>. QED
  BY <1>1, <1>3, <1>4 DEF IrqTypes, IInv

\* Between calls that is all there is to know.
LEMMA AtRest ==
  ASSUME IrqInv, IInv', call' = NoCall, UNCHANGED <<failed, wild>>, failed = 0,
         \A p \in Procs : has_int_msg'[p] => has_int_msg[p]
  PROVE  IrqInv'
<1>. USE DEF InCall
<1>1. IrqTypes' /\ QueueInv'
  BY DEF IrqInv, IrqTypes, IInv
<1>2. SlotsInv'
  BY DEF IInv, FlagsInv, NoMissedRendezvous, SlotsInv, Slot, Idle,
         MissesNoSender, MissesNoInterrupt
<1>3. SendInv' /\ ReceiveInv'
  BY DEF SendInv, ReceiveInv
<1>4. OnlyInterruptedFail'
  BY DEF OnlyInterruptedFail
<1>. QED
  BY <1>1, <1>2, <1>3, <1>4 DEF IrqInv, TableInv

\* The kernel stops: all that must be right is why.
LEMMA Stops ==
  ASSUME IrqInv, UNCHANGED <<ipcVars, buf, reply_from, wild, call>>, ~Alive',
         halted' \in BOOLEAN, failed' \in Nat, OnlyInterruptedFail'
  PROVE  IrqInv'
<1>1. IrqTypes'
  BY DEF IrqInv, IrqTypes, TypeOK, ReplyInv, ipcVars
<1>2. QueueInv'
  BY DEF IrqInv, QueueInv, Sending, ipcVars
<1>. QED
  BY <1>1, <1>2 DEF IrqInv

LEMMA ReturnReplies == IrqInv /\ call # NoCall /\ Return => ReplyStep
  BY DEF IrqInv, IrqTypes, TypeOK, ReplyInv, Call, Return, ReplyStep

\* Between two statements nothing but reply_from may change when a call is over.
LEMMA ReturnIInv ==
  ASSUME IInv, Return, ReplyStep, UNCHANGED <<ipcVars, buf, halted>>
  PROVE  IInv'
<1>1. TypeOK' /\ FlagsInv'
  BY DEF IInv, TypeOK, FlagsInv, ReplyStep, ipcVars
<1>2. QueueInv' /\ NoMissedRendezvous'
  BY DEF IInv, QueueInv, NoMissedRendezvous, Sending, Receiving, ipcVars
<1>. QED
  BY <1>1, <1>2 DEF IInv, ReplyStep

LEMMA TrapKeeps ==
  ASSUME IrqInv, NEW p \in Procs, NEW peer \in Procs \union {ANY, INTERRUPT},
         NEW pc \in {"check", "test_int"}, pc = "check" => peer \in Procs,
         NEW m \in Message, NEW reply \in Procs \union {NO_TASK}, reply # p,
         Trap(p, pc, peer, m, reply)
  PROVE  IrqInv'
<1>. USE DEF Trap
<1>1. IInv /\ IrqTypes /\ QueueInv
  <2>1. ~InCall({"clear_flags", "clear_from",
                 "set_msg", "set_from", "block", "blocked"})
    BY DEF InCall
  <2>. QED
    BY <2>1, QuietIInv DEF IrqInv
<1>2. /\ call' \in Call /\ call' # NoCall /\ call'.pc = pc /\ call'.proc = p
      /\ call'.peer = peer /\ call'.m = m /\ call'.reply = reply
  BY DEF Call, NoCall, SendPcs, ReceivePcs
<1>3. IrqTypes'
  BY <1>1, <1>2 DEF IrqTypes, TypeOK, ReplyInv, ipcVars, SendPcs
<1>4. QueueInv'
  BY <1>1 DEF QueueInv, Sending, ipcVars
<1>5. Idle(p)
  BY <1>1 DEF Runnable, IInv, FlagsInv, Idle, SENDING, RECEIVING
<1>6. SlotsInv'
  BY <1>1 DEF IInv, FlagsInv, NoMissedRendezvous, SlotsInv, Slot, Idle,
              MissesNoSender, MissesNoInterrupt, ipcVars, Sending, Receiving
<1>7. SendInv' /\ ReceiveInv'
  BY <1>1, <1>2, <1>5 DEF IrqTypes, TypeOK, SendInv, ReceiveInv, InCall, Idle,
                          SendPcs, ipcVars
<1>8. OnlyInterruptedFail'
  BY DEF OnlyInterruptedFail, Alive
<1>. QED
  BY <1>3, <1>4, <1>6, <1>7, <1>8 DEF IrqInv, TableInv

LEMMA CallsKeep == IrqInv /\ Calls => IrqInv'
<1>. USE IpcAssumption
<1>1. ASSUME IrqInv, NEW p \in Procs, NEW d \in Procs, NEW t \in Types,
             TrapSend(p, d, t)
      PROVE  IrqInv'
  <2>1. [source |-> p, type |-> t] \in Message
    BY DEF Message
  <2>2. PICK reply \in {NO_TASK, d} :
          Trap(p, "check", d, [source |-> p, type |-> t], reply)
    BY <1>1 DEF TrapSend
  <2>3. p # d
    BY <2>2 DEF Trap
  <2>. QED
    BY <1>1, <2>1, <2>2, <2>3, TrapKeeps
<1>2. ASSUME IrqInv, NEW p \in Procs, NEW s \in Procs \union {ANY, INTERRUPT},
             TrapReceive(p, s)
      PROVE  IrqInv'
  <2>1. /\ [source |-> p, type |-> NoType] \in Message
        /\ [buf[p] EXCEPT !.source = p] \in Message
    <3>1. buf[p] \in Message
      BY <1>2 DEF IrqInv, IrqTypes, TypeOK
    <3>. QED
      BY <3>1 DEF Message
  <2>2. PICK m \in Message : Trap(p, "test_int", s, m, NO_TASK)
    BY <1>2, <2>1 DEF TrapReceive
  <2>3. NO_TASK \in Procs \union {NO_TASK} /\ NO_TASK # p
    OBVIOUS
  <2>. QED
    BY <1>2, <2>2, <2>3, TrapKeeps
<1>. QED
  BY <1>1, <1>2 DEF Calls

\* msg_send() finds a cycle of senders.
LEMMA PanicKeeps == IrqInv /\ Check /\ ~Alive' => IrqInv'
<1>. SUFFICES ASSUME IrqInv, Check, ~Alive' PROVE IrqInv'
  OBVIOUS
<1>1. halted' = TRUE /\ call' = call /\ failed = 0
  BY DEF Check, At, Goto, Alive
<1>2. OnlyInterruptedFail'
  BY <1>1 DEF Check, OnlyInterruptedFail
<1>. QED
  BY <1>1, <1>2, Stops DEF Check, IrqInv, IrqTypes

\* The assertion that dest has its message (line 307).
LEMMA AssertMsgKeeps == IrqInv /\ AssertMsg /\ ~Alive' => IrqInv'
<1>. SUFFICES ASSUME IrqInv, AssertMsg, ~Alive' PROVE IrqInv'
  OBVIOUS
<1>1. /\ failed' = 307 /\ ~p_msg[call.peer]
      /\ UNCHANGED <<ipcVars, buf, reply_from, wild, call, halted>>
  BY DEF AssertMsg, Demand, Fail, At, Goto, Alive
<1>2. call.pc = "assert_msg" /\ call # NoCall /\ SendInv /\ SlotsInv /\ IrqTypes
  BY DEF AssertMsg, At, IrqInv, TableInv
<1>3. call.peer \in Procs
  BY <1>2 DEF IrqTypes, SendPcs
<1>4. call.peer \in IntTasks
  BY <1>1, <1>2, <1>3
     DEF SendInv, SlotsInv, Slot, InFlux, InCall, Woken, WaitsFor, Receiving,
         Idle, RECEIVING, SENDING
<1>5. OnlyInterruptedFail'
  BY <1>1, <1>2, <1>4 DEF OnlyInterruptedFail, PartyToInterrupts, SendPcs,
                          ReceivePcs
<1>. QED
  BY <1>1, <1>5, Stops DEF IrqInv, IrqTypes, TypeOK

\* The end of msg_send(): the assertions 318-325 hold whatever came before.
LEMMA WakeKeeps == IrqInv /\ Wake => IrqInv'
<1>. SUFFICES ASSUME IrqInv, Wake PROVE IrqInv'
  OBVIOUS
<1>1. /\ InCall({"wake"}) /\ InCall(SendPcs) /\ Alive /\ call # NoCall
      /\ SendInv
  BY DEF Wake, At, InCall, SendPcs, IrqInv, TableInv
<1>2. Idle(call.peer) /\ Idle(call.proc)
  BY <1>1 DEF SendInv
<1>3. Return /\ UNCHANGED <<ipcVars, buf, halted, failed, wild>>
  BY <1>2 DEF Wake
<1>4. ReplyStep
  BY <1>1, <1>3, ReturnReplies
<1>5. IInv
  BY <1>1, QuietIInv DEF InCall
<1>6. IInv'
  BY <1>3, <1>4, <1>5, ReturnIInv
<1>. QED
  BY <1>1, <1>3, <1>6, AtRest DEF Return, Alive, ipcVars

\* msg_receive() with an interrupt pending: line 405 fails if another has come.
LEMMA AssertIntKeeps == IrqInv /\ AssertInt => IrqInv'
<1>. SUFFICES ASSUME IrqInv, AssertInt PROVE IrqInv'
  OBVIOUS
<1>1. /\ InCall({"assert_int"}) /\ Alive /\ call # NoCall /\ call.pc = "assert_int"
      /\ call.peer \in {ANY, INTERRUPT} /\ call.proc \in Procs
      /\ UNCHANGED <<ipcVars, buf, wild>>
  <2>1. InCall({"copy_int", "clear_int", "assert_int"})
    BY DEF AssertInt, At, InCall
  <2>. QED
    BY <2>1 DEF AssertInt, At, InCall, IrqInv, TableInv, ReceiveInv, IrqTypes, Call
<1>2. CASE has_int_msg[call.proc]
  <2>1. Fail(405)
    BY <1>2 DEF AssertInt
  <2>2. call.proc \in IntTasks
    BY <1>1, <1>2 DEF IrqInv, IrqTypes
  <2>3. OnlyInterruptedFail'
    BY <1>1, <2>1, <2>2
       DEF Fail, OnlyInterruptedFail, PartyToInterrupts, SendPcs
  <2>. QED
    BY <1>1, <2>1, <2>3, Stops DEF Fail, Alive, IrqInv, IrqTypes, TypeOK
<1>3. CASE ~has_int_msg[call.proc]
  <2>1. Return /\ UNCHANGED <<failed, halted>>
    BY <1>3 DEF AssertInt
  <2>2. IInv'
    BY <1>1, <2>1, ReturnReplies, QuietIInv, ReturnIInv DEF InCall
  <2>. QED
    BY <1>1, <2>1, <2>2, AtRest DEF Return, Alive, ipcVars
<1>. QED
  BY <1>2, <1>3

\* msg_receive() about to sleep: block() finds p_flags reset by an interrupt ...
LEMMA BlockKeeps == IrqInv /\ Block /\ ~Alive' => IrqInv'
<1>. SUFFICES ASSUME IrqInv, Block, ~Alive' PROVE IrqInv'
  OBVIOUS
<1>1. /\ failed' = 218 /\ p_flags[call.proc] = {}
      /\ UNCHANGED <<ipcVars, buf, reply_from, wild, call, halted>>
  BY DEF Block, Demand, Fail, At, Goto, Alive
<1>2. InCall({"block", "blocked"}) /\ call.pc = "block" /\ ReceiveInv
  BY DEF Block, At, InCall, IrqInv, TableInv
<1>3. call.proc \in IntTasks /\ call.peer \in {ANY, INTERRUPT}
  BY <1>1, <1>2 DEF ReceiveInv, Woken
<1>4. OnlyInterruptedFail'
  BY <1>1, <1>2, <1>3
     DEF OnlyInterruptedFail, PartyToInterrupts, SendPcs, InCall
<1>. QED
  BY <1>1, <1>4, Stops DEF IrqInv, IrqTypes, TypeOK

\* ... or the assertions after it find the caller's fields reset, or an
\* interrupt that is pending.
LEMMA BlockedKeeps == IrqInv /\ Blocked => IrqInv'
<1>. SUFFICES ASSUME IrqInv, Blocked PROVE IrqInv'
  OBVIOUS
<1>. USE IpcAssumption
<1> DEFINE p == call.proc
           Sleeping == /\ p_flags[p] = {RECEIVING} /\ p_msg[p]
                       /\ p_recvfrom[p] = call.peer /\ p_sendto[p] = NO_TASK
<1>1. /\ InCall({"block", "blocked"}) /\ call.pc = "blocked" /\ Alive
      /\ call # NoCall /\ UNCHANGED <<ipcVars, buf, wild>>
      /\ IrqTypes /\ QueueInv /\ SlotsInv /\ ReceiveInv
  BY DEF Blocked, At, InCall, IrqInv, TableInv
<1>2. p \in Procs /\ call.peer \in Procs \union {ANY, INTERRUPT} /\ call.peer # p
  BY <1>1 DEF IrqTypes, Call
<1>3. Sleeping \/ (Woken(p) /\ call.peer \in {ANY, INTERRUPT})
  BY <1>1 DEF ReceiveInv
<1>4. CASE Fail(515)
  <2>1. p \in IntTasks /\ call.peer \in {ANY, INTERRUPT}
    <3>1. ~Sleeping
      BY <1>2, <1>4, <1>1 DEF Blocked, Fail, Alive, Return
    <3>. QED
      BY <1>3, <3>1 DEF Woken
  <2>2. OnlyInterruptedFail'
    BY <1>1, <1>4, <2>1 DEF Fail, OnlyInterruptedFail, PartyToInterrupts, SendPcs
  <2>. QED
    BY <1>1, <1>4, <2>2, Stops DEF Fail, Alive, IrqTypes, TypeOK
<1>5. CASE has_int_msg[p] /\ Fail(519)
  <2>1. p \in IntTasks
    BY <1>1, <1>2, <1>5 DEF IrqTypes
  <2>2. OnlyInterruptedFail'
    BY <1>1, <1>5, <2>1 DEF Fail, OnlyInterruptedFail, PartyToInterrupts, SendPcs
  <2>. QED
    BY <1>1, <1>5, <2>2, Stops DEF Fail, Alive, IrqTypes, TypeOK
<1>6. CASE ~Fail(515) /\ ~has_int_msg[p]
  <2>1. Return /\ UNCHANGED <<failed, halted>> /\ p_flags[p] = {RECEIVING}
    BY <1>6 DEF Blocked
  <2>2. Sleeping
    BY <1>3, <2>1 DEF Woken, Idle
  <2>3. FlagsInv
    BY <1>1, <1>2, <2>2 DEF SlotsInv, InFlux, InCall, Slot, Idle, FlagsInv
  <2>4. NoMissedRendezvous
    BY <1>1, <1>6 DEF SlotsInv, MissesNoSender, MissesNoInterrupt,
                      NoMissedRendezvous
  <2>5. IInv
    BY <1>1, <2>3, <2>4 DEF IInv, IrqTypes
  <2>6. IInv'
    BY <1>1, <2>1, <2>5, ReturnReplies, ReturnIInv
  <2>. QED
    BY <1>1, <2>1, <2>6, AtRest DEF Return, Alive, ipcVars
<1>. QED
  BY <1>4, <1>5, <1>6 DEF Blocked

\* msg_send() to a process that does not wait for the message.
LEMMA EnqueueKeeps == IrqInv /\ EnqueueSender => IrqInv'
<1>. SUFFICES ASSUME IrqInv, EnqueueSender PROVE IrqInv'
  OBVIOUS
<1> DEFINE p == call.proc
           d == call.peer
<1>1. /\ call.pc = "enqueue" /\ Alive /\ call # NoCall
      /\ IrqTypes /\ SendInv /\ Return
  BY DEF EnqueueSender, At, IrqInv, TableInv
<1>2. p \in Procs /\ d \in Procs /\ p # d /\ call.m \in Message
  BY <1>1 DEF IrqTypes, Call, SendPcs
<1>3. Idle(p) /\ buf[p] = call.m /\ ~Deadlock(p, d) /\ ~WaitsFor(d, p)
  <2>1. InCall(SendPcs) /\ InCall(SendPcs \ {"check"}) /\ InCall({"enqueue"})
    BY <1>1 DEF InCall, SendPcs
  <2>. QED
    BY <1>1, <2>1 DEF SendInv
<1>4. buf' = [buf EXCEPT ![p] = call.m]
  BY <1>1, <1>2, <1>3 DEF EnqueueSender, IrqTypes, TypeOK
<1>5. Enqueue(p, d, call.m)
  BY <1>3, <1>4 DEF EnqueueSender, Enqueue
<1>6. IInv /\ ReplyStep
  BY <1>1, QuietIInv, ReturnReplies DEF InCall
<1>7. IInv'
  BY <1>1, <1>2, <1>3, <1>5, <1>6, EnqueueIInv DEF Runnable, Alive, Idle
<1>. QED
  BY <1>1, <1>7, AtRest DEF EnqueueSender, Return, Alive

\* msg_receive() looks for a sender.
LEMMA PickKeeps == IrqInv /\ Pick => IrqInv'
<1>. SUFFICES ASSUME IrqInv, Pick PROVE IrqInv'
  OBVIOUS
<1>1. /\ call.pc = "pick" /\ Alive /\ call # NoCall
      /\ IrqTypes /\ TableInv /\ UNCHANGED <<failed, wild>>
  BY DEF Pick, At, IrqInv
<1>2. call.proc \in Procs /\ Idle(call.proc)
  BY <1>1 DEF IrqTypes, Call, TableInv, ReceiveInv, InCall
<1>3. IInv
  BY <1>1, QuietIInv DEF InCall
<1>4. CASE Fetch(call.proc, call.peer) /\ Return
  <2>1. IInv'
    BY <1>1, <1>2, <1>3, <1>4, ReturnReplies, FetchIInv DEF Runnable, Alive, Idle
  <2>. QED
    BY <1>1, <1>4, <2>1, AtRest DEF Fetch, Return, Alive
<1>5. CASE /\ ~SenderReady(call.proc, call.peer)
           /\ Goto("set_flags") /\ UNCHANGED vars
  <2>1. /\ call' \in Call /\ call' # NoCall /\ call'.pc = "set_flags"
        /\ call'.proc = call.proc /\ call'.peer = call.peer
        /\ call'.reply = call.reply
    BY <1>1, <1>5 DEF Goto, IrqTypes, Call, NoCall, SendPcs, ReceivePcs
  <2>2. IrqTypes'
    BY <1>1, <1>5, <2>1 DEF IrqTypes, TypeOK, ReplyInv, vars, ipcVars, SendPcs
  <2>3. QueueInv' /\ SlotsInv'
    BY <1>1, <1>3, <1>5, <2>1
       DEF IInv, FlagsInv, NoMissedRendezvous, SlotsInv, Slot, Idle,
           MissesNoSender, MissesNoInterrupt, QueueInv, vars, ipcVars,
           Sending, Receiving
  <2>4. SendInv' /\ ReceiveInv'
    BY <1>2, <1>5, <2>1 DEF SendInv, ReceiveInv, InCall, SendPcs, Idle,
                            SenderReady, Sending, vars, ipcVars
  <2>5. OnlyInterruptedFail'
    BY <1>1 DEF OnlyInterruptedFail, Alive
  <2>. QED
    BY <2>2, <2>3, <2>4, <2>5 DEF IrqInv, TableInv
<1>. QED
  BY <1>4, <1>5 DEF Pick

----------------------------------------------------------------------------
\* An interrupt, at any point of a call.
LEMMA NotedKeeps ==
  ASSUME IrqInv, NEW t \in IntTasks, Irq(t), IrqIsNoted(t)
  PROVE  IrqInv'
<1>. USE IpcAssumption DEF Irq, IrqIsNoted
<1>1. Alive /\ Alive' /\ IrqTypes /\ QueueInv /\ TableInv /\ OnlyInterruptedFail
  BY DEF IrqInv, Alive
<1>2. IrqTypes'
  BY <1>1 DEF IrqTypes, TypeOK, ReplyInv
<1>3. QueueInv'
  BY <1>1 DEF QueueInv, Sending
<1>4. SlotsInv'
  BY <1>1 DEF IrqTypes, TypeOK, TableInv, SlotsInv, InFlux, InCall, Slot, Idle,
              MissesNoSender, MissesNoInterrupt, Sending, Receiving
<1>5. SendInv'
  BY <1>1 DEF TableInv, SendInv, InCall, Idle, Deadlock, ClosedUnderSendto,
              WaitsFor, Woken, Sending, Receiving
<1>6. ReceiveInv'
  BY <1>1 DEF TableInv, ReceiveInv, InCall, Idle, HalfBlocked, SenderReady,
              Woken, Sending
<1>7. OnlyInterruptedFail'
  BY <1>1 DEF OnlyInterruptedFail, Alive
<1>. QED
  BY <1>2, <1>3, <1>4, <1>5, <1>6, <1>7 DEF IrqInv, TableInv

LEMMA WakesKeeps ==
  ASSUME IrqInv, NEW t \in IntTasks, Irq(t), IrqWakes(t)
  PROVE  IrqInv'
<1>. USE IpcAssumption DEF SENDING, RECEIVING
<1>1. /\ Alive /\ Alive' /\ IrqTypes /\ QueueInv /\ SlotsInv /\ SendInv
      /\ ReceiveInv /\ OnlyInterruptedFail
  BY DEF Irq, IrqInv, TableInv, Alive
<1>2. /\ t \in Procs
      /\ UNCHANGED <<p_sendto, q_sending, reply_from, halted, call, failed>>
      /\ Receiving(t) /\ p_recvfrom[t] \in {INTERRUPT, ANY}
      /\ \/ buf' = [buf EXCEPT ![t] = [source |-> INTERRUPT, type |-> HARD_INT]]
         \/ buf' = buf
      /\ wild' = (wild \/ ~p_msg[t])
      /\ p_msg' = [p_msg EXCEPT ![t] = FALSE]
      /\ has_int_msg' = [has_int_msg EXCEPT ![t] = FALSE]
      /\ p_flags' = [p_flags EXCEPT ![t] = @ \ {RECEIVING}]
      /\ p_recvfrom' = [p_recvfrom EXCEPT ![t] = NO_TASK]
  BY DEF Irq, IrqWakes
<1>3. /\ p_flags \in [Procs -> SUBSET {SENDING, RECEIVING}]
      /\ p_recvfrom \in [Procs -> Procs \union {ANY, INTERRUPT, NO_TASK}]
      /\ p_msg \in [Procs -> BOOLEAN] /\ has_int_msg \in [Procs -> BOOLEAN]
      /\ buf \in [Procs -> Message]
  BY <1>1 DEF IrqTypes, TypeOK
<1>4. IrqTypes'
  <2>1. /\ p_flags' \in [Procs -> SUBSET {SENDING, RECEIVING}]
        /\ p_recvfrom' \in [Procs -> Procs \union {ANY, INTERRUPT, NO_TASK}]
    BY <1>2, <1>3
  <2>2. p_msg' \in [Procs -> BOOLEAN] /\ has_int_msg' \in [Procs -> BOOLEAN]
    BY <1>2, <1>3
  <2>3. buf' \in [Procs -> Message]
    <3>1. [source |-> INTERRUPT, type |-> HARD_INT] \in Message
      BY DEF Message
    <3>. QED
      BY <1>2, <1>3, <3>1
  <2>4. wild' \in BOOLEAN
    BY <1>2
  <2>5. \A q \in Procs : has_int_msg'[q] => has_int_msg[q]
    BY <1>2, <1>3
  <2>. QED
    BY <1>1, <1>2, <2>1, <2>2, <2>3, <2>4, <2>5 DEF IrqTypes, TypeOK, ReplyInv
<1>5. /\ \A q \in Procs : Sending(q)' <=> Sending(q)
      /\ \A q \in Procs : Receiving(q)' <=> Receiving(q) /\ q # t
  BY <1>2, <1>3 DEF Sending, Receiving
<1>6. QueueInv'
  BY <1>1, <1>2, <1>5 DEF QueueInv
\* t was asleep, or is the party whose fields are being written.
<1>7. p_flags[t] = {RECEIVING} /\ p_sendto[t] = NO_TASK
  BY <1>1, <1>2 DEF SlotsInv, Slot, Idle, InFlux, InCall, SendInv, ReceiveInv,
                    HalfBlocked, Woken, Receiving
<1>8. Idle(t)' /\ Woken(t)'
  BY <1>2, <1>3, <1>7 DEF Idle, Woken
<1>9. \A q \in Procs : q # t => /\ p_flags'[q] = p_flags[q]
                                /\ p_recvfrom'[q] = p_recvfrom[q]
                                /\ p_msg'[q] = p_msg[q]
                                /\ has_int_msg'[q] = has_int_msg[q]
                                /\ buf'[q] = buf[q]
                                /\ p_sendto'[q] = p_sendto[q]
  BY <1>2, <1>3
<1>10. SlotsInv'
  <2>1. \A q \in Procs : (InFlux(q) \/ Slot(q))'
    BY <1>1, <1>2, <1>8, <1>9 DEF SlotsInv, Slot, Idle, InFlux, InCall
  <2>2. \A q \in Procs : MissesNoSender(q)'
    BY <1>1, <1>2, <1>5, <1>9 DEF SlotsInv, MissesNoSender
  <2>3. \A q \in Procs : (\/ MissesNoInterrupt(q)
                          \/ InCall({"block", "blocked"}) /\ q = call.proc)'
    BY <1>1, <1>2, <1>5, <1>9 DEF SlotsInv, MissesNoInterrupt, InCall
  <2>. QED
    BY <2>1, <2>2, <2>3 DEF SlotsInv
<1>11. call # NoCall => /\ call.proc \in Procs
                        /\ call.pc \in SendPcs => call.peer \in Procs
  BY <1>1 DEF IrqTypes, Call
<1>12. SendInv'
  <2>. USE <1>1, <1>2, <1>9, <1>11 DEF SendInv, InCall, SendPcs
  <2>1. (InCall(SendPcs) => Idle(call.proc) /\ buf[call.proc] = call.m)'
    BY <1>7 DEF Idle
  <2>2. (InCall(SendPcs \ {"check"}) => ~Deadlock(call.proc, call.peer))'
    BY <1>5 DEF Deadlock, ClosedUnderSendto
  <2>3. (InCall({"enqueue"}) => ~WaitsFor(call.peer, call.proc))'
    BY <1>5 DEF WaitsFor
  <2>4. (InCall({"assert_msg", "copy", "clear_msg"}) =>
           WaitsFor(call.peer, call.proc) \/ Woken(call.peer))'
    BY <1>5, <1>8 DEF WaitsFor, Woken, Idle
  <2>5. (InCall({"clear_flags"}) =>
           /\ ~p_msg[call.peer] /\ p_sendto[call.peer] = NO_TASK
           /\ \/ p_flags[call.peer] = {RECEIVING}
              \/ p_flags[call.peer] = {} /\ p_recvfrom[call.peer] = NO_TASK)'
    BY <1>8 DEF Idle
  <2>6. (InCall({"clear_from"}) =>
           /\ ~p_msg[call.peer] /\ p_sendto[call.peer] = NO_TASK
           /\ p_flags[call.peer] = {})'
    BY <1>8 DEF Idle
  <2>7. (InCall({"wake"}) => Idle(call.peer))'
    BY <1>8 DEF Idle
  <2>. HIDE <1>1, <1>2, <1>9, <1>11 DEF InCall
  <2>. QED
    BY <2>1, <2>2, <2>3, <2>4, <2>5, <2>6, <2>7 DEF SendInv
<1>13. ReceiveInv'
  BY <1>1, <1>2, <1>5, <1>7, <1>8, <1>9, <1>11
     DEF ReceiveInv, InCall, Idle, Woken, HalfBlocked, SenderReady
<1>14. OnlyInterruptedFail'
  BY <1>1 DEF OnlyInterruptedFail, Alive
<1>. QED
  BY <1>4, <1>6, <1>10, <1>12, <1>13, <1>14 DEF IrqInv, TableInv

----------------------------------------------------------------------------
LEMMA InitIrqInv == IrqInit => IrqInv
<1>. SUFFICES ASSUME IrqInit PROVE IrqInv
  OBVIOUS
<1>1. IInv /\ call = NoCall /\ failed = 0 /\ wild = FALSE
  BY InitIInv DEF IrqInit
<1>2. \A p \in Procs : ~has_int_msg[p]
  BY DEF IrqInit, Init
<1>3. SlotsInv /\ SendInv /\ ReceiveInv
  BY <1>1 DEF IInv, FlagsInv, NoMissedRendezvous, SlotsInv, SendInv, ReceiveInv,
              Slot, Idle, MissesNoSender, MissesNoInterrupt, InCall
<1>. QED
  BY <1>1, <1>2, <1>3 DEF IInv, IrqInv, IrqTypes, TableInv, OnlyInterruptedFail

LEMMA NextIrqInv == IrqInv /\ [IrqNext]_irqVars => IrqInv'
<1>. SUFFICES ASSUME IrqInv, [IrqNext]_irqVars PROVE IrqInv'
  OBVIOUS
<1>1. CASE Calls
  BY <1>1, CallsKeep
<1>2. CASE SendSteps
  BY <1>2, MovesKeep, PanicKeeps, AssertMsgKeeps, WakeKeeps, EnqueueKeeps
     DEF SendSteps, Moves, TestFlags, TestFrom, Copy, ClearMsg, ClearFlags,
         ClearFrom, Goto, At, Alive, vars
<1>3. CASE ReceiveSteps
  BY <1>3, MovesKeep, AssertIntKeeps, PickKeeps, BlockKeeps, BlockedKeeps
     DEF ReceiveSteps, Moves, TestInt, CopyInt, ClearInt, SetFlags, SetMsg,
         SetFrom, Goto, At, Alive, vars
<1>4. ASSUME NEW t \in IntTasks, Irq(t)
      PROVE  IrqInv'
  BY <1>4, NotedKeeps, WakesKeeps DEF Irq
<1>5. CASE UNCHANGED irqVars
  <2>. USE <1>5 DEF irqVars, vars, ipcVars
  <2>1. IrqTypes' /\ QueueInv' /\ OnlyInterruptedFail'
    BY DEF IrqInv, IrqTypes, TypeOK, ReplyInv, QueueInv, Sending,
           OnlyInterruptedFail, PartyToInterrupts
  <2>2. Alive' => TableInv'
    BY DEF IrqInv, TableInv, SlotsInv, SendInv, ReceiveInv, Alive, InFlux, Slot,
           Idle, InCall, MissesNoSender, MissesNoInterrupt, Deadlock,
           ClosedUnderSendto, WaitsFor, Woken, HalfBlocked, SenderReady,
           Sending, Receiving
  <2>. QED
    BY <2>1, <2>2 DEF IrqInv
<1>. QED
  BY <1>1, <1>2, <1>3, <1>4, <1>5 DEF IrqNext

LEMMA IrqInductive == IrqSpec => []IrqInv
  BY InitIrqInv, NextIrqInv, PTL DEF IrqSpec

\* However interrupts fall into system calls: between calls the fields of every
\* slot agree and nobody sleeps through a rendezvous.
THEOREM RestIsConsistent == IrqSpec => []RestConsistent
<1>1. IrqInv => RestConsistent
  BY QuietIInv DEF RestConsistent, IInv, InCall
<1>. QED
  BY <1>1, IrqInductive, PTL

\* The assertions of proc.c fail only in a call to or by a task interrupts
\* inform, and a RECEIVE only if an interrupt may satisfy it, line 519 apart.
THEOREM OnlyInterruptsFail == IrqSpec => []OnlyInterruptedFail
<1>1. IrqInv => OnlyInterruptedFail
  BY DEF IrqInv
<1>. QED
  BY <1>1, IrqInductive, PTL

\* Interrupts do not touch the sending queues: they stay exact throughout.
THEOREM QueuesStayExact == IrqSpec => []QueueInv
<1>1. IrqInv => QueueInv
  BY DEF IrqInv
<1>. QED
  BY <1>1, IrqInductive, PTL

----------------------------------------------------------------------------
\* Until an interrupt comes in the window of IpcAtomic, the statements implement the
\* atomic calls.  The inductive invariant: IrqInv, and what interrupts outside the window
\* leave true of the call in progress.

\* The arguments of the call are those of a call of Ipc.
CallMade ==
  call # NoCall =>
    /\ call.pc \in SendPcs =>
         /\ reply_from[call.proc] = NO_TASK
         /\ call.reply \in {NO_TASK, call.peer}
         /\ call.m.source = call.proc /\ call.m.type \in Types
    /\ call.pc \in ReceivePcs =>
         /\ call.reply = NO_TASK
         /\ IF reply_from[call.proc] = NO_TASK
              THEN /\ call.m = [source |-> call.proc, type |-> NoType]
                   /\ call.peer = INTERRUPT => call.proc \in IntTasks
              ELSE /\ call.peer = reply_from[call.proc]
                   /\ call.m = [before[call.proc] EXCEPT !.source = call.proc]

\* What the call has tested is still so.
TestsHold ==
  /\ InCall({"assert_msg", "copy", "clear_msg", "clear_flags"}) =>
       WaitsFor(call.peer, call.proc)
  /\ InCall({"copy_int", "clear_int"}) => has_int_msg[call.proc]
  /\ InCall({"assert_int", "pick", "set_flags", "set_msg", "set_from",
             "block", "blocked"}) => ~IntPending(call.proc, call.peer)
  /\ InCall({"block", "blocked"}) => Receiving(call.proc)

\* The caller's buffer holds what it will hold when the call takes effect, and
\* the partner's is as it was until the message is copied.
BuffersKept ==
  /\ InCall({"test_int", "copy_int", "pick", "set_flags", "set_msg", "set_from",
             "block", "blocked"}) => buf[call.proc] = call.m
  /\ InCall({"clear_int", "assert_int"}) =>
       buf[call.proc] = [source |-> INTERRUPT, type |-> HARD_INT]
  /\ InCall({"clear_msg", "clear_flags"}) => buf[call.peer] = call.m
  /\ /\ InCall({"check", "test_flags", "test_from", "assert_msg", "copy"})
     /\ Receiving(call.peer)
     => buf[call.peer] = before[call.peer]

Undisturbed == CallMade /\ TestsHold /\ BuffersKept

AtomicInv ==
  /\ IrqInv /\ struck \in BOOLEAN /\ before \in [Procs -> Message]
  /\ ~struck /\ Alive => Undisturbed
  /\ OnlyUnaskedInterruptFails

\* What every step may use, and what one of an undisturbed call may.
AtomicTypes ==
  /\ p_flags \in [Procs -> SUBSET {SENDING, RECEIVING}]
  /\ p_recvfrom \in [Procs -> Procs \union {ANY, INTERRUPT, NO_TASK}]
  /\ p_sendto \in [Procs -> Procs \union {NO_TASK}]
  /\ p_msg \in [Procs -> BOOLEAN] /\ has_int_msg \in [Procs -> BOOLEAN]
  /\ buf \in [Procs -> Message] /\ before \in [Procs -> Message]
  /\ reply_from \in [Procs -> Procs \union {NO_TASK}]

CallContext ==
  /\ AtomicTypes /\ SlotsInv /\ SendInv /\ ReceiveInv /\ Undisturbed
  /\ Alive /\ failed = 0 /\ ~struck /\ ~wild
  /\ call \in Call /\ call # NoCall
  /\ call.proc \in Procs /\ call.peer # call.proc
  /\ call.pc \in SendPcs => call.peer \in Procs

LEMMA InContext ==
  ASSUME AtomicInv, ~struck, Alive, call # NoCall
  PROVE  CallContext
<1>1. AtomicTypes
  BY DEF AtomicInv, IrqInv, IrqTypes, TypeOK, AtomicTypes
<1>2. /\ call \in Call /\ call.proc \in Procs /\ call.peer # call.proc
      /\ call.pc \in SendPcs => call.peer \in Procs
  BY DEF AtomicInv, IrqInv, IrqTypes, Call
<1>. QED
  BY <1>1, <1>2 DEF AtomicInv, IrqInv, TableInv, Alive, CallContext,
                    OnlyUnaskedInterruptFails

\* A waiting partner has its message on record when the call asserts so.
LEMMA PartnerReady ==
  ASSUME CallContext, InCall({"assert_msg", "copy", "clear_msg"})
  PROVE  p_msg[call.peer]
<1>1. call.peer \in Procs /\ WaitsFor(call.peer, call.proc) /\ ~InFlux(call.peer)
  BY DEF CallContext, Undisturbed, TestsHold, InCall, InFlux, SendPcs
<1>. QED
  BY <1>1 DEF CallContext, SlotsInv, Slot, Idle, WaitsFor, Receiving, SENDING,
              RECEIVING

----------------------------------------------------------------------------
\* Steps from one statement to the next keep the call undisturbed.
LEMMA MovesUndisturbed ==
  ASSUME CallContext, Moves, Moved, before' = before
  PROVE  Undisturbed' /\ ~wild' /\ failed' = 0
<1>0. Copy => p_msg[call.peer]
  BY PartnerReady DEF Copy, At, InCall
<1>. USE IpcAssumption
     DEF CallContext, AtomicTypes, Undisturbed, At, Goto, Moved, Alive, vars,
         ipcVars, InCall, SendPcs, ReceivePcs
<1>1. CallMade'
  <2>. USE DEF CallMade
  <2>1. CASE Check
    <3>1. /\ call.pc = "check" /\ Goto("test_flags")
          /\ UNCHANGED <<ipcVars, buf, reply_from>>
      BY <2>1, CheckPasses
    <3>. QED
      BY <3>1
  <2>2. CASE TestFlags
    BY <2>2 DEF TestFlags
  <2>3. CASE TestFrom
    BY <2>3 DEF TestFrom
  <2>4. CASE AssertMsg
    <3>1. /\ call.pc = "assert_msg" /\ Goto("copy")
          /\ UNCHANGED <<ipcVars, buf, reply_from>>
      BY <2>4, AssertMsgPasses
    <3>. QED
      BY <3>1
  <2>5. CASE Copy
    BY <2>5, <1>0 DEF Copy
  <2>6. CASE ClearMsg
    BY <2>6 DEF ClearMsg
  <2>7. CASE ClearFlags
    BY <2>7 DEF ClearFlags
  <2>8. CASE ClearFrom
    BY <2>8 DEF ClearFrom
  <2>9. CASE TestInt
    BY <2>9 DEF TestInt
  <2>10. CASE CopyInt
    BY <2>10 DEF CopyInt
  <2>11. CASE ClearInt
    BY <2>11 DEF ClearInt
  <2>12. CASE SetFlags
    BY <2>12 DEF SetFlags
  <2>13. CASE SetMsg
    BY <2>13 DEF SetMsg
  <2>14. CASE SetFrom
    BY <2>14 DEF SetFrom
  <2>15. CASE Block
    <3>1. /\ call.pc = "block" /\ Goto("blocked") /\ p_flags[call.proc] # {}
          /\ UNCHANGED <<ipcVars, buf, reply_from>>
      BY <2>15, BlockPasses
    <3>. QED
      BY <3>1
  <2>. HIDE DEF CallContext, Undisturbed, CallMade, Goto
  <2>. QED
    BY <2>1, <2>2, <2>3, <2>4, <2>5, <2>6, <2>7, <2>8, <2>9, <2>10, <2>11,
       <2>12, <2>13, <2>14, <2>15 DEF Moves
<1>2. TestsHold'
  <2>. USE DEF TestsHold, IntPending, WaitsFor, Receiving, SlotsInv, ReceiveInv,
             HalfBlocked, InFlux, Slot, Idle, SENDING, RECEIVING
  <2>1. CASE Check
    <3>1. /\ call.pc = "check" /\ Goto("test_flags")
          /\ UNCHANGED <<ipcVars, buf, reply_from>>
      BY <2>1, CheckPasses
    <3>. QED
      BY <3>1
  <2>2. CASE TestFlags
    BY <2>2 DEF TestFlags
  <2>3. CASE TestFrom
    BY <2>3 DEF TestFrom
  <2>4. CASE AssertMsg
    <3>1. /\ call.pc = "assert_msg" /\ Goto("copy")
          /\ UNCHANGED <<ipcVars, buf, reply_from>>
      BY <2>4, AssertMsgPasses
    <3>. QED
      BY <3>1
  <2>5. CASE Copy
    BY <2>5, <1>0 DEF Copy
  <2>6. CASE ClearMsg
    BY <2>6 DEF ClearMsg
  <2>7. CASE ClearFlags
    BY <2>7 DEF ClearFlags
  <2>8. CASE ClearFrom
    BY <2>8 DEF ClearFrom
  <2>9. CASE TestInt
    BY <2>9 DEF TestInt
  <2>10. CASE CopyInt
    BY <2>10 DEF CopyInt
  <2>11. CASE ClearInt
    BY <2>11 DEF ClearInt
  <2>12. CASE SetFlags
    BY <2>12 DEF SetFlags
  <2>13. CASE SetMsg
    BY <2>13 DEF SetMsg
  <2>14. CASE SetFrom
    BY <2>14 DEF SetFrom
  <2>15. CASE Block
    <3>1. /\ call.pc = "block" /\ Goto("blocked") /\ p_flags[call.proc] # {}
          /\ UNCHANGED <<ipcVars, buf, reply_from>>
      BY <2>15, BlockPasses
    <3>. QED
      BY <3>1
  <2>. HIDE DEF CallContext, Undisturbed, TestsHold, Goto
  <2>. QED
    BY <2>1, <2>2, <2>3, <2>4, <2>5, <2>6, <2>7, <2>8, <2>9, <2>10, <2>11,
       <2>12, <2>13, <2>14, <2>15 DEF Moves
<1>3. BuffersKept'
  <2>. USE DEF BuffersKept, TestsHold, SendInv, WaitsFor, Receiving
  <2>1. CASE Check
    <3>1. /\ call.pc = "check" /\ Goto("test_flags")
          /\ UNCHANGED <<ipcVars, buf, reply_from>>
      BY <2>1, CheckPasses
    <3>. QED
      BY <3>1
  <2>2. CASE TestFlags
    BY <2>2 DEF TestFlags
  <2>3. CASE TestFrom
    BY <2>3 DEF TestFrom
  <2>4. CASE AssertMsg
    <3>1. /\ call.pc = "assert_msg" /\ Goto("copy")
          /\ UNCHANGED <<ipcVars, buf, reply_from>>
      BY <2>4, AssertMsgPasses
    <3>. QED
      BY <3>1
  <2>5. CASE Copy
    BY <2>5, <1>0 DEF Copy
  <2>6. CASE ClearMsg
    BY <2>6 DEF ClearMsg
  <2>7. CASE ClearFlags
    BY <2>7 DEF ClearFlags
  <2>8. CASE ClearFrom
    BY <2>8 DEF ClearFrom
  <2>9. CASE TestInt
    BY <2>9 DEF TestInt
  <2>10. CASE CopyInt
    BY <2>10 DEF CopyInt
  <2>11. CASE ClearInt
    BY <2>11 DEF ClearInt
  <2>12. CASE SetFlags
    BY <2>12 DEF SetFlags
  <2>13. CASE SetMsg
    BY <2>13 DEF SetMsg
  <2>14. CASE SetFrom
    BY <2>14 DEF SetFrom
  <2>15. CASE Block
    <3>1. /\ call.pc = "block" /\ Goto("blocked") /\ p_flags[call.proc] # {}
          /\ UNCHANGED <<ipcVars, buf, reply_from>>
      BY <2>15, BlockPasses
    <3>. QED
      BY <3>1
  <2>. HIDE DEF CallContext, Undisturbed, BuffersKept, Goto
  <2>. QED
    BY <2>1, <2>2, <2>3, <2>4, <2>5, <2>6, <2>7, <2>8, <2>9, <2>10, <2>11,
       <2>12, <2>13, <2>14, <2>15 DEF Moves
<1>4. ~wild' /\ failed' = 0
  <2>1. CASE Copy
    BY <1>0, <2>1 DEF Copy
  <2>2. CASE ~Copy
    <3>1. Check \/ AssertMsg \/ Block => UNCHANGED <<failed, wild>>
      BY CheckPasses, AssertMsgPasses, BlockPasses
    <3>. QED
      BY <2>2, <3>1 DEF Moves, TestFlags, TestFrom, ClearMsg, ClearFlags, ClearFrom,
         TestInt, CopyInt, ClearInt, SetFlags, SetMsg, SetFrom
  <2>. QED
    BY <2>1, <2>2
<1>. QED
  BY <1>1, <1>2, <1>3, <1>4

\* A call that begins is undisturbed: before' is the buffers without its message.
LEMMA TrapUndisturbed ==
  ASSUME AtomicInv, Calls, before' = buf
  PROVE  Undisturbed' /\ UNCHANGED <<failed, wild>>
<1>. USE IpcAssumption
<1>1. /\ p_flags \in [Procs -> SUBSET {SENDING, RECEIVING}]
      /\ buf \in [Procs -> Message]
      /\ reply_from \in [Procs -> Procs \union {NO_TASK}]
  BY DEF AtomicInv, IrqInv, IrqTypes, TypeOK
<1>2. ASSUME NEW p \in Procs, NEW d \in Procs, NEW t \in Types, TrapSend(p, d, t)
      PROVE  Undisturbed' /\ UNCHANGED <<failed, wild>>
  <2>1. /\ call'.proc = p /\ call'.pc = "check" /\ call'.peer = d /\ p # d
        /\ call'.m = [source |-> p, type |-> t] /\ call'.reply \in {NO_TASK, d}
        /\ reply_from[p] = NO_TASK
        /\ UNCHANGED <<ipcVars, reply_from, failed, wild>>
        /\ \A q \in Procs : q # p => buf'[q] = buf[q]
    BY <1>1, <1>2 DEF TrapSend, Trap
  <2>. QED
    BY <2>1 DEF Undisturbed, CallMade, TestsHold, BuffersKept, InCall, SendPcs,
                ReceivePcs
<1>3. ASSUME NEW p \in Procs, NEW s \in Procs \union {ANY, INTERRUPT},
             TrapReceive(p, s)
      PROVE  Undisturbed' /\ UNCHANGED <<failed, wild>>
  <2>1. /\ call'.proc = p /\ call'.pc = "test_int" /\ call'.peer = s
        /\ call'.reply = NO_TASK /\ buf'[p] = call'.m
        /\ s = INTERRUPT => p \in IntTasks
        /\ UNCHANGED <<ipcVars, reply_from, failed, wild>>
        /\ IF reply_from[p] = NO_TASK
             THEN call'.m = [source |-> p, type |-> NoType]
             ELSE s = reply_from[p] /\ call'.m = [buf[p] EXCEPT !.source = p]
    BY <1>1, <1>3 DEF TrapReceive, Trap
  <2>. QED
    BY <2>1 DEF Undisturbed, CallMade, TestsHold, BuffersKept, InCall, SendPcs,
                ReceivePcs
<1>. QED
  BY <1>2, <1>3 DEF Calls

\* A RECEIVE that finds nobody goes on undisturbed.
LEMMA PickUndisturbed ==
  ASSUME CallContext, Pick, ~Return, before' = before
  PROVE  /\ Undisturbed' /\ call.pc = "pick" /\ call'.pc = "set_flags"
         /\ call' \in Call /\ call' # NoCall
         /\ call'.proc = call.proc /\ call'.peer = call.peer
         /\ call'.m = call.m /\ call'.reply = call.reply
         /\ UNCHANGED vars /\ UNCHANGED <<failed, wild>>
<1>1. /\ call.pc = "pick" /\ call' = [call EXCEPT !.pc = "set_flags"]
      /\ UNCHANGED vars /\ UNCHANGED <<failed, wild>>
  BY DEF Pick, At, Goto
<1>2. /\ call' \in Call /\ call' # NoCall /\ call'.pc = "set_flags"
      /\ call'.proc = call.proc /\ call'.peer = call.peer
      /\ call'.m = call.m /\ call'.reply = call.reply
  BY <1>1 DEF CallContext, Call, NoCall, SendPcs, ReceivePcs
<1>3. CallMade'
  BY <1>1, <1>2 DEF CallContext, Undisturbed, CallMade, SendPcs, ReceivePcs, vars
<1>4. TestsHold' /\ BuffersKept'
  BY <1>1, <1>2 DEF CallContext, Undisturbed, TestsHold, BuffersKept, InCall,
                    IntPending, vars, ipcVars
<1>. QED
  BY <1>1, <1>2, <1>3, <1>4 DEF Undisturbed

\* Of the assertions only line 519 can fail, over an interrupt not asked for.
LEMMA StopsOnlyUnasked ==
  ASSUME CallContext, Check \/ AssertMsg \/ AssertInt \/ Block \/ Blocked, ~Alive'
  PROVE  /\ ~wild' /\ call' = call
         /\ \/ Check /\ failed' = 0 /\ halted' = TRUE
            \/ /\ Blocked /\ failed' = 519 /\ has_int_msg'[call.proc]
               /\ call.peer \in Procs
<1>. USE IpcAssumption
<1>1. CASE Check
  BY <1>1 DEF Check, Goto, Alive, CallContext
<1>2. CASE AssertMsg
  <2>1. p_msg[call.peer]
    BY <1>2, PartnerReady DEF AssertMsg, At, InCall
  <2>. QED
    BY <1>2, <2>1 DEF AssertMsg, Demand, Alive, CallContext
<1>3. CASE AssertInt
  <2>1. ~has_int_msg[call.proc]
    <3>1. /\ InCall({"copy_int", "clear_int", "assert_int"})
          /\ InCall({"assert_int", "pick", "set_flags", "set_msg", "set_from",
                     "block", "blocked"})
      BY <1>3 DEF AssertInt, At, InCall
    <3>. QED
      BY <3>1 DEF CallContext, Undisturbed, TestsHold, ReceiveInv, IntPending
  <2>. QED
    BY <1>3, <2>1 DEF AssertInt, Alive, CallContext
<1>4. CASE Block
  <2>1. p_flags[call.proc] # {}
    <3>1. InCall({"block", "blocked"})
      BY <1>4 DEF Block, At, InCall
    <3>. QED
      BY <3>1 DEF CallContext, Undisturbed, TestsHold, Receiving
  <2>. QED
    BY <1>4, <2>1 DEF Block, Demand, Alive, CallContext
<1>5. CASE Blocked
  <2>1. /\ InCall({"block", "blocked"})
        /\ InCall({"assert_int", "pick", "set_flags", "set_msg", "set_from",
                   "block", "blocked"})
    BY <1>5 DEF Blocked, At, InCall
  <2>2. Receiving(call.proc) /\ ~IntPending(call.proc, call.peer)
    BY <2>1 DEF CallContext, Undisturbed, TestsHold
  <2>3. /\ p_flags[call.proc] = {RECEIVING} /\ p_msg[call.proc]
        /\ p_recvfrom[call.proc] = call.peer
        /\ p_sendto[call.proc] = NO_TASK
    BY <2>1, <2>2 DEF CallContext, ReceiveInv, Woken, Idle, Receiving
  <2>4. call.peer \in Procs \union {ANY, INTERRUPT}
    BY DEF CallContext, Call
  <2>5. has_int_msg[call.proc] /\ Fail(519) /\ UNCHANGED <<ipcVars, wild>>
    BY <1>5, <2>3, <2>4 DEF Blocked, Alive, CallContext
  <2>. QED
    BY <1>5, <2>2, <2>4, <2>5 DEF Fail, IntPending, ipcVars, CallContext
<1>. QED
  BY <1>1, <1>2, <1>3, <1>4, <1>5

\* An interrupt that wakes t outside the window wakes nobody the call is about,
\* and finds t's message.
LEMMA WakesOther ==
  ASSUME AtomicInv, ~struck, NEW t \in IntTasks, Irq(t), IrqWakes(t), ~Window(t)
  PROVE  /\ p_msg[t]
         /\ call # NoCall => t # call.proc
         /\ InCall({"assert_msg", "copy", "clear_msg", "clear_flags"}) =>
              t # call.peer
<1>. USE IpcAssumption
<1>1. t \in Procs /\ Alive /\ Receiving(t) /\ p_recvfrom[t] \in {INTERRUPT, ANY}
      /\ SlotsInv
  BY DEF Irq, IrqWakes, AtomicInv, IrqInv, TableInv
<1>2. CASE call = NoCall
  BY <1>1, <1>2 DEF SlotsInv, InFlux, InCall, Slot, Idle, Receiving, SENDING,
                    RECEIVING
<1>3. CASE call # NoCall
  <2>1. CallContext
    BY <1>1, <1>3, InContext
  <2>2. t # call.proc
    <3>1. CASE call.pc \in SendPcs
      <4>1. Idle(call.proc)
        BY <1>3, <2>1, <3>1 DEF CallContext, SendInv, InCall
      <4>. QED
        BY <1>1, <4>1 DEF Idle
    <3>2. CASE call.pc \in {"set_msg", "set_from"}
      BY <1>1, <1>3, <2>1, <3>2 DEF CallContext, ReceiveInv, InCall, HalfBlocked
    <3>3. CASE call.pc \in {"block", "blocked"}
      <4>1. p_recvfrom[call.proc] = call.peer \/ Woken(call.proc)
        BY <1>3, <2>1, <3>3 DEF CallContext, ReceiveInv, InCall
      <4>. QED
        BY <1>1, <1>3, <3>3, <4>1 DEF Window, InCall, Woken, Idle
    <3>4. CASE call.pc \in {"test_int", "copy_int", "clear_int", "assert_int",
                            "pick", "set_flags"}
      <4>1. Idle(call.proc)
        BY <1>3, <2>1, <3>4 DEF CallContext, ReceiveInv, InCall
      <4>. QED
        BY <1>1, <4>1 DEF Idle
    <3>. QED
      BY <2>1, <3>1, <3>2, <3>3, <3>4 DEF CallContext, Call, ReceivePcs
  <2>3. ASSUME InCall({"assert_msg", "copy", "clear_msg", "clear_flags"}),
               t = call.peer
        PROVE  FALSE
    <3>1. p_recvfrom[t] \in {call.proc, ANY} /\ call.proc \in Procs
      BY <2>1, <2>3 DEF CallContext, Undisturbed, TestsHold, WaitsFor
    <3>2. p_recvfrom[t] = ANY
      BY <1>1, <3>1
    <3>. QED
      BY <2>3, <3>2 DEF Window
  <2>4. ~InFlux(t)
    <3>1. ~(InCall({"clear_from"}) /\ t = call.peer)
      BY <1>1, <2>1 DEF CallContext, SendInv, Receiving
    <3>. QED
      BY <2>2, <2>3, <3>1 DEF InFlux, InCall
  <2>5. p_msg[t]
    BY <1>1, <2>4 DEF SlotsInv, Slot, Idle, Receiving, SENDING, RECEIVING
  <2>. QED
    BY <2>2, <2>3, <2>5
<1>. QED
  BY <1>2, <1>3

LEMMA IrqUndisturbed ==
  ASSUME AtomicInv, ~struck, NEW t \in IntTasks, Irq(t), ~Window(t),
         call # NoCall => before' = before
  PROVE  Undisturbed' /\ ~wild' /\ failed' = 0
<1>. USE IpcAssumption
<1>1. /\ Alive /\ failed = 0 /\ t \in Procs /\ ~wild
      /\ UNCHANGED <<p_sendto, reply_from, call, failed>>
  BY DEF Irq, AtomicInv, OnlyUnaskedInterruptFails, Alive
<1>2. CASE call = NoCall
  <2>1. Undisturbed'
    BY <1>1, <1>2 DEF Undisturbed, CallMade, TestsHold, BuffersKept, InCall
  <2>2. ~wild'
    BY <1>1, WakesOther DEF Irq, IrqWakes, IrqIsNoted
  <2>. QED
    BY <1>1, <2>1, <2>2
<1>3. CASE call # NoCall
  <2>1. CallContext /\ before' = before
    BY <1>1, <1>3, InContext
  <2>2. CallMade'
    BY <1>1, <2>1 DEF CallContext, Undisturbed, CallMade
  <2>3. CASE IrqIsNoted(t)
    <3>1. /\ has_int_msg' = [has_int_msg EXCEPT ![t] = TRUE]
          /\ UNCHANGED <<p_flags, p_recvfrom, p_msg, buf, wild>>
      BY <2>3 DEF IrqIsNoted
    <3>2. TestsHold'
      BY <1>1, <2>1, <3>1
         DEF CallContext, AtomicTypes, Undisturbed, TestsHold, InCall, WaitsFor,
             Receiving, IntPending, Window
    <3>3. BuffersKept'
      BY <1>1, <2>1, <3>1
         DEF CallContext, Undisturbed, BuffersKept, InCall, Receiving
    <3>. QED
      BY <1>1, <2>1, <2>2, <3>1, <3>2, <3>3 DEF Undisturbed, CallContext
  <2>4. CASE IrqWakes(t)
    <3>1. /\ p_msg[t] /\ t # call.proc
          /\ InCall({"assert_msg", "copy", "clear_msg", "clear_flags"}) =>
               t # call.peer
      BY <1>3, <2>4, WakesOther
    <3>2. /\ buf' = [buf EXCEPT ![t] = [source |-> INTERRUPT, type |-> HARD_INT]]
          /\ wild' = (wild \/ ~p_msg[t])
          /\ has_int_msg' = [has_int_msg EXCEPT ![t] = FALSE]
          /\ p_flags' = [p_flags EXCEPT ![t] = @ \ {RECEIVING}]
          /\ p_recvfrom' = [p_recvfrom EXCEPT ![t] = NO_TASK]
      BY <2>4, <3>1 DEF IrqWakes
    <3>3. /\ ~Receiving(t)'
          /\ \A q \in Procs : q # t =>
               /\ buf'[q] = buf[q] /\ has_int_msg'[q] = has_int_msg[q]
               /\ p_flags'[q] = p_flags[q] /\ p_recvfrom'[q] = p_recvfrom[q]
      BY <1>1, <2>1, <3>2 DEF CallContext, AtomicTypes, Receiving
    <3>4. TestsHold' /\ BuffersKept'
      BY <1>1, <2>1, <3>1, <3>3
         DEF CallContext, Undisturbed, TestsHold, BuffersKept, InCall, WaitsFor,
             Receiving, IntPending, SendPcs
    <3>. QED
      BY <1>1, <2>1, <2>2, <3>1, <3>2, <3>4 DEF Undisturbed, CallContext
  <2>. QED
    BY <2>3, <2>4 DEF Irq
<1>. QED
  BY <1>2, <1>3

LEMMA InitAtomicInv == AtomicInit => AtomicInv
<1>. SUFFICES ASSUME AtomicInit PROVE AtomicInv
  OBVIOUS
<1>1. IrqInv /\ call = NoCall /\ failed = 0 /\ ~wild
  BY InitIrqInv DEF AtomicInit, IrqInit
<1>2. before \in [Procs -> Message]
  BY <1>1 DEF AtomicInit, IrqInv, IrqTypes, TypeOK
<1>3. Undisturbed
  BY <1>1 DEF Undisturbed, CallMade, TestsHold, BuffersKept, InCall
<1>. QED
  BY <1>1, <1>2, <1>3 DEF AtomicInit, AtomicInv, OnlyUnaskedInterruptFails

\* The steps of a run that no interrupt in the window has disturbed.
LEMMA Histories ==
  ASSUME AtomicInv, AtomicNext, ~struck'
  PROVE  /\ ~struck
         /\ call = NoCall => before' = buf
         /\ call # NoCall => before' = before
         /\ \/ Calls \/ SendSteps \/ ReceiveSteps
            \/ \E t \in IntTasks : Irq(t) /\ ~Window(t)
BY DEF AtomicNext, AtomicInv

\* A statement of a call that is in progress.
LEMMA InProgress == SendSteps \/ ReceiveSteps => Alive /\ call # NoCall
BY DEF SendSteps, ReceiveSteps, At, Check, TestFlags, TestFrom, AssertMsg, Copy,
       ClearMsg, ClearFlags, ClearFrom, Wake, EnqueueSender, TestInt, CopyInt,
       ClearInt, AssertInt, Pick, SetFlags, SetMsg, SetFrom, Block, Blocked

\* It leads to the next, ends the call, or stops the kernel.
LEMMA StepKinds ==
  ASSUME CallContext, SendSteps \/ ReceiveSteps
  PROVE  \/ Moves
         \/ /\ Wake \/ EnqueueSender \/ AssertInt \/ Blocked
            /\ Return /\ UNCHANGED <<failed, halted, wild>>
         \/ Pick
         \/ /\ Check \/ AssertMsg \/ AssertInt \/ Block \/ Blocked
            /\ ~Alive'
<1>1. CASE Wake
  <2>1. Idle(call.peer) /\ Idle(call.proc)
    BY <1>1 DEF CallContext, SendInv, InCall, SendPcs, Wake, At
  <2>. QED
    BY <1>1, <2>1 DEF Wake
<1>2. CASE EnqueueSender \/ Pick
  BY <1>2 DEF EnqueueSender
<1>3. CASE AssertInt \/ Blocked
  BY <1>3 DEF AssertInt, Blocked, Fail, Alive, CallContext
<1>4. CASE Check \/ AssertMsg \/ Block
  BY <1>4 DEF Moves
<1>5. CASE \/ TestFlags \/ TestFrom \/ Copy \/ ClearMsg \/ ClearFlags
           \/ ClearFrom \/ TestInt \/ CopyInt \/ ClearInt \/ SetFlags
           \/ SetMsg \/ SetFrom
  <2>1. Alive'
    BY <1>5
       DEF CallContext, TestFlags, TestFrom, Copy, ClearMsg, ClearFlags,
           ClearFrom, TestInt, CopyInt, ClearInt, SetFlags, SetMsg, SetFrom,
           Alive, vars
  <2>. QED
    BY <1>5, <2>1 DEF Moves
<1>. QED
  BY <1>1, <1>2, <1>3, <1>4, <1>5 DEF SendSteps, ReceiveSteps

LEMMA StepUndisturbed ==
  ASSUME AtomicInv, AtomicNext, ~struck'
  PROVE  (Alive => Undisturbed)' /\ OnlyUnaskedInterruptFails'
<1>1. CASE Calls
  <2>1. call = NoCall /\ Alive
    BY <1>1 DEF Calls, TrapSend, TrapReceive, Trap
  <2>2. Undisturbed' /\ UNCHANGED <<failed, wild>>
    BY <1>1, <2>1, TrapUndisturbed, Histories
  <2>. QED
    BY <2>1, <2>2, Histories DEF AtomicInv, OnlyUnaskedInterruptFails, Alive
<1>2. ASSUME NEW t \in IntTasks, Irq(t), ~Window(t)
      PROVE  (Alive => Undisturbed)' /\ OnlyUnaskedInterruptFails'
  BY <1>2, IrqUndisturbed, Histories DEF OnlyUnaskedInterruptFails
<1>3. CASE SendSteps \/ ReceiveSteps
  <2>1. CallContext /\ before' = before
    BY <1>3, Histories, InProgress, InContext
  <2>2. CASE Moves
    BY <2>1, <2>2, MovedOn, MovesUndisturbed
       DEF AtomicInv, OnlyUnaskedInterruptFails
  <2>3. CASE Return /\ UNCHANGED <<failed, wild>>
    BY <2>1, <2>3 DEF Return, Undisturbed, CallMade, TestsHold, BuffersKept,
                      InCall, CallContext, OnlyUnaskedInterruptFails
  <2>4. CASE Pick /\ Return
    BY <2>3, <2>4 DEF Pick
  <2>5. CASE Pick /\ ~Return
    BY <2>1, <2>5, PickUndisturbed DEF CallContext, OnlyUnaskedInterruptFails
  <2>6. CASE /\ Check \/ AssertMsg \/ AssertInt \/ Block \/ Blocked
             /\ ~Alive'
    BY <2>1, <2>6, StopsOnlyUnasked DEF OnlyUnaskedInterruptFails
  <2>. QED
    BY <1>3, <2>1, <2>2, <2>3, <2>4, <2>5, <2>6, StepKinds
<1>. QED
  BY <1>1, <1>2, <1>3, Histories

LEMMA NextAtomicInv == AtomicInv /\ [AtomicNext]_atomicVars => AtomicInv'
<1>. SUFFICES ASSUME AtomicInv, [AtomicNext]_atomicVars PROVE AtomicInv'
  OBVIOUS
<1>1. IrqInv'
  BY NextIrqInv DEF AtomicInv, AtomicNext, IrqNext, atomicVars
<1>2. buf \in [Procs -> Message] /\ buf' \in [Procs -> Message]
  BY <1>1 DEF AtomicInv, IrqInv, IrqTypes, TypeOK
<1>3. CASE AtomicNext
  <2>1. struck' \in BOOLEAN /\ before' \in [Procs -> Message]
    BY <1>2, <1>3 DEF AtomicNext, AtomicInv
  <2>2. CASE struck'
    BY <1>1, <2>1, <2>2 DEF AtomicInv, OnlyUnaskedInterruptFails
  <2>3. CASE ~struck'
    BY <1>1, <1>3, <2>1, <2>3, StepUndisturbed DEF AtomicInv
  <2>. QED
    BY <2>2, <2>3
<1>4. CASE UNCHANGED atomicVars
  BY <1>1, <1>4
     DEF atomicVars, irqVars, vars, ipcVars, AtomicInv, Undisturbed, CallMade,
         TestsHold, BuffersKept, InCall, Alive, WaitsFor, Receiving, IntPending,
         OnlyUnaskedInterruptFails
<1>. QED
  BY <1>3, <1>4

LEMMA AtomicInductive == AtomicSpec => []AtomicInv
  BY InitAtomicInv, NextAtomicInv, PTL DEF AtomicSpec

----------------------------------------------------------------------------
\* The steps that Ipc does not see: until the call takes effect, and from there
\* to its end.
AtomicSame ==
  /\ AtomicBuf' = AtomicBuf /\ AtomicMsg' = AtomicMsg
  /\ AtomicFlags' = AtomicFlags /\ AtomicFrom' = AtomicFrom
  /\ AtomicInt' = AtomicInt /\ AtomicReply' = AtomicReply
  /\ UNCHANGED <<p_sendto, q_sending, halted \/ failed # 0>>

LEMMA AtomicSameStutters == AtomicSame => UNCHANGED A!vars
  BY DEF AtomicSame, A!vars, A!ipcVars

\* A statement that only tests.
LEMMA TestsUnseen ==
  ASSUME CallContext, Moves, Moved, before' = before,
         Check \/ TestFlags \/ TestFrom \/ AssertMsg \/ TestInt \/ Block
  PROVE  AtomicSame
<1>1. /\ UNCHANGED <<ipcVars, buf, reply_from, halted, failed>>
      /\ \/ /\ call.pc \in {"check", "test_flags", "test_from", "assert_msg"}
            /\ call'.pc \in {"test_flags", "test_from", "assert_msg", "copy",
                             "enqueue"}
         \/ call.pc = "test_int" /\ call'.pc \in {"copy_int", "pick"}
         \/ call.pc = "block" /\ call'.pc = "blocked"
  <2>. USE DEF At, Goto, vars, Moved, CallContext, Call
  <2>1. CASE Check
    BY <2>1, CheckPasses
  <2>2. CASE TestFlags
    BY <2>2 DEF TestFlags
  <2>3. CASE TestFrom
    BY <2>3 DEF TestFrom
  <2>4. CASE AssertMsg
    BY <2>4, AssertMsgPasses
  <2>5. CASE TestInt
    BY <2>5 DEF TestInt
  <2>6. CASE Block
    BY <2>6, BlockPasses
  <2>. QED
    BY <2>1, <2>2, <2>3, <2>4, <2>5, <2>6
<1>. USE <1>1 DEF Moved, Alive, ipcVars, InCall, SendPcs, ReceivePcs, Pending,
                  Committed
<1>2. AtomicBuf' = AtomicBuf
  BY DEF AtomicBuf, Handing
<1>3. AtomicMsg' = AtomicMsg
  BY DEF AtomicMsg
<1>4. AtomicFlags' = AtomicFlags /\ AtomicFrom' = AtomicFrom
  BY DEF AtomicFlags, AtomicFrom
<1>5. AtomicInt' = AtomicInt /\ AtomicReply' = AtomicReply
  BY DEF AtomicInt, AtomicReply
<1>. QED
  BY <1>2, <1>3, <1>4, <1>5 DEF AtomicSame

\* A statement that writes what the call has not shown yet, or shows no more.
LEMMA WritesUnseen ==
  ASSUME CallContext, Moved, before' = before,
         \/ Copy \/ ClearMsg \/ ClearFrom
         \/ CopyInt \/ ClearInt \/ SetFlags \/ SetMsg \/ SetFrom
  PROVE  AtomicSame
<1>0. Copy \/ ClearMsg => p_msg[call.peer] /\ call.peer \in Procs
  BY PartnerReady DEF Copy, ClearMsg, At, InCall, CallContext, SendPcs
<1>. USE IpcAssumption
     DEF CallContext, AtomicTypes, Undisturbed, At, Goto, Moved, Alive, ipcVars,
         InCall, SendPcs, ReceivePcs, Pending, Committed
<1>1. AtomicBuf' = AtomicBuf
  <2>. USE DEF AtomicBuf, Handing, BuffersKept, TestsHold, WaitsFor, Receiving
  <2>1. CASE Copy
    BY <2>1, <1>0 DEF Copy
  <2>2. CASE ClearMsg
    BY <2>2, <1>0 DEF ClearMsg
  <2>3. CASE ClearFrom
    BY <2>3 DEF ClearFrom
  <2>4. CASE CopyInt
    BY <2>4 DEF CopyInt
  <2>5. CASE ClearInt
    BY <2>5 DEF ClearInt
  <2>6. CASE SetFlags
    BY <2>6 DEF SetFlags
  <2>7. CASE SetMsg
    BY <2>7 DEF SetMsg
  <2>8. CASE SetFrom
    BY <2>8 DEF SetFrom
  <2>. QED
    BY <2>1, <2>2, <2>3, <2>4, <2>5, <2>6, <2>7, <2>8
<1>2. AtomicMsg' = AtomicMsg
  <2>. USE DEF AtomicMsg, SendInv, ReceiveInv, HalfBlocked
  <2>1. CASE Copy
    BY <2>1, <1>0 DEF Copy
  <2>2. CASE ClearMsg
    BY <2>2, <1>0 DEF ClearMsg
  <2>3. CASE ClearFrom
    BY <2>3 DEF ClearFrom
  <2>4. CASE CopyInt
    BY <2>4 DEF CopyInt
  <2>5. CASE ClearInt
    BY <2>5 DEF ClearInt
  <2>6. CASE SetFlags
    BY <2>6 DEF SetFlags
  <2>7. CASE SetMsg
    BY <2>7 DEF SetMsg
  <2>8. CASE SetFrom
    BY <2>8 DEF SetFrom
  <2>. QED
    BY <2>1, <2>2, <2>3, <2>4, <2>5, <2>6, <2>7, <2>8
<1>3. AtomicFlags' = AtomicFlags
  <2>. USE DEF AtomicFlags, SendInv, ReceiveInv, Idle
  <2>1. CASE Copy
    BY <2>1 DEF Copy
  <2>2. CASE ClearMsg
    BY <2>2 DEF ClearMsg
  <2>3. CASE ClearFrom
    BY <2>3 DEF ClearFrom
  <2>4. CASE CopyInt
    BY <2>4 DEF CopyInt
  <2>5. CASE ClearInt
    BY <2>5 DEF ClearInt
  <2>6. CASE SetFlags
    BY <2>6 DEF SetFlags
  <2>7. CASE SetMsg
    BY <2>7 DEF SetMsg
  <2>8. CASE SetFrom
    BY <2>8 DEF SetFrom
  <2>. QED
    BY <2>1, <2>2, <2>3, <2>4, <2>5, <2>6, <2>7, <2>8
<1>4. AtomicFrom' = AtomicFrom
  <2>. USE DEF AtomicFrom, SendInv, ReceiveInv, Idle, HalfBlocked
  <2>1. CASE Copy
    BY <2>1 DEF Copy
  <2>2. CASE ClearMsg
    BY <2>2 DEF ClearMsg
  <2>3. CASE ClearFrom
    BY <2>3 DEF ClearFrom
  <2>4. CASE CopyInt
    BY <2>4 DEF CopyInt
  <2>5. CASE ClearInt
    BY <2>5 DEF ClearInt
  <2>6. CASE SetFlags
    BY <2>6 DEF SetFlags
  <2>7. CASE SetMsg
    BY <2>7 DEF SetMsg
  <2>8. CASE SetFrom
    BY <2>8 DEF SetFrom
  <2>. QED
    BY <2>1, <2>2, <2>3, <2>4, <2>5, <2>6, <2>7, <2>8
<1>5. AtomicInt' = AtomicInt
  <2>. USE DEF AtomicInt, TestsHold
  <2>1. CASE Copy
    BY <2>1 DEF Copy
  <2>2. CASE ClearMsg
    BY <2>2 DEF ClearMsg
  <2>3. CASE ClearFrom
    BY <2>3 DEF ClearFrom
  <2>4. CASE CopyInt
    BY <2>4 DEF CopyInt
  <2>5. CASE ClearInt
    BY <2>5 DEF ClearInt
  <2>6. CASE SetFlags
    BY <2>6 DEF SetFlags
  <2>7. CASE SetMsg
    BY <2>7 DEF SetMsg
  <2>8. CASE SetFrom
    BY <2>8 DEF SetFrom
  <2>. QED
    BY <2>1, <2>2, <2>3, <2>4, <2>5, <2>6, <2>7, <2>8
<1>6. AtomicReply' = AtomicReply
  <2>. USE DEF AtomicReply
  <2>1. CASE Copy
    BY <2>1 DEF Copy
  <2>2. CASE ClearMsg
    BY <2>2 DEF ClearMsg
  <2>3. CASE ClearFrom
    BY <2>3 DEF ClearFrom
  <2>4. CASE CopyInt
    BY <2>4 DEF CopyInt
  <2>5. CASE ClearInt
    BY <2>5 DEF ClearInt
  <2>6. CASE SetFlags
    BY <2>6 DEF SetFlags
  <2>7. CASE SetMsg
    BY <2>7 DEF SetMsg
  <2>8. CASE SetFrom
    BY <2>8 DEF SetFrom
  <2>. QED
    BY <2>1, <2>2, <2>3, <2>4, <2>5, <2>6, <2>7, <2>8
<1>7. UNCHANGED <<p_sendto, q_sending, halted, failed>>
  BY DEF Copy, ClearMsg, ClearFrom, CopyInt, ClearInt, SetFlags, SetMsg, SetFrom
<1>. QED
  BY <1>1, <1>2, <1>3, <1>4, <1>5, <1>6, <1>7 DEF AtomicSame

----------------------------------------------------------------------------
\* What a call finds in the state that Ipc sees.
LEMMA ShownAtRest ==
  ASSUME AtomicInv, Alive, call = NoCall
  PROVE  /\ AtomicBuf = buf /\ AtomicMsg = p_msg /\ AtomicFlags = p_flags
         /\ AtomicFrom = p_recvfrom /\ AtomicInt = has_int_msg
         /\ AtomicReply = reply_from
<1>. USE DEF AtomicInv, IrqInv, IrqTypes, TypeOK, Alive, InCall, Pending, Committed
<1>1. AtomicBuf = buf
  BY DEF AtomicBuf
<1>2. AtomicMsg = p_msg
  BY DEF AtomicMsg
<1>3. AtomicFlags = p_flags /\ AtomicFrom = p_recvfrom
  BY DEF AtomicFlags, AtomicFrom
<1>4. AtomicInt = has_int_msg /\ AtomicReply = reply_from
  BY DEF AtomicInt, AtomicReply
<1>. QED
  BY <1>1, <1>2, <1>3, <1>4

LEMMA ShownInSend ==
  ASSUME CallContext, InCall({"check", "enqueue", "clear_flags"})
  PROVE  /\ AtomicBuf = [buf EXCEPT ![call.proc] = before[call.proc],
                           ![call.peer] = IF call.pc = "clear_flags"
                                            THEN before[call.peer] ELSE @]
         /\ AtomicMsg = [p_msg EXCEPT ![call.peer] =
                           IF call.pc = "clear_flags" THEN TRUE ELSE @]
         /\ AtomicFlags = p_flags /\ AtomicFrom = p_recvfrom
         /\ AtomicInt = has_int_msg /\ AtomicReply = reply_from
<1>. USE DEF CallContext, AtomicTypes, Alive, InCall, SendPcs, Pending, Committed
<1>1. AtomicBuf = [buf EXCEPT ![call.proc] = before[call.proc],
                     ![call.peer] = IF call.pc = "clear_flags"
                                      THEN before[call.peer] ELSE @]
  BY DEF AtomicBuf, Handing
<1>2. AtomicMsg = [p_msg EXCEPT ![call.peer] =
                     IF call.pc = "clear_flags" THEN TRUE ELSE @]
  BY DEF AtomicMsg
<1>3. AtomicFlags = p_flags /\ AtomicFrom = p_recvfrom
  BY DEF AtomicFlags, AtomicFrom
<1>4. AtomicInt = has_int_msg /\ AtomicReply = reply_from
  BY DEF AtomicInt, AtomicReply
<1>. QED
  BY <1>1, <1>2, <1>3, <1>4

LEMMA ShownInReceive ==
  ASSUME CallContext, InCall({"assert_int", "pick", "blocked"})
  PROVE  /\ AtomicBuf = [buf EXCEPT ![call.proc] = before[call.proc]]
         /\ AtomicMsg = [p_msg EXCEPT ![call.proc] = FALSE]
         /\ AtomicFlags = [p_flags EXCEPT ![call.proc] = {}]
         /\ AtomicFrom = [p_recvfrom EXCEPT ![call.proc] = NO_TASK]
         /\ AtomicInt = [has_int_msg EXCEPT ![call.proc] =
                           IF call.pc = "assert_int" THEN TRUE ELSE @]
         /\ AtomicReply = reply_from
<1>. USE DEF CallContext, AtomicTypes, Alive, InCall, ReceivePcs, Pending, Committed
<1>1. AtomicBuf = [buf EXCEPT ![call.proc] = before[call.proc]]
  BY DEF AtomicBuf, Handing
<1>2. /\ AtomicMsg = [p_msg EXCEPT ![call.proc] = FALSE]
      /\ AtomicFlags = [p_flags EXCEPT ![call.proc] = {}]
      /\ AtomicFrom = [p_recvfrom EXCEPT ![call.proc] = NO_TASK]
  BY DEF AtomicMsg, AtomicFlags, AtomicFrom, ReceiveInv, Idle
<1>3. AtomicInt = [has_int_msg EXCEPT ![call.proc] =
                     IF call.pc = "assert_int" THEN TRUE ELSE @]
  BY DEF AtomicInt
<1>4. AtomicReply = reply_from
  BY DEF AtomicReply
<1>. QED
  BY <1>1, <1>2, <1>3, <1>4

\* Who sends to whom is the same in both.
LEMMA SendersAgree ==
  ASSUME CallContext
  PROVE  /\ \A p, d \in Procs : A!Deadlock(p, d) <=> Deadlock(p, d)
         /\ \A p, s : A!SenderReady(p, s) <=> SenderReady(p, s)
<1>1. \A p \in Procs : A!Sending(p) <=> Sending(p)
  <2>1. \A p \in Procs : SENDING \in AtomicFlags[p] <=> SENDING \in p_flags[p]
    BY IpcAssumption
       DEF CallContext, AtomicTypes, AtomicFlags, Pending, Committed, InCall,
           ReceiveInv,
           HalfBlocked, Woken, Idle, SENDING, RECEIVING
  <2>. QED
    BY <2>1 DEF A!Sending, A!SENDING, Sending, SENDING
<1>2. \A S \in SUBSET Procs : A!ClosedUnderSendto(S) <=> ClosedUnderSendto(S)
  BY <1>1 DEF A!ClosedUnderSendto, ClosedUnderSendto
<1>3. \A p, d \in Procs : A!Deadlock(p, d) <=> Deadlock(p, d)
  BY <1>1, <1>2 DEF A!Deadlock, Deadlock
<1>4. \A p, s : A!SenderReady(p, s) <=> SenderReady(p, s)
  BY <1>1 DEF A!SenderReady, SenderReady
<1>. QED
  BY <1>3, <1>4

----------------------------------------------------------------------------
\* The step in which a call takes effect is a step of the call of Ipc.
LEMMA SendTakesEffect ==
  ASSUME CallContext, InCall({"check", "enqueue", "clear_flags"}),
         A!MsgSend(call.proc, call.peer, call.m),
         AtomicReply' \in {AtomicReply,
                           [AtomicReply EXCEPT ![call.proc] = call.reply]}
  PROVE  A!Next
<1>. DEFINE p == call.proc
            d == call.peer
            t == call.m.type
<1>1. /\ p \in Procs /\ d \in Procs /\ d # p /\ t \in Types
      /\ call.m = [source |-> p, type |-> t]
      /\ reply_from[p] = NO_TASK /\ call.reply \in {NO_TASK, d}
  <2>1. call.pc \in SendPcs /\ call # NoCall /\ call.m \in Message
    BY DEF CallContext, InCall, SendPcs, Call
  <2>. QED
    BY <2>1 DEF CallContext, Undisturbed, CallMade, Message
<1>2. A!Runnable(p) /\ AtomicReply = reply_from
  BY ShownInSend DEF CallContext, SendInv, InCall, SendPcs, Idle, Alive, A!Runnable
<1>3. \/ AtomicReply' = AtomicReply
      \/ AtomicReply' = [AtomicReply EXCEPT ![p] = d]
  BY <1>1, <1>2 DEF CallContext, AtomicTypes
<1>4. A!Send(p, d, t) \/ A!SendRec(p, d, t)
  BY <1>1, <1>2, <1>3 DEF A!Send, A!SendRec
<1>. QED
  BY <1>1, <1>4 DEF A!Next

LEMMA ReceiveTakesEffect ==
  ASSUME CallContext, InCall({"assert_int", "pick", "blocked"}),
         A!MsgReceive(call.proc, call.peer, call.m),
         AtomicReply' = [AtomicReply EXCEPT ![call.proc] = NO_TASK]
  PROVE  A!Next
<1>. DEFINE p == call.proc
            s == call.peer
<1>1. /\ p \in Procs /\ s \in Procs \union {ANY, INTERRUPT} /\ s # p
      /\ IF reply_from[p] = NO_TASK
           THEN /\ call.m = [source |-> p, type |-> NoType]
                /\ s = INTERRUPT => p \in IntTasks
           ELSE /\ s = reply_from[p]
                /\ call.m = [before[p] EXCEPT !.source = p]
  BY DEF CallContext, Undisturbed, CallMade, InCall, ReceivePcs, Call
<1>2. A!Runnable(p) /\ AtomicReply = reply_from /\ AtomicBuf[p] = before[p]
  BY <1>1, ShownInReceive DEF CallContext, AtomicTypes, Alive, A!Runnable
<1>3. CASE reply_from[p] = NO_TASK
  <2>1. AtomicReply' = AtomicReply
    BY <1>2, <1>3 DEF CallContext, AtomicTypes
  <2>2. A!Receive(p, s)
    BY <1>1, <1>2, <1>3, <2>1 DEF A!Receive
  <2>. QED
    BY <1>1, <2>2 DEF A!Next
<1>4. CASE reply_from[p] # NO_TASK
  <2>1. A!Reply(p)
    BY <1>1, <1>2, <1>4 DEF A!Reply
  <2>. QED
    BY <1>1, <2>1 DEF A!Next
<1>. QED
  BY <1>3, <1>4

\* When the call is over nothing is hidden.
LEMMA ShownAfterReturn ==
  ASSUME AtomicInv', Return, Alive'
  PROVE  /\ AtomicBuf' = buf' /\ AtomicMsg' = p_msg' /\ AtomicFlags' = p_flags'
         /\ AtomicFrom' = p_recvfrom' /\ AtomicInt' = has_int_msg'
         /\ AtomicReply' = [reply_from EXCEPT ![call.proc] = call.reply]
<1>. USE DEF AtomicInv, IrqInv, IrqTypes, TypeOK, Alive, InCall, Pending, Committed,
             Return
<1>1. AtomicBuf' = buf' /\ AtomicMsg' = p_msg'
  BY DEF AtomicBuf, AtomicMsg
<1>2. AtomicFlags' = p_flags' /\ AtomicFrom' = p_recvfrom'
  BY DEF AtomicFlags, AtomicFrom
<1>3. /\ AtomicInt' = has_int_msg'
      /\ AtomicReply' = [reply_from EXCEPT ![call.proc] = call.reply]
  BY DEF AtomicInt, AtomicReply
<1>. QED
  BY <1>1, <1>2, <1>3

\* msg_send() hands the message over: Ipc sees it when the partner is runnable.
LEMMA ClearFlagsHandsOver ==
  ASSUME CallContext, Moved, ClearFlags
  PROVE  A!Next
<1>. USE IpcAssumption
<1>. DEFINE p == call.proc
            d == call.peer
<1>1. /\ InCall({"clear_flags"}) /\ call.pc = "clear_flags" /\ call' # NoCall
      /\ call'.pc = "clear_from" /\ call'.proc = p /\ call'.peer = d
      /\ call'.reply = call.reply
      /\ p_flags' = [p_flags EXCEPT ![d] = @ \ {RECEIVING}]
      /\ UNCHANGED <<p_recvfrom, p_sendto, p_msg, has_int_msg, q_sending, buf>>
      /\ UNCHANGED <<reply_from, halted, failed>>
  BY DEF ClearFlags, At, InCall, Goto, Moved, Call, CallContext
<1>2. /\ p \in Procs /\ d \in Procs /\ p # d
      /\ InCall({"check", "enqueue", "clear_flags"})
      /\ InCall(SendPcs) /\ InCall(SendPcs \ {"check"})
      /\ InCall({"clear_msg", "clear_flags"})
      /\ InCall({"assert_msg", "copy", "clear_msg", "clear_flags"})
  BY <1>1 DEF CallContext, InCall, SendPcs
<1>3. /\ ~Deadlock(p, d) /\ WaitsFor(d, p) /\ ~p_msg[d]
      /\ buf[p] = call.m /\ buf[d] = call.m
  BY <1>1, <1>2 DEF CallContext, SendInv, Undisturbed, TestsHold, BuffersKept
<1>4. /\ AtomicBuf' = [AtomicBuf EXCEPT ![p] = call.m, ![d] = call.m]
      /\ AtomicMsg' = [AtomicMsg EXCEPT ![d] = FALSE]
  <2>1. AtomicBuf' = buf' /\ AtomicMsg' = p_msg'
    BY <1>1 DEF CallContext, AtomicTypes, AtomicBuf, AtomicMsg, InCall, Pending,
                Committed
  <2>. QED
    BY <1>1, <1>2, <1>3, <2>1, ShownInSend DEF CallContext, AtomicTypes
<1>5. /\ AtomicFlags' = [AtomicFlags EXCEPT ![d] = @ \ {RECEIVING}]
      /\ AtomicFrom' = [AtomicFrom EXCEPT ![d] = NO_TASK]
      /\ AtomicInt' = AtomicInt
      /\ AtomicReply' = [AtomicReply EXCEPT ![p] = call.reply]
  <2>1. AtomicFlags' = p_flags'
    BY <1>1 DEF CallContext, AtomicTypes, AtomicFlags, InCall, Pending, Committed
  <2>2. AtomicFrom' = [p_recvfrom EXCEPT ![d] = NO_TASK]
    BY <1>1 DEF CallContext, AtomicTypes, AtomicFrom, InCall, Pending, Committed
  <2>3. AtomicInt' = has_int_msg
    BY <1>1 DEF CallContext, AtomicTypes, AtomicInt, InCall
  <2>4. AtomicReply' = [reply_from EXCEPT ![p] = call.reply]
    BY <1>1 DEF CallContext, AtomicTypes, AtomicReply, InCall, Committed, Alive
  <2>. QED
    BY <1>1, <1>2, <2>1, <2>2, <2>3, <2>4, ShownInSend
<1>6. A!WaitsFor(d, p) /\ ~A!Deadlock(p, d)
  BY <1>2, <1>3, ShownInSend, SendersAgree
     DEF A!WaitsFor, A!Receiving, A!RECEIVING, WaitsFor, Receiving, RECEIVING
<1>7. A!Handover(p, d, call.m)
  BY <1>1, <1>4, <1>5, <1>6 DEF A!Handover, A!RECEIVING, RECEIVING
<1>. QED
  BY <1>2, <1>5, <1>7, SendTakesEffect DEF A!MsgSend

\* msg_send() queues the caller.
LEMMA EnqueueSenderEnqueues ==
  ASSUME CallContext, AtomicInv', EnqueueSender
  PROVE  A!Next
<1>. USE IpcAssumption
<1>. DEFINE p == call.proc
            d == call.peer
<1>1. /\ InCall({"enqueue"}) /\ call.pc = "enqueue" /\ Return /\ Alive'
      /\ p_flags' = [p_flags EXCEPT ![p] = @ \union {SENDING}]
      /\ p_sendto' = [p_sendto EXCEPT ![p] = d]
      /\ p_msg' = [p_msg EXCEPT ![p] = TRUE]
      /\ q_sending' = [q_sending EXCEPT ![d] = Append(@, p)]
      /\ UNCHANGED <<p_recvfrom, has_int_msg, buf, halted, failed>>
  BY DEF EnqueueSender, At, InCall, CallContext, Alive
<1>2. /\ p \in Procs /\ d \in Procs /\ p # d
      /\ InCall({"check", "enqueue", "clear_flags"})
      /\ InCall(SendPcs) /\ InCall(SendPcs \ {"check"})
  BY <1>1 DEF CallContext, InCall, SendPcs
<1>3. ~Deadlock(p, d) /\ ~WaitsFor(d, p) /\ buf[p] = call.m
  BY <1>1, <1>2 DEF CallContext, SendInv
<1>4. /\ AtomicBuf' = [AtomicBuf EXCEPT ![p] = call.m]
      /\ AtomicMsg' = [AtomicMsg EXCEPT ![p] = TRUE]
      /\ AtomicFlags' = [AtomicFlags EXCEPT ![p] = @ \union {SENDING}]
      /\ AtomicFrom' = AtomicFrom /\ AtomicInt' = AtomicInt
      /\ AtomicReply' = [AtomicReply EXCEPT ![p] = call.reply]
  BY <1>1, <1>2, <1>3, ShownInSend, ShownAfterReturn DEF CallContext, AtomicTypes
<1>5. ~A!WaitsFor(d, p) /\ ~A!Deadlock(p, d)
  BY <1>2, <1>3, ShownInSend, SendersAgree
     DEF A!WaitsFor, A!Receiving, A!RECEIVING, WaitsFor, Receiving, RECEIVING
<1>6. A!Enqueue(p, d, call.m)
  BY <1>1, <1>4, <1>5 DEF A!Enqueue, A!SENDING, SENDING
<1>. QED
  BY <1>2, <1>4, <1>6, SendTakesEffect DEF A!MsgSend

\* deadlock() finds a cycle.
LEMMA CheckPanics ==
  ASSUME CallContext, Check, call' = call, failed' = 0, halted' = TRUE
  PROVE  A!Next
<1>. USE IpcAssumption
<1>. DEFINE p == call.proc
            d == call.peer
<1>1. /\ InCall({"check"}) /\ call.pc = "check" /\ Deadlock(p, d)
      /\ UNCHANGED <<ipcVars, buf, reply_from>>
  BY DEF Check, At, InCall, Goto, Alive, CallContext
<1>2. /\ p \in Procs /\ d \in Procs /\ p # d
      /\ InCall({"check", "enqueue", "clear_flags"}) /\ InCall(SendPcs)
      /\ buf[p] = call.m
  BY <1>1 DEF CallContext, InCall, SendPcs, SendInv
<1>3. /\ AtomicBuf' = buf /\ AtomicMsg' = p_msg /\ AtomicFlags' = p_flags
      /\ AtomicFrom' = p_recvfrom /\ AtomicInt' = has_int_msg
      /\ AtomicReply' = reply_from
  <2>. USE <1>1 DEF CallContext, AtomicTypes, InCall, Pending, Committed, ipcVars
  <2>1. AtomicBuf' = buf /\ AtomicMsg' = p_msg
    BY DEF AtomicBuf, AtomicMsg
  <2>2. AtomicFlags' = p_flags /\ AtomicFrom' = p_recvfrom
    BY DEF AtomicFlags, AtomicFrom
  <2>3. AtomicInt' = has_int_msg /\ AtomicReply' = reply_from
    BY DEF AtomicInt, AtomicReply
  <2>. QED
    BY <2>1, <2>2, <2>3
<1>4. /\ AtomicBuf' = [AtomicBuf EXCEPT ![p] = call.m]
      /\ AtomicMsg' = AtomicMsg /\ AtomicFlags' = AtomicFlags
      /\ AtomicFrom' = AtomicFrom /\ AtomicInt' = AtomicInt
      /\ AtomicReply' = AtomicReply
  BY <1>1, <1>2, <1>3, ShownInSend DEF CallContext, AtomicTypes
<1>5. A!PanicOnCycle(p, d, call.m)
  BY <1>1, <1>2, <1>4, SendersAgree DEF A!PanicOnCycle, A!ipcVars, ipcVars
<1>. QED
  BY <1>2, <1>4, <1>5, SendTakesEffect DEF A!MsgSend

\* msg_receive() takes a pending interrupt's message.
LEMMA AssertIntTakes ==
  ASSUME CallContext, AtomicInv', AssertInt, Return, UNCHANGED <<failed, halted>>
  PROVE  A!Next
<1>. USE IpcAssumption
<1>. DEFINE p == call.proc
            s == call.peer
<1>1. /\ InCall({"assert_int"}) /\ call.pc = "assert_int" /\ Alive'
      /\ UNCHANGED <<ipcVars, buf, halted, failed>>
  BY DEF AssertInt, At, InCall, CallContext, Alive
<1>2. /\ InCall({"assert_int", "pick", "blocked"})
      /\ InCall({"copy_int", "clear_int", "assert_int"})
      /\ InCall({"clear_int", "assert_int"})
      /\ InCall({"assert_int", "pick", "set_flags", "set_msg", "set_from",
                 "block", "blocked"})
      /\ InCall({"test_int", "copy_int", "clear_int", "assert_int", "pick",
                 "set_flags"})
      /\ call.pc \in ReceivePcs
  BY <1>1 DEF InCall, ReceivePcs
<1>3. /\ s \in {ANY, INTERRUPT} /\ ~has_int_msg[p] /\ Idle(p)
      /\ buf[p] = [source |-> INTERRUPT, type |-> HARD_INT]
      /\ call.reply = NO_TASK
  BY <1>1, <1>2
     DEF CallContext, ReceiveInv, Undisturbed, TestsHold, BuffersKept, CallMade,
         IntPending
<1>s. /\ AtomicBuf = [buf EXCEPT ![p] = before[p]]
      /\ AtomicMsg = [p_msg EXCEPT ![p] = FALSE]
      /\ AtomicFlags = [p_flags EXCEPT ![p] = {}]
      /\ AtomicFrom = [p_recvfrom EXCEPT ![p] = NO_TASK]
      /\ AtomicInt = [has_int_msg EXCEPT ![p] = TRUE]
      /\ AtomicReply = reply_from
      /\ AtomicBuf' = buf' /\ AtomicMsg' = p_msg' /\ AtomicFlags' = p_flags'
      /\ AtomicFrom' = p_recvfrom' /\ AtomicInt' = has_int_msg'
      /\ AtomicReply' = [reply_from EXCEPT ![p] = NO_TASK]
  BY <1>1, <1>2, <1>3, ShownInReceive, ShownAfterReturn
<1>4. /\ AtomicBuf' = [AtomicBuf EXCEPT ![p] = [source |-> INTERRUPT,
                                                type |-> HARD_INT]]
      /\ AtomicMsg' = AtomicMsg /\ AtomicFlags' = AtomicFlags
      /\ AtomicFrom' = AtomicFrom
  BY <1>1, <1>3, <1>s DEF CallContext, AtomicTypes, ipcVars, Idle
<1>5. /\ AtomicInt[p] /\ AtomicInt' = [AtomicInt EXCEPT ![p] = FALSE]
      /\ AtomicReply' = [AtomicReply EXCEPT ![p] = NO_TASK]
  BY <1>1, <1>3, <1>s DEF CallContext, AtomicTypes, ipcVars
<1>6. A!TakeInterrupt(p, s)
  BY <1>1, <1>3, <1>4, <1>5 DEF A!TakeInterrupt, A!IntPending, ipcVars
<1>. QED
  BY <1>2, <1>5, <1>6, ReceiveTakesEffect DEF A!MsgReceive

\* msg_receive() takes a queued sender's message.
LEMMA PickTakes ==
  ASSUME CallContext, AtomicInv, AtomicInv', Pick, Return
  PROVE  A!Next
<1>. USE IpcAssumption
<1>. DEFINE p == call.proc
            s == call.peer
<1>1. /\ InCall({"pick"}) /\ call.pc = "pick"
      /\ SenderReady(p, s) /\ Fetch(p, s) /\ UNCHANGED failed
  BY DEF Pick, At, InCall, Goto, Return, CallContext, Call, NoCall
<1>2. /\ InCall({"assert_int", "pick", "blocked"})
      /\ InCall({"assert_int", "pick", "set_flags", "set_msg", "set_from",
                 "block", "blocked"})
      /\ InCall({"test_int", "copy_int", "clear_int", "assert_int", "pick",
                 "set_flags"})
      /\ call.pc \in ReceivePcs
  BY <1>1 DEF InCall, ReceivePcs
<1>3. ~IntPending(p, s) /\ Idle(p) /\ call.reply = NO_TASK
  BY <1>1, <1>2 DEF CallContext, ReceiveInv, Undisturbed, TestsHold, CallMade
<1>4. PICK i \in 1 .. Len(q_sending[p]), from \in Procs :
        /\ from = q_sending[p][i] /\ from # p
        /\ IF s = ANY THEN i = 1 ELSE from = s
        /\ q_sending' = [q_sending EXCEPT ![p] = RemoveAt(@, i)]
        /\ buf' = [buf EXCEPT ![p] = buf[from]]
        /\ p_msg' = [p_msg EXCEPT ![from] = FALSE]
        /\ p_sendto' = [p_sendto EXCEPT ![from] = NO_TASK]
        /\ p_flags' = [p_flags EXCEPT ![from] = @ \ {SENDING}]
  <2>1. q_sending[p] \in Seq(Procs)
    BY DEF AtomicInv, IrqInv, IrqTypes, TypeOK, CallContext
  <2>2. PICK i \in 1 .. Len(q_sending[p]) :
          LET from == q_sending[p][i] IN
          /\ IF s = ANY THEN i = 1 ELSE from = s
          /\ q_sending' = [q_sending EXCEPT ![p] = RemoveAt(@, i)]
          /\ buf' = [buf EXCEPT ![p] = buf[from]]
          /\ p_msg' = [p_msg EXCEPT ![from] = FALSE]
          /\ p_sendto' = [p_sendto EXCEPT ![from] = NO_TASK]
          /\ p_flags' = [p_flags EXCEPT ![from] = @ \ {SENDING}]
    BY <1>1 DEF Fetch
  <2>3. q_sending[p][i] \in Procs
    BY <2>1, ElementOfSeq
  <2>4. Sending(q_sending[p][i]) /\ p_sendto[q_sending[p][i]] = p
    <3>1. Contains(q_sending[p], q_sending[p][i])
      BY <2>1 DEF Contains
    <3>. QED
      BY <2>3, <3>1 DEF AtomicInv, IrqInv, QueueInv, CallContext
  <2>5. q_sending[p][i] # p
    BY <1>3, <2>4 DEF Idle, Sending
  <2>. QED
    BY <2>2, <2>3, <2>5
<1>5. /\ UNCHANGED <<p_recvfrom, has_int_msg, halted>> /\ Alive'
  BY <1>1 DEF Fetch, CallContext, Alive
<1>s. /\ AtomicBuf = [buf EXCEPT ![p] = before[p]]
      /\ AtomicMsg = [p_msg EXCEPT ![p] = FALSE]
      /\ AtomicFlags = [p_flags EXCEPT ![p] = {}]
      /\ AtomicFrom = [p_recvfrom EXCEPT ![p] = NO_TASK]
      /\ AtomicInt = has_int_msg
      /\ AtomicReply = reply_from
      /\ AtomicBuf' = buf' /\ AtomicMsg' = p_msg' /\ AtomicFlags' = p_flags'
      /\ AtomicFrom' = p_recvfrom' /\ AtomicInt' = has_int_msg'
      /\ AtomicReply' = [reply_from EXCEPT ![p] = NO_TASK]
  <2>1. [has_int_msg EXCEPT ![p] = has_int_msg[p]] = has_int_msg
    BY DEF CallContext, AtomicTypes
  <2>. QED
    BY <1>1, <1>2, <1>3, <1>5, <2>1, ShownInReceive, ShownAfterReturn
<1>6. AtomicBuf' = [AtomicBuf EXCEPT ![p] = AtomicBuf[from]]
  BY <1>4, <1>s DEF CallContext, AtomicTypes
<1>7. /\ AtomicMsg' = [AtomicMsg EXCEPT ![from] = FALSE]
      /\ AtomicFlags' = [AtomicFlags EXCEPT ![from] = @ \ {SENDING}]
      /\ AtomicFrom' = AtomicFrom
  BY <1>3, <1>4, <1>5, <1>s DEF CallContext, AtomicTypes, Idle
<1>8. /\ AtomicInt = has_int_msg /\ AtomicInt' = AtomicInt
      /\ AtomicReply' = [AtomicReply EXCEPT ![p] = NO_TASK]
  BY <1>5, <1>s
<1>9. A!Fetch(p, s)
  BY <1>1, <1>4, <1>5, <1>6, <1>7, <1>8
     DEF A!Fetch, A!SENDING, SENDING, A!RemoveAt, RemoveAt
<1>10. A!TakeMessage(p, s)
  BY <1>1, <1>3, <1>8, <1>9, SendersAgree
     DEF A!TakeMessage, A!IntPending, IntPending
<1>. QED
  BY <1>2, <1>8, <1>10, ReceiveTakesEffect DEF A!MsgReceive

\* msg_receive() blocks the caller, or refuses to over an interrupt at line 519.
LEMMA BlockedBlocks ==
  ASSUME CallContext, AtomicInv', Blocked,
         \/ Return /\ UNCHANGED <<failed, halted>>
         \/ failed' = 519 /\ call' = call /\ UNCHANGED halted
  PROVE  A!Next
<1>. USE IpcAssumption
<1>. DEFINE p == call.proc
            s == call.peer
<1>1. /\ InCall({"blocked"}) /\ call.pc = "blocked"
      /\ UNCHANGED <<ipcVars, buf>>
  BY DEF Blocked, At, InCall, CallContext
<1>2. /\ InCall({"assert_int", "pick", "blocked"})
      /\ InCall({"block", "blocked"})
      /\ InCall({"set_flags", "set_msg", "set_from", "block", "blocked"})
      /\ InCall({"assert_int", "pick", "set_flags", "set_msg", "set_from",
                 "block", "blocked"})
      /\ InCall({"test_int", "copy_int", "pick", "set_flags", "set_msg",
                 "set_from", "block", "blocked"})
      /\ call.pc \in ReceivePcs
  BY <1>1 DEF InCall, ReceivePcs
<1>3. /\ ~IntPending(p, s) /\ ~SenderReady(p, s) /\ Receiving(p)
      /\ buf[p] = call.m /\ call.reply = NO_TASK
  BY <1>1, <1>2 DEF CallContext, ReceiveInv, Undisturbed, TestsHold, BuffersKept,
                    CallMade
<1>4. /\ p_flags[p] = {RECEIVING} /\ p_msg[p] /\ p_recvfrom[p] = s
  BY <1>2, <1>3 DEF CallContext, ReceiveInv, Woken, Idle, Receiving
<1>5. /\ call.reply = NO_TASK /\ Alive
      /\ \/ call' = NoCall /\ Alive' /\ ~has_int_msg[p]
            /\ reply_from' = [reply_from EXCEPT ![p] = NO_TASK]
         \/ call' = call /\ failed' = 519 /\ ~halted' /\ has_int_msg[p]
            /\ UNCHANGED reply_from
  BY <1>3, <1>4 DEF Blocked, Fail, Return, CallContext, Alive
<1>r. /\ AtomicBuf' = buf /\ AtomicMsg' = p_msg /\ AtomicFlags' = p_flags
      /\ AtomicFrom' = p_recvfrom /\ AtomicInt' = has_int_msg
      /\ AtomicReply' = [reply_from EXCEPT ![p] = NO_TASK]
  <2>. USE <1>1, <1>5 DEF InCall, Pending, Committed, ipcVars, Alive
  <2>1. AtomicBuf' = buf /\ AtomicMsg' = p_msg
    BY DEF CallContext, AtomicTypes, AtomicBuf, AtomicMsg
  <2>2. AtomicFlags' = p_flags /\ AtomicFrom' = p_recvfrom
    BY DEF CallContext, AtomicTypes, AtomicFlags, AtomicFrom
  <2>3. AtomicInt' = has_int_msg
    BY DEF CallContext, AtomicTypes, AtomicInt
  <2>4. AtomicReply' = [reply_from EXCEPT ![p] = NO_TASK]
    <3>1. CASE call' = NoCall
      BY <3>1 DEF CallContext, AtomicTypes, AtomicReply
    <3>2. CASE call' = call /\ failed' = 519
      <4>1. Committed' /\ ~halted'
        BY <3>2 DEF Committed
      <4>. QED
        BY <3>2, <4>1 DEF CallContext, AtomicTypes, AtomicReply
    <3>. QED
      BY <3>1, <3>2
  <2>. QED
    BY <2>1, <2>2, <2>3, <2>4
<1>s. /\ AtomicBuf = [buf EXCEPT ![p] = before[p]]
      /\ AtomicMsg = [p_msg EXCEPT ![p] = FALSE]
      /\ AtomicFlags = [p_flags EXCEPT ![p] = {}]
      /\ AtomicFrom = [p_recvfrom EXCEPT ![p] = NO_TASK]
      /\ AtomicInt = has_int_msg
      /\ AtomicReply = reply_from
  <2>1. [has_int_msg EXCEPT ![p] = has_int_msg[p]] = has_int_msg
    BY DEF CallContext, AtomicTypes
  <2>. QED
    BY <1>1, <1>2, <2>1, ShownInReceive
<1>6. /\ AtomicBuf' = [AtomicBuf EXCEPT ![p] = call.m]
      /\ AtomicMsg' = [AtomicMsg EXCEPT ![p] = TRUE]
      /\ AtomicFlags' = [AtomicFlags EXCEPT ![p] = @ \union {RECEIVING}]
      /\ AtomicFrom' = [AtomicFrom EXCEPT ![p] = s]
  <2>1. buf = [AtomicBuf EXCEPT ![p] = buf[p]]
    <3>1. /\ buf \in [Procs -> Message] /\ p \in Procs
          /\ AtomicBuf = [buf EXCEPT ![p] = before[p]]
      BY <1>s DEF CallContext, AtomicTypes
    <3>. QED
      BY <3>1
  <2>2. p_msg = [AtomicMsg EXCEPT ![p] = p_msg[p]]
    <3>1. /\ p_msg \in [Procs -> BOOLEAN] /\ p \in Procs
          /\ AtomicMsg = [p_msg EXCEPT ![p] = FALSE]
      BY <1>s DEF CallContext, AtomicTypes
    <3>. QED
      BY <3>1
  <2>3. p_flags = [AtomicFlags EXCEPT ![p] = p_flags[p]]
    <3>1. /\ p_flags \in [Procs -> SUBSET {SENDING, RECEIVING}] /\ p \in Procs
          /\ AtomicFlags = [p_flags EXCEPT ![p] = {}]
      BY <1>s DEF CallContext, AtomicTypes
    <3>. QED
      BY <3>1
  <2>4. p_recvfrom = [AtomicFrom EXCEPT ![p] = p_recvfrom[p]]
    <3>1. /\ p_recvfrom \in [Procs -> Procs \union {ANY, INTERRUPT, NO_TASK}]
          /\ p \in Procs
          /\ AtomicFrom = [p_recvfrom EXCEPT ![p] = NO_TASK]
      BY <1>s DEF CallContext, AtomicTypes
    <3>. QED
      BY <3>1
  <2>5. AtomicFlags[p] \union {RECEIVING} = p_flags[p] /\ p_msg[p] = TRUE
    <3>1. AtomicFlags[p] = {}
      BY <1>s DEF CallContext, AtomicTypes
    <3>. QED
      BY <1>4, <3>1 DEF CallContext, AtomicTypes
  <2>. QED
    BY <1>3, <1>4, <1>r, <2>1, <2>2, <2>3, <2>4, <2>5
<1>7. /\ AtomicInt = has_int_msg /\ AtomicInt' = AtomicInt
      /\ AtomicReply' = [AtomicReply EXCEPT ![p] = NO_TASK]
  BY <1>r, <1>s
<1>8. ~A!IntPending(p, s) /\ ~A!SenderReady(p, s)
  BY <1>3, <1>7, SendersAgree DEF A!IntPending, IntPending
<1>9. (halted \/ failed # 0)' = AtomicInt[p]
  <2>1. AtomicInt[p] \in BOOLEAN
    BY <1>7 DEF CallContext, AtomicTypes
  <2>2. (halted \/ failed # 0)' <=> AtomicInt[p]
    BY <1>5, <1>7 DEF Alive
  <2>. QED
    BY <2>1, <2>2
<1>10. A!BlockReceiving(p, s, call.m)
  BY <1>1, <1>6, <1>7, <1>8, <1>9
     DEF A!BlockReceiving, A!RECEIVING, RECEIVING, ipcVars
<1>. QED
  BY <1>2, <1>7, <1>10, ReceiveTakesEffect DEF A!MsgReceive

----------------------------------------------------------------------------
\* The other steps: a call that begins or ends, and interrupts.
LEMMA TrapUnseen ==
  ASSUME AtomicInv, Calls, Alive, call = NoCall, before' = buf
  PROVE  AtomicSame
<1>. USE IpcAssumption
<1>1. /\ AtomicTypes /\ Alive' /\ call' # NoCall
      /\ call'.pc \in {"check", "test_int"}
      /\ UNCHANGED <<ipcVars, reply_from, halted, failed>>
      /\ \A q \in Procs : q # call'.proc => buf'[q] = buf[q]
  <2>1. AtomicTypes
    BY DEF AtomicInv, IrqInv, IrqTypes, TypeOK, AtomicTypes
  <2>2. ASSUME NEW p \in Procs, NEW peer, NEW pc \in {"check", "test_int"}, NEW m,
               NEW reply, Trap(p, pc, peer, m, reply)
        PROVE  /\ Alive' /\ call' # NoCall /\ call'.pc \in {"check", "test_int"}
               /\ UNCHANGED <<ipcVars, reply_from, halted, failed>>
               /\ \A q \in Procs : q # call'.proc => buf'[q] = buf[q]
    BY <2>1, <2>2 DEF Trap, Alive, NoCall, AtomicTypes
  <2>3. \E p \in Procs, pc \in {"check", "test_int"} : \E peer, m, reply :
          Trap(p, pc, peer, m, reply)
    BY DEF Calls, TrapSend, TrapReceive
  <2>. QED
    BY <2>1, <2>2, <2>3
<1>2. /\ AtomicBuf = buf /\ AtomicMsg = p_msg /\ AtomicFlags = p_flags
      /\ AtomicFrom = p_recvfrom /\ AtomicInt = has_int_msg
      /\ AtomicReply = reply_from
  BY ShownAtRest
<1>. USE <1>1 DEF AtomicTypes, Alive, InCall, Pending, Committed, ipcVars
<1>3. AtomicBuf' = buf
  BY DEF AtomicBuf, SendPcs, ReceivePcs, Handing
<1>4. AtomicMsg' = p_msg
  BY DEF AtomicMsg
<1>5. AtomicFlags' = p_flags /\ AtomicFrom' = p_recvfrom
  BY DEF AtomicFlags, AtomicFrom
<1>6. AtomicInt' = has_int_msg /\ AtomicReply' = reply_from
  BY DEF AtomicInt, AtomicReply
<1>. QED
  BY <1>2, <1>3, <1>4, <1>5, <1>6 DEF AtomicSame

LEMMA WakeUnseen ==
  ASSUME CallContext, AtomicInv', Wake, Return, UNCHANGED <<failed, halted>>
  PROVE  AtomicSame
<1>1. /\ InCall({"wake"}) /\ call.pc = "wake" /\ Alive'
      /\ UNCHANGED <<ipcVars, buf, halted, failed>>
  BY DEF Wake, At, InCall, CallContext, Alive
<1>2. /\ AtomicBuf' = buf /\ AtomicMsg' = p_msg /\ AtomicFlags' = p_flags
      /\ AtomicFrom' = p_recvfrom /\ AtomicInt' = has_int_msg
      /\ AtomicReply' = [reply_from EXCEPT ![call.proc] = call.reply]
  BY <1>1, ShownAfterReturn DEF ipcVars
<1>. USE <1>1 DEF CallContext, AtomicTypes, Alive, InCall, Pending, Committed
<1>3. AtomicBuf = buf
  BY DEF AtomicBuf
<1>4. AtomicMsg = p_msg
  BY DEF AtomicMsg
<1>5. AtomicFlags = p_flags /\ AtomicFrom = p_recvfrom
  BY DEF AtomicFlags, AtomicFrom
<1>6. /\ AtomicInt = has_int_msg
      /\ AtomicReply = [reply_from EXCEPT ![call.proc] = call.reply]
  BY DEF AtomicInt, AtomicReply
<1>. QED
  BY <1>2, <1>3, <1>4, <1>5, <1>6 DEF AtomicSame, ipcVars

LEMMA PickGoesOnUnseen ==
  ASSUME CallContext, Pick, ~Return, before' = before
  PROVE  AtomicSame
<1>1. /\ call.pc = "pick" /\ call'.pc = "set_flags" /\ call' # NoCall
      /\ call'.proc = call.proc /\ call'.peer = call.peer
      /\ call'.reply = call.reply
      /\ UNCHANGED <<ipcVars, buf, reply_from, halted, failed>>
  BY PickUndisturbed DEF vars
<1>. USE <1>1
     DEF CallContext, AtomicTypes, Alive, InCall, Pending, Committed, ipcVars
<1>2. AtomicBuf' = AtomicBuf
  BY DEF AtomicBuf, SendPcs, ReceivePcs, Handing
<1>3. AtomicMsg' = AtomicMsg
  BY DEF AtomicMsg
<1>4. AtomicFlags' = AtomicFlags /\ AtomicFrom' = AtomicFrom
  BY DEF AtomicFlags, AtomicFrom
<1>5. AtomicInt' = AtomicInt /\ AtomicReply' = AtomicReply
  BY DEF AtomicInt, AtomicReply
<1>. QED
  BY <1>2, <1>3, <1>4, <1>5 DEF AtomicSame

\* An interrupt outside the window is one of Ipc.
LEMMA IrqInforms ==
  ASSUME AtomicInv, ~struck, NEW t \in IntTasks, Irq(t), ~Window(t),
         call # NoCall => before' = before
  PROVE  A!InformInt(t)
<1>. USE IpcAssumption
<1>1. /\ AtomicTypes /\ t \in Procs /\ Alive /\ SendInv
      /\ UNCHANGED <<call, p_sendto, q_sending, reply_from, halted, failed>>
  BY DEF AtomicInv, IrqInv, TableInv, IrqTypes, TypeOK, AtomicTypes, Irq
<1>2. AtomicReply' = AtomicReply /\ UNCHANGED (halted \/ failed # 0)
  BY <1>1 DEF AtomicReply, Committed, InCall
<1>. USE DEF Alive, InCall, Pending, Committed
<1>3. CASE IrqWakes(t)
  <2>1. /\ p_msg[t]
        /\ call # NoCall => t # call.proc
        /\ call # NoCall /\ call.pc \in Handing => t # call.peer
    BY <1>3, WakesOther DEF Handing
  <2>2. /\ buf' = [buf EXCEPT ![t] = [source |-> INTERRUPT, type |-> HARD_INT]]
        /\ p_msg' = [p_msg EXCEPT ![t] = FALSE]
        /\ has_int_msg' = [has_int_msg EXCEPT ![t] = FALSE]
        /\ p_flags' = [p_flags EXCEPT ![t] = @ \ {RECEIVING}]
        /\ p_recvfrom' = [p_recvfrom EXCEPT ![t] = NO_TASK]
        /\ RECEIVING \in p_flags[t] /\ p_recvfrom[t] \in {INTERRUPT, ANY}
    BY <1>3, <2>1 DEF IrqWakes, Receiving
  <2>3. ~(call # NoCall /\ call.pc = "clear_from" /\ t = call.peer)
    BY <1>1, <2>2 DEF SendInv
  <2>4. AtomicFlags[t] = p_flags[t] /\ AtomicFrom[t] = p_recvfrom[t]
    BY <1>1, <2>1, <2>3 DEF AtomicFlags, AtomicFrom, AtomicTypes
  <2>5. AtomicBuf' = [AtomicBuf EXCEPT ![t] = [source |-> INTERRUPT,
                                               type |-> HARD_INT]]
    BY <1>1, <2>1, <2>2 DEF AtomicBuf, AtomicTypes, Handing
  <2>6. AtomicMsg' = [AtomicMsg EXCEPT ![t] = FALSE]
    BY <1>1, <2>1, <2>2 DEF AtomicMsg, AtomicTypes, Handing
  <2>7. AtomicInt' = [AtomicInt EXCEPT ![t] = FALSE]
    BY <1>1, <2>1, <2>2 DEF AtomicInt, AtomicTypes
  <2>8. AtomicFlags' = [AtomicFlags EXCEPT ![t] = @ \ {RECEIVING}]
    BY <1>1, <2>1, <2>2 DEF AtomicFlags, AtomicTypes
  <2>9. AtomicFrom' = [AtomicFrom EXCEPT ![t] = NO_TASK]
    BY <1>1, <2>1, <2>2, <2>3 DEF AtomicFrom, AtomicTypes
  <2>. QED
    BY <1>1, <1>2, <2>2, <2>4, <2>5, <2>6, <2>7, <2>8, <2>9
       DEF A!InformInt, A!Receiving, A!RECEIVING, RECEIVING
<1>4. CASE IrqIsNoted(t)
  <2>1. /\ ~(RECEIVING \in p_flags[t] /\ p_recvfrom[t] \in {INTERRUPT, ANY})
        /\ has_int_msg' = [has_int_msg EXCEPT ![t] = TRUE]
        /\ UNCHANGED <<p_flags, p_recvfrom, p_msg, buf>>
    BY <1>4 DEF IrqIsNoted, Receiving
  <2>2. ~(RECEIVING \in AtomicFlags[t] /\ AtomicFrom[t] \in {INTERRUPT, ANY})
    BY <1>1, <2>1 DEF AtomicFlags, AtomicFrom, AtomicTypes
  <2>3. AtomicBuf' = AtomicBuf
    BY <1>1, <2>1 DEF AtomicBuf, AtomicTypes
  <2>4. AtomicMsg' = AtomicMsg
    BY <1>1, <2>1 DEF AtomicMsg, AtomicTypes
  <2>5. AtomicFlags' = AtomicFlags /\ AtomicFrom' = AtomicFrom
    BY <1>1, <2>1 DEF AtomicFlags, AtomicFrom, AtomicTypes
  <2>6. AtomicInt' = [AtomicInt EXCEPT ![t] = TRUE]
    BY <1>1, <2>1 DEF AtomicInt, AtomicTypes
  <2>. QED
    BY <1>1, <1>2, <2>2, <2>3, <2>4, <2>5, <2>6
       DEF A!InformInt, A!Receiving, A!RECEIVING, RECEIVING
<1>. QED
  BY <1>3, <1>4 DEF Irq

----------------------------------------------------------------------------
\* Every step until struck is a step of Ipc, or one that Ipc does not see.
LEMMA StepRefines ==
  ASSUME AtomicInv, AtomicInv', AtomicNext, ~struck'
  PROVE  A!Next \/ UNCHANGED A!vars
<1>1. CASE Calls
  <2>1. Alive /\ call = NoCall /\ before' = buf
    BY <1>1, Histories DEF Calls, TrapSend, TrapReceive, Trap
  <2>. QED
    BY <1>1, <2>1, TrapUnseen, AtomicSameStutters
<1>2. ASSUME NEW t \in IntTasks, Irq(t), ~Window(t)
      PROVE  A!Next
  BY <1>2, Histories, IrqInforms DEF A!Next
<1>3. CASE SendSteps \/ ReceiveSteps
  <2>1. CallContext /\ before' = before
    BY <1>3, Histories, InProgress, InContext
  <2>2. CASE Moves
    <3>1. Moved
      BY <2>2, MovedOn DEF AtomicInv
    <3>2. CASE ClearFlags
      BY <2>1, <3>1, <3>2, ClearFlagsHandsOver
    <3>3. CASE Check \/ TestFlags \/ TestFrom \/ AssertMsg \/ TestInt \/ Block
      BY <2>1, <2>2, <3>1, <3>3, TestsUnseen, AtomicSameStutters
    <3>4. CASE \/ Copy \/ ClearMsg \/ ClearFrom
               \/ CopyInt \/ ClearInt \/ SetFlags \/ SetMsg \/ SetFrom
      BY <2>1, <3>1, <3>4, WritesUnseen, AtomicSameStutters
    <3>. QED
      BY <2>2, <3>2, <3>3, <3>4 DEF Moves
  <2>3. CASE /\ Wake \/ EnqueueSender \/ AssertInt \/ Blocked
             /\ Return /\ UNCHANGED <<failed, halted>>
    <3>1. CASE Wake
      BY <2>1, <2>3, <3>1, WakeUnseen, AtomicSameStutters
    <3>2. CASE EnqueueSender
      BY <2>1, <3>2, EnqueueSenderEnqueues
    <3>3. CASE AssertInt
      BY <2>1, <2>3, <3>3, AssertIntTakes
    <3>4. CASE Blocked
      BY <2>1, <2>3, <3>4, BlockedBlocks
    <3>. QED
      BY <2>3, <3>1, <3>2, <3>3, <3>4
  <2>4. CASE Pick /\ Return
    BY <2>1, <2>4, PickTakes
  <2>5. CASE Pick /\ ~Return
    BY <2>1, <2>5, PickGoesOnUnseen, AtomicSameStutters
  <2>6. CASE /\ Check \/ AssertMsg \/ AssertInt \/ Block \/ Blocked
             /\ ~Alive'
    <3>1. /\ call' = call
          /\ \/ Check /\ failed' = 0 /\ halted' = TRUE
             \/ Blocked /\ failed' = 519 /\ UNCHANGED halted
      <4>1. Blocked => UNCHANGED halted
        BY <2>1 DEF Blocked, Fail, CallContext
      <4>. QED
        BY <2>1, <2>6, <4>1, StopsOnlyUnasked
    <3>. QED
      BY <2>1, <3>1, CheckPanics, BlockedBlocks
  <2>. QED
    BY <1>3, <2>1, <2>2, <2>3, <2>4, <2>5, <2>6, StepKinds
<1>. QED
  BY <1>1, <1>2, <1>3, Histories

LEMMA InitRefines == AtomicInit => A!Init
<1>. SUFFICES ASSUME AtomicInit PROVE A!Init
  OBVIOUS
<1>1. /\ Init /\ Alive /\ call = NoCall /\ failed = 0
  BY DEF AtomicInit, IrqInit, Init, Alive
<1>2. /\ AtomicBuf = buf /\ AtomicMsg = p_msg /\ AtomicFlags = p_flags
      /\ AtomicFrom = p_recvfrom /\ AtomicInt = has_int_msg
      /\ AtomicReply = reply_from
  BY <1>1, InitAtomicInv, ShownAtRest
<1>. QED
  BY <1>1, <1>2 DEF A!Init, Init

\* Until an interrupt strikes in the window, msg_send(), msg_receive() and
\* inform_int() behave as the atomic calls of Ipc do, whatever the processes and
\* wherever else interrupts come; and the kernel stops for no other reason than a
\* task that sleeps in a RECEIVE from a process over a pending interrupt.
THEOREM AtomicUntilStruck == AtomicSpec => RefinesIpc
<1>1. AtomicInv /\ AtomicInv' /\ [AtomicNext]_atomicVars
        => [struck' \/ A!Next]_(A!vars)
  <2>. SUFFICES ASSUME AtomicInv, AtomicInv', [AtomicNext]_atomicVars
                PROVE  [struck' \/ A!Next]_(A!vars)
    OBVIOUS
  <2>1. CASE AtomicNext
    BY <2>1, StepRefines
  <2>2. CASE UNCHANGED atomicVars
    <3>1. AtomicSame
      BY <2>2
         DEF atomicVars, irqVars, vars, ipcVars, AtomicSame, AtomicBuf, AtomicMsg,
             AtomicFlags, AtomicFrom, AtomicInt, AtomicReply, Pending, Committed,
             InCall
    <3>. QED
      BY <3>1, AtomicSameStutters
  <2>. QED
    BY <2>1, <2>2
<1>2. AtomicInv => OnlyUnaskedInterruptFails
  BY DEF AtomicInv
<1>. QED
  BY <1>1, <1>2, InitRefines, AtomicInductive, PTL DEF AtomicSpec, RefinesIpc
=============================================================================
