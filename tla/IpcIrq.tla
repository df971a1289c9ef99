------------------------------- MODULE IpcIrq -------------------------------
(***************************************************************************)
(* The same calls as in Ipc, statement by statement.  kernel.asm:301 does  *)
(* sti before it calls sys_sendrec(), so interrupt handlers run between    *)
(* any two statements of msg_send() and msg_receive(), on the kernel stack *)
(* of the process that made the call; the clock handler informs TTY and    *)
(* hd_handler informs HD.  The process cannot be preempted in the kernel   *)
(* (clock_handler returns when k_reenter # 0), so one call is in progress  *)
(* at a time.                                                              *)
(*                                                                         *)
(* Statements that touch only what no handler touches (a sender's own      *)
(* fields and the queues) are one step.  A failed assertion prints and     *)
(* then halts or spins in the kernel: nothing runs after it.               *)
(***************************************************************************)
EXTENDS Ipc

VARIABLES
  call,     \* the system call in progress, or NoCall
  failed,   \* the line of proc.c whose assertion failed, or 0
  wild      \* something was written through a null p_msg

irqVars == <<vars, call, failed, wild>>

NoCall == [proc |-> NO_TASK, pc |-> "user"]

SendPcs == {"check", "test_flags", "test_from", "assert_msg", "copy",
            "clear_msg", "clear_flags", "clear_from", "wake", "enqueue"}
ReceivePcs == {"test_int", "copy_int", "clear_int", "assert_int", "pick",
               "set_flags", "set_msg", "set_from", "block", "blocked"}
IrqInit == Init /\ call = NoCall /\ failed = 0 /\ wild = FALSE

----------------------------------------------------------------------------
Alive == ~halted /\ failed = 0
InCall(pcs) == call # NoCall /\ call.pc \in pcs
At(pc) == Alive /\ call # NoCall /\ call.pc = pc
Goto(pc) == call' = [call EXCEPT !.pc = pc]

\* The call is over: back to user level, in the caller or in another process.
Return ==
  /\ call' = NoCall
  /\ reply_from' = [reply_from EXCEPT ![call.proc] = call.reply]

Fail(line) == failed' = line /\ call' = call /\ UNCHANGED <<reply_from, halted>>

\* The assertion at this line: on to pc, or the end.
Demand(cond, line, pc) ==
  IF cond THEN Goto(pc) /\ UNCHANGED <<reply_from, failed, halted>>
          ELSE Fail(line)

Trap(p, pc, peer, m, reply) ==
  /\ Alive /\ call = NoCall /\ Runnable(p) /\ peer # p
  /\ call' = [proc |-> p, pc |-> pc, peer |-> peer, m |-> m, reply |-> reply]
  /\ buf' = [buf EXCEPT ![p] = m]
  /\ UNCHANGED <<ipcVars, reply_from, halted, failed, wild>>

TrapSend(p, d, t) ==
  /\ reply_from[p] = NO_TASK
  /\ \E reply \in {NO_TASK, d} :
       Trap(p, "check", d, [source |-> p, type |-> t], reply)

TrapReceive(p, s) ==
  /\ s = INTERRUPT => p \in IntTasks
  /\ IF reply_from[p] = NO_TASK
       THEN Trap(p, "test_int", s, [source |-> p, type |-> NoType], NO_TASK)
       ELSE /\ s = reply_from[p]
            /\ Trap(p, "test_int", s, [buf[p] EXCEPT !.source = p], NO_TASK)

----------------------------------------------------------------------------
\* msg_send
Check ==
  /\ At("check")
  /\ IF Deadlock(call.proc, call.peer)
       THEN halted' = TRUE /\ call' = call
       ELSE Goto("test_flags") /\ UNCHANGED halted
  /\ UNCHANGED <<ipcVars, buf, reply_from, failed, wild>>

TestFlags ==
  /\ At("test_flags")
  /\ Goto(IF Receiving(call.peer) THEN "test_from" ELSE "enqueue")
  /\ UNCHANGED <<vars, failed, wild>>

TestFrom ==
  /\ At("test_from")
  /\ Goto(IF p_recvfrom[call.peer] \in {call.proc, ANY}
            THEN "assert_msg" ELSE "enqueue")
  /\ UNCHANGED <<vars, failed, wild>>

AssertMsg ==
  /\ At("assert_msg")
  /\ Demand(p_msg[call.peer], 307, "copy")
  /\ UNCHANGED <<ipcVars, buf, wild>>

\* phys_copy to p_dest->p_msg, wherever that points now.
Copy ==
  /\ At("copy") /\ Goto("clear_msg")
  /\ buf' = IF p_msg[call.peer] THEN [buf EXCEPT ![call.peer] = call.m] ELSE buf
  /\ wild' = (wild \/ ~p_msg[call.peer])
  /\ UNCHANGED <<ipcVars, reply_from, halted, failed>>

ClearMsg ==
  /\ At("clear_msg") /\ Goto("clear_flags")
  /\ p_msg' = [p_msg EXCEPT ![call.peer] = FALSE]
  /\ UNCHANGED <<p_flags, p_recvfrom, p_sendto, has_int_msg, q_sending,
                 buf, reply_from, halted, failed, wild>>

ClearFlags ==
  /\ At("clear_flags") /\ Goto("clear_from")
  /\ p_flags' = [p_flags EXCEPT ![call.peer] = @ \ {RECEIVING}]
  /\ UNCHANGED <<p_recvfrom, p_sendto, p_msg, has_int_msg, q_sending,
                 buf, reply_from, halted, failed, wild>>

\* Variant with a fault: p_recvfrom is not reset.
ClearFromNot ==
  At("clear_from") /\ Goto("wake") /\ UNCHANGED <<vars, failed, wild>>

ClearFrom ==
  /\ At("clear_from") /\ Goto("wake")
  /\ p_recvfrom' = [p_recvfrom EXCEPT ![call.peer] = NO_TASK]
  /\ UNCHANGED <<p_flags, p_sendto, p_msg, has_int_msg, q_sending,
                 buf, reply_from, halted, failed, wild>>

Idle(p) == /\ p_flags[p] = {} /\ ~p_msg[p]
           /\ p_recvfrom[p] = NO_TASK /\ p_sendto[p] = NO_TASK

\* unblock(p_dest) and the assertions 318-325.
Wake ==
  /\ At("wake")
  /\ IF Idle(call.peer) /\ Idle(call.proc)
       THEN Return /\ UNCHANGED <<failed, halted>>
       ELSE Fail(316)
  /\ UNCHANGED <<ipcVars, buf, wild>>

\* Variant with a fault: p_msg is not set.
EnqueueWithoutMsg ==
  /\ At("enqueue") /\ Return
  /\ LET p == call.proc IN
     /\ p_flags' = [p_flags EXCEPT ![p] = @ \union {SENDING}]
     /\ p_sendto' = [p_sendto EXCEPT ![p] = call.peer]
     /\ q_sending' = [q_sending EXCEPT ![call.peer] = Append(@, p)]
  /\ UNCHANGED <<p_recvfrom, p_msg, has_int_msg, buf, halted, failed, wild>>

\* Lines 328-351; no handler touches the sender's flags, p_msg or the queue.
EnqueueSender ==
  /\ At("enqueue") /\ Return
  /\ LET p == call.proc IN
     /\ p_flags' = [p_flags EXCEPT ![p] = @ \union {SENDING}]
     /\ p_sendto' = [p_sendto EXCEPT ![p] = call.peer]
     /\ p_msg' = [p_msg EXCEPT ![p] = TRUE]
     /\ q_sending' = [q_sending EXCEPT ![call.peer] = Append(@, p)]
  /\ UNCHANGED <<p_recvfrom, has_int_msg, buf, halted, failed, wild>>

SendSteps == \/ Check \/ TestFlags \/ TestFrom \/ AssertMsg \/ Copy
             \/ ClearMsg \/ ClearFlags \/ ClearFrom \/ Wake \/ EnqueueSender

----------------------------------------------------------------------------
TestInt ==
  /\ At("test_int")
  /\ Goto(IF IntPending(call.proc, call.peer) THEN "copy_int" ELSE "pick")
  /\ UNCHANGED <<vars, failed, wild>>

CopyInt ==
  /\ At("copy_int") /\ Goto("clear_int")
  /\ buf' = [buf EXCEPT ![call.proc] = [source |-> INTERRUPT, type |-> HARD_INT]]
  /\ UNCHANGED <<ipcVars, reply_from, halted, failed, wild>>

ClearInt ==
  /\ At("clear_int") /\ Goto("assert_int")
  /\ has_int_msg' = [has_int_msg EXCEPT ![call.proc] = FALSE]
  /\ UNCHANGED <<p_flags, p_recvfrom, p_sendto, p_msg, q_sending,
                 buf, reply_from, halted, failed, wild>>

AssertInt ==
  /\ At("assert_int")
  /\ IF has_int_msg[call.proc] THEN Fail(405)
                               ELSE Return /\ UNCHANGED <<failed, halted>>
  /\ UNCHANGED <<ipcVars, buf, wild>>

\* Variant with a fault: only the head of the queue is looked at.
PickHead ==
  /\ At("pick")
  /\ LET q == q_sending[call.proc] IN
     IF /\ SenderReady(call.proc, call.peer)
        /\ call.peer \in {ANY, Head(q)}
       THEN Fetch(call.proc, call.peer) /\ Return
       ELSE Goto("set_flags") /\ UNCHANGED vars
  /\ UNCHANGED <<failed, wild>>

\* Lines 411-498; no handler touches the queue or a blocked sender's fields.
Pick ==
  /\ At("pick")
  /\ IF SenderReady(call.proc, call.peer)
       THEN Fetch(call.proc, call.peer) /\ Return
       ELSE Goto("set_flags") /\ UNCHANGED vars
  /\ UNCHANGED <<failed, wild>>

SetFlags ==
  /\ At("set_flags") /\ Goto("set_msg")
  /\ p_flags' = [p_flags EXCEPT ![call.proc] = @ \union {RECEIVING}]
  /\ UNCHANGED <<p_recvfrom, p_sendto, p_msg, has_int_msg, q_sending,
                 buf, reply_from, halted, failed, wild>>

SetMsg ==
  /\ At("set_msg") /\ Goto("set_from")
  /\ p_msg' = [p_msg EXCEPT ![call.proc] = TRUE]
  /\ UNCHANGED <<p_flags, p_recvfrom, p_sendto, has_int_msg, q_sending,
                 buf, reply_from, halted, failed, wild>>

SetFrom ==
  /\ At("set_from") /\ Goto("block")
  /\ p_recvfrom' = [p_recvfrom EXCEPT ![call.proc] = call.peer]
  /\ UNCHANGED <<p_flags, p_sendto, p_msg, has_int_msg, q_sending,
                 buf, reply_from, halted, failed, wild>>

\* block() asserts p_flags and calls schedule(), which other interrupts may
\* interrupt; then the assertions 515-519.
Block ==
  /\ At("block")
  /\ Demand(p_flags[call.proc] # {}, 218, "blocked")
  /\ UNCHANGED <<ipcVars, buf, wild>>

Blocked ==
  /\ At("blocked")
  /\ LET p == call.proc IN
       CASE \/ p_flags[p] # {RECEIVING} \/ ~p_msg[p]
            \/ p_recvfrom[p] = NO_TASK \/ p_sendto[p] # NO_TASK -> Fail(515)
         [] OTHER ->
              IF has_int_msg[p] THEN Fail(519)
                                ELSE Return /\ UNCHANGED <<failed, halted>>
  /\ UNCHANGED <<ipcVars, buf, wild>>

ReceiveSteps == \/ TestInt \/ CopyInt \/ ClearInt \/ AssertInt \/ Pick
                \/ SetFlags \/ SetMsg \/ SetFrom \/ Block \/ Blocked

----------------------------------------------------------------------------
\* inform_int() by an interrupt handler, at any moment.
IrqWakes(t) ==
  /\ Receiving(t) /\ p_recvfrom[t] \in {INTERRUPT, ANY}
  /\ buf' = IF p_msg[t]
              THEN [buf EXCEPT ![t] = [source |-> INTERRUPT, type |-> HARD_INT]]
              ELSE buf
  /\ wild' = (wild \/ ~p_msg[t])
  /\ p_msg' = [p_msg EXCEPT ![t] = FALSE]
  /\ has_int_msg' = [has_int_msg EXCEPT ![t] = FALSE]
  /\ p_flags' = [p_flags EXCEPT ![t] = @ \ {RECEIVING}]
  /\ p_recvfrom' = [p_recvfrom EXCEPT ![t] = NO_TASK]

IrqIsNoted(t) ==
  /\ ~(Receiving(t) /\ p_recvfrom[t] \in {INTERRUPT, ANY})
  /\ has_int_msg' = [has_int_msg EXCEPT ![t] = TRUE]
  /\ UNCHANGED <<p_flags, p_recvfrom, p_msg, buf, wild>>

Irq(t) ==
  /\ Alive
  /\ IrqWakes(t) \/ IrqIsNoted(t)
  /\ UNCHANGED <<p_sendto, q_sending, reply_from, halted, call, failed>>

Calls == \E p \in Procs :
           \/ \E d \in Procs, t \in Types : TrapSend(p, d, t)
           \/ \E s \in Procs \union {ANY, INTERRUPT} : TrapReceive(p, s)

IrqNext == Calls \/ SendSteps \/ ReceiveSteps \/ \E t \in IntTasks : Irq(t)

IrqSpec == IrqInit /\ [][IrqNext]_irqVars

----------------------------------------------------------------------------
\* Properties.

\* Between system calls everything Ipc promises of the proc table holds: an
\* interrupt that strikes inside a call either stops the kernel at an assertion
\* or leaves the slots consistent and no rendezvous missed.
RestConsistent ==
  Alive /\ call = NoCall => FlagsInv /\ NoMissedRendezvous

\* The party of the call in progress that interrupt handlers inform.
PartyToInterrupts ==
  /\ call # NoCall
  /\ IF call.pc \in SendPcs THEN call.peer \in IntTasks
                            ELSE call.proc \in IntTasks

\* Only a SEND to a task that interrupts inform, or a RECEIVE by one, can fail
\* an assertion; and of a RECEIVE, only one an interrupt may satisfy, save that
\* line 519 refuses to sleep over an interrupt that was not asked for.
OnlyInterruptedFail ==
  failed # 0 =>
    /\ PartyToInterrupts
    /\ call.pc \in ReceivePcs =>
         call.peer \in {ANY, INTERRUPT} \/ failed = 519

\* msg_send() copies the message to dest when dest waits for it (comment at
\* 282-283): when the call is over, dest has the message.
MessageDelivered ==
  [][At("wake") /\ call' = NoCall => buf'[call.peer] = call.m]_irqVars
=============================================================================
