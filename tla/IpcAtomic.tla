----------------------------- MODULE IpcAtomic -----------------------------
(***************************************************************************)
(* How much of IpcIrq is harmless.  As long as no interrupt strikes in a   *)
(* short window of a call, the statements of msg_send() and msg_receive()  *)
(* implement the atomic calls of Ipc, interrupts everywhere else included: *)
(* the failures IpcIrq finds come from this window and from nothing else.  *)
(*                                                                         *)
(* The code has no such window: it is where the statements would have to   *)
(* disable interrupts.  struck remembers that one came there.              *)
(***************************************************************************)
EXTENDS IpcIrq

VARIABLES
  before,   \* history: buf when the call in progress began
  struck    \* history: an interrupt came in the window

atomicVars == <<irqVars, before, struck>>

\* An interrupt for t now would meet a call that has tested what the interrupt
\* changes and has not yet acted on the result.
Window(t) ==
  \/ /\ InCall({"assert_int", "pick", "set_flags", "set_msg", "set_from",
                "block", "blocked"})
     /\ call.proc = t /\ call.peer \in {ANY, INTERRUPT}
  \/ /\ InCall({"assert_msg", "copy", "clear_msg", "clear_flags"})
     /\ call.peer = t /\ p_recvfrom[t] = ANY

AtomicInit == IrqInit /\ before = buf /\ struck = FALSE

AtomicNext ==
  /\ \/ (Calls \/ SendSteps \/ ReceiveSteps) /\ UNCHANGED struck
     \/ \E t \in IntTasks : Irq(t) /\ struck' = (struck \/ Window(t))
  /\ before' = CASE struck' -> buf'
                 [] ~struck' /\ call = NoCall -> buf
                 [] OTHER -> before

AtomicSpec == AtomicInit /\ [][AtomicNext]_atomicVars

----------------------------------------------------------------------------
\* The state of Ipc: a call takes effect when it is over, or when a SEND makes
\* its partner runnable, or when it stops the kernel.
Committed == halted \/ failed # 0 \/ InCall({"clear_from", "wake"})
Pending(pcs) == InCall(pcs) /\ ~Committed
Handing == {"clear_msg", "clear_flags"}

AtomicBuf ==
  [p \in Procs |->
     IF \/ Pending(SendPcs \union ReceivePcs) /\ p = call.proc
        \/ Pending(Handing) /\ p = call.peer
     THEN before[p] ELSE buf[p]]

AtomicMsg ==
  [p \in Procs |->
     \/ p_msg[p] /\ ~(Pending({"set_from", "block", "blocked"}) /\ p = call.proc)
     \/ Pending({"clear_flags"}) /\ p = call.peer]

AtomicFlags ==
  [p \in Procs |->
     IF Pending({"set_msg", "set_from", "block", "blocked"}) /\ p = call.proc
     THEN {} ELSE p_flags[p]]

AtomicFrom ==
  [p \in Procs |->
     IF \/ Pending({"block", "blocked"}) /\ p = call.proc
        \/ InCall({"clear_from"}) /\ p = call.peer
     THEN NO_TASK ELSE p_recvfrom[p]]

AtomicInt ==
  [p \in Procs |-> has_int_msg[p] \/ (InCall({"assert_int"}) /\ p = call.proc)]

AtomicReply ==
  [p \in Procs |->
     IF Committed /\ ~halted /\ p = call.proc THEN call.reply ELSE reply_from[p]]

A == INSTANCE Ipc WITH
       p_flags     <- AtomicFlags,
       p_recvfrom  <- AtomicFrom,
       p_msg       <- AtomicMsg,
       has_int_msg <- AtomicInt,
       buf         <- AtomicBuf,
       reply_from  <- AtomicReply,
       halted      <- halted \/ failed # 0

\* Until then nothing is written through a null pointer, and the one assertion
\* that can fail is that of a task that sleeps in a RECEIVE from a process with
\* an interrupt pending, which Ipc has too.
OnlyUnaskedInterruptFails ==
  ~struck =>
    /\ ~wild
    /\ failed # 0 => /\ failed = 519 /\ has_int_msg[call.proc]
                     /\ call.peer \in Procs

\* Until an interrupt comes in the window, calls and interrupts behave as the
\* atomic ones of Ipc, and stop for no other reason than those do.
RefinesIpc ==
  A!Init /\ [][struck' \/ A!Next]_(A!vars) /\ []OnlyUnaskedInterruptFails
=============================================================================
