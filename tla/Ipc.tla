-------------------------------- MODULE Ipc --------------------------------
(***************************************************************************)
(* The message passing of the microkernel (kernel/proc.c): send_recv(),    *)
(* sys_sendrec(), msg_send(), msg_receive() and inform_int().              *)
(*                                                                         *)
(* One action is one system call, from the trap to its return: this is the *)
(* behaviour the code has as long as no interrupt handler calls            *)
(* inform_int() for a task the call is about.  Module IpcIrq takes the     *)
(* calls apart and lets interrupts strike between their statements.        *)
(*                                                                         *)
(* A process hands the kernel one MESSAGE, its buffer buf[p]; p_msg[p]     *)
(* says whether the proc table holds a pointer to it.  The linked list     *)
(* q_sending / next_sending is a sequence.                                 *)
(*                                                                         *)
(* msg_receive() from INTERRUPT reads proc_table[-10] (line 436); in the   *)
(* build kept as kernel.bin these bytes are the unused gate 100 of the     *)
(* IDT, all zero, so the read finds no sender: that is what SenderReady    *)
(* says of INTERRUPT.                                                      *)
(***************************************************************************)
EXTENDS Naturals, Sequences, SequencesExt

CONSTANTS Procs,      \* slots of proc_table in use
          IntTasks,   \* the tasks an interrupt handler informs (TTY, HD)
          Types,      \* what a MESSAGE may say, source and HARD_INT excepted
          ANY, INTERRUPT, NO_TASK,   \* pseudo process numbers (const.h)
          HARD_INT,   \* the type of an interrupt's message
          NoType      \* the type field of a cleared MESSAGE

ASSUME IpcAssumption ==
  /\ IntTasks \subseteq Procs
  /\ ANY \notin Procs /\ INTERRUPT \notin Procs /\ NO_TASK \notin Procs
  /\ ANY # INTERRUPT /\ ANY # NO_TASK /\ INTERRUPT # NO_TASK
  /\ HARD_INT \notin Types /\ NoType \notin Types /\ HARD_INT # NoType

SENDING == "SENDING"
RECEIVING == "RECEIVING"

VARIABLES
  p_flags,      \* per process: which of SENDING, RECEIVING are set
  p_recvfrom,   \* per process: from whom it waits to receive
  p_sendto,     \* per process: to whom it waits to send
  p_msg,        \* per process: is p_msg non-null?
  has_int_msg,  \* per process: an interrupt came when it was not ready
  q_sending,    \* per process: the processes queued sending to it
  buf,          \* per process: the MESSAGE it last handed to the kernel
  reply_from,   \* per process: in send_recv(BOTH), whose answer is due
  halted        \* panic() was called or an assertion failed

ipcVars == <<p_flags, p_recvfrom, p_sendto, p_msg, has_int_msg, q_sending>>
vars == <<ipcVars, buf, reply_from, halted>>

Message == [source : Procs \union {INTERRUPT},
            type   : Types \union {HARD_INT, NoType}]

TypeOK ==
  /\ p_flags \in [Procs -> SUBSET {SENDING, RECEIVING}]
  /\ p_recvfrom \in [Procs -> Procs \union {ANY, INTERRUPT, NO_TASK}]
  /\ p_sendto \in [Procs -> Procs \union {NO_TASK}]
  /\ p_msg \in [Procs -> BOOLEAN]
  /\ has_int_msg \in [Procs -> BOOLEAN]
  /\ q_sending \in [Procs -> Seq(Procs)]
  /\ buf \in [Procs -> Message]
  /\ reply_from \in [Procs -> Procs \union {NO_TASK}]
  /\ halted \in BOOLEAN

Init ==
  /\ p_flags = [p \in Procs |-> {}]
  /\ p_recvfrom = [p \in Procs |-> NO_TASK]
  /\ p_sendto = [p \in Procs |-> NO_TASK]
  /\ p_msg = [p \in Procs |-> FALSE]
  /\ has_int_msg = [p \in Procs |-> FALSE]
  /\ q_sending = [p \in Procs |-> <<>>]
  /\ buf = [p \in Procs |-> [source |-> p, type |-> NoType]]
  /\ reply_from = [p \in Procs |-> NO_TASK]
  /\ halted = FALSE

----------------------------------------------------------------------------
\* A process runs, and can make a call, iff p_flags is 0.
Runnable(p) == ~halted /\ p_flags[p] = {}

Sending(p) == SENDING \in p_flags[p]
Receiving(p) == RECEIVING \in p_flags[p]

\* deadlock(): dest is SENDING, and following p_sendto from it while SENDING is
\* set leads to src: src is in every set that holds dest and is closed under
\* p_sendto.
ClosedUnderSendto(S) == \A p \in S : Sending(p) => p_sendto[p] \in S

\* Variant with a fault: only a direct answer counts as a cycle.
DeadlockOfTwo(src, dest) == Sending(dest) /\ p_sendto[dest] = src

Deadlock(src, dest) ==
  /\ Sending(dest)
  /\ \A S \in SUBSET Procs : dest \in S /\ ClosedUnderSendto(S) => src \in S

\* Variant with a fault: the partner is not compared.
WaitsForAnybody(d, p) == Receiving(d)

\* Is d blocked in a RECEIVE that a message from p satisfies?
WaitsFor(d, p) == Receiving(d) /\ p_recvfrom[d] \in {p, ANY}

\* Variant with a fault: p_recvfrom is not reset.
HandoverKeepsFrom(p, d, m) ==
  /\ ~Deadlock(p, d) /\ WaitsFor(d, p)
  /\ buf' = [buf EXCEPT ![p] = m, ![d] = m]
  /\ p_msg' = [p_msg EXCEPT ![d] = FALSE]
  /\ p_flags' = [p_flags EXCEPT ![d] = @ \ {RECEIVING}]
  /\ UNCHANGED <<p_recvfrom, p_sendto, has_int_msg, q_sending, halted>>

\* msg_send(): m goes from the running process p to d.
Handover(p, d, m) ==
  /\ ~Deadlock(p, d) /\ WaitsFor(d, p)
  /\ buf' = [buf EXCEPT ![p] = m, ![d] = m]
  /\ p_msg' = [p_msg EXCEPT ![d] = FALSE]
  /\ p_flags' = [p_flags EXCEPT ![d] = @ \ {RECEIVING}]
  /\ p_recvfrom' = [p_recvfrom EXCEPT ![d] = NO_TASK]
  /\ UNCHANGED <<p_sendto, has_int_msg, q_sending, halted>>

Enqueue(p, d, m) ==
  /\ ~Deadlock(p, d) /\ ~WaitsFor(d, p)
  /\ buf' = [buf EXCEPT ![p] = m]
  /\ p_flags' = [p_flags EXCEPT ![p] = @ \union {SENDING}]
  /\ p_sendto' = [p_sendto EXCEPT ![p] = d]
  /\ p_msg' = [p_msg EXCEPT ![p] = TRUE]
  /\ q_sending' = [q_sending EXCEPT ![d] = Append(@, p)]
  /\ UNCHANGED <<p_recvfrom, has_int_msg, halted>>

PanicOnCycle(p, d, m) ==
  /\ Deadlock(p, d)
  /\ halted' = TRUE
  /\ buf' = [buf EXCEPT ![p] = m]
  /\ UNCHANGED ipcVars

MsgSend(p, d, m) ==
  \/ Handover(p, d, m)
  \/ Enqueue(p, d, m)
  \/ PanicOnCycle(p, d, m)
IntPending(p, s) == has_int_msg[p] /\ s \in {ANY, INTERRUPT}

\* Variant with a fault: only the head of the queue is looked at.
SenderIsFirst(p, s) ==
  q_sending[p] # <<>> /\ s \in {ANY, Head(q_sending[p])}

SenderReady(p, s) ==
  IF s = ANY THEN q_sending[p] # <<>>
             ELSE s \in Procs /\ Sending(s) /\ p_sendto[s] = p

TakeInterrupt(p, s) ==
  /\ IntPending(p, s)
  /\ buf' = [buf EXCEPT ![p] = [source |-> INTERRUPT, type |-> HARD_INT]]
  /\ has_int_msg' = [has_int_msg EXCEPT ![p] = FALSE]
  /\ UNCHANGED <<p_flags, p_recvfrom, p_sendto, p_msg, q_sending, halted>>

\* Variant with a fault: the head of the queue is unlinked and copied from, but
\* the sender asked for is released.
FetchHead(p, s) ==
  /\ \E i \in 1 .. Len(q_sending[p]) :
       LET from == q_sending[p][i] IN
       /\ IF s = ANY THEN i = 1 ELSE from = s
       /\ q_sending' = [q_sending EXCEPT ![p] = Tail(@)]
       /\ buf' = [buf EXCEPT ![p] = buf[Head(q_sending[p])]]
       /\ p_msg' = [p_msg EXCEPT ![from] = FALSE]
       /\ p_sendto' = [p_sendto EXCEPT ![from] = NO_TASK]
       /\ p_flags' = [p_flags EXCEPT ![from] = @ \ {SENDING}]
  /\ UNCHANGED <<p_recvfrom, has_int_msg, halted>>

\* Lines 471-498: unlink the sender found, copy its message, release it.
Fetch(p, s) ==
  /\ \E i \in 1 .. Len(q_sending[p]) :
       LET from == q_sending[p][i] IN
       /\ IF s = ANY THEN i = 1 ELSE from = s
       /\ q_sending' = [q_sending EXCEPT ![p] = RemoveAt(@, i)]
       /\ buf' = [buf EXCEPT ![p] = buf[from]]
       /\ p_msg' = [p_msg EXCEPT ![from] = FALSE]
       /\ p_sendto' = [p_sendto EXCEPT ![from] = NO_TASK]
       /\ p_flags' = [p_flags EXCEPT ![from] = @ \ {SENDING}]
  /\ UNCHANGED <<p_recvfrom, has_int_msg, halted>>

TakeMessage(p, s) == ~IntPending(p, s) /\ SenderReady(p, s) /\ Fetch(p, s)

\* A pending interrupt that s does not accept fails the assertion at line 519: a
\* task interrupts inform must RECEIVE from a process (HD does, in get_ticks())
\* only when no interrupt can be due.
BlockReceiving(p, s, m) ==
  /\ ~IntPending(p, s) /\ ~SenderReady(p, s)
  /\ buf' = [buf EXCEPT ![p] = m]
  /\ p_flags' = [p_flags EXCEPT ![p] = @ \union {RECEIVING}]
  /\ p_msg' = [p_msg EXCEPT ![p] = TRUE]
  /\ p_recvfrom' = [p_recvfrom EXCEPT ![p] = s]
  /\ halted' = has_int_msg[p]
  /\ UNCHANGED <<p_sendto, has_int_msg, q_sending>>

MsgReceive(p, s, m) ==
  \/ TakeInterrupt(p, s)
  \/ TakeMessage(p, s)
  \/ BlockReceiving(p, s, m)

----------------------------------------------------------------------------
\* The system calls.  Only a task an interrupt handler informs has a reason to
\* receive from INTERRUPT (hd.c:244 is the one place that does).
Send(p, d, t) ==
  /\ Runnable(p) /\ reply_from[p] = NO_TASK /\ d # p
  /\ MsgSend(p, d, [source |-> p, type |-> t])
  /\ UNCHANGED reply_from

\* send_recv(BOTH): the SEND now, the RECEIVE from the same peer in Reply.
SendRec(p, d, t) ==
  /\ Runnable(p) /\ reply_from[p] = NO_TASK /\ d # p
  /\ MsgSend(p, d, [source |-> p, type |-> t])
  /\ reply_from' = [reply_from EXCEPT ![p] = d]

Reply(p) ==
  /\ Runnable(p) /\ reply_from[p] # NO_TASK
  /\ MsgReceive(p, reply_from[p], [buf[p] EXCEPT !.source = p])
  /\ reply_from' = [reply_from EXCEPT ![p] = NO_TASK]

\* send_recv(RECEIVE) clears the caller's message first.
Receive(p, s) ==
  /\ Runnable(p) /\ reply_from[p] = NO_TASK /\ s # p
  /\ s = INTERRUPT => p \in IntTasks
  /\ MsgReceive(p, s, [source |-> p, type |-> NoType])
  /\ UNCHANGED reply_from

\* Variant with a fault: a task that receives from INTERRUPT is not woken.
InformIfAny(t) ==
  /\ ~halted
  /\ \/ /\ Receiving(t) /\ p_recvfrom[t] = ANY
        /\ buf' = [buf EXCEPT ![t] = [source |-> INTERRUPT, type |-> HARD_INT]]
        /\ p_msg' = [p_msg EXCEPT ![t] = FALSE]
        /\ has_int_msg' = [has_int_msg EXCEPT ![t] = FALSE]
        /\ p_flags' = [p_flags EXCEPT ![t] = @ \ {RECEIVING}]
        /\ p_recvfrom' = [p_recvfrom EXCEPT ![t] = NO_TASK]
     \/ /\ ~(Receiving(t) /\ p_recvfrom[t] = ANY)
        /\ has_int_msg' = [has_int_msg EXCEPT ![t] = TRUE]
        /\ UNCHANGED <<p_flags, p_recvfrom, p_msg, buf>>
  /\ UNCHANGED <<p_sendto, q_sending, reply_from, halted>>

\* inform_int(), called by the clock handler (TTY) and hd_handler (HD).
InformInt(t) ==
  /\ ~halted
  /\ \/ /\ Receiving(t) /\ p_recvfrom[t] \in {INTERRUPT, ANY}
        /\ buf' = [buf EXCEPT ![t] = [source |-> INTERRUPT, type |-> HARD_INT]]
        /\ p_msg' = [p_msg EXCEPT ![t] = FALSE]
        /\ has_int_msg' = [has_int_msg EXCEPT ![t] = FALSE]
        /\ p_flags' = [p_flags EXCEPT ![t] = @ \ {RECEIVING}]
        /\ p_recvfrom' = [p_recvfrom EXCEPT ![t] = NO_TASK]
     \/ /\ ~(Receiving(t) /\ p_recvfrom[t] \in {INTERRUPT, ANY})
        /\ has_int_msg' = [has_int_msg EXCEPT ![t] = TRUE]
        /\ UNCHANGED <<p_flags, p_recvfrom, p_msg, buf>>
  /\ UNCHANGED <<p_sendto, q_sending, reply_from, halted>>

Next ==
  \/ \E p, d \in Procs, t \in Types : Send(p, d, t) \/ SendRec(p, d, t)
  \/ \E p \in Procs : Reply(p)
  \/ \E p \in Procs, s \in Procs \union {ANY, INTERRUPT} : Receive(p, s)
  \/ \E t \in IntTasks : InformInt(t)

Spec == Init /\ [][Next]_vars

----------------------------------------------------------------------------
\* Properties.

\* The fields of a proc slot agree, as the assertions of msg_send (318-325,
\* 348-351), msg_receive (421-429, 459-467, 515-518) and inform_int (548-551)
\* demand: no process waits both to send and to receive, a blocked one has its
\* message and its partner on record, a runnable one has neither.
FlagsInv ==
  \A p \in Procs :
    \/ /\ p_flags[p] = {} /\ ~p_msg[p]
       /\ p_recvfrom[p] = NO_TASK /\ p_sendto[p] = NO_TASK
    \/ /\ p_flags[p] = {SENDING} /\ p_msg[p]
       /\ p_recvfrom[p] = NO_TASK /\ p_sendto[p] \in Procs \ {p}
    \/ /\ p_flags[p] = {RECEIVING} /\ p_msg[p]
       /\ p_recvfrom[p] \notin {p, NO_TASK} /\ p_sendto[p] = NO_TASK

\* The sending queue of d holds each process blocked sending to d, once, and
\* nobody else: what msg_receive takes for granted when it unlinks a sender.
QueueInv ==
  \A d \in Procs :
    /\ IsInjective(q_sending[d])
    /\ \A p \in Procs :
         Contains(q_sending[d], p) <=> (Sending(p) /\ p_sendto[p] = d)

\* No missed rendezvous: a process never sleeps in a RECEIVE while somebody it
\* would accept sleeps in the SEND to it, or while an interrupt it would accept
\* is pending (the assertion has_int_msg == 0 after block, line 519).
NoMissedRendezvous ==
  \A d \in Procs :
    Receiving(d) =>
      /\ \A p \in Procs :
           p_recvfrom[d] \in {p, ANY} => ~(Sending(p) /\ p_sendto[p] = d)
      /\ p_recvfrom[d] \in {ANY, INTERRUPT} => ~has_int_msg[d]

\* The deadlock() check does its work: there is never a group of processes
\* each of which waits to send to another of the group.
NoSendCycle ==
  \A S \in (SUBSET Procs) \ {{}} :
    \E p \in S : ~(Sending(p) /\ p_sendto[p] \in S)

\* A sender is released only by the step that puts its message into the
\* buffer of the process it sent to, and that process runs on with it: no
\* message is lost, handed over twice, or left to be overwritten.
HandedOverOnce ==
  [][\A p \in Procs :
       Sending(p) /\ ~Sending(p)' =>
         /\ buf'[p_sendto[p]] = buf[p]
         /\ buf'[p] = buf[p]
         /\ p_flags'[p_sendto[p]] = {}]_vars

\* A process leaves a RECEIVE only with a message from the partner it named,
\* and the answer phase of send_recv(BOTH) ends only with the peer's message:
\* no server's reply reaches the wrong client.
AnswersMatch ==
  [][\A p \in Procs :
       /\ Receiving(p) /\ ~Receiving(p)' =>
            /\ buf'[p].source # p
            /\ p_recvfrom[p] \in {ANY, buf'[p].source}
       /\ reply_from[p] # NO_TASK /\ reply_from'[p] = NO_TASK =>
            \/ buf'[p].source = reply_from[p]
            \/ p_recvfrom'[p] = reply_from[p]]_vars

----------------------------------------------------------------------------
\* What the kernel promises its processes: synchronous message passing.
R == INSTANCE Rendezvous WITH
       to   <- p_sendto,
       want <- p_recvfrom,
       irq  <- has_int_msg,
       box  <- buf,
       stopped <- halted

\* The proc table, its flags, queues and pointers implement Rendezvous.
RefinesRendezvous == R!Spec
=============================================================================
