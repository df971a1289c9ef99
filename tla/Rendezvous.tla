----------------------------- MODULE Rendezvous -----------------------------
(***************************************************************************)
(* What kernel/proc.c promises the processes that call send_recv(), said   *)
(* without flags, queues and pointers: synchronous message passing.        *)
(*                                                                         *)
(* A process is idle, offers its message to one other process, or wants a  *)
(* message from one partner or from anyone.  An offer and a want that      *)
(* match never coexist: the second of the two to come completes the        *)
(* exchange.  A pending interrupt goes first.  Which of several offers a   *)
(* process that wants ANY gets is left open.  An offer that would close a  *)
(* cycle of offers stops the system, and so does a process that goes to    *)
(* sleep with an interrupt pending that it did not ask for.                *)
(***************************************************************************)
CONSTANTS Procs, IntTasks, Types, ANY, INTERRUPT, NO_TASK, HARD_INT, NoType

VARIABLES
  to,       \* per process: to whom it offers its message, or NO_TASK
  want,     \* per process: from whom it wants a message, or NO_TASK
  irq,      \* per process: is an interrupt waiting for it?
  box,      \* per process: the message it offers, or got last
  stopped

vars == <<to, want, irq, box, stopped>>

Interrupt == [source |-> INTERRUPT, type |-> HARD_INT]

Init ==
  /\ to = [p \in Procs |-> NO_TASK]
  /\ want = [p \in Procs |-> NO_TASK]
  /\ irq = [p \in Procs |-> FALSE]
  /\ box = [p \in Procs |-> [source |-> p, type |-> NoType]]
  /\ stopped = FALSE

Idle(p) == ~stopped /\ to[p] = NO_TASK /\ want[p] = NO_TASK

\* Does the offer of p to d close a cycle of offers?
Closes(p, d) ==
  \A S \in SUBSET Procs :
    d \in S /\ (\A q \in S : to[q] # NO_TASK => to[q] \in S) => p \in S

Offer(p, d, m) ==
  /\ Idle(p) /\ p # d
  /\ IF Closes(p, d)
       THEN /\ stopped' = TRUE
            /\ box' = [box EXCEPT ![p] = m]
            /\ UNCHANGED <<to, want>>
       ELSE /\ IF want[d] \in {p, ANY}
                 THEN /\ box' = [box EXCEPT ![p] = m, ![d] = m]
                      /\ want' = [want EXCEPT ![d] = NO_TASK]
                      /\ UNCHANGED to
                 ELSE /\ box' = [box EXCEPT ![p] = m]
                      /\ to' = [to EXCEPT ![p] = d]
                      /\ UNCHANGED want
            /\ UNCHANGED stopped
  /\ UNCHANGED irq

\* The offers p may accept when it asks for a message from s.
Offers(p, s) == {q \in Procs : to[q] = p /\ s \in {q, ANY}}

Want(p, s, m) ==
  /\ Idle(p) /\ p # s
  /\ \/ /\ irq[p] /\ s \in {ANY, INTERRUPT}
        /\ box' = [box EXCEPT ![p] = Interrupt]
        /\ irq' = [irq EXCEPT ![p] = FALSE]
        /\ UNCHANGED <<to, want, stopped>>
     \/ /\ ~(irq[p] /\ s \in {ANY, INTERRUPT})
        /\ \E q \in Offers(p, s) :
             /\ box' = [box EXCEPT ![p] = box[q]]
             /\ to' = [to EXCEPT ![q] = NO_TASK]
        /\ UNCHANGED <<want, irq, stopped>>
     \/ /\ ~(irq[p] /\ s \in {ANY, INTERRUPT}) /\ Offers(p, s) = {}
        /\ box' = [box EXCEPT ![p] = m]
        /\ want' = [want EXCEPT ![p] = s]
        /\ stopped' = irq[p]
        /\ UNCHANGED <<to, irq>>

Strike(t) ==
  /\ ~stopped
  /\ IF want[t] \in {ANY, INTERRUPT}
       THEN /\ box' = [box EXCEPT ![t] = Interrupt]
            /\ want' = [want EXCEPT ![t] = NO_TASK]
            /\ irq' = [irq EXCEPT ![t] = FALSE]
       ELSE /\ irq' = [irq EXCEPT ![t] = TRUE]
            /\ UNCHANGED <<box, want>>
  /\ UNCHANGED <<to, stopped>>

Next ==
  \/ \E p, d \in Procs, t \in Types : Offer(p, d, [source |-> p, type |-> t])
  \/ \E p \in Procs, s \in Procs \union {ANY, INTERRUPT},
        t \in Types \union {NoType, HARD_INT} :
       Want(p, s, [source |-> p, type |-> t])
  \/ \E t \in IntTasks : Strike(t)

Spec == Init /\ [][Next]_vars
=============================================================================
