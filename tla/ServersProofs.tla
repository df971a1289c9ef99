--------------------------- MODULE ServersProofs ---------------------------
(***************************************************************************)
(* Proofs about Servers, for any number of user processes and terminals:   *)
(* every task answers the processes that await its answer and no others,   *)
(* the only cycle of calls is that of FS and TTY, and do_fork() leaves the *)
(* proc table consistent.                                                  *)
(***************************************************************************)
EXTENDS Servers, IpcProofs

----------------------------------------------------------------------------
\* Where a process is in its calls: it runs free of them, or between the halves
\* of send_recv(BOTH) (turns), or is blocked: in the SEND of a BOTH (asks), in a
\* SEND that expects no answer (tells), in a RECEIVE (waits); and with whom.
Mode(x) ==
  IF p_flags[x] = {} THEN IF reply_from[x] = NO_TASK THEN "free" ELSE "turns"
  ELSE IF p_flags[x] = {SENDING}
    THEN IF reply_from[x] = NO_TASK THEN "tells" ELSE "asks"
    ELSE "waits"

Peer(x) == IF p_flags[x] = {} THEN reply_from[x]
           ELSE IF p_flags[x] = {SENDING} THEN p_sendto[x] ELSE p_recvfrom[x]

\* An answer is due from whom the process asks, and to nobody that waits.
Halves == \A x \in Procs : /\ Mode(x) = "asks" => reply_from[x] = p_sendto[x]
                           /\ Mode(x) = "waits" => reply_from[x] = NO_TASK

Free(x) == Mode(x) = "free"
Asks(x, s) == Mode(x) = "asks" /\ Peer(x) = s
Turns(x, s) == Mode(x) = "turns" /\ Peer(x) = s
Tells(x, d) == Mode(x) = "tells" /\ Peer(x) = d
Waits(x, s) == Mode(x) = "waits" /\ Peer(x) = s

Awaits(x, s) == Turns(x, s) \/ Waits(x, s)
Calling(x, s) == Asks(x, s) \/ Turns(x, s)
Returning(x, s) == Waits(x, s) \/ Free(x)
Telling(x) == Free(x) \/ Mode(x) = "tells"

\* The statement a process is at says what it can be blocked in.
UserAt(u) ==
  \E s \in {FS, SYS, MM} : \/ pc[u] = "top" /\ Returning(u, s)
                           \/ pc[u] = "called" /\ Calling(u, s)

ServerAt(s) == \/ pc[s] = "top" /\ Telling(s)
               \/ pc[s] = "got" /\ Returning(s, ANY)

HdAt == \/ ServerAt(HD)
        \/ pc[HD] \in {"ready", "drq"} /\ Calling(HD, SYS)
        \/ pc[HD] \in {"command", "data"} /\ Returning(HD, SYS)
        \/ pc[HD] = "started" /\ Free(HD)
        \/ pc[HD] = "interrupted" /\ Returning(HD, INTERRUPT)

FsAt == \/ ServerAt(FS)
        \/ pc[FS] = "tty" /\ Calling(FS, TTY)
        \/ pc[FS] = "tty_done" /\ Returning(FS, TTY)
        \/ pc[FS] \in {"hd", "hd_first", "hd_inode"} /\ Calling(FS, HD)
        \/ pc[FS] \in {"hd_done", "read_done", "opening"} /\ Returning(FS, HD)

MmAt == \/ ServerAt(MM)
        \/ pc[MM] \in {"slot", "memory"} /\ Free(MM)
        \/ pc[MM] = "fs" /\ Calling(MM, FS)
        \/ pc[MM] = "fs_done" /\ Returning(MM, FS)
        \/ pc[MM] = "child_done" /\ Telling(MM)

At(x) == /\ x \in Users => UserAt(x)
         /\ x \in {SYS, TTY} => ServerAt(x)
         /\ x = HD => HdAt
         /\ x = FS => FsAt
         /\ x = MM => MmAt

Places == \A x \in Procs : At(x)

----------------------------------------------------------------------------
\* What is said.  Requests, on their way or being worked on.
FsServes == {"READ", "WRITE", "OPEN", "FILE_READ", "FILE_WRITE"}

\* TTY is asked about the process FS serves (of), FS about MM's new child (kid).
WorkOf(s, m, of, kid) ==
  /\ m.type \in Payloads
  /\ \/ s = SYS /\ m.source \in Users \union {HD} /\ m.type.kind = "GET_TICKS"
     \/ s = MM /\ m.source \in Users /\ m.type.kind = "FORK"
     \/ s = HD /\ m.source = FS /\ m.type.kind \in {"DEV_READ", "DEV_WRITE"}
     \/ /\ s = TTY /\ m.source = FS
        /\ m.type.kind \in {"DEV_READ", "DEV_WRITE", "DEV_OPEN"}
        /\ m.type.kind = "DEV_READ" => m.type.about = of /\ m.type.dev \in Ttys
     \/ /\ s = FS
        /\ \/ /\ m.source \in Users /\ m.type.kind \in FsServes
              /\ m.type.dev \in Ttys
           \/ m.source = MM /\ m.type.kind = "FORK" /\ m.type.about = kid
           \/ m.source = TTY /\ m.type.kind = "RESUME_PROC" /\ m.type.about \in Users

IsWork(s, m) == WorkOf(s, m, src[FS], child)

Working(s) == pc[s] = "got" /\ Free(s)

\* ... and answers, which TTY's RESUME_PROC is not.
IsAnswer(s, d, m) ==
  /\ m.source = s /\ m.type \in Payloads
  /\ \/ s = SYS /\ d \in Users \union {HD} /\ m.type.kind = "GET_TICKS"
     \/ s = HD /\ d = FS
     \/ /\ s = TTY /\ d = FS
        /\ m.type.kind \in {"SYSCALL_RET", "SUSPEND_PROC", "RESUME_PROC"}
        /\ m.type.kind = "RESUME_PROC" => m.type.about \in Users
     \/ s = FS /\ d \in Users \union {MM} /\ m.type.kind = "SYSCALL_RET"
     \/ s = MM /\ d \in Users /\ m.type.kind \in {"SYSCALL_RET", "FORK_FAILED"}

\* What a user process has at hand: nothing yet, or the answer to its last call.
IsDone(u, m) ==
  \/ m.source = u
  \/ m.source \in {FS, SYS, MM} /\ IsAnswer(m.source, u, m)

Resuming == Tells(TTY, FS) /\ buf[TTY].type.kind = "RESUME_PROC"

Word(x) ==
  /\ Mode(x) = "asks" => buf[x].source = x /\ IsWork(Peer(x), buf[x])
  /\ Mode(x) = "tells" => IsAnswer(x, Peer(x), buf[x])
  /\ x \in Tasks /\ Working(x) =>
       IsWork(x, buf[x]) \/ (x = TTY /\ buf[x].type = HARD_INT)
  /\ x \in Users /\ Free(x) => IsDone(x, buf[x])

Words == \A x \in Procs : Word(x)

----------------------------------------------------------------------------
\* Whom a task owes an answer.
Suspended ==
  \/ Tells(TTY, FS) /\ buf[TTY].type.kind = "SUSPEND_PROC"
  \/ pc[FS] = "tty_done" /\ Free(FS) /\ Got(FS, "SUSPEND_PROC")

FsBusy == {"tty", "tty_done", "hd", "hd_first", "hd_inode", "hd_done",
           "read_done", "opening"}
MmForks == {"slot", "memory", "fs", "fs_done"}

SysOwes(x) == \/ Working(SYS) /\ x = buf[SYS].source
              \/ Tells(SYS, x)
HdOwes(x) == \/ Working(HD) /\ x = FS
             \/ pc[HD] \notin {"top", "got"} /\ x = FS
             \/ Tells(HD, x)
TtyOwes(x) == \/ Working(TTY) /\ buf[TTY].type # HARD_INT /\ x = FS
              \/ Tells(TTY, x) /\ ~Resuming
MmOwes(x) == \/ Working(MM) /\ x = buf[MM].source
             \/ pc[MM] \in MmForks \union {"child_done"} /\ x = src[MM]
             \/ pc[MM] \in MmForks /\ x = child
             \/ Tells(MM, x)
FsOwes(x) == \/ Working(FS) /\ x = IF buf[FS].source = TTY THEN buf[FS].type.about
                                                          ELSE buf[FS].source
             \/ pc[FS] \in FsBusy /\ ~Suspended /\ x = src[FS]
             \/ Tells(FS, x)
Owes(s, x) == \/ s = SYS /\ SysOwes(x)
              \/ s = HD /\ HdOwes(x)
              \/ s = TTY /\ TtyOwes(x)
              \/ s = MM /\ MmOwes(x)
              \/ s = FS /\ FsOwes(x)

\* TTY keeps a suspended reader, in its table or in the message that resumes it.
TtyKeeps(x) == \/ \E t \in Ttys : tty_procnr[t] = x
               \/ Resuming /\ buf[TTY].type.about = x

Owed == /\ \A s \in Tasks, x \in Procs : Owes(s, x) => Awaits(x, s)
        /\ \A x \in Procs : TtyKeeps(x) => Awaits(x, FS)

\* Nobody is owed two answers; and FS awaits TTY only while TTY owes it one.
Once ==
  /\ \A x \in Procs : ~(FsOwes(x) /\ TtyKeeps(x))
  /\ \A t1, t2 \in Ttys :
       tty_procnr[t1] = tty_procnr[t2] => t1 = t2 \/ tty_procnr[t1] = NO_TASK
  /\ Resuming => \A t \in Ttys : tty_procnr[t] # buf[TTY].type.about
  /\ pc[MM] \in MmForks => src[MM] # child
  /\ pc[MM] = "child_done" => ~Tells(MM, src[MM])
  /\ Awaits(FS, TTY) => halted \/ TtyOwes(FS)

Labels == FsBusy \union MmForks \union
          {"top", "got", "called", "child_done", "ready", "drq", "command", "data",
           "started", "interrupted"}

Locals ==
  /\ scenario \in Scenarios
  /\ pc \in [Procs -> Labels] /\ DOMAIN src = Tasks
  /\ tty_procnr \in [Ttys -> Users \union {NO_TASK}]
  /\ pc[FS] \in FsBusy => src[FS] \in Users
  /\ pc[HD] \notin {"top", "got"} =>
       src[HD] \in [proc : {FS}, kind : {"DEV_READ", "DEV_WRITE"}]
  /\ pc[MM] \in MmForks \union {"child_done"} => src[MM] \in Users

----------------------------------------------------------------------------
\* The drive interrupts once for each sector, and HD waits for it.
DriveInv ==
  /\ drive = "busy" => \/ pc[HD] = "started"
                       \/ pc[HD] = "interrupted" /\ Waits(HD, INTERRUPT)
  /\ has_int_msg[HD] => pc[HD] = "started" /\ drive # "busy"
  /\ \A p \in Procs \ {TTY, HD} : ~has_int_msg[p]

\* Processes that do not exist yet, and the one that is being made.
Children ==
  /\ alive \subseteq Users /\ memory \in [Users -> Users]
  /\ child \in Users \union {NO_TASK}
  /\ \A u \in Users \ alive : Free(u) /\ pc[u] = "top"
  /\ pc[MM] \in MmForks => child \in alive
  /\ \A u \in alive : memory[u] # u => u = child /\ pc[MM] = "slot"
  /\ \A u \in alive : u \in counted \/ (u = child /\ pc[MM] \in MmForks)
  /\ pc[MM] = "fs_done" /\ Free(MM) => child \in counted
  /\ Tells(FS, MM) => child \in counted

\* The one way to stop.
Cycle ==
  halted => \/ Sending(TTY) /\ p_sendto[TTY] = FS /\ pc[FS] = "tty"
            \/ Sending(FS) /\ p_sendto[FS] = TTY /\ pc[TTY] = "top"

ServersInv ==
  /\ IInv /\ Halves /\ Locals /\ Places /\ Words
  /\ Owed /\ Once /\ DriveInv /\ Children /\ Cycle

----------------------------------------------------------------------------
\* The tasks are different processes, and none of the pseudo ones.
LEMMA Distinct ==
  /\ TTY \in Procs /\ SYS \in Procs /\ HD \in Procs /\ FS \in Procs /\ MM \in Procs
  /\ TTY # SYS /\ TTY # HD /\ TTY # FS /\ TTY # MM /\ SYS # HD /\ SYS # FS
  /\ SYS # MM /\ HD # FS /\ HD # MM /\ FS # MM
  /\ NO_TASK \notin Procs /\ ANY \notin Procs /\ INTERRUPT \notin Procs
  /\ ANY # INTERRUPT /\ ANY # NO_TASK /\ INTERRUPT # NO_TASK
  /\ \A u \in Users : u \in Procs /\ u \notin {TTY, SYS, HD, FS, MM}
<1> DEFINE five == <<TTY, SYS, HD, FS, MM>>
<1>1. \A a, b \in 1 .. 5 : five[a] = five[b] => a = b
  <2>1. DOMAIN five = 1 .. 5
    OBVIOUS
  <2>. QED
    BY <2>1, ServersAssumption DEF ServersAssumption, IsInjective
<1>2. /\ five[1] = TTY /\ five[2] = SYS /\ five[3] = HD /\ five[4] = FS
      /\ five[5] = MM
  OBVIOUS
<1>. HIDE DEF five
<1>3. /\ TTY # SYS /\ TTY # HD /\ TTY # FS /\ TTY # MM /\ SYS # HD /\ SYS # FS
      /\ SYS # MM /\ HD # FS /\ HD # MM /\ FS # MM
  BY <1>1, <1>2
<1>. QED
  BY <1>3, ServersAssumption, IpcAssumption
     DEF ServersAssumption, IpcAssumption, Tasks, Users

\* A message of Say is one of Ipc's.
LEMMA SayIsPayload ==
  ASSUME NEW k \in FromUsers \union ToDrivers \union Answers,
         NEW a \in Procs \union {NO_TASK}, NEW d \in Ttys \union {HD}
  PROVE  /\ Say(k, a, d) \in Payloads /\ Say(k, a, d) \in Types
         /\ Say(k, a, d).kind = k /\ Say(k, a, d).about = a /\ Say(k, a, d).dev = d
BY ServersAssumption DEF ServersAssumption, Say, Payloads

\* HARD_INT and the type of a cleared MESSAGE say nothing of the kind.
LEMMA NotPayloads == HARD_INT \notin Payloads /\ NoType \notin Payloads
BY ServersAssumption, IpcAssumption DEF ServersAssumption, IpcAssumption

----------------------------------------------------------------------------
\* The calls of Ipc, row by row.
Others(X) ==
  \A x \in Procs \ X :
    /\ p_flags'[x] = p_flags[x] /\ p_recvfrom'[x] = p_recvfrom[x]
    /\ p_sendto'[x] = p_sendto[x] /\ reply_from'[x] = reply_from[x]
    /\ buf'[x] = buf[x]

Ready(x, r, m) == p_flags'[x] = {} /\ reply_from'[x] = r /\ buf'[x] = m

Listens(d, p) == p_flags[d] = {RECEIVING} /\ p_recvfrom[d] \in {p, ANY}

\* A SEND of m by p that leaves r in reply_from: taken, queued, refused.
Taken(p, d, r, m) ==
  /\ Listens(d, p) /\ Ready(p, r, m) /\ Ready(d, reply_from[d], m)
  /\ Others({p, d}) /\ halted' = halted

Queued(p, d, r, m) ==
  /\ ~Listens(d, p) /\ p_flags'[p] = {SENDING} /\ p_sendto'[p] = d
  /\ reply_from'[p] = r /\ buf'[p] = m
  /\ Others({p}) /\ halted' = halted

Refused(p, d, r, m) ==
  Deadlock(p, d) /\ Ready(p, r, m) /\ Others({p}) /\ halted'

\* A RECEIVE by p: an interrupt, a message, or sleep.
Struck(p) ==
  /\ has_int_msg[p] /\ p_flags'[p] = {} /\ reply_from'[p] = NO_TASK
  /\ buf'[p] = [source |-> INTERRUPT, type |-> HARD_INT]
  /\ has_int_msg' = [has_int_msg EXCEPT ![p] = FALSE]
  /\ Others({p}) /\ halted' = halted

Fetched(p, from) ==
  /\ p_flags[from] = {SENDING} /\ p_sendto[from] = p
  /\ Ready(p, NO_TASK, buf[from]) /\ Ready(from, reply_from[from], buf[from])
  /\ Others({p, from}) /\ has_int_msg' = has_int_msg /\ halted' = halted

Slept(p, s, m) ==
  /\ p_flags'[p] = {RECEIVING} /\ p_recvfrom'[p] = s /\ reply_from'[p] = NO_TASK
  /\ buf'[p] = m /\ Others({p}) /\ has_int_msg' = has_int_msg
  /\ halted' = has_int_msg[p]

\* The flags of a process say that it runs, sends or receives, and nothing else.
LEMMA Flags ==
  ASSUME IInv, NEW x \in Procs
  PROVE  /\ p_flags[x] \in {{}, {SENDING}, {RECEIVING}}
         /\ Sending(x) <=> p_flags[x] = {SENDING}
         /\ Receiving(x) <=> p_flags[x] = {RECEIVING}
         /\ {SENDING} # {} /\ {RECEIVING} # {} /\ {SENDING} # {RECEIVING}
  BY DEF IInv, FlagsInv, Sending, Receiving, SENDING, RECEIVING

\* What msg_send(p, d) does to the rows of the table: d takes the message, p queues
\* for d, or the system stops for a cycle.
LEMMA MsgSendRows ==
  ASSUME IInv, NEW p \in Procs, NEW d \in Procs, p # d, Runnable(p), NEW r,
         NEW m, MsgSend(p, d, m), reply_from' = [reply_from EXCEPT ![p] = r]
  PROVE  /\ has_int_msg' = has_int_msg
         /\ Taken(p, d, r, m) \/ Queued(p, d, r, m) \/ Refused(p, d, r, m)
<1>1. /\ p_flags \in [Procs -> SUBSET {SENDING, RECEIVING}]
      /\ p_recvfrom \in [Procs -> Procs \union {ANY, INTERRUPT, NO_TASK}]
      /\ p_sendto \in [Procs -> Procs \union {NO_TASK}]
      /\ buf \in [Procs -> Message]
      /\ reply_from \in [Procs -> Procs \union {NO_TASK}]
      /\ p_flags[p] = {} /\ ~halted
  BY DEF IInv, TypeOK, Runnable
<1>2. /\ Receiving(d) => p_flags[d] = {RECEIVING}
      /\ {SENDING} # {} /\ {RECEIVING} # {} /\ {RECEIVING} \ {RECEIVING} = {}
      /\ {} \union {SENDING} = {SENDING}
      /\ p_flags[d] = {RECEIVING} => Receiving(d)
  BY Flags
<1>3. CASE Handover(p, d, m)
  BY <1>1, <1>2, <1>3 DEF Handover, WaitsFor, Taken, Listens, Ready, Others
<1>4. CASE Enqueue(p, d, m)
  BY <1>1, <1>2, <1>4 DEF Enqueue, WaitsFor, Queued, Listens, Others
<1>5. CASE PanicOnCycle(p, d, m)
  BY <1>1, <1>5 DEF PanicOnCycle, Refused, Ready, Others, ipcVars
<1>. QED
  BY <1>3, <1>4, <1>5 DEF MsgSend, Handover, Enqueue, PanicOnCycle, ipcVars

\* What msg_receive(p, s) does to them: p takes an interrupt, or the message of a
\* sender s admits, or sleeps when there is neither.
LEMMA MsgReceiveRows ==
  ASSUME IInv, NEW p \in Procs, NEW s, Runnable(p), NEW m, MsgReceive(p, s, m),
         reply_from' = [reply_from EXCEPT ![p] = NO_TASK]
  PROVE  \/ s \in {ANY, INTERRUPT} /\ Struck(p)
         \/ \E from \in Procs : from # p /\ s \in {from, ANY} /\ Fetched(p, from)
         \/ /\ Slept(p, s, m) /\ ~IntPending(p, s)
            /\ \A q \in Procs :
                 s \in {q, ANY} => ~(p_flags[q] = {SENDING} /\ p_sendto[q] = p)
<1>1. /\ p_flags \in [Procs -> SUBSET {SENDING, RECEIVING}]
      /\ p_recvfrom \in [Procs -> Procs \union {ANY, INTERRUPT, NO_TASK}]
      /\ p_sendto \in [Procs -> Procs \union {NO_TASK}]
      /\ buf \in [Procs -> Message] /\ q_sending \in [Procs -> Seq(Procs)]
      /\ reply_from \in [Procs -> Procs \union {NO_TASK}]
      /\ p_flags[p] = {} /\ ~halted /\ has_int_msg \in [Procs -> BOOLEAN]
  BY DEF IInv, TypeOK, Runnable
<1>2. /\ {SENDING} # {} /\ {SENDING} \ {SENDING} = {}
      /\ {} \union {RECEIVING} = {RECEIVING}
      /\ \A q \in Procs : p_flags[q] = {SENDING} <=> Sending(q)
  BY Flags
<1>3. CASE TakeInterrupt(p, s)
  BY <1>1, <1>3 DEF TakeInterrupt, IntPending, Struck, Others
<1>4. CASE TakeMessage(p, s)
  <2>1. PICK i \in 1 .. Len(q_sending[p]), from \in Procs :
          /\ from = q_sending[p][i]
          /\ IF s = ANY THEN i = 1 ELSE from = s
          /\ buf' = [buf EXCEPT ![p] = buf[from]]
          /\ p_sendto' = [p_sendto EXCEPT ![from] = NO_TASK]
          /\ p_flags' = [p_flags EXCEPT ![from] = @ \ {SENDING}]
          /\ UNCHANGED <<p_recvfrom, has_int_msg, halted>>
    BY <1>1, <1>4, ElementOfSeq DEF TakeMessage, Fetch
  <2>2. Contains(q_sending[p], from)
    BY <2>1 DEF Contains
  <2>3. Sending(from) /\ p_sendto[from] = p /\ p_flags[from] = {SENDING} /\ from # p
    BY <1>1, <1>2, <2>2 DEF IInv, QueueInv
  <2>4. Fetched(p, from) /\ s \in {from, ANY}
    BY <1>1, <1>2, <2>1, <2>3 DEF Fetched, Ready, Others
  <2>. QED
    BY <2>3, <2>4
<1>5. CASE BlockReceiving(p, s, m)
  <2>1. Slept(p, s, m) /\ ~IntPending(p, s)
    BY <1>1, <1>2, <1>5 DEF BlockReceiving, Slept, Others
  <2>2. \A q \in Procs : s \in {q, ANY} => ~(p_flags[q] = {SENDING} /\ p_sendto[q] = p)
    BY <1>2, <1>5, NobodyReady DEF BlockReceiving, IInv
  <2>. QED
    BY <2>1, <2>2
<1>. QED
  BY <1>3, <1>4, <1>5 DEF MsgReceive

----------------------------------------------------------------------------
\* The calls, by what becomes of the processes.
Same(X) == \A x \in Procs \ X :
  Mode(x)' = Mode(x) /\ Peer(x)' = Peer(x) /\ buf'[x] = buf[x]

Accepts(d, p) == Mode(d) = "waits" /\ Peer(d) \in {p, ANY}

Letter(p, t) == [source |-> p, type |-> t]

\* p sends m to d, which runs on with it, or will find it.
Gives(p, d, m) ==
  /\ Accepts(d, p) /\ Free(d)' /\ buf'[p] = m /\ buf'[d] = m
  /\ Same({p, d}) /\ halted' = halted
Leaves(p, d, m) ==
  ~Accepts(d, p) /\ buf'[p] = m /\ Same({p}) /\ halted' = halted

Told(p, d, m) == \/ Gives(p, d, m) /\ Free(p)'
                 \/ Leaves(p, d, m) /\ Tells(p, d)'
Asked(p, d, m) == \/ Gives(p, d, m) /\ Turns(p, d)'
                  \/ Leaves(p, d, m) /\ Asks(p, d)'

\* A SEND that closes a cycle is the last step.
Stopped(p, d, m) == Deadlock(p, d) /\ buf'[p] = m /\ Same({p}) /\ halted'

\* p takes the message from left for it, which ends the sender's SEND.
Hears(p, from) ==
  /\ Peer(from) = p /\ Free(p)' /\ buf'[p] = buf[from] /\ buf'[from] = buf[from]
  /\ \/ Mode(from) = "asks" /\ Turns(from, p)'
     \/ Mode(from) = "tells" /\ Free(from)'
  /\ Same({p, from}) /\ halted' = halted

Unheard(p, q) == ~(Mode(q) \in {"asks", "tells"} /\ Peer(q) = p)

Sleeps(p, s, m) ==
  Waits(p, s)' /\ buf'[p] = m /\ Same({p}) /\ halted' = has_int_msg[p]

\* What the mode of a process says of its row.
LEMMA Modes ==
  ASSUME IInv, NEW x \in Procs
  PROVE  /\ Sending(x) <=> Mode(x) \in {"asks", "tells"}
         /\ Receiving(x) <=> Mode(x) = "waits"
         /\ p_flags[x] = {} <=> Mode(x) \in {"free", "turns"}
         /\ p_flags[x] = {SENDING} => Peer(x) = p_sendto[x]
         /\ p_flags[x] = {RECEIVING} => Peer(x) = p_recvfrom[x]
         /\ p_flags[x] = {} => Peer(x) = reply_from[x]
         /\ Free(x) <=> p_flags[x] = {} /\ reply_from[x] = NO_TASK
  BY Flags DEF Mode, Peer, Turns, Free

\* Processes whose row of the table stays do not change.
LEMMA OthersSame ==
  ASSUME NEW X, Others(X)
  PROVE  /\ Same(X)
         /\ Halves => \A x \in Procs \ X :
                        /\ Mode(x)' = "asks" => reply_from'[x] = p_sendto'[x]
                        /\ Mode(x)' = "waits" => reply_from'[x] = NO_TASK
<1>1. Same(X)
  BY DEF Others, Same, Mode, Peer
<1>. QED
  BY <1>1 DEF Others, Same, Halves

\* A SEND of a process outside any call: taken, queued, or the system stops.
LEMMA SendCases ==
  ASSUME IInv, Halves, NEW p \in Procs, NEW d \in Procs, NEW t \in Types,
         Send(p, d, t)
  PROVE  /\ IInv' /\ Halves' /\ Free(p) /\ ~halted /\ p # d
         /\ has_int_msg' = has_int_msg
         /\ \/ Told(p, d, Letter(p, t))
            \/ Stopped(p, d, Letter(p, t)) /\ Free(p)'
<1> DEFINE m == Letter(p, t)
<1>1. IInv'
  BY NextIInv DEF Next
<1>2. /\ reply_from' = [reply_from EXCEPT ![p] = NO_TASK] /\ p_flags[p] = {}
      /\ ~halted /\ p # d /\ MsgSend(p, d, m) /\ Runnable(p) /\ reply_from[p] = NO_TASK
  BY DEF Send, Runnable, IInv, TypeOK, Letter
<1>. HIDE DEF m
<1>3. /\ has_int_msg' = has_int_msg
      /\ Taken(p, d, NO_TASK, m) \/ Queued(p, d, NO_TASK, m) \/ Refused(p, d, NO_TASK, m)
  BY <1>2, MsgSendRows
<1>4. Listens(d, p) <=> Accepts(d, p)
  BY Flags DEF Listens, Accepts, Mode, Peer
<1>5. {SENDING} # {} /\ Free(p)
  BY <1>2 DEF Free, Mode
<1>6. CASE Taken(p, d, NO_TASK, m)
  <2>1. Same({p, d}) /\ reply_from[d] = NO_TASK
    BY <1>2, <1>4, <1>6, OthersSame DEF Taken, Accepts, Halves
  <2>2. Free(p)' /\ Free(d)'
    BY <1>6, <2>1 DEF Taken, Ready, Free, Mode
  <2>3. Halves'
    BY <1>6, <2>2, OthersSame DEF Taken, Halves, Free
  <2>. QED
    BY <1>1, <1>2, <1>3, <1>4, <1>5, <1>6, <2>1, <2>2, <2>3 DEF Taken, Ready, Told, Gives, m
<1>7. CASE Queued(p, d, NO_TASK, m)
  <2>1. Same({p}) /\ Tells(p, d)'
    BY <1>5, <1>7, OthersSame DEF Queued, Tells, Mode, Peer
  <2>2. Halves'
    BY <1>7, <2>1, OthersSame DEF Queued, Halves, Tells
  <2>. QED
    BY <1>1, <1>2, <1>3, <1>4, <1>5, <1>7, <2>1, <2>2 DEF Queued, Told, Leaves, m
<1>8. CASE Refused(p, d, NO_TASK, m)
  <2>1. Same({p}) /\ Free(p)'
    BY <1>8, OthersSame DEF Refused, Ready, Free, Mode
  <2>2. Halves'
    BY <1>8, <2>1, OthersSame DEF Refused, Halves, Free
  <2>. QED
    BY <1>1, <1>2, <1>3, <1>5, <1>8, <2>1, <2>2 DEF Refused, Ready, Stopped, m
<1>. QED
  BY <1>3, <1>6, <1>7, <1>8

\* The SEND of a BOTH: the same, and the answer is due from d.
LEMMA SendRecCases ==
  ASSUME IInv, Halves, NEW p \in Procs, NEW d \in Procs, NEW t \in Types,
         SendRec(p, d, t)
  PROVE  /\ IInv' /\ Halves' /\ Free(p) /\ ~halted /\ p # d
         /\ has_int_msg' = has_int_msg
         /\ \/ Asked(p, d, Letter(p, t))
            \/ Stopped(p, d, Letter(p, t)) /\ Turns(p, d)'
<1> DEFINE m == Letter(p, t)
<1>1. IInv'
  BY NextIInv DEF Next
<1>2. /\ reply_from' = [reply_from EXCEPT ![p] = d] /\ p_flags[p] = {}
      /\ ~halted /\ p # d /\ MsgSend(p, d, m) /\ Runnable(p) /\ reply_from[p] = NO_TASK
  BY DEF SendRec, Runnable, Letter
<1>. HIDE DEF m
<1>3. /\ has_int_msg' = has_int_msg
      /\ Taken(p, d, d, m) \/ Queued(p, d, d, m) \/ Refused(p, d, d, m)
  BY <1>2, MsgSendRows
<1>4. Listens(d, p) <=> Accepts(d, p)
  BY Flags DEF Listens, Accepts, Mode, Peer
<1>5. {SENDING} # {} /\ Free(p) /\ d # NO_TASK
  BY <1>2, IpcAssumption DEF Free, Mode, IpcAssumption
<1>6. CASE Taken(p, d, d, m)
  <2>1. Same({p, d}) /\ reply_from[d] = NO_TASK
    BY <1>2, <1>4, <1>6, OthersSame DEF Taken, Accepts, Halves
  <2>2. Turns(p, d)' /\ Free(d)'
    BY <1>5, <1>6, <2>1 DEF Taken, Ready, Free, Turns, Mode, Peer
  <2>3. Halves'
    BY <1>6, <2>2, OthersSame DEF Taken, Halves, Free, Turns
  <2>. QED
    BY <1>1, <1>2, <1>3, <1>4, <1>5, <1>6, <2>1, <2>2, <2>3 DEF Taken, Ready, Asked, Gives, m
<1>7. CASE Queued(p, d, d, m)
  <2>1. Same({p}) /\ Asks(p, d)' /\ reply_from'[p] = p_sendto'[p]
    BY <1>5, <1>7, OthersSame DEF Queued, Asks, Mode, Peer
  <2>2. Halves'
    BY <1>7, <2>1, OthersSame DEF Queued, Halves, Asks
  <2>. QED
    BY <1>1, <1>2, <1>3, <1>4, <1>5, <1>7, <2>1, <2>2 DEF Queued, Asked, Leaves, m
<1>8. CASE Refused(p, d, d, m)
  <2>1. Same({p}) /\ Turns(p, d)'
    BY <1>5, <1>8, OthersSame DEF Refused, Ready, Turns, Mode, Peer
  <2>2. Halves'
    BY <1>8, <2>1, OthersSame DEF Refused, Halves, Turns
  <2>. QED
    BY <1>1, <1>2, <1>3, <1>5, <1>8, <2>1, <2>2 DEF Refused, Ready, Stopped, m
<1>. QED
  BY <1>3, <1>6, <1>7, <1>8

\* The sender whose message is taken goes on, to wait for its answer or free.
LEMMA FetchedHears ==
  ASSUME IInv, Halves, NEW p \in Procs, NEW from \in Procs, from # p,
         Fetched(p, from)
  PROVE  /\ Hears(p, from) /\ Halves' /\ Mode(from) \in {"asks", "tells"}
         /\ has_int_msg' = has_int_msg
<1>1. Same({p, from}) /\ Free(p)'
  BY OthersSame DEF Fetched, Ready, Free, Mode
<1>2. /\ Mode(from) \in {"asks", "tells"} /\ Peer(from) = p
      /\ Mode(from) = "asks" => reply_from[from] = p
      /\ Mode(from) = "tells" => reply_from[from] = NO_TASK
      /\ p # NO_TASK
  BY Flags, IpcAssumption DEF Fetched, Mode, Peer, Halves, IpcAssumption
<1>3. \/ Mode(from) = "asks" /\ Turns(from, p)'
      \/ Mode(from) = "tells" /\ Free(from)'
  BY <1>2 DEF Fetched, Ready, Turns, Free, Mode, Peer
<1>4. Halves'
  BY <1>1, <1>3, OthersSame DEF Fetched, Halves, Free, Turns
<1>. QED
  BY <1>1, <1>2, <1>3, <1>4 DEF Fetched, Ready, Hears

\* A process that sleeps is in a RECEIVE, its message names itself until it wakes.
LEMMA SleptSleeps ==
  ASSUME IInv, Halves, NEW p \in Procs, NEW s, NEW m, Slept(p, s, m)
  PROVE  Sleeps(p, s, m) /\ Halves' /\ has_int_msg' = has_int_msg
<1>1. {RECEIVING} # {} /\ {RECEIVING} # {SENDING}
  BY Flags
<1>2. Same({p}) /\ Waits(p, s)'
  BY <1>1, OthersSame DEF Slept, Waits, Mode, Peer
<1>3. Halves'
  BY <1>2, OthersSame DEF Slept, Halves, Waits
<1>. QED
  BY <1>2, <1>3 DEF Slept, Sleeps

\* The RECEIVE of a BOTH: of the process that was called, which has answered or not.
LEMMA ReplyCases ==
  ASSUME IInv, Halves, NEW p \in Procs, Reply(p),
         NEW s \in Procs, Turns(p, s) \/ reply_from[p] = s
  PROVE  /\ IInv' /\ Halves' /\ Turns(p, s) /\ ~halted /\ p # s
         /\ has_int_msg' = has_int_msg
         /\ \/ Hears(p, s) /\ Mode(s) \in {"asks", "tells"}
            \/ Sleeps(p, s, [buf[p] EXCEPT !.source = p]) /\ Unheard(p, s)
<1> DEFINE m == [buf[p] EXCEPT !.source = p]
<1>1. IInv'
  BY NextIInv DEF Next
<1>2. /\ reply_from' = [reply_from EXCEPT ![p] = NO_TASK] /\ p_flags[p] = {}
      /\ ~halted /\ MsgReceive(p, reply_from[p], m) /\ Runnable(p)
      /\ reply_from[p] # NO_TASK
  BY DEF Reply, Runnable
<1>. HIDE DEF m
<1>3. reply_from[p] = s /\ Turns(p, s) /\ p # s
  BY <1>2 DEF Turns, Mode, Peer, IInv, ReplyInv
<1>4. s # ANY /\ s # INTERRUPT
  BY IpcAssumption DEF IpcAssumption
<1>5. \/ Fetched(p, s)
      \/ Slept(p, s, m) /\ ~(p_flags[s] = {SENDING} /\ p_sendto[s] = p)
  BY <1>2, <1>3, <1>4, MsgReceiveRows
<1>6. CASE Fetched(p, s)
  BY <1>1, <1>2, <1>3, <1>6, FetchedHears
<1>7. CASE Slept(p, s, m) /\ ~(p_flags[s] = {SENDING} /\ p_sendto[s] = p)
  <2>1. Unheard(p, s)
    BY <1>7, Modes, Flags DEF Unheard
  <2>. QED
    BY <1>1, <1>2, <1>3, <1>7, <2>1, SleptSleeps DEF m
<1>. QED
  BY <1>5, <1>6, <1>7

\* RECEIVE from ANY or INTERRUPT.
LEMMA ReceiveCases ==
  ASSUME IInv, Halves, NEW p \in Procs, NEW s \in {ANY, INTERRUPT}, Receive(p, s)
  PROVE  /\ IInv' /\ Halves' /\ Free(p) /\ ~halted
         /\ \/ /\ has_int_msg[p] /\ Free(p)' /\ Same({p}) /\ halted' = halted
               /\ buf'[p] = [source |-> INTERRUPT, type |-> HARD_INT]
               /\ has_int_msg' = [has_int_msg EXCEPT ![p] = FALSE]
            \/ /\ s = ANY /\ has_int_msg' = has_int_msg
               /\ \E from \in Procs : /\ from # p /\ Hears(p, from)
                                      /\ Mode(from) \in {"asks", "tells"}
            \/ /\ Sleeps(p, s, Letter(p, NoType)) /\ ~has_int_msg[p]
               /\ has_int_msg' = has_int_msg
               /\ s = ANY => \A q \in Procs : Unheard(p, q)
<1> DEFINE m == Letter(p, NoType)
<1>1. IInv'
  BY NextIInv DEF Next
<1>2. /\ reply_from' = [reply_from EXCEPT ![p] = NO_TASK] /\ p_flags[p] = {}
      /\ ~halted /\ MsgReceive(p, s, m) /\ Runnable(p) /\ reply_from[p] = NO_TASK
  BY DEF Receive, Runnable, IInv, TypeOK, Letter
<1>. HIDE DEF m
<1>3. s \notin Procs /\ Free(p)
  BY <1>2, IpcAssumption DEF Free, Mode, IpcAssumption
<1>4. \/ Struck(p)
      \/ s = ANY /\ \E from \in Procs : from # p /\ Fetched(p, from)
      \/ /\ Slept(p, s, m) /\ ~IntPending(p, s)
         /\ \A q \in Procs :
              s \in {q, ANY} => ~(p_flags[q] = {SENDING} /\ p_sendto[q] = p)
  BY <1>2, <1>3, MsgReceiveRows
<1>5. CASE Struck(p)
  <2>1. Same({p}) /\ Free(p)'
    BY <1>5, OthersSame DEF Struck, Free, Mode
  <2>2. Halves'
    BY <1>5, <2>1, OthersSame DEF Struck, Halves, Free
  <2>. QED
    BY <1>1, <1>2, <1>3, <1>5, <2>1, <2>2 DEF Struck
<1>6. CASE s = ANY /\ \E from \in Procs : from # p /\ Fetched(p, from)
  BY <1>1, <1>2, <1>3, <1>6, FetchedHears
<1>7. CASE /\ Slept(p, s, m) /\ ~IntPending(p, s)
           /\ \A q \in Procs :
                s \in {q, ANY} => ~(p_flags[q] = {SENDING} /\ p_sendto[q] = p)
  <2>1. s = ANY => \A q \in Procs : Unheard(p, q)
    BY <1>7, Modes, Flags DEF Unheard
  <2>. QED
    BY <1>1, <1>2, <1>3, <1>7, <2>1, SleptSleeps DEF m, IntPending
<1>. QED
  BY <1>4, <1>5, <1>6, <1>7

\* An interrupt wakes a task whose RECEIVE admits it, or stays pending.
LEMMA InformCases ==
  ASSUME IInv, Halves, NEW t \in IntTasks, InformInt(t)
  PROVE  /\ IInv' /\ Halves' /\ t \in Procs /\ ~halted /\ halted' = halted
         /\ \/ /\ Waits(t, ANY) \/ Waits(t, INTERRUPT)
               /\ Free(t)' /\ Same({t})
               /\ buf'[t] = [source |-> INTERRUPT, type |-> HARD_INT]
               /\ has_int_msg' = [has_int_msg EXCEPT ![t] = FALSE]
            \/ /\ ~(Waits(t, ANY) \/ Waits(t, INTERRUPT)) /\ Same({})
               /\ has_int_msg' = [has_int_msg EXCEPT ![t] = TRUE]
<1>1. t \in Procs
  BY IpcAssumption DEF IpcAssumption
<1>2. IInv'
  BY NextIInv DEF Next
<1>3. /\ p_flags \in [Procs -> SUBSET {SENDING, RECEIVING}]
      /\ p_recvfrom \in [Procs -> Procs \union {ANY, INTERRUPT, NO_TASK}]
      /\ buf \in [Procs -> Message]
      /\ UNCHANGED <<p_sendto, reply_from, halted>> /\ ~halted
  BY DEF IInv, TypeOK, InformInt
<1>4. /\ {RECEIVING} \ {RECEIVING} = {}
      /\ p_flags[t] = {RECEIVING} <=> Receiving(t)
      /\ Receiving(t) => Mode(t) = "waits" /\ Peer(t) = p_recvfrom[t]
      /\ Mode(t) = "waits" => Receiving(t)
  BY <1>1, Flags, Modes
<1>5. CASE Receiving(t) /\ p_recvfrom[t] \in {INTERRUPT, ANY}
  <2>1. /\ Others({t}) /\ p_flags'[t] = {}
        /\ has_int_msg' = [has_int_msg EXCEPT ![t] = FALSE]
        /\ buf'[t] = [source |-> INTERRUPT, type |-> HARD_INT]
    BY <1>1, <1>3, <1>4, <1>5 DEF InformInt, Others
  <2>2. reply_from'[t] = NO_TASK
    BY <1>1, <1>3, <1>4, <1>5 DEF Halves
  <2>3. Same({t}) /\ Free(t)'
    BY <2>1, <2>2, OthersSame DEF Free, Mode
  <2>4. Halves'
    BY <2>1, <2>3, OthersSame DEF Halves, Free
  <2>. QED
    BY <1>1, <1>2, <1>3, <1>4, <1>5, <2>1, <2>3, <2>4 DEF Waits
<1>6. CASE ~(Receiving(t) /\ p_recvfrom[t] \in {INTERRUPT, ANY})
  <2>1. Others({}) /\ has_int_msg' = [has_int_msg EXCEPT ![t] = TRUE]
    BY <1>3, <1>6 DEF InformInt, Others
  <2>2. Same({}) /\ Halves'
    BY <2>1, OthersSame DEF Halves
  <2>. QED
    BY <1>1, <1>2, <1>3, <1>4, <1>6, <2>1, <2>2 DEF Waits
<1>. QED
  BY <1>5, <1>6

----------------------------------------------------------------------------
\* What a step of one process does to the others.
Passive(x) ==
  /\ pc'[x] = pc[x]
  /\ \/ Mode(x)' = Mode(x) /\ Peer(x)' = Peer(x) /\ buf'[x] = buf[x]
     \/ Mode(x) = "waits" /\ Free(x)'
     \/ /\ Mode(x) = "asks" /\ Mode(x)' = "turns" /\ Peer(x)' = Peer(x)
        /\ buf'[x] = buf[x]
     \/ Mode(x) = "tells" /\ Free(x)' /\ buf'[x] = buf[x]

OthersPassive(p) == \A x \in Procs \ {p} : Passive(x)

\* x gets a message it has waited for.
Gets(x) == Mode(x) = "waits" /\ Free(x)'
Kept(x) == /\ Mode(x)' = Mode(x) /\ Peer(x)' = Peer(x) /\ buf'[x] = buf[x]
           /\ pc'[x] = pc[x]

\* A process that another one's step leaves alone, wakes, or takes the message of,
\* stays where its statement says it may be.
LEMMA PassiveAt ==
  ASSUME NEW x \in Procs, At(x), Passive(x)
  PROVE  At(x)'
<1>. USE Distinct DEF Passive, Free, Turns, Returning, Calling, Telling, Waits, Asks
<1>1. ASSUME x \in Users PROVE UserAt(x)'
  <2>1. PICK s \in {FS, SYS, MM} : \/ pc[x] = "top" /\ Returning(x, s)
                                   \/ pc[x] = "called" /\ Calling(x, s)
    BY <1>1 DEF At, UserAt
  <2>2. \/ pc'[x] = "top" /\ Returning(x, s)'
        \/ pc'[x] = "called" /\ Calling(x, s)'
    BY <2>1
  <2>. QED
    BY <2>2 DEF UserAt
<1>2. x \in {SYS, TTY} => ServerAt(x)'
  BY DEF At, ServerAt
<1>3. x = HD => HdAt'
  BY DEF At, HdAt, ServerAt
<1>4. x = FS => FsAt'
  BY DEF At, FsAt, ServerAt
<1>5. x = MM => MmAt'
  BY DEF At, MmAt, ServerAt
<1>. QED
  BY <1>1, <1>2, <1>3, <1>4, <1>5 DEF At

\* So Places takes a look at the process that makes the step, and no other.
LEMMA PlacesStep ==
  ASSUME Places, NEW p \in Procs, OthersPassive(p), At(p)'
  PROVE  Places'
BY PassiveAt DEF Places, OthersPassive

\* A message that arrives is work or an answer, and what was work stays it when
\* FS takes up another request or MM another child.
WorkAfter(s, m) == WorkOf(s, m, src'[FS], child')

Fits(x) == /\ x \in Tasks /\ pc[x] = "got" =>
                WorkAfter(x, buf'[x]) \/ (x = TTY /\ buf'[x].type = HARD_INT)
           /\ x \in Users => IsDone(x, buf'[x])

WorkStays(x) == /\ Mode(x) = "asks" => WorkAfter(Peer(x), buf[x])
                /\ x \in Tasks /\ Working(x) =>
                     WorkAfter(x, buf[x]) \/ (x = TTY /\ buf[x].type = HARD_INT)

\* Such a process says what it said, and one that gets a message gets a fitting one.
LEMMA PassiveWord ==
  ASSUME NEW x \in Procs, At(x), Word(x), Passive(x), Gets(x) => Fits(x),
         WorkStays(x)
  PROVE  Word(x)'
<1>. USE Distinct DEF Passive, Free
<1>1. /\ IsWork(x, buf[x])' <=> WorkAfter(x, buf'[x])
      /\ IsWork(Peer(x), buf[x])' <=> WorkOf(Peer(x)', buf'[x], src'[FS], child')
  BY DEF IsWork, WorkAfter
<1>2. \A s, d, m : (IsAnswer(s, d, m)' <=> IsAnswer(s, d, m)) /\ (IsDone(d, m)' <=> IsDone(d, m))
  BY DEF IsAnswer, IsDone
<1>3. Mode(x) = "tells" => x \in Tasks /\ x \notin Users /\ pc[x] # "got"
  <2>1. ASSUME x \in Users PROVE Mode(x) # "tells"
    BY <2>1 DEF At, UserAt, Returning, Calling, Waits, Asks, Turns
  <2>2. ASSUME Mode(x) = "tells", x \notin Users PROVE pc[x] # "got"
    BY <2>2 DEF At, ServerAt, HdAt, FsAt, MmAt, Returning, Calling, Waits, Asks, Users, Tasks
  <2>. QED
    BY <2>1, <2>2 DEF Users
<1>4. CASE Mode(x)' = Mode(x) /\ Peer(x)' = Peer(x) /\ buf'[x] = buf[x]
  <2>1. Mode(x)' = "asks" => buf'[x].source = x /\ IsWork(Peer(x), buf[x])'
    BY <1>1, <1>4 DEF Word, WorkStays, WorkAfter
  <2>2. Mode(x)' = "tells" => IsAnswer(x, Peer(x), buf[x])'
    BY <1>4 DEF Word, IsAnswer
  <2>3. x \in Tasks /\ Working(x)' =>
          IsWork(x, buf[x])' \/ (x = TTY /\ buf'[x].type = HARD_INT)
    BY <1>1, <1>4 DEF WorkStays, Working
  <2>4. x \in Users /\ Free(x)' => IsDone(x, buf[x])'
    BY <1>4 DEF Word, IsDone, IsAnswer
  <2>. QED
    BY <2>1, <2>2, <2>3, <2>4 DEF Word
<1>5. CASE Mode(x) = "waits" /\ Free(x)'
  BY <1>1, <1>2, <1>5 DEF Word, Working, Gets, Fits
<1>6. CASE Mode(x) = "asks" /\ Mode(x)' = "turns" /\ buf'[x] = buf[x]
  BY <1>6 DEF Word, Working
<1>7. CASE Mode(x) = "tells" /\ Free(x)' /\ buf'[x] = buf[x]
  BY <1>3, <1>7 DEF Word, Working
<1>. QED
  BY <1>4, <1>5, <1>6, <1>7

\* So for Words only messages that are handed over matter.
LEMMA WordsStep ==
  ASSUME Places, Words, NEW p \in Procs, OthersPassive(p), Word(p)',
         \A x \in Procs \ {p} : (Gets(x) => Fits(x)) /\ WorkStays(x)
  PROVE  Words'
BY PassiveWord DEF Places, Words, OthersPassive

\* Requests stay requests while FS serves the same process and MM has the same child.
LEMMA WorkStaysWork ==
  ASSUME Words, src'[FS] = src[FS], child' = child
  PROVE  \A x \in Procs : WorkStays(x)
BY DEF Words, Word, WorkStays, WorkAfter, IsWork

\* Who owes what does not change if the task gets no new work.
OwnKept(s) ==
  /\ s = FS => src'[FS] = src[FS] /\ (Suspended => Suspended')
  /\ s = MM => src'[MM] = src[MM] /\ child' = child

\* A task that gets no work in the step of another owes nobody more after it.
LEMMA OwesLess ==
  ASSUME Places, NEW s \in Tasks, Passive(s), ~(Gets(s) /\ pc[s] = "got"),
         OwnKept(s)
  PROVE  \A x : Owes(s, x)' => Owes(s, x)
<1>. USE Distinct DEF Passive, Gets, Free, Working, Tells, OwnKept
<1>0. Mode(s) = "tells" => pc[s] # "got"
  BY DEF Places, At, ServerAt, HdAt, FsAt, MmAt, Returning, Calling, Waits, Asks, Turns, Tasks
<1>1. s = SYS => \A x : SysOwes(x)' => SysOwes(x)
  BY <1>0 DEF SysOwes
<1>2. s = HD => \A x : HdOwes(x)' => HdOwes(x)
  BY <1>0 DEF HdOwes
<1>3. s = TTY => \A x : TtyOwes(x)' => TtyOwes(x)
  BY <1>0 DEF TtyOwes, Resuming
<1>4. s = MM => \A x : MmOwes(x)' => MmOwes(x)
  BY <1>0 DEF MmOwes
<1>5. s = FS => \A x : FsOwes(x)' => FsOwes(x)
  BY <1>0 DEF FsOwes
<1>. QED
  BY <1>1, <1>2, <1>3, <1>4, <1>5 DEF Owes

\* TTY keeps no more readers while its table stays.
LEMMA KeepsLess ==
  ASSUME Passive(TTY), tty_procnr' = tty_procnr
  PROVE  /\ Resuming' => Resuming /\ buf'[TTY] = buf[TTY]
         /\ \A x : TtyKeeps(x)' => TtyKeeps(x)
<1>1. Resuming' => Resuming /\ buf'[TTY] = buf[TTY]
  BY DEF Resuming, Passive, Tells, Free
<1>. QED
  BY <1>1 DEF TtyKeeps

\* A step of p, by what p and the tasks that get a request from it owe after it.
LEMMA OwedStep ==
  ASSUME Places, Owed, NEW p \in Procs, OthersPassive(p),
         \A s \in Tasks \ {p} : OwnKept(s),
         p # TTY => tty_procnr' = tty_procnr,
         \A x \in Procs \ {p} : Gets(x) => Peer(x) = p \/ pc[x] = "got",
         \A s \in Tasks \ {p} : Owes(s, p) => Awaits(p, s)' \/ ~Owes(s, p)',
         TtyKeeps(p) => Awaits(p, FS)' \/ ~TtyKeeps(p)',
         \A s \in Tasks \ {p} : Gets(s) /\ pc[s] = "got" =>
           \A x \in Procs : Owes(s, x)' => Awaits(x, s)',
         \A x \in Procs : Owes(p, x)' => Awaits(x, p)',
         p = TTY => \A x \in Procs : TtyKeeps(x)' => Awaits(x, FS)',
         p = FS => \A x \in Procs : TtyKeeps(x)' => ~Gets(x)
  PROVE  Owed'
<1>. USE Distinct
<1>1. ASSUME NEW x \in Procs, x # p, NEW s \in Tasks, Awaits(x, s), s # p \/ ~Gets(x)
      PROVE  Awaits(x, s)'
  <2>1. Passive(x) /\ (Gets(x) => Peer(x) = p \/ pc[x] = "got")
    BY <1>1 DEF OthersPassive
  <2>2. pc[x] = "got" /\ Mode(x) = "waits" => Peer(x) = ANY
    BY <1>1 DEF Places, At, UserAt, ServerAt, HdAt, FsAt, MmAt, Returning, Calling,
                Telling, Waits, Asks, Turns, Free, Tasks, Users
  <2>3. ~Gets(x)
    BY <1>1, <2>1, <2>2 DEF Gets, Awaits, Turns, Waits, Tasks
  <2>. QED
    BY <1>1, <2>1, <2>3 DEF Passive, Gets, Awaits, Turns, Waits
<1>2. ASSUME NEW s \in Tasks, NEW x \in Procs, Owes(s, x)'
      PROVE  Awaits(x, s)'
  <2>1. CASE s = p
    BY <1>2, <2>1
  <2>2. CASE s # p /\ ~(Gets(s) /\ pc[s] = "got")
    <3>1. Owes(s, x)
      BY <1>2, <2>2, OwesLess DEF OthersPassive, Tasks
    <3>2. CASE x = p
      BY <1>2, <2>2, <3>1, <3>2
    <3>3. CASE x # p
      BY <1>1, <2>2, <3>1, <3>3 DEF Owed
    <3>. QED
      BY <3>2, <3>3
  <2>3. CASE s # p /\ Gets(s) /\ pc[s] = "got"
    BY <1>2, <2>3
  <2>. QED
    BY <2>1, <2>2, <2>3
<1>3. ASSUME NEW x \in Procs, TtyKeeps(x)'
      PROVE  Awaits(x, FS)'
  <2>1. CASE p = TTY
    BY <1>3, <2>1
  <2>2. CASE p # TTY
    <3>1. TtyKeeps(x)
      BY <1>3, <2>2, KeepsLess DEF OthersPassive
    <3>2. CASE x = p
      BY <1>3, <3>1, <3>2
    <3>3. CASE x # p
      BY <1>1, <1>3, <2>2, <3>1, <3>3 DEF Owed, Tasks
    <3>. QED
      BY <3>2, <3>3
  <2>. QED
    BY <2>1, <2>2
<1>. QED
  BY <1>2, <1>3 DEF Owed

\* A process that runs at a label is in no call, and the system has not stopped.
LEMMA Runs ==
  ASSUME IInv, NEW x \in Procs, NEW l, Running(x, l)
  PROVE  Free(x) /\ ~halted /\ pc[x] = l
  BY Modes DEF Running, Runnable

\* Goto moves one process.
LEMMA GotoOthers ==
  ASSUME Locals, NEW p \in Procs, NEW l \in Labels, Goto(p, l)
  PROVE  /\ pc'[p] = l /\ \A x \in Procs \ {p} : pc'[x] = pc[x]
         /\ pc' \in [Procs -> Labels]
  BY DEF Locals, Goto

PcStep(p) == \A x \in Procs \ {p} : pc'[x] = pc[x]

\* What a SEND does to other processes: only the one it goes to may notice.
LEMMA SentOthers ==
  ASSUME NEW p \in Procs, NEW d \in Procs, NEW m, PcStep(p), p # d,
         Told(p, d, m) \/ Asked(p, d, m)
  PROVE  /\ OthersPassive(p) /\ \A x \in Procs \ {p, d} : Kept(x)
         /\ \A x \in Procs \ {p} :
              Gets(x) => x = d /\ buf'[x] = m /\ Peer(d) \in {p, ANY}
         /\ ~Gets(d) => Kept(d)
         /\ buf'[p] = m
  BY DEF Told, Asked, Gives, Leaves, Same, Accepts, OthersPassive, Passive, Kept,
         Gets, PcStep, Free

\* What a RECEIVE does to other processes: only the sender notices, who gets nothing.
LEMMA HeardOthers ==
  ASSUME NEW p \in Procs, NEW from \in Procs, PcStep(p), p # from, Hears(p, from)
  PROVE  /\ OthersPassive(p) /\ \A x \in Procs \ {p, from} : Kept(x)
         /\ \A x \in Procs \ {p} : ~Gets(x)
  BY DEF Hears, Same, OthersPassive, Passive, Kept, Gets, PcStep, Turns, Free

\* A step that changes one row of the table is noticed by nobody else.
LEMMA SameOthers ==
  ASSUME NEW p \in Procs, PcStep(p), Same({p})
  PROVE  /\ OthersPassive(p) /\ \A x \in Procs \ {p} : Kept(x)
         /\ \A x \in Procs \ {p} : ~Gets(x)
  BY DEF Same, OthersPassive, Passive, Kept, Gets, PcStep, Free

----------------------------------------------------------------------------
\* The steps of Servers.  A step of p moves p, and a process that waits for p or
\* is blocked in a call to p.
StepOf(p) == OthersPassive(p) /\ \A x \in Procs \ {p} : Kept(x) \/ Peer(x) \in {p, ANY}

\* ... and a step in which the running p sends m to d, no other.
Moves(p, d) ==
  /\ StepOf(p) /\ p # d /\ Free(p) /\ ~halted
  /\ \A x \in Procs \ {p, d} : Kept(x)

Said(p, d, m) == Moves(p, d) /\ buf'[p] = m /\ has_int_msg' = has_int_msg

\* p, which answers d, goes on, is queued, or stops the system.
Answered(p, d, m) ==
  \/ Gets(d) /\ Accepts(d, p) /\ buf'[d] = m /\ Free(p)' /\ halted' = halted
  \/ Kept(d) /\ Tells(p, d)' /\ halted' = halted
  \/ Kept(d) /\ Free(p)' /\ Deadlock(p, d) /\ halted'

\* p, which calls d, will turn to the answer, is queued, or stops the system.
Called(p, d, m) ==
  \/ Gets(d) /\ Accepts(d, p) /\ buf'[d] = m /\ Turns(p, d)' /\ halted' = halted
  \/ Kept(d) /\ Asks(p, d)' /\ halted' = halted
  \/ Kept(d) /\ Turns(p, d)' /\ Deadlock(p, d) /\ halted'

\* A task that answers with a fitting answer: where everybody is, and who got it.
LEMMA TellStep ==
  ASSUME IInv, Halves, Places, Words, NEW p \in Tasks, NEW d \in Procs,
         NEW t \in Types, Send(p, d, t), PcStep(p), pc'[p] # "got",
         Telling(p)' => At(p)', IsAnswer(p, d, Letter(p, t)),
         \A x \in Procs \ {p} : WorkStays(x),
         buf'[d] = Letter(p, t) => Fits(d)
  PROVE  /\ IInv' /\ Halves' /\ Places' /\ Words'
         /\ Said(p, d, Letter(p, t)) /\ Answered(p, d, Letter(p, t))
<1> DEFINE m == Letter(p, t)
<1>. USE Distinct
<1>0. p \in Procs /\ p \notin Users
  BY DEF Tasks, Users
<1>1. /\ IInv' /\ Halves' /\ Free(p) /\ ~halted /\ p # d
      /\ has_int_msg' = has_int_msg
      /\ Told(p, d, m) \/ (Stopped(p, d, m) /\ Free(p)')
  BY <1>0, SendCases
<1>. HIDE DEF m
<1>2. ASSUME Told(p, d, m)
      PROVE  Said(p, d, m) /\ Answered(p, d, m)
  <2>1. /\ OthersPassive(p) /\ \A x \in Procs \ {p, d} : Kept(x)
        /\ \A x \in Procs \ {p} :
             Gets(x) => x = d /\ buf'[x] = m /\ Peer(d) \in {p, ANY}
        /\ ~Gets(d) => Kept(d)
        /\ buf'[p] = m
    BY <1>0, <1>1, <1>2, SentOthers
  <2>. QED
    BY <1>1, <1>2, <2>1 DEF Said, Moves, Answered, StepOf, Told, Gives, Leaves, Gets, Kept, Accepts,
                            Same
<1>3. ASSUME Stopped(p, d, m) /\ Free(p)'
      PROVE  Said(p, d, m) /\ Answered(p, d, m)
  <2>1. /\ OthersPassive(p) /\ \A x \in Procs \ {p} : Kept(x)
        /\ \A x \in Procs \ {p} : ~Gets(x)
    BY <1>0, <1>3, SameOthers DEF Stopped
  <2>. QED
    BY <1>1, <1>3, <2>1 DEF Said, Moves, Answered, StepOf, Stopped
<1>4. Said(p, d, m) /\ Answered(p, d, m) /\ OthersPassive(p)
  BY <1>1, <1>2, <1>3 DEF Said, Moves, StepOf
<1>5. Telling(p)' /\ Mode(p)' # "asks"
  BY <1>4 DEF Answered, Telling, Free, Tells
<1>6. Places'
  BY <1>0, <1>4, <1>5, PlacesStep
<1>7. Word(p)'
  <2>1. Mode(p)' = "tells" => Peer(p)' = d
    BY <1>4 DEF Answered, Tells, Free
  <2>2. IsAnswer(p, d, m) /\ buf'[p] = m
    BY <1>4 DEF Said, Moves, m
  <2>3. Mode(p)' = "tells" => IsAnswer(p, Peer(p), buf[p])'
    BY <2>1, <2>2 DEF IsAnswer
  <2>. QED
    BY <1>0, <1>5, <2>3 DEF Word, Working
<1>8. \A x \in Procs \ {p} : (Gets(x) => Fits(x)) /\ WorkStays(x)
  BY <1>4 DEF Said, Moves, Answered, Kept, Gets, Free, m
<1>9. Words'
  BY <1>0, <1>4, <1>7, <1>8, WordsStep
<1>. QED
  BY <1>1, <1>4, <1>6, <1>9 DEF m

\* A process that calls with a fitting request: where everybody is, and who got it.
LEMMA AskStep ==
  ASSUME IInv, Halves, Places, Words, NEW p \in Procs, NEW d \in Procs,
         NEW t \in Types, SendRec(p, d, t), PcStep(p), pc'[p] # "got",
         Calling(p, d)' => At(p)', WorkAfter(d, Letter(p, t)),
         \A x \in Procs \ {p} : WorkStays(x),
         buf'[d] = Letter(p, t) => Fits(d)
  PROVE  /\ IInv' /\ Halves' /\ Places' /\ Words'
         /\ Said(p, d, Letter(p, t)) /\ Called(p, d, Letter(p, t))
<1> DEFINE m == Letter(p, t)
<1>. USE Distinct
<1>1. /\ IInv' /\ Halves' /\ Free(p) /\ ~halted /\ p # d
      /\ has_int_msg' = has_int_msg
      /\ Asked(p, d, m) \/ (Stopped(p, d, m) /\ Turns(p, d)')
  BY SendRecCases
<1>0. m.source = p
  BY DEF Letter
<1>. HIDE DEF m
<1>2. ASSUME Asked(p, d, m)
      PROVE  Said(p, d, m) /\ Called(p, d, m)
  <2>1. /\ OthersPassive(p) /\ \A x \in Procs \ {p, d} : Kept(x)
        /\ \A x \in Procs \ {p} :
             Gets(x) => x = d /\ buf'[x] = m /\ Peer(d) \in {p, ANY}
        /\ ~Gets(d) => Kept(d)
        /\ buf'[p] = m
    BY <1>1, <1>2, SentOthers
  <2>. QED
    BY <1>1, <1>2, <2>1 DEF Said, Moves, Called, StepOf, Asked, Gives, Leaves, Gets, Kept, Accepts,
                            Same
<1>3. ASSUME Stopped(p, d, m) /\ Turns(p, d)'
      PROVE  Said(p, d, m) /\ Called(p, d, m)
  <2>1. /\ OthersPassive(p) /\ \A x \in Procs \ {p} : Kept(x)
        /\ \A x \in Procs \ {p} : ~Gets(x)
    BY <1>3, SameOthers DEF Stopped
  <2>. QED
    BY <1>1, <1>3, <2>1 DEF Said, Moves, Called, StepOf, Stopped
<1>4. Said(p, d, m) /\ Called(p, d, m) /\ OthersPassive(p)
  BY <1>1, <1>2, <1>3 DEF Said, Moves, StepOf
<1>5. Calling(p, d)'
  BY <1>4 DEF Called, Calling
<1>6. Places'
  BY <1>4, <1>5, PlacesStep
<1>7. Word(p)'
  <2>1. Mode(p)' = "asks" => Peer(p)' = d
    BY <1>5 DEF Calling, Asks, Turns
  <2>2. WorkAfter(d, m) /\ buf'[p] = m
    BY <1>4 DEF Said, Moves, m
  <2>3. Mode(p)' = "asks" => buf'[p].source = p /\ IsWork(Peer(p), buf[p])'
    BY <1>0, <2>1, <2>2 DEF IsWork, WorkAfter
  <2>. QED
    BY <1>5, <2>3 DEF Word, Working, Calling, Asks, Turns, Free
<1>8. \A x \in Procs \ {p} : (Gets(x) => Fits(x)) /\ WorkStays(x)
  BY <1>4 DEF Said, Moves, Called, Kept, Gets, Free, m
<1>9. Words'
  BY <1>4, <1>7, <1>8, WordsStep
<1>. QED
  BY <1>1, <1>4, <1>6, <1>9 DEF m

----------------------------------------------------------------------------
\* Who calls whom, and where a process that sends or receives is.
LEMMA Edges ==
  ASSUME Places, NEW x \in Procs
  PROVE  /\ Mode(x) \in {"asks", "turns"} =>
              \/ x \in Users /\ Peer(x) \in {FS, SYS, MM}
              \/ x = MM /\ Peer(x) = FS
              \/ x = FS /\ Peer(x) \in {TTY, HD}
              \/ x = HD /\ Peer(x) = SYS
         /\ Mode(x) = "tells" =>
              x \in Tasks /\ (pc[x] = "top" \/ (x = MM /\ pc[x] = "child_done"))
         /\ Mode(x) = "waits" /\ Peer(x) = ANY => pc[x] = "got"
         /\ pc[x] = "got" => x \in Tasks /\ Returning(x, ANY)
<1>. USE Distinct DEF Places, At, Returning, Calling, Telling, Free, Asks, Turns, Waits
<1>1. CASE x \in Users
  BY <1>1 DEF UserAt
<1>2. CASE x \in {SYS, TTY}
  BY <1>2 DEF ServerAt, Tasks
<1>3. CASE x = HD
  BY <1>3 DEF HdAt, ServerAt, Tasks
<1>4. CASE x = FS
  BY <1>4 DEF FsAt, ServerAt, Tasks
<1>5. CASE x = MM
  BY <1>5 DEF MmAt, ServerAt, Tasks
<1>. QED
  BY <1>1, <1>2, <1>3, <1>4, <1>5 DEF Users, Tasks

\* A task that starts over owes what it is still telling.
LEMMA TopOwes ==
  ASSUME NEW s \in Tasks, pc'[s] = "top"
  PROVE  \A x : Owes(s, x)' => Tells(s, x)'
BY Distinct DEF Owes, SysOwes, HdOwes, TtyOwes, MmOwes, FsOwes, Working, MmForks, FsBusy

\* One that got its work owes the process the work is from, or about.
LEMMA GotOwes ==
  ASSUME NEW s \in Tasks, pc'[s] = "got", Free(s)',
         ~(s = FS /\ buf'[s].source = TTY), s = HD => buf'[s].source = FS,
         s = TTY => buf'[s].source = FS \/ buf'[s].type = HARD_INT
  PROVE  \A x : Owes(s, x)' => x = buf'[s].source
BY Distinct DEF Owes, SysOwes, HdOwes, TtyOwes, MmOwes, FsOwes, Working, MmForks, FsBusy,
                Free, Tells

\* What decides whom the other tasks owe stays in a step of p.
LEMMA KeptOwner ==
  ASSUME NEW p \in Procs, p # FS, StepOf(p), Free(TTY) \/ p # TTY,
         src'[FS] = src[FS], p # MM => src'[MM] = src[MM] /\ child' = child
  PROVE  \A s \in Tasks \ {p} : OwnKept(s)
<1>. USE Distinct DEF Free, Tells
<1>1. Suspended => Suspended'
  BY DEF Suspended, StepOf, OthersPassive, Passive, Kept, Got
<1>. QED
  BY <1>1 DEF OwnKept

\* A step of another process than FS and TTY leads to no second answer, unless FS
\* gets work: about a process TTY does not keep.
LEMMA OnceOf ==
  ASSUME Places, Once, NEW p \in Procs \ {FS, TTY}, StepOf(p), halted => halted',
         src'[FS] = src[FS], p # MM => src'[MM] = src[MM] /\ child' = child,
         tty_procnr' = tty_procnr,
         Gets(FS) /\ pc[FS] = "got" => \A x \in Procs : FsOwes(x)' => ~TtyKeeps(x),
         p = MM => (pc[MM] = "child_done" => ~Tells(MM, src[MM]))',
         p = MM => (pc[MM] \in MmForks => src[MM] # child)'
  PROVE  Once'
<1>. USE Distinct
<1>0. Passive(TTY) /\ Passive(FS) /\ (p # MM => Passive(MM)) /\ OwnKept(FS)
  BY KeptOwner DEF StepOf, OthersPassive, Tasks
<1>1. /\ Resuming' => Resuming /\ buf'[TTY] = buf[TTY]
      /\ \A x : TtyKeeps(x)' => TtyKeeps(x)
  BY <1>0, KeepsLess
<1>2. \A x \in Procs : ~(FsOwes(x)' /\ TtyKeeps(x)')
  <2>1. CASE Gets(FS) /\ pc[FS] = "got"
    BY <1>1, <2>1
  <2>2. CASE ~(Gets(FS) /\ pc[FS] = "got")
    <3>1. \A x : Owes(FS, x)' => Owes(FS, x)
      BY <1>0, <2>2, OwesLess DEF Tasks
    <3>. QED
      BY <1>1, <3>1 DEF Owes, Once
  <2>. QED
    BY <2>1, <2>2
<1>3. (Awaits(FS, TTY) => halted \/ TtyOwes(FS))'
  <2>1. Awaits(FS, TTY)' => Awaits(FS, TTY)
    BY <1>0 DEF StepOf, Kept, Passive, Awaits, Turns, Waits, Free
  <2>2. TtyOwes(FS) => TtyOwes(FS)'
    <3>1. Free(TTY) \/ Tells(TTY, FS) => Kept(TTY)
      BY <1>0 DEF StepOf, Kept, Passive, Free, Tells
    <3>. QED
      BY <3>1 DEF TtyOwes, Resuming, Kept, Working, Free, Tells
  <2>. QED
    BY <2>1, <2>2 DEF Once
<1>4. (pc[MM] = "child_done" => ~Tells(MM, src[MM]))'
  BY <1>0 DEF Once, Passive, Tells, Free
<1>5. (Resuming => \A t \in Ttys : tty_procnr[t] # buf[TTY].type.about)'
  BY <1>1 DEF Once
<1>6. (pc[MM] \in MmForks => src[MM] # child)'
  BY <1>0 DEF Once, Passive
<1>. QED
  BY <1>2, <1>3, <1>4, <1>5, <1>6 DEF Once

\* ... of other processes than MM, whose own variables stay.
LEMMA OnceStep ==
  ASSUME Places, Once, NEW p \in Procs \ {FS, TTY, MM}, StepOf(p), halted => halted',
         src'[FS] = src[FS], src'[MM] = src[MM], child' = child,
         tty_procnr' = tty_procnr,
         Gets(FS) /\ pc[FS] = "got" => \A x \in Procs : FsOwes(x)' => ~TtyKeeps(x)
  PROVE  Once'
BY OnceOf

\* Only HD and the interrupt handlers have to do with the drive.
LEMMA DriveStep ==
  ASSUME Places, DriveInv, NEW p \in Procs \ {HD}, StepOf(p), drive' = drive,
         \A x \in Procs : has_int_msg'[x] => has_int_msg[x]
  PROVE  DriveInv'
<1>1. Passive(HD) /\ (Kept(HD) \/ Peer(HD) \in {p, ANY})
  BY Distinct DEF StepOf, OthersPassive
<1>. QED
  BY <1>1, Distinct DEF DriveInv, Passive, Kept, Waits

\* Only MM and FS have to do with the children.
LEMMA ChildrenStep ==
  ASSUME Places, Children, NEW p \in Procs \ {MM, FS}, StepOf(p),
         p \in Users => p \in alive, UNCHANGED forkVars
  PROVE  Children'
<1>. USE Distinct DEF Free
<1>1. /\ OthersPassive(p) /\ UNCHANGED <<alive, child, memory, counted>>
      /\ pc'[MM] = pc[MM]
  BY DEF StepOf, OthersPassive, Passive, forkVars
<1>2. \A u \in Users \ alive : Kept(u) /\ u \in Procs
  BY <1>1 DEF Children, OthersPassive, Passive, Kept
<1>3. Tells(FS, MM)' => Tells(FS, MM)
  BY <1>1 DEF OthersPassive, Passive, Tells
<1>4. pc[MM] = "fs_done" /\ Free(MM)' => Free(MM)
  <2>1. pc[MM] = "fs_done" => Returning(MM, FS)
    BY DEF Places, At, MmAt, ServerAt
  <2>. QED
    BY <2>1 DEF StepOf, Kept, Returning, Waits
<1>. QED
  BY <1>1, <1>2, <1>3, <1>4 DEF Children, Kept

----------------------------------------------------------------------------
\* The second half of a call: p takes the answer of s, or sleeps until it comes.
Turned(p, s) ==
  /\ StepOf(p) /\ p # s /\ ~halted /\ has_int_msg' = has_int_msg
  /\ \A x \in Procs \ {p} : ~Gets(x)
  /\ \/ /\ Tells(s, p) /\ Free(s)' /\ Free(p)' /\ buf'[p] = buf[s]
        /\ halted' = halted /\ \A x \in Procs \ {p, s} : Kept(x)
     \/ /\ Waits(p, s)' /\ ~Tells(s, p) /\ halted' = has_int_msg[p]
        /\ \A x \in Procs \ {p} : Kept(x)

\* A process that turns to the RECEIVE of its call: where everybody is after it.
LEMMA AwaitStep ==
  ASSUME IInv, Halves, Places, Words, NEW p \in Procs, NEW s \in Procs, Reply(p),
         Turns(p, s), PcStep(p), pc'[p] # "got", Returning(p, s)' => At(p)',
         src'[FS] = src[FS], child' = child
  PROVE  /\ IInv' /\ Halves' /\ Places' /\ Words' /\ Turned(p, s)
<1>. USE Distinct
<1>1. /\ IInv' /\ Halves' /\ ~halted /\ p # s /\ has_int_msg' = has_int_msg
      /\ \/ Hears(p, s) /\ Mode(s) \in {"asks", "tells"}
         \/ Sleeps(p, s, [buf[p] EXCEPT !.source = p]) /\ Unheard(p, s)
  BY ReplyCases
<1>2. Mode(s) = "asks" => Peer(s) # p
  BY Edges DEF Turns
<1>3. /\ Turned(p, s) /\ OthersPassive(p)
  <2>1. CASE Hears(p, s)
    <3>1. /\ OthersPassive(p) /\ \A x \in Procs \ {p, s} : Kept(x)
          /\ \A x \in Procs \ {p} : ~Gets(x)
      BY <1>1, <2>1, HeardOthers
    <3>2. Tells(s, p) /\ Free(s)'
      BY <1>2, <2>1 DEF Hears, Tells
    <3>. QED
      BY <1>1, <2>1, <3>1, <3>2 DEF Hears, Turned, StepOf, Tells
  <2>2. CASE Sleeps(p, s, [buf[p] EXCEPT !.source = p]) /\ Unheard(p, s)
    <3>1. /\ OthersPassive(p) /\ \A x \in Procs \ {p} : Kept(x)
          /\ \A x \in Procs \ {p} : ~Gets(x)
      BY <2>2, SameOthers DEF Sleeps
    <3>. QED
      BY <1>1, <2>2, <3>1 DEF Sleeps, Unheard, Turned, StepOf, Tells
  <2>. QED
    BY <1>1, <2>1, <2>2
<1>4. Returning(p, s)'
  BY <1>3 DEF Turned, Returning
<1>5. Places'
  BY <1>3, <1>4, PlacesStep
<1>6. Word(p)'
  <2>1. ASSUME p \in Users, Free(p)' PROVE IsDone(p, buf[p])'
    <3>1. s \in {FS, SYS, MM}
      BY <2>1, Edges DEF Turns
    <3>2. Tells(s, p) /\ buf'[p] = buf[s]
      BY <1>3, <2>1 DEF Turned, Free, Waits
    <3>3. IsAnswer(s, p, buf[s])
      BY <3>2 DEF Words, Word, Tells
    <3>. QED
      BY <3>1, <3>2, <3>3 DEF IsDone, IsAnswer
  <2>. QED
    BY <1>4, <2>1 DEF Word, Returning, Free, Waits, Working
<1>7. Words'
  BY <1>3, <1>6, WordsStep, WorkStaysWork DEF Turned
<1>. QED
  BY <1>1, <1>3, <1>5, <1>7

\* It waits for an answer as it did before, and the process it called may be freed.
LEMMA AwaitOwed ==
  ASSUME Places, Owed, Once, NEW p \in Procs \ {TTY}, NEW s \in Procs, Turns(p, s),
         Places', Turned(p, s), src' = src, child' = child, tty_procnr' = tty_procnr,
         \A x \in Procs : Owes(p, x)' => Owes(p, x)
  PROVE  Owed'
<1>. USE Distinct
<1>1. \A r \in Tasks \ {p} : OwnKept(r)
  <2>1. p # FS => (Suspended => Suspended')
    BY DEF Turned, StepOf, Suspended, OthersPassive, Passive, Kept, Got, Tells, Free
  <2>. QED
    BY <2>1 DEF OwnKept
<1>2. Tells(s, p) => ~Owes(s, p)'
  <2>1. CASE s \in Tasks /\ Tells(s, p)
    <3>1. Free(s)' /\ pc'[s] = pc[s] /\ (pc[s] = "top" \/ (s = MM /\ pc[s] = "child_done"))
      BY <2>1, Edges DEF Turned, StepOf, OthersPassive, Passive, Tells, Waits
    <3>2. CASE pc[s] = "top"
      BY <2>1, <3>1, <3>2, TopOwes DEF Free, Tells
    <3>3. CASE s = MM /\ pc[s] = "child_done"
      <4>1. p # src[MM]
        BY <2>1, <3>3 DEF Once
      <4>. QED
        BY <3>1, <3>3, <4>1 DEF Owes, MmOwes, Working, MmForks, Free, Tells
    <3>. QED
      BY <3>1, <3>2, <3>3
  <2>2. CASE s \notin Tasks
    BY <2>2 DEF Owes, Tasks
  <2>. QED
    BY <2>1, <2>2
<1>3. Awaits(p, s)' \/ Tells(s, p)
  BY DEF Turned, Awaits
<1>4. \A r \in Tasks \ {p} : Owes(r, p) => Awaits(p, r)' \/ ~Owes(r, p)'
  <2>1. \A r \in Tasks : Owes(r, p) => r = s
    BY DEF Owed, Awaits, Turns, Waits
  <2>. QED
    BY <1>2, <1>3, <2>1
<1>5. TtyKeeps(p) => Awaits(p, FS)' \/ ~TtyKeeps(p)'
  <2>1. TtyKeeps(p) => s = FS
    BY DEF Owed, Awaits, Turns, Waits
  <2>2. Tells(FS, p) => ~TtyKeeps(p)
    BY DEF Once, FsOwes
  <2>. QED
    BY <1>3, <2>1, <2>2
<1>6. \A x \in Procs : Owes(p, x)' => Awaits(x, p)'
  <2>1. SUFFICES ASSUME NEW x \in Procs, Owes(p, x)' PROVE Awaits(x, p)'
    OBVIOUS
  <2>2. Awaits(x, p) /\ x # p
    <3>1. p \in Tasks
      BY <2>1 DEF Owes, Tasks
    <3>2. Awaits(x, p)
      BY <2>1, <3>1 DEF Owed
    <3>3. s # p
      BY DEF Turned
    <3>. QED
      BY <3>2, <3>3 DEF Awaits, Turns, Waits
  <2>3. Passive(x) /\ ~Gets(x)
    BY <2>2 DEF Turned, StepOf, OthersPassive
  <2>. QED
    BY <2>2, <2>3 DEF Passive, Gets, Awaits, Turns, Waits
<1>7. \A x \in Procs : TtyKeeps(x)' => ~Gets(x) \/ x = p
  BY DEF Turned
<1>8. p = FS => \A x \in Procs : TtyKeeps(x)' => ~Gets(x)
  <2>1. ~Gets(p)
    BY DEF Gets, Turns
  <2>. QED
    BY <1>7, <2>1
<1>9. /\ OthersPassive(p) /\ p # TTY
      /\ \A x \in Procs \ {p} : Gets(x) => Peer(x) = p \/ pc[x] = "got"
      /\ \A r \in Tasks \ {p} : Gets(r) /\ pc[r] = "got" =>
           \A x \in Procs : Owes(r, x)' => Awaits(x, r)'
  BY DEF Turned, StepOf, Tasks
<1>. HIDE DEF Turned
<1>. QED
  BY <1>1, <1>4, <1>5, <1>6, <1>8, <1>9, OwedStep

----------------------------------------------------------------------------
\* Who tells another something without a call answers it, or is TTY that resumes
\* a reader.
LEMMA Tellers ==
  ASSUME Places, Words, Owed, NEW r \in Procs, Mode(r) = "tells"
  PROVE  /\ Peer(r) \in Procs /\ (r = TTY => Peer(r) = FS)
         /\ Awaits(Peer(r), r) \/ (r = TTY /\ Resuming)
<1>. USE Distinct
<1>1. r \in Tasks /\ IsAnswer(r, Peer(r), buf[r])
  BY Edges DEF Words, Word
<1>2. Peer(r) \in Procs /\ (r = TTY => Peer(r) = FS)
  BY <1>1 DEF IsAnswer
<1>3. Owes(r, Peer(r)) \/ (r = TTY /\ Resuming)
  BY <1>1, <1>2 DEF Owes, SysOwes, HdOwes, TtyOwes, MmOwes, FsOwes, Tells, Tasks
<1>. QED
  BY <1>1, <1>2, <1>3 DEF Owed

\* deadlock() finds no way from d to p: no call leaves W, and who is answered
\* does not send.
LEMMA NoWay ==
  ASSUME IInv, Places, Words, Owed, NEW p \in Procs, Free(p),
         NEW W \in SUBSET (Procs \ {p}), NEW d \in W,
         \A r \in W : Mode(r) = "asks" => Peer(r) \in W,
         TTY \in W /\ Resuming => FS \in W
  PROVE  ~Deadlock(p, d)
<1> DEFINE S == W \union {x \in Procs \ {p} : ~Sending(x)}
<1>1. S \in SUBSET Procs /\ d \in S /\ p \notin S
  OBVIOUS
<1>2. ASSUME NEW x \in S, Sending(x) PROVE p_sendto[x] \in S
  <2>1. x \in W /\ Mode(x) \in {"asks", "tells"} /\ p_sendto[x] = Peer(x)
    BY <1>2, Modes, Flags
  <2>2. CASE Mode(x) = "asks"
    BY <2>1, <2>2
  <2>3. CASE Mode(x) = "tells" /\ Awaits(Peer(x), x)
    <3>1. Peer(x) \in Procs /\ Peer(x) # p
      BY <2>1, <2>3, Tellers DEF Awaits, Turns, Waits, Free
    <3>2. ~Sending(Peer(x))
      BY <2>3, <3>1, Modes DEF Awaits, Turns, Waits
    <3>. QED
      BY <2>1, <3>1, <3>2
  <2>4. CASE Mode(x) = "tells" /\ x = TTY /\ Resuming
    BY <2>1, <2>4 DEF Resuming, Tells
  <2>. QED
    BY <2>1, <2>2, <2>3, <2>4, Tellers
<1>. HIDE DEF S
<1>3. ClosedUnderSendto(S)
  BY <1>2 DEF ClosedUnderSendto
<1>. QED
  BY <1>1, <1>3 DEF Deadlock

\* A step of p that reaches d: what d and p owe after it is awaited.
LEMMA MovesOwed ==
  ASSUME Places, Owed, NEW p \in Procs, NEW d \in Procs, Moves(p, d),
         \A s \in Tasks \ {p} : OwnKept(s), p # TTY => tty_procnr' = tty_procnr,
         d \in Tasks /\ Gets(d) /\ pc[d] = "got" =>
           \A x \in Procs : Owes(d, x)' => Awaits(x, d)',
         \A x \in Procs : Owes(p, x)' => Awaits(x, p)',
         p = TTY => \A x \in Procs : TtyKeeps(x)' => Awaits(x, FS)',
         p = FS => \A x \in Procs : TtyKeeps(x)' => ~Gets(x)
  PROVE  Owed'
<1>. USE Distinct
<1>1. OthersPassive(p) /\ Free(p)
  BY DEF Moves, StepOf
<1>2. \A x \in Procs \ {p} : Gets(x) => x = d /\ (Peer(x) = p \/ pc[x] = "got")
  <2>1. \A x \in Procs : Gets(x) => ~Kept(x)
    BY DEF Gets, Kept, Free
  <2>2. \A x \in Procs \ {p} : Gets(x) => x = d /\ Peer(x) \in {p, ANY}
    BY <2>1 DEF Moves, StepOf
  <2>. QED
    BY <2>2, Edges DEF Gets
<1>3. \A s \in Tasks \ {p} : Gets(s) /\ pc[s] = "got" =>
        \A x \in Procs : Owes(s, x)' => Awaits(x, s)'
  BY <1>2 DEF Tasks
<1>4. \A s \in Tasks \ {p} : Owes(s, p) => Awaits(p, s)' \/ ~Owes(s, p)'
  BY <1>1 DEF Owed, Awaits, Turns, Waits, Free
<1>5. TtyKeeps(p) => Awaits(p, FS)' \/ ~TtyKeeps(p)'
  BY <1>1 DEF Owed, Awaits, Turns, Waits, Free
<1>. QED
  BY <1>1, <1>2, <1>3, <1>4, <1>5, OwedStep

\* A task answers whom it owes an answer: that process takes it, or comes for it.
LEMMA AnswerStep ==
  ASSUME IInv, Halves, Places, Words, Owed, NEW p \in Tasks, NEW d \in Procs,
         NEW t \in Types, Send(p, d, t), Owes(p, d), PcStep(p), pc'[p] # "got",
         Telling(p)' => At(p)', IsAnswer(p, d, Letter(p, t)),
         \A x \in Procs \ {p} : WorkStays(x)
  PROVE  /\ IInv' /\ Halves' /\ Places' /\ Words'
         /\ Said(p, d, Letter(p, t)) /\ halted' = halted /\ pc[d] # "got"
         /\ \/ Gets(d) /\ Waits(d, p) /\ buf'[d] = Letter(p, t) /\ Free(p)'
            \/ Kept(d) /\ Tells(p, d)'
<1>. USE Distinct
<1>1. p \in Procs /\ Awaits(d, p) /\ Free(p)
  <2>1. p \in Procs /\ Awaits(d, p)
    BY DEF Owed, Tasks
  <2>. QED
    BY <2>1, SendCases
<1>2. pc[d] # "got"
  BY <1>1, Edges DEF Awaits, Turns, Waits, Returning, Free
<1>3. buf'[d] = Letter(p, t) => Fits(d)
  <2>1. d \in Users => IsDone(d, Letter(p, t))
    BY DEF IsAnswer, IsDone
  <2>. QED
    BY <1>2, <2>1 DEF Fits
<1>4. ~Deadlock(p, d)
  <2>1. Mode(d) # "asks" /\ d # p
    BY <1>1 DEF Awaits, Turns, Waits, Free
  <2>2. Mode(d) # "tells"
    BY <1>1 DEF Awaits, Turns, Waits
  <2>3. ~Sending(d)
    BY <2>1, <2>2, Modes
  <2>. QED
    BY <2>3 DEF Deadlock
<1>5. /\ IInv' /\ Halves' /\ Places' /\ Words'
      /\ Said(p, d, Letter(p, t)) /\ Answered(p, d, Letter(p, t))
  BY <1>3, TellStep
<1>6. Accepts(d, p) => Waits(d, p)
  BY <1>1 DEF Accepts, Awaits, Turns, Waits
<1>. QED
  BY <1>2, <1>4, <1>5, <1>6 DEF Answered

\* The answer goes to who awaits it, so that whoever is owed one still awaits it.
LEMMA AnswerOwed ==
  ASSUME Places, Owed, Once, NEW p \in Tasks, NEW d \in Procs, Moves(p, d),
         (Gets(d) /\ Free(p)') \/ (Kept(d) /\ Tells(p, d)'),
         Owes(p, d), pc[d] # "got", pc'[p] = "top",
         p # FS => src'[FS] = src[FS], p # MM => src'[MM] = src[MM] /\ child' = child,
         p # TTY => tty_procnr' = tty_procnr,
         p = TTY => \A x \in Procs : TtyKeeps(x)' => Awaits(x, FS)'
  PROVE  Owed'
<1>. USE Distinct
<1>1. p \in Procs /\ Awaits(d, p) /\ StepOf(p) /\ Free(p)
  BY DEF Owed, Tasks, Moves
<1>2. \A s \in Tasks \ {p} : OwnKept(s)
  <2>1. CASE p # FS
    BY <1>1, <2>1, KeptOwner
  <2>2. CASE p = FS
    BY <2>2 DEF OwnKept
  <2>. QED
    BY <2>1, <2>2
<1>3. \A x \in Procs : Owes(p, x)' => Awaits(x, p)'
  <2>1. \A x : Owes(p, x)' => Tells(p, x)'
    BY TopOwes
  <2>2. \A x : Tells(p, x)' => x = d /\ Kept(d)
    BY DEF Gets, Free, Tells
  <2>3. Kept(d) => Awaits(d, p)'
    BY <1>1 DEF Kept, Awaits, Turns, Waits
  <2>. QED
    BY <2>1, <2>2, <2>3
<1>4. p = FS => \A x \in Procs : TtyKeeps(x)' => ~Gets(x)
  <2>1. SUFFICES ASSUME p = FS, NEW x \in Procs, TtyKeeps(x)', Gets(x) PROVE FALSE
    OBVIOUS
  <2>2. TtyKeeps(x)
    BY <1>1, <2>1, KeepsLess DEF StepOf, OthersPassive
  <2>3. x = d \/ x = p
    BY <2>1 DEF Moves, Kept, Gets, Free
  <2>4. FsOwes(d)
    BY <2>1 DEF Owes
  <2>. QED
    BY <1>1, <2>1, <2>2, <2>3, <2>4 DEF Once, Gets, Free
<1>. QED
  BY <1>1, <1>2, <1>3, <1>4, MovesOwed

----------------------------------------------------------------------------
\* What a running process has in hand.
LEMMA AtWork ==
  ASSUME ServersInv, NEW p \in Tasks, Running(p, "got")
  PROVE  /\ p \in Procs /\ Free(p) /\ pc[p] = "got" /\ ~halted
         /\ IsWork(p, buf[p]) \/ (p = TTY /\ buf[p].type = HARD_INT)
BY Distinct, Runs DEF ServersInv, Words, Word, Working, Tasks

\* task_sys.
LEMMA SysAnswerInv ==
  ASSUME ServersInv, SysAnswer
  PROVE  ServersInv'
<1>. USE Distinct DEF ServersInv
<1>1. SYS \in Tasks /\ Free(SYS) /\ pc[SYS] = "got" /\ IsWork(SYS, buf[SYS])
  BY AtWork DEF SysAnswer, Tasks
<1>2. PICK d \in Procs, t \in Types :
        /\ d = buf[SYS].source /\ t = buf[SYS].type
        /\ d \in Users \union {HD} /\ IsAnswer(SYS, d, Letter(SYS, t))
  BY <1>1, ServersAssumption DEF IsWork, WorkOf, IsAnswer, Letter, ServersAssumption
<1>0. /\ Send(SYS, d, t) /\ Goto(SYS, "top")
      /\ UNCHANGED <<src, ttyVars, scenario, drive, forkVars>>
  BY <1>2 DEF SysAnswer, outside
<1>3. Owes(SYS, d)
  BY <1>1, <1>2 DEF Owes, SysOwes, Working
<1>4. /\ pc'[SYS] = "top" /\ PcStep(SYS) /\ pc' \in [Procs -> Labels]
  BY <1>0, GotoOthers DEF Labels, PcStep
<1>5. Telling(SYS)' => At(SYS)'
  BY <1>4 DEF At, ServerAt
<1>6. /\ src' = src /\ child' = child /\ tty_procnr' = tty_procnr /\ drive' = drive
      /\ scenario' = scenario
  BY <1>0 DEF ttyVars, forkVars
<1>7. \A x \in Procs \ {SYS} : WorkStays(x)
  BY <1>6, WorkStaysWork
<1>8. /\ IInv' /\ Halves' /\ Places' /\ Words'
      /\ Said(SYS, d, Letter(SYS, t)) /\ halted' = halted /\ pc[d] # "got"
      /\ \/ Gets(d) /\ Waits(d, SYS) /\ buf'[d] = Letter(SYS, t) /\ Free(SYS)'
         \/ Kept(d) /\ Tells(SYS, d)'
  BY <1>0, <1>1, <1>2, <1>3, <1>4, <1>5, <1>7, AnswerStep
<1>9. Moves(SYS, d) /\ StepOf(SYS) /\ has_int_msg' = has_int_msg /\ ~halted'
  BY <1>8 DEF Said, Moves
<1>10. Owed'
  <2>1. /\ (Gets(d) /\ Free(SYS)') \/ (Kept(d) /\ Tells(SYS, d)')
        /\ pc[d] # "got"
    BY <1>8
  <2>. QED
    BY <1>1, <1>3, <1>4, <1>6, <1>9, <2>1, AnswerOwed
<1>11. Once'
  BY <1>2, <1>6, <1>8, <1>9, OnceStep DEF Moves, Kept, Gets, Free
<1>12. DriveInv'
  BY <1>6, <1>9, DriveStep
<1>13. Children'
  BY <1>0, <1>9, ChildrenStep
<1>14. Locals'
  BY <1>4, <1>6 DEF Locals, PcStep
<1>. QED
  BY <1>8, <1>9, <1>10, <1>11, <1>12, <1>13, <1>14 DEF Cycle

\* TTY keeps user processes only.
LEMMA KeepsUsers ==
  ASSUME Locals, Words
  PROVE  \A x \in Procs : TtyKeeps(x) => x \in Users
BY Distinct DEF Locals, Words, Word, TtyKeeps, Resuming, Tells, IsAnswer

\* A process calls d: d, if it was looking for work, works for it.
LEMMA AskOwed ==
  ASSUME Places, Owed, NEW p \in Procs \ {TTY}, NEW d \in Tasks, Moves(p, d),
         Gets(d) => buf'[d].source = p /\ Turns(p, d)',
         d = HD => p = FS, d = TTY => p = FS,
         p # FS => src'[FS] = src[FS], src'[MM] = src[MM], child' = child,
         tty_procnr' = tty_procnr, p = FS => ~TtyKeeps(d),
         \A x \in Procs : Owes(p, x)' => Awaits(x, p)'
  PROVE  /\ Owed'
         /\ Gets(FS) /\ pc[FS] = "got" => \A x \in Procs : FsOwes(x)' => ~TtyKeeps(x)
<1>. USE Distinct
<1>1. d \in Procs /\ StepOf(p) /\ Free(p) /\ pc'[d] = pc[d] /\ p # d
  BY DEF Moves, StepOf, OthersPassive, Passive, Tasks
<1>2. \A s \in Tasks \ {p} : OwnKept(s)
  <2>1. CASE p # FS
    BY <1>1, <2>1, KeptOwner
  <2>2. CASE p = FS
    BY <2>2 DEF OwnKept
  <2>. QED
    BY <2>1, <2>2
<1>3. Gets(d) /\ pc[d] = "got" => \A x : Owes(d, x)' => x = p /\ Awaits(x, d)'
  BY <1>1, GotOwes DEF Gets, Awaits
<1>4. p = FS => \A x \in Procs : TtyKeeps(x)' => ~Gets(x)
  <2>1. SUFFICES ASSUME p = FS, NEW x \in Procs, TtyKeeps(x)', Gets(x) PROVE FALSE
    OBVIOUS
  <2>2. TtyKeeps(x)
    BY <1>1, <2>1, KeepsLess DEF StepOf, OthersPassive
  <2>3. x = d \/ x = p
    BY <2>1 DEF Moves, Kept, Gets, Free
  <2>. QED
    BY <1>1, <2>1, <2>2, <2>3 DEF Gets, Free
<1>5. Owed'
  BY <1>1, <1>2, <1>3, <1>4, MovesOwed
<1>6. ASSUME Gets(FS), pc[FS] = "got", NEW x \in Procs, FsOwes(x)'
      PROVE  ~TtyKeeps(x)
  <2>1. FS = d
    BY <1>1, <1>6 DEF Moves, Kept, Gets, Free
  <2>2. x = p
    BY <1>3, <1>6, <2>1 DEF Owes
  <2>. QED
    BY <1>1, <2>2 DEF Owed, Awaits, Turns, Waits, Free
<1>. QED
  BY <1>5, <1>6

\* A user process calls FS, SYS or MM.
LEMMA UserCallInv ==
  ASSUME ServersInv, NEW u \in Users, UserCall(u)
  PROVE  ServersInv'
<1>. USE Distinct DEF ServersInv
<1>1. PICK kind \in FromUsers, d \in Tasks, t \in Types :
        /\ SendRec(u, d, t) /\ d = ServerFor(kind)
        /\ t = Say(kind, NO_TASK, scenario.terminal[u])
        /\ t \in Payloads /\ t.kind = kind /\ t.dev \in Ttys
  <2>1. PICK kind \in scenario.asks[u] :
          SendRec(u, ServerFor(kind), Say(kind, NO_TASK, scenario.terminal[u]))
    BY DEF UserCall
  <2>2. kind \in FromUsers /\ scenario.terminal[u] \in Ttys
    BY ServersAssumption DEF ServersAssumption, Locals
  <2>3. ServerFor(kind) \in Tasks
    BY DEF ServerFor, Tasks
  <2>. QED
    BY <2>1, <2>2, <2>3, SayIsPayload
<1>2. /\ Goto(u, "called") /\ u \in alive /\ u \in Procs
      /\ UNCHANGED <<src, ttyVars, scenario, drive, forkVars>>
  BY DEF UserCall, outside
<1>3. /\ pc'[u] = "called" /\ PcStep(u) /\ pc' \in [Procs -> Labels]
  BY <1>2, GotoOthers DEF Labels, PcStep
<1>4. d \in {FS, SYS, MM} /\ d \in Procs
  BY <1>1 DEF ServerFor
<1>5. Calling(u, d)' => At(u)'
  BY <1>3, <1>4 DEF At, UserAt
<1>6. /\ src' = src /\ child' = child /\ tty_procnr' = tty_procnr /\ drive' = drive
      /\ scenario' = scenario
  BY <1>2 DEF ttyVars, forkVars
<1>7. WorkAfter(d, Letter(u, t))
  BY <1>1 DEF WorkAfter, WorkOf, Letter, ServerFor, FsServes, FromUsers
<1>8. \A x \in Procs : WorkStays(x)
  BY <1>6, WorkStaysWork
<1>9. buf'[d] = Letter(u, t) => Fits(d)
  BY <1>4, <1>7 DEF Fits
<1>10. /\ IInv' /\ Halves' /\ Places' /\ Words'
       /\ Said(u, d, Letter(u, t)) /\ Called(u, d, Letter(u, t))
  BY <1>1, <1>2, <1>3, <1>4, <1>5, <1>7, <1>8, <1>9, AskStep
<1>11. Moves(u, d) /\ StepOf(u) /\ has_int_msg' = has_int_msg /\ Free(u) /\ ~halted
  BY <1>10 DEF Said, Moves
<1>12. ~Deadlock(u, d)
  <2>1. Tasks \in SUBSET (Procs \ {u})
    BY <1>2 DEF Tasks
  <2>2. \A r \in Tasks : Mode(r) = "asks" => Peer(r) \in Tasks
    BY Edges DEF Tasks
  <2>. QED
    BY <1>1, <1>2, <1>11, <2>1, <2>2, NoWay DEF Tasks
<1>13. ~halted' /\ (Gets(d) => buf'[d].source = u /\ Turns(u, d)')
  BY <1>10, <1>11, <1>12 DEF Called, Letter, Kept, Gets, Free
<1>14. \A x : ~Owes(u, x)'
  BY DEF Owes
<1>15. /\ Owed'
       /\ Gets(FS) /\ pc[FS] = "got" => \A x \in Procs : FsOwes(x)' => ~TtyKeeps(x)
  BY <1>2, <1>4, <1>6, <1>11, <1>13, <1>14, AskOwed
<1>16. Once'
  BY <1>2, <1>6, <1>11, <1>15, OnceStep
<1>17. DriveInv'
  BY <1>2, <1>6, <1>11, DriveStep
<1>18. Children'
  BY <1>2, <1>11, ChildrenStep
<1>19. Locals'
  BY <1>3, <1>6 DEF Locals, PcStep
<1>. QED
  BY <1>10, <1>13, <1>15, <1>16, <1>17, <1>18, <1>19 DEF Cycle

\* A user process comes for the answer.
LEMMA UserAwaitInv ==
  ASSUME ServersInv, NEW u \in Users, UserAwait(u)
  PROVE  ServersInv'
<1>. USE Distinct DEF ServersInv
<1>1. /\ Reply(u) /\ Goto(u, "top") /\ u \in Procs /\ pc[u] = "called"
      /\ UNCHANGED <<src, ttyVars, scenario, drive, forkVars>> /\ Runnable(u)
  BY DEF UserAwait, Await, outside
<1>2. PICK s \in {FS, SYS, MM} : Turns(u, s)
  BY <1>1, Modes DEF Places, At, UserAt, Runnable, Calling, Asks
<1>3. /\ pc'[u] = "top" /\ PcStep(u) /\ pc' \in [Procs -> Labels]
  BY <1>1, GotoOthers DEF Labels, PcStep
<1>4. Returning(u, s)' => At(u)'
  BY <1>3 DEF At, UserAt
<1>5. /\ src' = src /\ child' = child /\ tty_procnr' = tty_procnr /\ drive' = drive
      /\ scenario' = scenario
  BY <1>1 DEF ttyVars, forkVars
<1>6. /\ IInv' /\ Halves' /\ Places' /\ Words' /\ Turned(u, s)
  BY <1>1, <1>2, <1>3, <1>4, <1>5, AwaitStep
<1>7. \A x : ~Owes(u, x)'
  BY DEF Owes
<1>8. Owed'
  BY <1>1, <1>2, <1>5, <1>6, <1>7, AwaitOwed
<1>9. /\ StepOf(u) /\ has_int_msg' = has_int_msg /\ ~halted /\ ~halted' /\ ~Gets(FS)
  BY <1>1, <1>6 DEF Turned, DriveInv
<1>10. Once'
  BY <1>1, <1>5, <1>9, OnceStep
<1>11. DriveInv'
  BY <1>1, <1>5, <1>9, DriveStep
<1>12. Children'
  <2>1. u \in alive
    BY <1>1 DEF Children
  <2>. QED
    BY <1>1, <1>9, <2>1, ChildrenStep
<1>13. Locals'
  BY <1>3, <1>5 DEF Locals, PcStep
<1>. QED
  BY <1>6, <1>8, <1>9, <1>10, <1>11, <1>12, <1>13 DEF Cycle

----------------------------------------------------------------------------
\* task_hd.
LEMMA HdWaitforInv ==
  ASSUME ServersInv, HdWaitfor
  PROVE  ServersInv'
<1>. USE Distinct DEF ServersInv
<1>1. PICK t \in Types : /\ SendRec(HD, SYS, t) /\ t \in Payloads
                         /\ t.kind = "GET_TICKS"
  <2>1. Say("GET_TICKS", NO_TASK, HD) \in Types
    BY SayIsPayload DEF FromUsers
  <2>. QED
    BY <2>1, SayIsPayload DEF HdWaitfor, FromUsers
<1>2. PICK l \in {"ready", "drq"} :
        /\ Goto(HD, l) /\ UNCHANGED <<ttyVars, scenario, drive, forkVars>>
  BY DEF HdWaitfor, outside
<1>3. /\ pc'[HD] = l /\ PcStep(HD) /\ pc' \in [Procs -> Labels]
  BY <1>2, GotoOthers DEF Labels, PcStep
<1>4. HD \in Tasks /\ SYS \in Tasks /\ Free(HD) /\ pc[HD] \in {"got", "command"}
  BY Runs DEF HdWaitfor, Tasks
<1>5. Owes(HD, FS) /\ Awaits(FS, HD)
  <2>1. pc[HD] = "got" => Free(HD)
    BY <1>4
  <2>2. Owes(HD, FS)
    BY <1>4 DEF Owes, HdOwes, Working
  <2>. QED
    BY <1>4, <2>2 DEF Owed
<1>6. /\ src'[FS] = src[FS] /\ src'[MM] = src[MM] /\ DOMAIN src' = Tasks
      /\ src'[HD] \in [proc : {FS}, kind : {"DEV_READ", "DEV_WRITE"}]
  <2>1. CASE pc[HD] = "got"
    <3>1. IsWork(HD, buf[HD])
      BY <1>4, <2>1 DEF Words, Word, Working
    <3>2. src' = [src EXCEPT ![HD] = [proc |-> buf[HD].source, kind |-> buf[HD].type.kind]]
      BY <2>1 DEF HdWaitfor
    <3>3. buf[HD].source = FS /\ buf[HD].type.kind \in {"DEV_READ", "DEV_WRITE"}
      BY <3>1 DEF IsWork, WorkOf
    <3>. QED
      BY <1>4, <3>2, <3>3 DEF Locals
  <2>2. CASE pc[HD] = "command"
    BY <1>4, <2>2 DEF Locals, HdWaitfor
  <2>. QED
    BY <1>4, <2>1, <2>2
<1>7. /\ child' = child /\ tty_procnr' = tty_procnr /\ drive' = drive
      /\ scenario' = scenario
  BY <1>2 DEF ttyVars, forkVars
<1>8. Calling(HD, SYS)' => At(HD)'
  BY <1>3 DEF At, HdAt
<1>9. WorkAfter(SYS, Letter(HD, t))
  BY <1>1 DEF WorkAfter, WorkOf, Letter
<1>10. \A x \in Procs : WorkStays(x)
  BY <1>6, <1>7, WorkStaysWork
<1>11. buf'[SYS] = Letter(HD, t) => Fits(SYS)
  BY <1>9 DEF Fits
<1>12. /\ IInv' /\ Halves' /\ Places' /\ Words'
       /\ Said(HD, SYS, Letter(HD, t)) /\ Called(HD, SYS, Letter(HD, t))
  BY <1>1, <1>3, <1>8, <1>9, <1>10, <1>11, AskStep
<1>13. Moves(HD, SYS) /\ StepOf(HD) /\ has_int_msg' = has_int_msg /\ ~halted
  BY <1>12 DEF Said, Moves
<1>14. ~Deadlock(HD, SYS)
  <2>1. Mode(SYS) # "asks"
    BY <1>4, Edges
  <2>2. {SYS} \in SUBSET (Procs \ {HD}) /\ \A r \in {SYS} : Mode(r) # "asks" /\ r # TTY
    BY <2>1
  <2>. QED
    BY <1>4, <2>2, NoWay
<1>15. ~halted' /\ (Gets(SYS) => buf'[SYS].source = HD /\ Turns(HD, SYS)')
  BY <1>12, <1>13, <1>14 DEF Called, Letter, Kept, Gets, Free
<1>16. \A x \in Procs : Owes(HD, x)' => Awaits(x, HD)'
  <2>1. \A x : Owes(HD, x)' => x = FS
    BY <1>3, <1>12 DEF Owes, HdOwes, Working, Called, Turns, Asks, Tells
  <2>2. Awaits(FS, HD)'
    BY <1>5, <1>13 DEF Moves, Kept, Awaits, Turns, Waits
  <2>. QED
    BY <2>1, <2>2
<1>17. /\ Owed'
       /\ Gets(FS) /\ pc[FS] = "got" => \A x \in Procs : FsOwes(x)' => ~TtyKeeps(x)
  BY <1>4, <1>6, <1>7, <1>13, <1>15, <1>16, AskOwed
<1>18. Once'
  BY <1>6, <1>7, <1>13, <1>17, OnceStep
<1>19. DriveInv'
  BY <1>3, <1>4, <1>7, <1>13 DEF DriveInv
<1>20. Children'
  BY <1>2, <1>13, ChildrenStep
<1>21. Locals'
  BY <1>3, <1>6, <1>7 DEF Locals, PcStep
<1>. QED
  BY <1>12, <1>15, <1>17, <1>18, <1>19, <1>20, <1>21 DEF Cycle

\* HD comes for the time it asked SYS for.
LEMMA HdAwaitInv ==
  ASSUME ServersInv, HdAwait
  PROVE  ServersInv'
<1>. USE Distinct DEF ServersInv
<1>1. PICK l \in {"command", "data"} :
        /\ Reply(HD) /\ Goto(HD, l) /\ pc[HD] \in {"ready", "drq"}
        /\ UNCHANGED <<src, ttyVars, scenario, drive, forkVars>> /\ Runnable(HD)
  BY DEF HdAwait, Await, outside
<1>2. Turns(HD, SYS)
  BY <1>1, Modes DEF Places, At, HdAt, ServerAt, Runnable, Calling, Asks
<1>3. /\ pc'[HD] = l /\ PcStep(HD) /\ pc' \in [Procs -> Labels]
  BY <1>1, GotoOthers DEF Labels, PcStep
<1>4. Returning(HD, SYS)' => At(HD)'
  BY <1>3 DEF At, HdAt
<1>5. /\ src' = src /\ child' = child /\ tty_procnr' = tty_procnr /\ drive' = drive
      /\ scenario' = scenario
  BY <1>1 DEF ttyVars, forkVars
<1>6. /\ IInv' /\ Halves' /\ Places' /\ Words' /\ Turned(HD, SYS)
  BY <1>1, <1>2, <1>3, <1>4, <1>5, AwaitStep
<1>7. \A x \in Procs : Owes(HD, x)' => Owes(HD, x)
  BY <1>1, <1>3, <1>6 DEF Turned, Owes, HdOwes, Working, Tells, Waits, Free
<1>8. Owed'
  BY <1>2, <1>5, <1>6, <1>7, AwaitOwed
<1>9. /\ StepOf(HD) /\ has_int_msg' = has_int_msg /\ ~halted /\ ~halted' /\ ~Gets(FS)
  BY <1>1, <1>6 DEF Turned, DriveInv
<1>10. Once'
  BY <1>5, <1>9, OnceStep
<1>11. DriveInv'
  BY <1>1, <1>3, <1>5, <1>9 DEF DriveInv
<1>12. Children'
  BY <1>1, <1>9, ChildrenStep
<1>13. Locals'
  BY <1>1, <1>3, <1>5 DEF Locals, PcStep
<1>. QED
  BY <1>6, <1>8, <1>9, <1>10, <1>11, <1>12, <1>13 DEF Cycle

\* A step between two calls changes no process but the one that makes it.
LEMMA SilentStep ==
  ASSUME IInv, Halves, NEW p \in Procs, UNCHANGED vars, PcStep(p), Free(p), ~halted
  PROVE  /\ IInv' /\ Halves' /\ StepOf(p) /\ OthersPassive(p) /\ Free(p)'
         /\ UNCHANGED <<buf, has_int_msg, halted>>
         /\ \A x \in Procs \ {p} : Kept(x) /\ ~Gets(x) /\ Moves(p, x)
<1>1. IInv'
  BY NextIInv
<1>2. \A x \in Procs : Mode(x)' = Mode(x) /\ Peer(x)' = Peer(x) /\ buf'[x] = buf[x]
  BY DEF vars, ipcVars, Mode, Peer
<1>3. Halves'
  BY <1>2 DEF Halves, vars, ipcVars
<1>4. /\ Free(p)' /\ UNCHANGED <<buf, has_int_msg, halted>>
  BY <1>2 DEF Free, vars, ipcVars
<1>5. \A x \in Procs \ {p} : Kept(x) /\ ~Gets(x) /\ Passive(x)
  BY <1>2 DEF Kept, Gets, Free, PcStep, Passive
<1>. QED
  BY <1>1, <1>3, <1>4, <1>5 DEF StepOf, Moves, OthersPassive

\* HD gives the drive a command.
LEMMA HdStartInv ==
  ASSUME ServersInv, HdStart
  PROVE  ServersInv'
<1>. USE Distinct DEF ServersInv
<1>1. /\ Free(HD) /\ ~halted /\ pc[HD] \in {"command", "data"} /\ HD \in Tasks
      /\ Goto(HD, "started") /\ drive' = "busy"
      /\ UNCHANGED <<vars, src, ttyVars, scenario, forkVars>>
  BY Runs DEF HdStart, Tasks
<1>2. /\ pc'[HD] = "started" /\ PcStep(HD) /\ pc' \in [Procs -> Labels]
  BY <1>1, GotoOthers DEF Labels, PcStep
<1>3. /\ src' = src /\ child' = child /\ tty_procnr' = tty_procnr
      /\ scenario' = scenario /\ SYS \in Procs \ {HD}
  BY <1>1 DEF ttyVars, forkVars
<1>4. /\ IInv' /\ Halves' /\ StepOf(HD) /\ OthersPassive(HD) /\ Free(HD)'
      /\ UNCHANGED <<buf, has_int_msg, halted>>
      /\ \A x \in Procs \ {HD} : Kept(x) /\ ~Gets(x) /\ Moves(HD, x)
  BY <1>1, <1>2, SilentStep
<1>5. Places'
  <2>1. At(HD)'
    BY <1>2, <1>4 DEF At, HdAt
  <2>. QED
    BY <1>4, <2>1, PlacesStep
<1>6. Words'
  <2>1. Word(HD)'
    BY <1>2, <1>4 DEF Word, Working, Free
  <2>. QED
    BY <1>3, <1>4, <2>1, WordsStep, WorkStaysWork
<1>7. Owed'
  <2>1. Owes(HD, FS) /\ \A x : Owes(HD, x)' => x = FS
    BY <1>1, <1>2, <1>4 DEF Owes, HdOwes, Working, Tells, Free
  <2>2. \A x \in Procs : Owes(HD, x)' => Awaits(x, HD)'
    BY <1>1, <1>4, <2>1 DEF Owed, Kept, Awaits, Turns, Waits
  <2>3. \A s \in Tasks \ {HD} : OwnKept(s)
    BY <1>3, <1>4, KeptOwner
  <2>. QED
    BY <1>3, <1>4, <2>2, <2>3, MovesOwed
<1>8. Once'
  BY <1>3, <1>4, OnceStep
<1>9. DriveInv'
  BY <1>1, <1>2, <1>4 DEF DriveInv
<1>10. Children'
  BY <1>1, <1>4, ChildrenStep
<1>11. Locals'
  BY <1>1, <1>2, <1>3 DEF Locals, PcStep
<1>. QED
  BY <1>1, <1>4, <1>5, <1>6, <1>7, <1>8, <1>9, <1>10, <1>11 DEF Cycle

\* HD waits for the interrupt of a command.
LEMMA HdWaitInv ==
  ASSUME ServersInv, HdWait
  PROVE  ServersInv'
<1>. USE Distinct DEF ServersInv
<1>1. /\ Free(HD) /\ ~halted /\ pc[HD] = "started" /\ HD \in Tasks
      /\ Goto(HD, "interrupted") /\ Receive(HD, INTERRUPT)
      /\ UNCHANGED <<src, ttyVars, scenario, drive, forkVars>>
  BY Runs DEF HdWait, Tasks, outside
<1>2. /\ pc'[HD] = "interrupted" /\ PcStep(HD) /\ pc' \in [Procs -> Labels]
  BY <1>1, GotoOthers DEF Labels, PcStep
<1>3. /\ src' = src /\ child' = child /\ tty_procnr' = tty_procnr /\ drive' = drive
      /\ scenario' = scenario
  BY <1>1 DEF ttyVars, forkVars
<1>4. /\ IInv' /\ Halves' /\ Same({HD}) /\ halted' = halted
      /\ \/ /\ has_int_msg[HD] /\ Free(HD)'
            /\ has_int_msg' = [has_int_msg EXCEPT ![HD] = FALSE]
         \/ /\ Waits(HD, INTERRUPT)' /\ ~has_int_msg[HD] /\ has_int_msg' = has_int_msg
  <2>1. INTERRUPT \in {ANY, INTERRUPT} /\ INTERRUPT # ANY
    OBVIOUS
  <2>2. /\ IInv' /\ Halves'
        /\ \/ /\ has_int_msg[HD] /\ Free(HD)' /\ Same({HD}) /\ halted' = halted
              /\ has_int_msg' = [has_int_msg EXCEPT ![HD] = FALSE]
           \/ /\ Sleeps(HD, INTERRUPT, Letter(HD, NoType)) /\ ~has_int_msg[HD]
              /\ has_int_msg' = has_int_msg
    BY <1>1, <2>1, ReceiveCases
  <2>3. has_int_msg[HD] \in BOOLEAN /\ halted \in BOOLEAN
    BY DEF IInv, TypeOK
  <2>. QED
    BY <1>1, <2>2, <2>3 DEF Sleeps
<1>5. /\ OthersPassive(HD) /\ \A x \in Procs \ {HD} : Kept(x) /\ ~Gets(x)
  BY <1>2, <1>4, SameOthers
<1>6. StepOf(HD) /\ Moves(HD, SYS) /\ Returning(HD, INTERRUPT)'
  BY <1>1, <1>4, <1>5 DEF StepOf, Moves, Returning
<1>7. Places'
  <2>1. At(HD)'
    BY <1>2, <1>6 DEF At, HdAt
  <2>. QED
    BY <1>5, <2>1, PlacesStep
<1>8. Words'
  <2>1. Word(HD)'
    BY <1>2, <1>6 DEF Word, Working, Free, Returning, Waits
  <2>. QED
    BY <1>3, <1>5, <2>1, WordsStep, WorkStaysWork
<1>9. Owed'
  <2>1. Owes(HD, FS) /\ \A x : Owes(HD, x)' => x = FS
    BY <1>1, <1>2, <1>6 DEF Owes, HdOwes, Working, Tells, Free, Returning, Waits
  <2>2. \A x \in Procs : Owes(HD, x)' => Awaits(x, HD)'
    BY <1>1, <1>5, <2>1 DEF Owed, Kept, Awaits, Turns, Waits
  <2>3. \A s \in Tasks \ {HD} : OwnKept(s)
    BY <1>3, <1>6, KeptOwner
  <2>. QED
    BY <1>3, <1>5, <1>6, <2>2, <2>3, MovesOwed
<1>10. Once'
  <2>1. ~Gets(FS) /\ halted' = halted
    BY <1>4, <1>5
  <2>. QED
    BY <1>3, <1>6, <2>1, OnceStep
<1>11. DriveInv'
  <2>1. has_int_msg \in [Procs -> BOOLEAN]
    BY DEF IInv, TypeOK
  <2>2. CASE Free(HD)' /\ has_int_msg[HD] /\ has_int_msg' = [has_int_msg EXCEPT ![HD] = FALSE]
    BY <1>1, <1>2, <1>3, <2>1, <2>2 DEF DriveInv
  <2>3. CASE Waits(HD, INTERRUPT)' /\ ~has_int_msg[HD] /\ has_int_msg' = has_int_msg
    BY <1>1, <1>2, <1>3, <2>3 DEF DriveInv
  <2>. QED
    BY <1>4, <2>2, <2>3
<1>12. Children'
  BY <1>1, <1>6, ChildrenStep
<1>13. Locals'
  BY <1>1, <1>2, <1>3 DEF Locals, PcStep
<1>. QED
  BY <1>1, <1>4, <1>7, <1>8, <1>9, <1>10, <1>11, <1>12, <1>13 DEF Cycle

\* HD answers FS.
LEMMA HdAnswerInv ==
  ASSUME ServersInv, HdAnswer
  PROVE  ServersInv'
<1>. USE Distinct DEF ServersInv
<1>1. /\ Free(HD) /\ ~halted /\ pc[HD] = "interrupted" /\ HD \in Tasks
      /\ UNCHANGED <<src, ttyVars, scenario, drive, forkVars>> /\ Goto(HD, "top")
  BY Runs DEF HdAnswer, Tasks, outside
<1>2. PICK t \in Types : Send(HD, FS, t) /\ IsAnswer(HD, FS, Letter(HD, t))
  <2>1. src[HD].proc = FS /\ src[HD].kind \in ToDrivers
    BY <1>1 DEF Locals, ToDrivers
  <2>. QED
    BY <2>1, SayIsPayload DEF HdAnswer, IsAnswer, Letter
<1>3. Owes(HD, FS)
  BY <1>1 DEF Owes, HdOwes
<1>4. /\ pc'[HD] = "top" /\ PcStep(HD) /\ pc' \in [Procs -> Labels]
  BY <1>1, GotoOthers DEF Labels, PcStep
<1>5. Telling(HD)' => At(HD)'
  BY <1>4 DEF At, HdAt, ServerAt
<1>6. /\ src' = src /\ child' = child /\ tty_procnr' = tty_procnr /\ drive' = drive
      /\ scenario' = scenario
  BY <1>1 DEF ttyVars, forkVars
<1>7. \A x \in Procs \ {HD} : WorkStays(x)
  BY <1>6, WorkStaysWork
<1>8. /\ IInv' /\ Halves' /\ Places' /\ Words'
      /\ Said(HD, FS, Letter(HD, t)) /\ halted' = halted /\ pc[FS] # "got"
      /\ \/ Gets(FS) /\ Waits(FS, HD) /\ buf'[FS] = Letter(HD, t) /\ Free(HD)'
         \/ Kept(FS) /\ Tells(HD, FS)'
  BY <1>1, <1>2, <1>3, <1>4, <1>5, <1>7, AnswerStep
<1>9. Moves(HD, FS) /\ StepOf(HD) /\ has_int_msg' = has_int_msg /\ ~halted'
  BY <1>1, <1>8 DEF Said, Moves
<1>10. Owed'
  <2>1. /\ (Gets(FS) /\ Free(HD)') \/ (Kept(FS) /\ Tells(HD, FS)')
        /\ pc[FS] # "got"
    BY <1>8
  <2>. QED
    BY <1>1, <1>3, <1>4, <1>6, <1>9, <2>1, AnswerOwed
<1>11. Once'
  BY <1>6, <1>8, <1>9, OnceStep
<1>12. DriveInv'
  BY <1>1, <1>2, <1>4, <1>6, <1>9 DEF DriveInv, Waits, Free
<1>13. Children'
  BY <1>1, <1>9, ChildrenStep
<1>14. Locals'
  BY <1>4, <1>6 DEF Locals, PcStep
<1>. QED
  BY <1>8, <1>9, <1>10, <1>11, <1>12, <1>13, <1>14 DEF Cycle

----------------------------------------------------------------------------
\* An interrupt handler informs a task, which takes the interrupt if it waits.
LEMMA InformStep ==
  ASSUME ServersInv, NEW t \in {TTY, HD}, InformInt(t), t = HD => pc[HD] # "got",
         UNCHANGED <<pc, src, ttyVars, scenario, forkVars>>
  PROVE  /\ IInv' /\ Halves' /\ Locals' /\ Places' /\ Words' /\ Owed' /\ Once'
         /\ Children' /\ Cycle'
         /\ \/ Free(t)' /\ has_int_msg' = [has_int_msg EXCEPT ![t] = FALSE]
            \/ /\ Kept(t) /\ ~Waits(t, INTERRUPT)
               /\ has_int_msg' = [has_int_msg EXCEPT ![t] = TRUE]
<1>. USE Distinct DEF ServersInv
<1>1. /\ IInv' /\ Halves' /\ t \in Procs /\ t \in Tasks /\ ~halted' /\ PcStep(t)
      /\ UNCHANGED <<pc, src, tty_procnr, scenario, child>>
  BY InformCases, ServersAssumption DEF ServersAssumption, Tasks, PcStep, ttyVars, forkVars
<1>2. /\ \A x \in Procs \ {t} : Kept(x)
      /\ \/ /\ Gets(t) /\ Peer(t) \in {ANY, INTERRUPT} /\ buf'[t].type = HARD_INT
            /\ has_int_msg' = [has_int_msg EXCEPT ![t] = FALSE]
         \/ /\ Kept(t) /\ ~Waits(t, INTERRUPT)
            /\ has_int_msg' = [has_int_msg EXCEPT ![t] = TRUE]
  <2>1. \/ /\ Waits(t, ANY) \/ Waits(t, INTERRUPT)
           /\ Free(t)' /\ Same({t})
           /\ buf'[t] = [source |-> INTERRUPT, type |-> HARD_INT]
           /\ has_int_msg' = [has_int_msg EXCEPT ![t] = FALSE]
        \/ /\ ~(Waits(t, ANY) \/ Waits(t, INTERRUPT)) /\ Same({})
           /\ has_int_msg' = [has_int_msg EXCEPT ![t] = TRUE]
    BY ServersAssumption, InformCases DEF ServersAssumption
  <2>. QED
    BY <1>1, <2>1 DEF Same, Kept, Gets, Waits
<1>3. /\ \A x \in Procs : Passive(x) /\ (Gets(x) => x = t)
      /\ OthersPassive(t) /\ StepOf(t)
  BY <1>1, <1>2 DEF Kept, Gets, Passive, OthersPassive, StepOf, Free
<1>4. Places'
  BY <1>3, PassiveAt DEF Places
<1>5. Words'
  <2>1. Gets(t) => Fits(t)
    BY <1>1, <1>2 DEF Fits, Gets, Kept, Free
  <2>2. Word(t)'
    BY <1>1, <1>3, <2>1, PassiveWord, WorkStaysWork DEF Places, Words
  <2>. QED
    BY <1>1, <1>3, <2>2, WordsStep, WorkStaysWork
<1>6. Suspended => Suspended'
  BY <1>1, <1>2 DEF Suspended, Kept, Gets, Tells, Free, Got
<1>7. \A s \in Tasks : OwnKept(s)
  BY <1>1, <1>6 DEF OwnKept
<1>8. \A x : Owes(t, x)' => Owes(t, x)
  <2>1. CASE ~(Gets(t) /\ pc[t] = "got")
    BY <1>1, <1>3, <1>7, <2>1, OwesLess
  <2>2. CASE Gets(t) /\ pc[t] = "got"
    <3>1. t = TTY /\ buf'[TTY].type = HARD_INT /\ Free(TTY)'
      BY <1>2, <2>2 DEF Gets, Kept, Free
    <3>. QED
      BY <3>1 DEF Owes, TtyOwes, Free, Tells
  <2>. QED
    BY <2>1, <2>2
<1>9. Owed'
  <2>1. \A x \in Procs : Owes(t, x)' => Awaits(x, t)'
    <3>1. \A x \in Procs : Owes(t, x) => Awaits(x, t)
      BY <1>1 DEF Owed
    <3>2. \A x \in Procs : Awaits(x, t) => Awaits(x, t)'
      BY <1>1, <1>2 DEF Kept, Gets, Awaits, Turns, Waits
    <3>. QED
      BY <1>8, <3>1, <3>2
  <2>2. \A s \in Procs : Awaits(t, s) => Awaits(t, s)'
    BY <1>2 DEF Kept, Gets, Awaits, Turns, Waits
  <2>3. \A x : TtyKeeps(x)' => TtyKeeps(x)
    BY <1>1, <1>3, KeepsLess
  <2>4. \A x \in Procs : TtyKeeps(x) => Awaits(x, FS)'
    <3>1. \A x \in Procs : TtyKeeps(x) => Awaits(x, FS)
      BY DEF Owed
    <3>2. \A x \in Procs : Awaits(x, FS) => Awaits(x, FS)'
      BY <1>1, <1>2 DEF Kept, Gets, Awaits, Turns, Waits
    <3>. QED
      BY <3>1, <3>2
  <2>5. \A s \in Tasks \ {t} : Owes(s, t) => Awaits(t, s)'
    BY <1>1, <2>2 DEF Owed, Tasks
  <2>6. \A x \in Procs \ {t} : ~Gets(x)
    BY <1>3
  <2>. QED
    BY <1>1, <1>3, <1>7, <2>1, <2>3, <2>4, <2>5, <2>6, OwedStep DEF Tasks
<1>10. Once'
  <2>1. /\ Resuming' => Resuming /\ buf'[TTY] = buf[TTY]
        /\ \A x : TtyKeeps(x)' => TtyKeeps(x)
    BY <1>1, <1>3, KeepsLess
  <2>2. \A x : FsOwes(x)' => FsOwes(x)
    <3>1. ~Gets(FS)
      BY <1>3
    <3>. QED
      BY <1>3, <1>7, <3>1, OwesLess DEF Owes, Tasks
  <2>3. (Awaits(FS, TTY) => halted \/ TtyOwes(FS))'
    <3>1. Awaits(FS, TTY)' => Awaits(FS, TTY) /\ ~halted
      BY <1>2, InformCases DEF Kept, Awaits, Turns, Waits, InformInt
    <3>2. TtyOwes(FS) => TtyOwes(FS)'
      BY <1>2 DEF TtyOwes, Resuming, Kept, Gets, Working, Free, Tells
    <3>. QED
      BY <3>1, <3>2 DEF Once
  <2>4. (pc[MM] = "child_done" => ~Tells(MM, src[MM]))'
    BY <1>1, <1>2 DEF Once, Kept, Tells
  <2>5. (Resuming => \A q \in Ttys : tty_procnr[q] # buf[TTY].type.about)'
    BY <1>1, <2>1 DEF Once
  <2>6. (pc[MM] \in MmForks => src[MM] # child)'
    BY <1>1 DEF Once
  <2>. QED
    BY <1>1, <2>1, <2>2, <2>3, <2>4, <2>5, <2>6 DEF Once
<1>11. Children'
  BY <1>3, ChildrenStep
<1>12. Locals'
  BY <1>1 DEF Locals
<1>. QED
  BY <1>1, <1>2, <1>4, <1>5, <1>9, <1>10, <1>11, <1>12 DEF Cycle, Gets

\* The clock informs TTY of keys.
LEMMA ClockInformsInv ==
  ASSUME ServersInv, ClockInforms
  PROVE  ServersInv'
<1>1. /\ InformInt(TTY) /\ drive' = drive
      /\ UNCHANGED <<pc, src, ttyVars, scenario, forkVars>>
  BY DEF ClockInforms, programVars, outside
<1>2. /\ IInv' /\ Halves' /\ Locals' /\ Places' /\ Words' /\ Owed' /\ Once'
      /\ Children' /\ Cycle'
      /\ \/ Free(TTY)' /\ has_int_msg' = [has_int_msg EXCEPT ![TTY] = FALSE]
         \/ /\ Kept(TTY) /\ ~Waits(TTY, INTERRUPT)
            /\ has_int_msg' = [has_int_msg EXCEPT ![TTY] = TRUE]
  BY <1>1, Distinct, InformStep
<1>3. Mode(HD)' = Mode(HD) /\ Peer(HD)' = Peer(HD)
  BY <1>1, ServersAssumption, InformCases, Distinct DEF ServersAssumption, ServersInv, Same
<1>4. DriveInv'
  <2>1. \A x \in Procs \ {TTY} : has_int_msg'[x] = has_int_msg[x]
    BY <1>2 DEF ServersInv, IInv, TypeOK
  <2>. QED
    BY <1>1, <1>3, <2>1, Distinct DEF ServersInv, DriveInv, Waits
<1>. QED
  BY <1>2, <1>4 DEF ServersInv

\* The drive informs HD, which waits for it or is about to.
LEMMA DriveInformsInv ==
  ASSUME ServersInv, DriveInforms
  PROVE  ServersInv'
<1>. USE Distinct
<1>1. /\ InformInt(HD) /\ drive' = "idle"
      /\ UNCHANGED <<pc, src, ttyVars, scenario, forkVars>>
      /\ pc[HD] = "started" \/ (pc[HD] = "interrupted" /\ Waits(HD, INTERRUPT))
  BY DEF DriveInforms, ServersInv, DriveInv
<1>2. /\ IInv' /\ Halves' /\ Locals' /\ Places' /\ Words' /\ Owed' /\ Once'
      /\ Children' /\ Cycle'
      /\ \/ Free(HD)' /\ has_int_msg' = [has_int_msg EXCEPT ![HD] = FALSE]
         \/ /\ Kept(HD) /\ ~Waits(HD, INTERRUPT)
            /\ has_int_msg' = [has_int_msg EXCEPT ![HD] = TRUE]
  BY <1>1, InformStep
<1>3. DriveInv'
  <2>1. has_int_msg \in [Procs -> BOOLEAN]
    BY DEF ServersInv, IInv, TypeOK
  <2>. QED
    BY <1>1, <1>2, <2>1 DEF ServersInv, DriveInv
<1>. QED
  BY <1>2, <1>3 DEF ServersInv

----------------------------------------------------------------------------
\* task_tty.  Steps that change nothing the invariant speaks of: a key is typed,
\* or TTY finds a line nobody waits for.
LEMMA IdleInv ==
  ASSUME ServersInv,
         UNCHANGED <<vars, pc, src, tty_procnr, scenario, drive, forkVars>>
  PROVE  ServersInv'
<1>. USE DEF ServersInv, vars, ipcVars, forkVars
<1>0. \A x \in Procs : Mode(x)' = Mode(x) /\ Peer(x)' = Peer(x)
  BY DEF Mode, Peer
<1>1. IInv'
  BY NextIInv
<1>2. Halves' /\ Locals' /\ Once' /\ Cycle'
  BY DEF Halves, Locals, Once, Cycle, Mode, Peer, Sending, Resuming, FsOwes, TtyOwes,
         TtyKeeps, Awaits, Turns, Waits, Tells, Free, Working, Suspended, Got
<1>3. Places' /\ DriveInv' /\ Children'
  BY DEF Places, DriveInv, Children, At, UserAt, ServerAt, HdAt, FsAt, MmAt, Returning,
         Calling, Telling, Waits, Turns, Asks, Tells, Free, Mode, Peer
<1>4. Words'
  BY DEF Words, Word, IsWork, IsAnswer, IsDone, Working, Free, Mode, Peer
<1>5. Owed'
  BY DEF Owed, Owes, SysOwes, HdOwes, TtyOwes, MmOwes, FsOwes, TtyKeeps, Resuming,
         Suspended, Working, Awaits, Turns, Waits, Tells, Free, Mode, Peer, Got
<1>. QED
  BY <1>1, <1>2, <1>3, <1>4, <1>5

\* TTY takes an interrupt.
LEMMA TtyHardIntInv ==
  ASSUME ServersInv, TtyHardInt
  PROVE  ServersInv'
<1>. USE Distinct DEF ServersInv
<1>1. /\ Free(TTY) /\ ~halted /\ pc[TTY] = "got" /\ TTY \in Tasks
      /\ Goto(TTY, "top") /\ buf[TTY].type = HARD_INT
      /\ UNCHANGED <<vars, src, tty_procnr, scenario, drive, forkVars>>
  BY Runs DEF TtyHardInt, Tasks, outside
<1>2. /\ pc'[TTY] = "top" /\ PcStep(TTY) /\ pc' \in [Procs -> Labels]
  BY <1>1, GotoOthers DEF Labels, PcStep
<1>3. /\ src' = src /\ child' = child /\ tty_procnr' = tty_procnr
      /\ scenario' = scenario /\ FS \in Procs \ {TTY}
  BY <1>1 DEF forkVars
<1>4. /\ IInv' /\ Halves' /\ StepOf(TTY) /\ OthersPassive(TTY) /\ Free(TTY)'
      /\ UNCHANGED <<buf, has_int_msg, halted>>
      /\ \A x \in Procs \ {TTY} : Kept(x) /\ ~Gets(x) /\ Moves(TTY, x)
  BY <1>1, <1>2, SilentStep
<1>5. Places'
  <2>1. At(TTY)'
    BY <1>2, <1>4 DEF At, ServerAt, Telling
  <2>. QED
    BY <1>4, <2>1, PlacesStep
<1>6. Words'
  <2>1. Word(TTY)'
    BY <1>2, <1>4 DEF Word, Working, Free
  <2>. QED
    BY <1>3, <1>4, <2>1, WordsStep, WorkStaysWork
<1>7. ~Resuming' /\ \A x : TtyKeeps(x)' => TtyKeeps(x)
  BY <1>1, <1>4 DEF Resuming, TtyKeeps, Tells, Free
<1>8. \A s \in Tasks \ {TTY} : OwnKept(s)
  BY <1>1, <1>3, <1>4, KeptOwner
<1>9. Owed'
  <2>1. \A x \in Procs : Owes(TTY, x)' => Awaits(x, TTY)'
    BY <1>1, <1>2, <1>4, TopOwes DEF Free, Tells
  <2>2. \A x \in Procs : TtyKeeps(x)' => Awaits(x, FS)'
    <3>1. \A x \in Procs : TtyKeeps(x)' => x # TTY /\ Awaits(x, FS)
      BY <1>1, <1>7 DEF Owed, Free, Awaits, Turns, Waits
    <3>. QED
      BY <1>4, <3>1 DEF Kept, Awaits, Turns, Waits
  <2>. QED
    BY <1>3, <1>4, <1>8, <2>1, <2>2, MovesOwed
<1>10. Once'
  <2>1. \A x : FsOwes(x)' => FsOwes(x)
    BY <1>3, <1>4, <1>8, OwesLess DEF OthersPassive, Owes, Tasks
  <2>2. (Awaits(FS, TTY) => halted \/ TtyOwes(FS))'
    <3>1. ~Awaits(FS, TTY)
      BY <1>1 DEF Once, TtyOwes, Tells, Free
    <3>. QED
      BY <1>3, <1>4, <3>1 DEF Kept, Awaits, Turns, Waits
  <2>3. (pc[MM] = "child_done" => ~Tells(MM, src[MM]))'
    BY <1>3, <1>4 DEF Once, Kept, Tells
  <2>4. (pc[MM] \in MmForks => src[MM] # child)'
    BY <1>2, <1>3 DEF Once, PcStep
  <2>. QED
    BY <1>1, <1>7, <2>1, <2>2, <2>3, <2>4 DEF Once
<1>11. DriveInv'
  BY <1>1, <1>4, DriveStep
<1>12. Children'
  BY <1>1, <1>4, ChildrenStep
<1>13. Locals'
  BY <1>1, <1>2, <1>3 DEF Locals, PcStep
<1>. QED
  BY <1>1, <1>4, <1>5, <1>6, <1>9, <1>10, <1>11, <1>12, <1>13 DEF Cycle

\* FS is answered: a write or an open is done, or the reader is put on record and
\* must sleep.
LEMMA TtyServesInv ==
  ASSUME ServersInv, TtyRead \/ TtyWrite
  PROVE  ServersInv'
<1>. USE Distinct DEF ServersInv
<1>1. /\ Free(TTY) /\ ~halted /\ pc[TTY] = "got" /\ TTY \in Tasks /\ FS \in Tasks
      /\ Goto(TTY, "top") /\ UNCHANGED <<src, scenario, drive, forkVars>>
  BY Runs DEF TtyRead, TtyWrite, Tasks, outside, ttyVars
<1>2. IsWork(TTY, buf[TTY]) /\ buf[TTY].source = FS /\ buf[TTY].type # HARD_INT
  BY <1>1 DEF Words, Word, Working, TtyRead, TtyWrite, Got, IsWork, WorkOf
<1>3. PICK t \in Types :
        /\ Send(TTY, FS, t) /\ IsAnswer(TTY, FS, Letter(TTY, t)) /\ t \in Payloads
        /\ \/ TtyRead /\ t.kind = "SUSPEND_PROC"
           \/ TtyWrite /\ t.kind = "SYSCALL_RET" /\ tty_procnr' = tty_procnr
  <2>1. /\ Say("SUSPEND_PROC", NO_TASK, HD) \in Types \intersect Payloads
        /\ Say("SYSCALL_RET", NO_TASK, HD) \in Types \intersect Payloads
        /\ Say("SUSPEND_PROC", NO_TASK, HD).kind = "SUSPEND_PROC"
        /\ Say("SYSCALL_RET", NO_TASK, HD).kind = "SYSCALL_RET"
    BY SayIsPayload DEF Answers
  <2>2. TtyWrite => tty_procnr' = tty_procnr
    BY DEF TtyWrite, ttyVars
  <2>. QED
    BY <1>2, <2>1, <2>2 DEF TtyRead, TtyWrite, IsAnswer, Letter
<1>4. Owes(TTY, FS) /\ Awaits(FS, TTY)
  <2>1. Owes(TTY, FS)
    BY <1>1, <1>2 DEF Owes, TtyOwes, Working
  <2>. QED
    BY <1>1, <2>1 DEF Owed
<1>5. /\ pc'[TTY] = "top" /\ PcStep(TTY) /\ pc' \in [Procs -> Labels]
  BY <1>1, GotoOthers DEF Labels, PcStep
<1>6. Telling(TTY)' => At(TTY)'
  BY <1>5 DEF At, ServerAt
<1>7. src' = src /\ child' = child /\ drive' = drive /\ scenario' = scenario
  BY <1>1 DEF forkVars
<1>8. \A x \in Procs \ {TTY} : WorkStays(x)
  BY <1>7, WorkStaysWork
<1>9. /\ IInv' /\ Halves' /\ Places' /\ Words'
      /\ Said(TTY, FS, Letter(TTY, t)) /\ halted' = halted /\ pc[FS] # "got"
      /\ \/ Gets(FS) /\ Waits(FS, TTY) /\ buf'[FS] = Letter(TTY, t) /\ Free(TTY)'
         \/ Kept(FS) /\ Tells(TTY, FS)'
  BY <1>1, <1>3, <1>4, <1>5, <1>6, <1>8, AnswerStep
<1>10. /\ Moves(TTY, FS) /\ StepOf(TTY) /\ has_int_msg' = has_int_msg /\ ~halted'
       /\ Passive(FS) /\ buf'[TTY].type = t
  BY <1>1, <1>9 DEF Said, Moves, StepOf, OthersPassive, Letter
<1>11. ~Resuming' /\ ~Resuming
  BY <1>1, <1>3, <1>10 DEF Resuming, Tells, Free
<1>12. pc[FS] \in {"tty", "tty_done"} /\ (Waits(FS, TTY) => pc[FS] = "tty_done")
  BY <1>4 DEF Places, At, FsAt, ServerAt, Awaits, Turns, Waits, Free, Calling, Returning,
              Asks, Telling
\* The reader TTY notes is the one FS serves, which FS will not answer now.
<1>13. TtyRead => /\ FsOwes(src[FS]) /\ src[FS] \in Users
                  /\ \E q \in Ttys : tty_procnr' = [tty_procnr EXCEPT ![q] = src[FS]]
                  /\ \A x : ~FsOwes(x)'
  <2>1. SUFFICES ASSUME TtyRead
                 PROVE  /\ FsOwes(src[FS]) /\ src[FS] \in Users
                        /\ \E q \in Ttys :
                             tty_procnr' = [tty_procnr EXCEPT ![q] = src[FS]]
                        /\ \A x : ~FsOwes(x)'
    OBVIOUS
  <2>2. buf[TTY].type.about = src[FS] /\ buf[TTY].type.dev \in Ttys
    BY <1>2, <2>1 DEF IsWork, WorkOf, TtyRead, Got
  <2>3. ~Suspended
    BY <1>1, <1>4 DEF Suspended, Tells, Free, Awaits, Turns, Waits
  <2>4. Suspended'
    <3>1. CASE Kept(FS) /\ Tells(TTY, FS)'
      BY <1>3, <1>10, <2>1, <3>1 DEF Suspended, TtyRead, TtyWrite, Got
    <3>2. CASE Gets(FS) /\ Waits(FS, TTY) /\ buf'[FS] = Letter(TTY, t)
      BY <1>3, <1>10, <1>12, <2>1, <3>2, NotPayloads
         DEF Suspended, TtyRead, TtyWrite, Got, Letter, Gets, Passive
    <3>. QED
      BY <1>9, <3>1, <3>2
  <2>5. \A x : ~FsOwes(x)'
    <3>1. pc'[FS] = pc[FS] /\ pc[FS] # "got"
      BY <1>10, <1>12 DEF Passive
    <3>2. Mode(FS)' # "tells"
      BY <1>4, <1>10 DEF Passive, Awaits, Turns, Waits, Free
    <3>. QED
      BY <1>12, <2>4, <3>1, <3>2 DEF FsOwes, Working, Tells
  <2>6. FsOwes(src[FS]) /\ src[FS] \in Users
    BY <1>12, <2>3 DEF FsOwes, FsBusy, Locals
  <2>. QED
    BY <2>1, <2>2, <2>5, <2>6 DEF TtyRead
<1>14. \A x \in Procs : TtyKeeps(x)' => TtyKeeps(x) \/ (TtyRead /\ x = src[FS])
  <2>1. CASE TtyRead
    BY <1>11, <1>13, <2>1 DEF TtyKeeps, Locals
  <2>2. CASE TtyWrite /\ tty_procnr' = tty_procnr
    BY <1>11, <2>2 DEF TtyKeeps
  <2>. QED
    BY <1>3, <2>1, <2>2
<1>15. Owed'
  <2>1. /\ (Gets(FS) /\ Free(TTY)') \/ (Kept(FS) /\ Tells(TTY, FS)')
        /\ pc[FS] # "got"
    BY <1>9
  <2>2. ASSUME NEW x \in Procs, TtyKeeps(x)' PROVE Awaits(x, FS)'
    <3>1. x \in Users /\ Awaits(x, FS)
      <4>1. TtyKeeps(x) => x \in Users /\ Awaits(x, FS)
        BY KeepsUsers DEF Owed
      <4>2. TtyRead => src[FS] \in Users /\ Awaits(src[FS], FS)
        BY <1>1, <1>13 DEF Owed, Owes
      <4>. QED
        BY <1>14, <2>2, <4>1, <4>2
    <3>. QED
      BY <1>10, <3>1 DEF Moves, Kept, Awaits, Turns, Waits
  <2>. QED
    BY <1>1, <1>4, <1>5, <1>7, <1>10, <2>1, <2>2, AnswerOwed
<1>16. Once'
  <2>1. \A x \in Procs : ~(FsOwes(x)' /\ TtyKeeps(x)')
    <3>1. CASE TtyRead
      BY <1>13, <3>1
    <3>2. CASE ~TtyRead
      <4>1. \A s \in Tasks \ {TTY} : OwnKept(s)
        BY <1>1, <1>7, <1>10, KeptOwner
      <4>2. \A x : FsOwes(x)' => FsOwes(x)
        BY <1>1, <1>9, <1>10, <4>1, OwesLess DEF Owes
      <4>. QED
        BY <1>14, <3>2, <4>2 DEF Once
    <3>. QED
      BY <3>1, <3>2
  <2>2. \A q1, q2 \in Ttys : tty_procnr'[q1] = tty_procnr'[q2] =>
          q1 = q2 \/ tty_procnr'[q1] = NO_TASK
    <3>1. CASE TtyRead
      <4>1. \A q \in Ttys : tty_procnr[q] # src[FS]
        BY <1>13, <3>1 DEF Once, TtyKeeps
      <4>. QED
        BY <1>13, <3>1, <4>1 DEF Once, Locals
    <3>2. CASE TtyWrite /\ tty_procnr' = tty_procnr
      BY <3>2 DEF Once
    <3>. QED
      BY <1>3, <3>1, <3>2
  <2>3. (Awaits(FS, TTY) => halted \/ TtyOwes(FS))'
    BY <1>9, <1>11 DEF Gets, Free, Awaits, Turns, Waits, TtyOwes
  <2>4. (pc[MM] = "child_done" => ~Tells(MM, src[MM]))'
    BY <1>7, <1>10 DEF Once, Moves, Kept, Tells
  <2>5. (pc[MM] \in MmForks => src[MM] # child)'
    BY <1>5, <1>7 DEF Once, PcStep
  <2>. QED
    BY <1>11, <2>1, <2>2, <2>3, <2>4, <2>5 DEF Once
<1>17. DriveInv'
  BY <1>7, <1>10, DriveStep
<1>18. Children'
  BY <1>1, <1>10, ChildrenStep
<1>19. Locals'
  <2>1. tty_procnr' \in [Ttys -> Users \union {NO_TASK}]
    BY <1>3, <1>13 DEF Locals
  <2>. QED
    BY <1>5, <1>7, <2>1 DEF Locals, PcStep
<1>. QED
  BY <1>9, <1>10, <1>15, <1>16, <1>17, <1>18, <1>19 DEF Cycle

\* A process whose row says it sends is one that deadlock() sees sending.
LEMMA RowSends ==
  ASSUME NEW x \in Procs, Mode(x)' \in {"asks", "tells"}
  PROVE  Sending(x)' /\ p_sendto'[x] = Peer(x)'
<1>1. p_flags'[x] = {SENDING} /\ Peer(x)' = p_sendto'[x]
  BY DEF Mode, Peer, SENDING
<1>. QED
  BY <1>1 DEF Sending

\* A reader's line is there: FS is told to answer it.  FS may be calling TTY.
LEMMA TtyLineInv ==
  ASSUME ServersInv, NEW q \in Ttys, TtyLine(q), tty_procnr[q] # NO_TASK
  PROVE  ServersInv'
<1>. USE Distinct DEF ServersInv
<1>1. /\ Free(TTY) /\ ~halted /\ pc[TTY] = "top" /\ TTY \in Tasks /\ FS \in Tasks
      /\ UNCHANGED <<pc, src, scenario, drive, forkVars>>
      /\ tty_procnr' = [tty_procnr EXCEPT ![q] = NO_TASK]
  BY Runs DEF TtyLine, Tasks, outside
<1>2. PICK r \in Users : r = tty_procnr[q]
  BY DEF Locals
<1>3. PICK t \in Types :
        /\ Send(TTY, FS, t) /\ t \in Payloads /\ t.kind = "RESUME_PROC" /\ t.about = r
  BY <1>2, SayIsPayload DEF TtyLine, Answers
<1>4. TtyKeeps(r) /\ Awaits(r, FS) /\ r \in Procs
  BY <1>2 DEF TtyKeeps, Owed
<1>5. ~Awaits(FS, TTY) /\ ~Resuming
  BY <1>1 DEF Once, TtyOwes, Working, Tells, Free, Resuming
<1>6. /\ pc' = pc /\ PcStep(TTY) /\ src' = src /\ child' = child /\ drive' = drive
      /\ scenario' = scenario
  BY <1>1 DEF PcStep, forkVars
<1>7. Telling(TTY)' => At(TTY)'
  BY <1>1 DEF At, ServerAt
<1>8. IsAnswer(TTY, FS, Letter(TTY, t)) /\ WorkAfter(FS, Letter(TTY, t))
  BY <1>3 DEF IsAnswer, WorkAfter, WorkOf, Letter
<1>9. buf'[FS] = Letter(TTY, t) => Fits(FS)
  BY <1>8 DEF Fits
<1>10. \A x \in Procs \ {TTY} : WorkStays(x)
  BY <1>6, WorkStaysWork
<1>11. /\ IInv' /\ Halves' /\ Places' /\ Words'
       /\ Said(TTY, FS, Letter(TTY, t)) /\ Answered(TTY, FS, Letter(TTY, t))
  BY <1>1, <1>3, <1>6, <1>7, <1>8, <1>9, <1>10, TellStep
<1>12. /\ Moves(TTY, FS) /\ StepOf(TTY) /\ has_int_msg' = has_int_msg
       /\ Passive(FS) /\ buf'[TTY].type = t
       /\ \/ Gets(FS) /\ buf'[FS].type = t /\ buf'[FS].source = TTY /\ Free(TTY)'
             /\ Free(FS)' /\ pc[FS] = "got" /\ ~halted'
          \/ Kept(FS) /\ Tells(TTY, FS)' /\ ~halted'
          \/ Kept(FS) /\ Free(TTY)' /\ Deadlock(TTY, FS)
  <2>1. Accepts(FS, TTY) => pc[FS] = "got"
    BY <1>5, Edges DEF Accepts, Awaits, Waits
  <2>. QED
    BY <1>1, <1>11, <2>1 DEF Said, Answered, Moves, StepOf, OthersPassive, Letter, Gets
<1>13. Resuming' <=> Kept(FS) /\ Tells(TTY, FS)'
  BY <1>3, <1>12 DEF Resuming, Tells, Free, Gets, Kept
<1>14. \A s \in Tasks \ {TTY} : OwnKept(s)
  BY <1>1, <1>6, <1>12, KeptOwner
<1>15. \A x \in Procs : TtyKeeps(x)' => TtyKeeps(x) /\ (x = r => Resuming')
  <2>1. SUFFICES ASSUME NEW x \in Procs, TtyKeeps(x)'
                 PROVE  TtyKeeps(x) /\ (x = r => Resuming')
    OBVIOUS
  <2>2. CASE Resuming' /\ buf'[TTY].type.about = x
    BY <1>3, <1>4, <1>12, <2>2
  <2>3. CASE \E o \in Ttys : tty_procnr'[o] = x
    <3>1. PICK o \in Ttys : tty_procnr[o] = x /\ o # q
      BY <1>1, <2>3 DEF Locals
    <3>. QED
      BY <1>2, <3>1 DEF TtyKeeps, Once
  <2>. QED
    BY <2>1, <2>2, <2>3 DEF TtyKeeps
<1>16. Gets(FS) => \A x : FsOwes(x)' => x = r
  BY <1>3, <1>6, <1>12 DEF FsOwes, Working, FsBusy, Free, Tells, Gets, Kept
<1>17. Owed'
  <2>1. Awaits(r, FS)'
    BY <1>2, <1>4, <1>12 DEF Moves, Kept, Awaits, Turns, Waits
  <2>2. FS \in Tasks /\ Gets(FS) /\ pc[FS] = "got" =>
          \A x \in Procs : Owes(FS, x)' => Awaits(x, FS)'
    BY <1>16, <2>1 DEF Owes
  <2>3. \A x \in Procs : Owes(TTY, x)' => Awaits(x, TTY)'
    <3>1. \A x : Owes(TTY, x)' => Tells(TTY, x)' /\ ~Resuming'
      BY <1>1, <1>6 DEF Owes, TtyOwes, Working
    <3>. QED
      BY <1>12, <1>13, <3>1 DEF Tells, Free
  <2>4. \A x \in Procs : TtyKeeps(x)' => Awaits(x, FS)'
    <3>1. \A x \in Procs : TtyKeeps(x)' => x \in Users /\ Awaits(x, FS)
      BY <1>15, KeepsUsers DEF Owed
    <3>. QED
      BY <1>12, <3>1 DEF Moves, Kept, Awaits, Turns, Waits
  <2>. QED
    BY <1>12, <1>14, <2>2, <2>3, <2>4, MovesOwed
<1>18. Once'
  <2>1. \A x \in Procs : ~(FsOwes(x)' /\ TtyKeeps(x)')
    <3>1. CASE Gets(FS)
      BY <1>13, <1>15, <1>16, <3>1 DEF Gets, Kept, Free
    <3>2. CASE ~Gets(FS)
      <4>1. \A x : FsOwes(x)' => FsOwes(x)
        BY <1>1, <1>12, <1>14, <3>2, OwesLess DEF Owes
      <4>. QED
        BY <1>15, <4>1 DEF Once
    <3>. QED
      BY <3>1, <3>2
  <2>2. \A q1, q2 \in Ttys : tty_procnr'[q1] = tty_procnr'[q2] =>
          q1 = q2 \/ tty_procnr'[q1] = NO_TASK
    BY <1>1 DEF Once, Locals
  <2>3. (Awaits(FS, TTY) => halted \/ TtyOwes(FS))'
    BY <1>5, <1>12 DEF Gets, Kept, Free, Awaits, Turns, Waits
  <2>4. (pc[MM] = "child_done" => ~Tells(MM, src[MM]))'
    BY <1>6, <1>12 DEF Once, Moves, Kept, Tells
  <2>5. (pc[MM] \in MmForks => src[MM] # child)'
    BY <1>6 DEF Once
  <2>6. (Resuming => \A o \in Ttys : tty_procnr[o] # buf[TTY].type.about)'
    BY <1>1, <1>2, <1>3, <1>12 DEF Once, Locals
  <2>. QED
    BY <2>1, <2>2, <2>3, <2>4, <2>5, <2>6 DEF Once
<1>19. DriveInv'
  BY <1>6, <1>12, DriveStep
<1>20. Children'
  BY <1>1, <1>12, ChildrenStep
<1>21. Locals'
  BY <1>1, <1>6 DEF Locals
<1>22. Cycle'
  <2>1. SUFFICES ASSUME halted' PROVE Sending(FS)' /\ p_sendto'[FS] = TTY
    BY <1>1 DEF Cycle
  <2>2. Kept(FS) /\ Deadlock(TTY, FS)
    BY <1>12, <2>1
  \* From FS the calls lead to HD and SYS, unless FS calls TTY.
  <2>3. Mode(FS) = "asks" /\ Peer(FS) = TTY
    <3>1. SUFFICES ASSUME ~(Mode(FS) = "asks" /\ Peer(FS) = TTY) PROVE ~Deadlock(TTY, FS)
      BY <2>2
    <3>2. {FS, HD, SYS} \in SUBSET (Procs \ {TTY})
      OBVIOUS
    <3>3. \A x \in {FS, HD, SYS} : Mode(x) = "asks" => Peer(x) \in {FS, HD, SYS}
      BY <3>1, Edges
    <3>. QED
      BY <1>1, <3>2, <3>3, NoWay
  <2>. QED
    BY <2>2, <2>3, RowSends DEF Kept
<1>. QED
  BY <1>11, <1>17, <1>18, <1>19, <1>20, <1>21, <1>22

----------------------------------------------------------------------------
\* A task looks for work.
LEMMA FetchStep ==
  ASSUME ServersInv, NEW p \in Tasks, Receive(p, ANY), PcStep(p), pc'[p] = "got",
         has_int_msg[p] => p = TTY, UNCHANGED <<src, ttyVars, scenario, forkVars>>
  PROVE  /\ IInv' /\ Halves' /\ Places' /\ Words' /\ StepOf(p) /\ Free(p) /\ ~halted
         /\ ~halted' /\ (\A x \in Procs : has_int_msg'[x] => has_int_msg[x])
         /\ \A x \in Procs \ {p} : ~Gets(x)
         /\ \E f \in Procs \ {p} :
              /\ Moves(p, f)
              /\ \/ Kept(f) /\ Waits(p, ANY)'
                 \/ Kept(f) /\ p = TTY /\ Free(p)' /\ buf'[p].type = HARD_INT
                 \/ /\ Asks(f, p) /\ Turns(f, p)' /\ Free(p)' /\ buf'[p].source = f
                    /\ IsWork(p, buf[p])'
                 \/ /\ p = FS /\ f = TTY /\ Resuming /\ Free(TTY)' /\ Free(p)'
                    /\ buf'[p] = buf[TTY] /\ IsWork(p, buf[p])'
<1>. USE Distinct DEF ServersInv
<1>1. p \in Procs /\ UNCHANGED <<src, tty_procnr, scenario, child>>
  BY DEF ttyVars, forkVars, Tasks
<1>2. /\ IInv' /\ Halves' /\ Free(p) /\ ~halted
      /\ \/ /\ has_int_msg[p] /\ Free(p)' /\ Same({p}) /\ halted' = halted
            /\ buf'[p] = [source |-> INTERRUPT, type |-> HARD_INT]
            /\ has_int_msg' = [has_int_msg EXCEPT ![p] = FALSE]
         \/ /\ has_int_msg' = has_int_msg
            /\ \E from \in Procs : /\ from # p /\ Hears(p, from)
                                   /\ Mode(from) \in {"asks", "tells"}
         \/ /\ Sleeps(p, ANY, Letter(p, NoType)) /\ ~has_int_msg[p]
            /\ has_int_msg' = has_int_msg
  <2>1. ANY \in {ANY, INTERRUPT}
    OBVIOUS
  <2>. QED
    BY <1>1, <2>1, ReceiveCases
<1>3. has_int_msg \in [Procs -> BOOLEAN] /\ halted \in BOOLEAN
  BY DEF IInv, TypeOK
<1> DEFINE Fetches(f) ==
     /\ Moves(p, f)
     /\ \/ Kept(f) /\ Waits(p, ANY)'
        \/ Kept(f) /\ p = TTY /\ Free(p)' /\ buf'[p].type = HARD_INT
        \/ /\ Asks(f, p) /\ Turns(f, p)' /\ Free(p)' /\ buf'[p].source = f
           /\ IsWork(p, buf[p])'
        \/ /\ p = FS /\ f = TTY /\ Resuming /\ Free(TTY)' /\ Free(p)'
           /\ buf'[p] = buf[TTY] /\ IsWork(p, buf[p])'
<1> DEFINE Outcome ==
     /\ StepOf(p) /\ ~halted' /\ OthersPassive(p)
     /\ \A x \in Procs : has_int_msg'[x] => has_int_msg[x]
     /\ \A x \in Procs \ {p} : ~Gets(x)
     /\ \E f \in Procs \ {p} : Fetches(f)
<1>4. Outcome
  <2>1. CASE /\ has_int_msg[p] /\ Free(p)' /\ Same({p}) /\ halted' = halted
             /\ buf'[p] = [source |-> INTERRUPT, type |-> HARD_INT]
             /\ has_int_msg' = [has_int_msg EXCEPT ![p] = FALSE]
    <3>1. /\ OthersPassive(p) /\ \A x \in Procs \ {p} : Kept(x) /\ ~Gets(x)
      BY <1>1, <2>1, SameOthers
    <3>2. StepOf(p) /\ Moves(p, FS) /\ Kept(FS) /\ FS # p
      BY <1>2, <2>1, <3>1 DEF StepOf, Moves
    <3>3. /\ ~halted' /\ \A x \in Procs : has_int_msg'[x] => has_int_msg[x]
      BY <1>2, <1>3, <2>1
    <3>. QED
      BY <2>1, <3>1, <3>2, <3>3
  <2>2. CASE /\ Sleeps(p, ANY, Letter(p, NoType)) /\ ~has_int_msg[p]
             /\ has_int_msg' = has_int_msg
    <3>1. /\ OthersPassive(p) /\ \A x \in Procs \ {p} : Kept(x) /\ ~Gets(x)
      BY <1>1, <2>2, SameOthers DEF Sleeps
    <3>2. PICK f \in Procs : f # p
      BY <1>1
    <3>3. StepOf(p) /\ Moves(p, f) /\ Kept(f)
      BY <1>2, <3>1, <3>2 DEF StepOf, Moves
    <3>4. ~halted' /\ Waits(p, ANY)'
      BY <1>1, <1>3, <2>2 DEF Sleeps
    <3>. QED
      BY <2>2, <3>1, <3>2, <3>3, <3>4
  <2>3. ASSUME has_int_msg' = has_int_msg, NEW f \in Procs, f # p, Hears(p, f),
               Mode(f) \in {"asks", "tells"}
        PROVE  Outcome
    <3>1. /\ OthersPassive(p) /\ \A x \in Procs \ {p, f} : Kept(x)
          /\ \A x \in Procs \ {p} : ~Gets(x)
      BY <1>1, <2>3, HeardOthers
    <3>2. StepOf(p) /\ Moves(p, f) /\ Free(p)' /\ buf'[p] = buf[f] /\ ~halted'
      BY <1>2, <2>3, <3>1 DEF StepOf, Moves, Hears
    <3>3. CASE Mode(f) = "asks"
      <4>1. Asks(f, p) /\ Turns(f, p)'
        BY <2>3, <3>3 DEF Hears, Asks
      <4>2. buf[f].source = f /\ IsWork(p, buf[f])
        BY <4>1 DEF Words, Word, Asks
      <4>3. IsWork(p, buf[p])'
        BY <1>1, <3>2, <4>2 DEF IsWork
      <4>. QED
        BY <2>3, <3>1, <3>2, <4>1, <4>2, <4>3
    <3>4. CASE Mode(f) = "tells"
      <4>1. f = TTY /\ Resuming /\ Peer(f) = p
        BY <1>1, <1>2, <2>3, <3>4, Tellers
           DEF Hears, Awaits, Turns, Waits, Free
      <4>2. p = FS /\ IsAnswer(TTY, FS, buf[TTY]) /\ Free(TTY)'
        BY <2>3, <3>4, <4>1 DEF Words, Word, Resuming, Tells, Hears
      <4>3. IsWork(p, buf[p])'
        BY <3>2, <4>1, <4>2 DEF IsWork, WorkOf, IsAnswer, Resuming
      <4>. QED
        BY <2>3, <3>1, <3>2, <4>1, <4>2, <4>3
    <3>. QED
      BY <2>3, <3>3, <3>4
  <2>. QED
    BY <1>2, <2>1, <2>2, <2>3
<1>5. Places'
  <2>1. Returning(p, ANY)'
    BY <1>4 DEF Returning
  <2>2. At(p)'
    BY <1>1, <2>1 DEF At, ServerAt, HdAt, FsAt, MmAt, Tasks
  <2>. QED
    BY <1>1, <1>4, <2>2, PlacesStep
<1>6. Words'
  <2>1. Word(p)'
    <3>1. Free(p)' => IsWork(p, buf[p])' \/ (p = TTY /\ buf'[p].type = HARD_INT)
      BY <1>4 DEF Free, Waits
    <3>2. Mode(p)' \in {"free", "waits"} /\ p \notin Users
      BY <1>1, <1>4 DEF Free, Waits, Tasks
    <3>. QED
      BY <3>1, <3>2 DEF Word, Working
  <2>. QED
    BY <1>1, <1>4, <2>1, WordsStep, WorkStaysWork
<1>. QED
  BY <1>2, <1>4, <1>5, <1>6

\* GetWork of every task, and the RECEIVE of FS for a suspended reader.
LEMMA FetchInv ==
  ASSUME ServersInv, NEW p \in Tasks, Receive(p, ANY), Goto(p, "got"),
         pc[p] = "top" \/ (p = FS /\ pc[FS] = "tty_done"),
         UNCHANGED <<src, ttyVars, scenario, drive, forkVars>>
  PROVE  ServersInv'
<1>. USE Distinct DEF ServersInv
<1>1. /\ p \in Procs /\ FS \in Tasks /\ MM \in Tasks
      /\ UNCHANGED <<src, tty_procnr, scenario, child, drive>>
  BY DEF ttyVars, forkVars, Tasks
<1>2. /\ pc'[p] = "got" /\ PcStep(p) /\ pc' \in [Procs -> Labels]
  BY <1>1, GotoOthers DEF Labels, PcStep
<1>3. has_int_msg[p] => p = TTY
  BY <1>1 DEF DriveInv
<1>4. /\ IInv' /\ Halves' /\ Places' /\ Words' /\ StepOf(p) /\ Free(p) /\ ~halted
      /\ ~halted' /\ (\A x \in Procs : has_int_msg'[x] => has_int_msg[x])
      /\ \A x \in Procs \ {p} : ~Gets(x)
      /\ \E f \in Procs \ {p} :
           /\ Moves(p, f)
           /\ \/ Kept(f) /\ Waits(p, ANY)'
              \/ Kept(f) /\ p = TTY /\ Free(p)' /\ buf'[p].type = HARD_INT
              \/ /\ Asks(f, p) /\ Turns(f, p)' /\ Free(p)' /\ buf'[p].source = f
                 /\ IsWork(p, buf[p])'
              \/ /\ p = FS /\ f = TTY /\ Resuming /\ Free(TTY)' /\ Free(p)'
                 /\ buf'[p] = buf[TTY] /\ IsWork(p, buf[p])'
  BY <1>1, <1>2, <1>3, FetchStep
<1>5. PICK f \in Procs \ {p} :
        /\ Moves(p, f)
        /\ \/ Kept(f) /\ Waits(p, ANY)'
           \/ Kept(f) /\ p = TTY /\ Free(p)' /\ buf'[p].type = HARD_INT
           \/ /\ Asks(f, p) /\ Turns(f, p)' /\ Free(p)' /\ buf'[p].source = f
              /\ IsWork(p, buf[p])'
           \/ /\ p = FS /\ f = TTY /\ Resuming /\ Free(TTY)' /\ Free(p)'
              /\ buf'[p] = buf[TTY] /\ IsWork(p, buf[p])'
  BY <1>4
<1>6. \A x, s \in Procs : x # p /\ Awaits(x, s) => Kept(x) /\ Awaits(x, s)'
  BY <1>5 DEF Moves, Kept, Awaits, Turns, Waits, Asks, Resuming, Tells
\* p has taken up nothing, or the request of f, or what TTY resumes.
<1>7. \/ \A x \in Procs : ~Owes(p, x)'
      \/ /\ Asks(f, p) /\ Turns(f, p)' /\ Free(p)' /\ IsWork(p, buf[p])'
         /\ \A x \in Procs : Owes(p, x)' => x = f
      \/ /\ p = FS /\ Resuming /\ ~Resuming'
         /\ \A x \in Procs : Owes(p, x)' => x = buf[TTY].type.about
  <2>1. CASE Waits(p, ANY)'
    BY <1>1, <1>2, <2>1 DEF Owes, SysOwes, HdOwes, TtyOwes, MmOwes, FsOwes, Working, Tells,
                        Waits, Free, FsBusy, MmForks
  <2>2. CASE p = TTY /\ Free(p)' /\ buf'[p].type = HARD_INT
    BY <1>1, <2>2 DEF Owes, TtyOwes, Tells, Free
  <2>3. CASE /\ Asks(f, p) /\ Turns(f, p)' /\ Free(p)' /\ buf'[p].source = f
             /\ IsWork(p, buf[p])'
    <3>1. ~(p = FS /\ f = TTY)
      BY <2>3, Edges DEF Asks
    <3>2. (p = HD => f = FS) /\ (p = TTY => f = FS)
      BY <2>3 DEF IsWork, WorkOf
    <3>. QED
      BY <1>2, <2>3, <3>1, <3>2, GotOwes
  <2>4. CASE /\ p = FS /\ f = TTY /\ Resuming /\ Free(TTY)' /\ Free(p)'
             /\ buf'[p] = buf[TTY] /\ IsWork(p, buf[p])'
    <3>1. buf'[FS].source = TTY
      BY <2>4 DEF Resuming, Words, Word, Tells, IsAnswer
    <3>. QED
      BY <1>2, <2>4, <3>1 DEF Owes, FsOwes, Resuming, Tells, Free, FsBusy
  <2>. QED
    BY <1>5, <2>1, <2>2, <2>3, <2>4
<1>8. /\ Resuming' => Resuming /\ buf'[TTY] = buf[TTY] /\ p # TTY
      /\ \A x : TtyKeeps(x)' => TtyKeeps(x)
  <2>1. CASE p = TTY
    <3>1. ~Resuming'
      BY <1>5, <2>1 DEF Resuming, Tells, Waits, Free
    <3>. QED
      BY <1>1, <3>1 DEF TtyKeeps
  <2>2. CASE p # TTY
    BY <1>1, <1>4, <2>2, KeepsLess DEF StepOf, OthersPassive
  <2>. QED
    BY <2>1, <2>2
<1>9. \A s \in Tasks \ {p} : OwnKept(s)
  <2>1. CASE p # FS
    BY <1>1, <1>4, <2>1, KeptOwner
  <2>2. CASE p = FS
    BY <1>1, <2>2 DEF OwnKept
  <2>. QED
    BY <2>1, <2>2
<1>10. Owed'
  <2>1. \A x \in Procs : Owes(p, x)' => Awaits(x, p)'
    <3>1. CASE Resuming /\ p = FS
      <4>1. ASSUME NEW x \in Procs, x = buf[TTY].type.about PROVE Awaits(x, FS)'
        <5>0. TtyKeeps(x)
          BY <3>1, <4>1 DEF TtyKeeps
        <5>1. Awaits(x, FS)
          BY <4>1, <5>0 DEF Owed
        <5>2. x # p
          BY <1>4, <3>1, <5>1 DEF Awaits, Turns, Waits, Free
        <5>. QED
          BY <1>6, <5>1, <5>2
      <4>2. Turns(f, p)' => Awaits(f, p)'
        BY DEF Awaits
      <4>. QED
        BY <1>7, <3>1, <4>1, <4>2
    <3>2. CASE ~(Resuming /\ p = FS)
      BY <1>7, <3>2 DEF Awaits
    <3>. QED
      BY <3>1, <3>2
  <2>2. \A x \in Procs : TtyKeeps(x)' => Awaits(x, FS)'
    <3>1. \A x \in Procs : TtyKeeps(x)' => Awaits(x, FS) /\ x # p
      BY <1>4, <1>8 DEF Owed, Awaits, Turns, Waits, Free
    <3>. QED
      BY <1>6, <3>1
  <2>3. p = FS => \A x \in Procs : TtyKeeps(x)' => ~Gets(x)
    BY <1>4 DEF Gets, Free
  <2>4. ~Gets(f)
    BY <1>4
  <2>. QED
    BY <1>1, <1>5, <1>9, <2>1, <2>2, <2>3, <2>4, MovesOwed
<1>11. Once'
  <2>1. \A x \in Procs : ~(FsOwes(x)' /\ TtyKeeps(x)')
    <3>1. CASE p # FS
      <4>1. \A x : FsOwes(x)' => FsOwes(x)
        BY <1>1, <1>4, <1>9, <3>1, OwesLess DEF StepOf, OthersPassive, Owes
      <4>. QED
        BY <1>8, <4>1 DEF Once
    <3>2. CASE p = FS
      <4>1. ASSUME NEW x \in Procs, FsOwes(x)', TtyKeeps(x)' PROVE FALSE
        <5>1. Owes(p, x)' /\ TtyKeeps(x) /\ Awaits(x, FS)
          BY <1>8, <3>2, <4>1 DEF Owes, Owed
        <5>2. CASE Asks(f, p) /\ x = f
          BY <5>1, <5>2 DEF Asks, Awaits, Turns, Waits
        <5>3. CASE Resuming /\ ~Resuming' /\ x = buf[TTY].type.about
          BY <1>1, <4>1, <5>3 DEF TtyKeeps, Once
        <5>. QED
          BY <1>7, <5>1, <5>2, <5>3
      <4>. QED
        BY <4>1
    <3>. QED
      BY <3>1, <3>2
  <2>2. (Awaits(FS, TTY) => halted \/ TtyOwes(FS))'
    <3>1. CASE p = FS
      BY <1>5, <3>1 DEF Awaits, Turns, Waits, Free
    <3>2. CASE p = TTY
      <4>1. ~Awaits(FS, TTY)
        BY <1>1, <1>4, <3>2 DEF Once, TtyOwes, Working, Tells, Free
      <4>2. Kept(FS) => ~Awaits(FS, TTY)'
        BY <4>1 DEF Kept, Awaits, Turns, Waits
      <4>3. CASE ~Kept(FS)
        <5>1. f = FS
          BY <1>1, <1>5, <3>2, <4>3 DEF Moves
        <5>2. Free(TTY)' /\ IsWork(TTY, buf[TTY])'
          BY <1>5, <3>2, <4>3, <5>1
        <5>3. buf'[TTY].type # HARD_INT
          BY <5>2, NotPayloads DEF IsWork, WorkOf
        <5>. QED
          BY <1>2, <3>2, <5>2, <5>3 DEF TtyOwes, Working
      <4>. QED
        BY <4>2, <4>3
    <3>3. CASE p \notin {FS, TTY}
      <4>1. Awaits(FS, TTY)' => Awaits(FS, TTY)
        BY <1>5, <3>3 DEF Moves, Kept, Awaits, Turns, Waits
      <4>2. Kept(TTY)
        BY <1>5, <3>3, Edges DEF Moves, Asks
      <4>. QED
        BY <1>4, <4>1, <4>2 DEF Once, TtyOwes, Resuming, Working, Kept, Free, Tells
    <3>. QED
      BY <3>1, <3>2, <3>3
  <2>3. (pc[MM] = "child_done" => ~Tells(MM, src[MM]))'
    BY <1>1, <1>2, <1>4 DEF Once, StepOf, OthersPassive, Passive, Tells, Free
  <2>4. (pc[MM] \in MmForks => src[MM] # child)'
    BY <1>1, <1>2 DEF Once, PcStep, MmForks
  <2>5. (Resuming => \A q \in Ttys : tty_procnr[q] # buf[TTY].type.about)'
    BY <1>1, <1>8 DEF Once
  <2>. QED
    BY <1>1, <2>1, <2>2, <2>3, <2>4, <2>5 DEF Once
<1>12. DriveInv'
  <2>1. CASE p = HD
    BY <1>1, <1>2, <1>4, <2>1 DEF DriveInv
  <2>2. CASE p # HD
    BY <1>1, <1>4, <2>2, DriveStep
  <2>. QED
    BY <2>1, <2>2
<1>13. Children'
  <2>1. CASE p \notin {MM, FS}
    BY <1>1, <1>4, <2>1, ChildrenStep DEF Tasks
  <2>2. CASE p \in {MM, FS}
    <3>1. \A u \in Users \ alive : Kept(u) /\ u \in Procs
      BY <1>4, <2>2 DEF Children, StepOf, OthersPassive, Passive, Kept, Free
    <3>2. UNCHANGED <<alive, child, memory, counted>>
      BY DEF forkVars
    <3>3. Tells(FS, MM)' => Tells(FS, MM)
      BY <1>4, <1>5, <2>2 DEF StepOf, OthersPassive, Passive, Tells, Waits, Free
    <3>4. CASE p = MM
      BY <1>2, <3>1, <3>2, <3>3, <3>4 DEF Children, Kept, MmForks, Free
    <3>5. CASE p = FS
      <4>1. pc'[MM] = pc[MM] /\ (Free(MM)' => Free(MM))
        BY <1>2, <1>5, <3>5 DEF PcStep, Moves, Kept, Free, Turns
      <4>. QED
        BY <3>1, <3>2, <3>3, <4>1 DEF Children, Kept, Free
    <3>. QED
      BY <2>2, <3>4, <3>5
  <2>. QED
    BY <2>1, <2>2
<1>14. Locals'
  <2>1. \A x \in Procs : pc'[x] # "got" => pc'[x] = pc[x]
    BY <1>2 DEF PcStep
  <2>. QED
    BY <1>1, <1>2, <2>1 DEF Locals, FsBusy, MmForks
<1>. QED
  BY <1>4, <1>10, <1>11, <1>12, <1>13, <1>14 DEF Cycle

----------------------------------------------------------------------------
\* task_mm.  The child counts as made when FS has counted its descriptors.
LEMMA MmChildren ==
  ASSUME Children, StepOf(MM), UNCHANGED <<alive, memory, counted>>,
         pc[MM] # "slot", pc'[MM] # "slot", child' \in {child, NO_TASK},
         pc[MM] \in MmForks => pc'[MM] \in MmForks \/ child \in counted,
         pc'[MM] \in MmForks => pc[MM] \in MmForks /\ child' = child,
         pc'[MM] = "fs_done" /\ Free(MM)' => child \in counted,
         Tells(FS, MM) => child' = child
  PROVE  Children'
<1>. USE Distinct
<1>1. \A u \in Users \ alive : Free(u)' /\ pc'[u] = pc[u]
  BY DEF Children, StepOf, OthersPassive, Passive, Free
<1>2. Tells(FS, MM)' => Tells(FS, MM)
  BY DEF StepOf, OthersPassive, Passive, Tells, Free
<1>. QED
  BY <1>1, <1>2 DEF Children, MmForks

\* MM calls FS about the child.
LEMMA MmToFsInv ==
  ASSUME ServersInv, MmToFs
  PROVE  ServersInv'
<1>. USE Distinct DEF ServersInv
<1>1. /\ Free(MM) /\ ~halted /\ pc[MM] = "memory" /\ MM \in Tasks /\ FS \in Tasks
      /\ Goto(MM, "fs") /\ UNCHANGED <<src, ttyVars, scenario, drive, forkVars>>
  BY Runs DEF MmToFs, Tasks, outside
<1>2. src[MM] \in Users /\ child \in alive /\ child \in Users
  BY <1>1 DEF Locals, Children, MmForks
<1>3. PICK t \in Types : /\ SendRec(MM, FS, t) /\ t \in Payloads
                         /\ t.kind = "FORK" /\ t.about = child
  BY <1>2, SayIsPayload DEF MmToFs, FromUsers
<1>4. /\ pc'[MM] = "fs" /\ PcStep(MM) /\ pc' \in [Procs -> Labels]
  BY <1>1, GotoOthers DEF Labels, MmForks, PcStep
<1>5. /\ src' = src /\ child' = child /\ tty_procnr' = tty_procnr /\ drive' = drive
      /\ scenario' = scenario /\ UNCHANGED <<alive, memory, counted>>
  BY <1>1 DEF ttyVars, forkVars
<1>6. Calling(MM, FS)' => At(MM)'
  BY <1>4 DEF At, MmAt
<1>7. WorkAfter(FS, Letter(MM, t))
  BY <1>3, <1>5 DEF WorkAfter, WorkOf, Letter
<1>8. \A x \in Procs : WorkStays(x)
  BY <1>5, WorkStaysWork
<1>9. buf'[FS] = Letter(MM, t) => Fits(FS)
  BY <1>7 DEF Fits
<1>10. /\ IInv' /\ Halves' /\ Places' /\ Words'
       /\ Said(MM, FS, Letter(MM, t)) /\ Called(MM, FS, Letter(MM, t))
  BY <1>3, <1>4, <1>6, <1>7, <1>8, <1>9, AskStep
<1>11. Moves(MM, FS) /\ StepOf(MM) /\ has_int_msg' = has_int_msg
  BY <1>10 DEF Said, Moves
<1>12. ~Deadlock(MM, FS)
  <2>1. {TTY, SYS, HD, FS} \in SUBSET (Procs \ {MM})
    OBVIOUS
  <2>2. \A r \in {TTY, SYS, HD, FS} : Mode(r) = "asks" => Peer(r) \in {TTY, SYS, HD, FS}
    BY Edges
  <2>. QED
    BY <1>1, <2>1, <2>2, NoWay
<1>13. ~halted' /\ (Gets(FS) => buf'[FS].source = MM /\ Turns(MM, FS)')
  BY <1>1, <1>10, <1>12 DEF Called, Letter, Kept, Gets, Free
<1>14. \A x \in Procs : Owes(MM, x)' => Awaits(x, MM)'
  <2>1. \A x : Owes(MM, x)' => x \in {src[MM], child}
    BY <1>4, <1>5, <1>10 DEF Owes, MmOwes, Working, Called, Turns, Asks, Tells
  <2>2. Owes(MM, src[MM]) /\ Owes(MM, child)
    BY <1>1 DEF Owes, MmOwes, MmForks
  <2>3. \A x \in {src[MM], child} : Awaits(x, MM)'
    BY <1>1, <1>2, <1>11, <2>2 DEF Owed, Moves, Kept, Awaits, Turns, Waits
  <2>. QED
    BY <2>1, <2>3
<1>15. /\ Owed'
       /\ Gets(FS) /\ pc[FS] = "got" => \A x \in Procs : FsOwes(x)' => ~TtyKeeps(x)
  BY <1>1, <1>5, <1>11, <1>13, <1>14, AskOwed
<1>16. Once'
  <2>1. src[MM] # child
    BY <1>1 DEF Once, MmForks
  <2>. QED
    BY <1>1, <1>4, <1>5, <1>11, <1>15, <2>1, OnceOf
<1>17. DriveInv'
  BY <1>5, <1>11, DriveStep
<1>18. Children'
  BY <1>1, <1>4, <1>5, <1>11, MmChildren DEF MmForks
<1>19. Locals'
  BY <1>1, <1>4, <1>5 DEF Locals, PcStep, MmForks
<1>. QED
  BY <1>10, <1>13, <1>15, <1>16, <1>17, <1>18, <1>19 DEF Cycle

\* MM comes for the answer of FS, which has counted the child's descriptors.
LEMMA MmAwaitInv ==
  ASSUME ServersInv, MmAwait
  PROVE  ServersInv'
<1>. USE Distinct DEF ServersInv
<1>1. /\ Reply(MM) /\ Goto(MM, "fs_done") /\ pc[MM] = "fs" /\ Runnable(MM)
      /\ UNCHANGED <<src, ttyVars, scenario, drive, forkVars>>
  BY DEF MmAwait, Await, outside
<1>2. Turns(MM, FS)
  BY <1>1, Modes DEF Places, At, MmAt, ServerAt, Runnable, Calling, Asks
<1>3. /\ pc'[MM] = "fs_done" /\ PcStep(MM) /\ pc' \in [Procs -> Labels]
  BY <1>1, GotoOthers DEF Labels, MmForks, PcStep
<1>4. Returning(MM, FS)' => At(MM)'
  BY <1>3 DEF At, MmAt
<1>5. /\ src' = src /\ child' = child /\ tty_procnr' = tty_procnr /\ drive' = drive
      /\ scenario' = scenario /\ UNCHANGED <<alive, memory, counted>>
  BY <1>1 DEF ttyVars, forkVars
<1>6. /\ IInv' /\ Halves' /\ Places' /\ Words' /\ Turned(MM, FS)
  BY <1>1, <1>2, <1>3, <1>4, <1>5, AwaitStep
<1>7. \A x \in Procs : Owes(MM, x)' => Owes(MM, x)
  BY <1>1, <1>3, <1>5, <1>6 DEF Turned, Owes, MmOwes, Working, Tells, Waits, Free, MmForks
<1>8. Owed'
  BY <1>2, <1>5, <1>6, <1>7, AwaitOwed
<1>9. /\ StepOf(MM) /\ has_int_msg' = has_int_msg /\ ~halted /\ ~halted' /\ ~Gets(FS)
  BY <1>1, <1>6 DEF Turned, DriveInv
<1>10. Once'
  <2>1. src[MM] # child
    BY <1>1 DEF Once, MmForks
  <2>. QED
    BY <1>3, <1>5, <1>9, <2>1, OnceOf
<1>11. DriveInv'
  BY <1>5, <1>9, DriveStep
<1>12. Children'
  <2>1. Free(MM)' => child \in counted
    BY <1>6 DEF Turned, Waits, Free, Children
  <2>. QED
    BY <1>1, <1>3, <1>5, <1>9, <2>1, MmChildren DEF MmForks
<1>13. Locals'
  BY <1>1, <1>3, <1>5 DEF Locals, PcStep, MmForks
<1>. QED
  BY <1>6, <1>8, <1>9, <1>10, <1>11, <1>12, <1>13 DEF Cycle

\* No request is about the process that FS serves, or about the child, but that
\* of FS or MM that is waiting for its answer.
LEMMA WorkStaysFree ==
  ASSUME Places, Words, Owed, NEW p \in {FS, MM}, Free(p),
         p # FS => src'[FS] = src[FS], p # MM => child' = child
  PROVE  \A x \in Procs \ {p} : WorkStays(x)
<1>. USE Distinct
<1>1. Working(FS) => ~(p = MM /\ buf[FS].source = MM)
  <2>1. SUFFICES ASSUME Working(FS), p = MM, buf[FS].source = MM PROVE FALSE
    OBVIOUS
  <2>2. Owes(FS, MM)
    BY <2>1 DEF Owes, FsOwes
  <2>3. Awaits(MM, FS)
    BY <2>2 DEF Owed, Tasks
  <2>. QED
    BY <2>1, <2>3 DEF Awaits, Turns, Waits, Free
<1>2. p = FS /\ Working(TTY) => buf[TTY].type = HARD_INT
  <2>1. SUFFICES ASSUME Working(TTY), p = FS, buf[TTY].type # HARD_INT PROVE FALSE
    OBVIOUS
  <2>2. Owes(TTY, FS)
    BY <2>1 DEF Owes, TtyOwes
  <2>3. Awaits(FS, TTY)
    BY <2>2 DEF Owed, Tasks
  <2>. QED
    BY <2>1, <2>3 DEF Awaits, Turns, Waits, Free
<1>3. ASSUME NEW x \in Procs \ {p}, Mode(x) = "asks"
      PROVE  WorkAfter(Peer(x), buf[x])
  BY <1>3 DEF Words, Word, IsWork, WorkOf, WorkAfter
<1>4. ASSUME NEW x \in Tasks, x # p, Working(x)
      PROVE  WorkAfter(x, buf[x]) \/ (x = TTY /\ buf[x].type = HARD_INT)
  <2>1. IsWork(x, buf[x]) \/ (x = TTY /\ buf[x].type = HARD_INT)
    BY <1>4 DEF Words, Word, Tasks
  <2>. QED
    BY <1>1, <1>2, <1>4, <2>1 DEF IsWork, WorkOf, WorkAfter
<1>. QED
  BY <1>3, <1>4 DEF WorkStays

\* Nobody but TTY, to FS, tells something to a process that does not wait for it.
LEMMA Untold ==
  ASSUME Places, Words, Owed, NEW p \in Procs, p # FS, Free(p)
  PROVE  \A x \in Procs : ~Tells(x, p)
BY Tellers DEF Tells, Awaits, Turns, Waits, Free

\* MM answers the child, which waits in its copy of the call.
LEMMA MmAnswerChildInv ==
  ASSUME ServersInv, MmAnswerChild
  PROVE  ServersInv'
<1>. USE Distinct DEF ServersInv
<1>1. /\ Free(MM) /\ ~halted /\ pc[MM] = "fs_done" /\ MM \in Tasks
      /\ Goto(MM, "child_done") /\ UNCHANGED <<src, ttyVars, scenario, drive, forkVars>>
  BY Runs DEF MmAnswerChild, Tasks, outside
<1>2. /\ src[MM] \in Users /\ child \in Users /\ src[MM] # child /\ child \in counted
      /\ Owes(MM, src[MM]) /\ Owes(MM, child)
  BY <1>1 DEF Locals, Children, Once, MmForks, Owes, MmOwes
<1>3. PICK d \in Users, t \in Types :
        d = child /\ Send(MM, d, t) /\ IsAnswer(MM, d, Letter(MM, t))
  BY <1>2, SayIsPayload DEF MmAnswerChild, Answers, IsAnswer, Letter
<1>4. /\ pc'[MM] = "child_done" /\ PcStep(MM) /\ pc' \in [Procs -> Labels]
  BY <1>1, GotoOthers DEF Labels, PcStep
<1>5. Telling(MM)' => At(MM)'
  BY <1>4 DEF At, MmAt
<1>6. /\ src' = src /\ child' = child /\ tty_procnr' = tty_procnr /\ drive' = drive
      /\ scenario' = scenario /\ UNCHANGED <<alive, memory, counted>>
  BY <1>1 DEF ttyVars, forkVars
<1>7. \A x \in Procs \ {MM} : WorkStays(x)
  BY <1>6, WorkStaysWork
<1>8. /\ IInv' /\ Halves' /\ Places' /\ Words'
      /\ Said(MM, d, Letter(MM, t)) /\ halted' = halted /\ pc[d] # "got"
      /\ \/ Gets(d) /\ Waits(d, MM) /\ buf'[d] = Letter(MM, t) /\ Free(MM)'
         \/ Kept(d) /\ Tells(MM, d)'
  BY <1>1, <1>2, <1>3, <1>4, <1>5, <1>7, AnswerStep
<1>9. /\ Moves(MM, d) /\ StepOf(MM) /\ has_int_msg' = has_int_msg /\ ~halted'
      /\ d \notin Tasks /\ ~Gets(FS)
  BY <1>1, <1>8 DEF Said, Moves, Kept, Gets, Free, Tasks
<1>10. \A x : Tells(MM, x)' => x = d /\ Kept(d)
  BY <1>8 DEF Gets, Free, Tells
<1>11. Owed'
  <2>1. \A x \in Procs : Owes(MM, x)' => Awaits(x, MM)'
    <3>1. \A x : Owes(MM, x)' => x = src[MM] \/ (x = d /\ Kept(d))
      BY <1>4, <1>6, <1>10 DEF Owes, MmOwes, Working, MmForks
    <3>2. Kept(d) => Awaits(d, MM)'
      BY <1>1, <1>2, <1>3 DEF Owed, Kept, Awaits, Turns, Waits
    <3>3. PICK r \in Users : r = src[MM]
      BY <1>2
    <3>4. Awaits(r, MM)'
      BY <1>1, <1>2, <1>3, <1>9, <3>3 DEF Owed, Moves, Kept, Awaits, Turns, Waits
    <3>. QED
      BY <3>1, <3>2, <3>3, <3>4
  <2>2. \A s \in Tasks \ {MM} : OwnKept(s)
    BY <1>1, <1>6, <1>9, KeptOwner
  <2>. QED
    BY <1>6, <1>9, <2>1, <2>2, MovesOwed
<1>12. Once'
  <2>1. (pc[MM] = "child_done" => ~Tells(MM, src[MM]))'
    BY <1>2, <1>3, <1>6, <1>10 DEF Tells
  <2>2. (pc[MM] \in MmForks => src[MM] # child)'
    BY <1>4 DEF MmForks
  <2>. QED
    BY <1>1, <1>6, <1>9, <2>1, <2>2, OnceOf
<1>13. DriveInv'
  BY <1>6, <1>9, DriveStep
<1>14. Children'
  BY <1>1, <1>2, <1>4, <1>6, <1>9, MmChildren DEF MmForks
<1>15. Locals'
  BY <1>1, <1>4, <1>6 DEF Locals, PcStep, MmForks
<1>. QED
  BY <1>8, <1>9, <1>11, <1>12, <1>13, <1>14, <1>15 DEF Cycle

\* MM answers the parent, or says that the fork failed.
LEMMA MmAnswerInv ==
  ASSUME ServersInv, MmAnswer
  PROVE  ServersInv'
<1>. USE Distinct DEF ServersInv
<1>1. /\ Free(MM) /\ ~halted /\ pc[MM] = "child_done" /\ MM \in Tasks
      /\ Goto(MM, "top") /\ child' = NO_TASK
      /\ UNCHANGED <<src, ttyVars, scenario, drive, alive, memory, counted>>
  BY Runs DEF MmAnswer, Tasks
<1>2. src[MM] \in Users /\ Owes(MM, src[MM])
  BY <1>1 DEF Locals, Owes, MmOwes
<1>3. PICK d \in Users, t \in Types :
        d = src[MM] /\ Send(MM, d, t) /\ IsAnswer(MM, d, Letter(MM, t))
  <2>1. PICK k \in {"FORK_FAILED", "SYSCALL_RET"} :
          k = IF child = NO_TASK THEN "FORK_FAILED" ELSE "SYSCALL_RET"
    OBVIOUS
  <2>2. Send(MM, src[MM], Say(k, NO_TASK, HD))
    BY <2>1 DEF MmAnswer
  <2>. QED
    BY <1>2, <2>2, SayIsPayload DEF Answers, IsAnswer, Letter
<1>4. /\ pc'[MM] = "top" /\ PcStep(MM) /\ pc' \in [Procs -> Labels]
  BY <1>1, GotoOthers DEF Labels, PcStep
<1>5. Telling(MM)' => At(MM)'
  BY <1>4 DEF At, MmAt, ServerAt
<1>6. /\ src' = src /\ tty_procnr' = tty_procnr /\ drive' = drive
      /\ scenario' = scenario
  BY <1>1 DEF ttyVars
<1>7. \A x \in Procs \ {MM} : WorkStays(x)
  BY <1>1, <1>6, WorkStaysFree
<1>8. /\ IInv' /\ Halves' /\ Places' /\ Words'
      /\ Said(MM, d, Letter(MM, t)) /\ halted' = halted /\ pc[d] # "got"
      /\ \/ Gets(d) /\ Waits(d, MM) /\ buf'[d] = Letter(MM, t) /\ Free(MM)'
         \/ Kept(d) /\ Tells(MM, d)'
  BY <1>1, <1>2, <1>3, <1>4, <1>5, <1>7, AnswerStep
<1>9. /\ Moves(MM, d) /\ StepOf(MM) /\ has_int_msg' = has_int_msg /\ ~halted'
      /\ ~Gets(FS)
  BY <1>1, <1>8 DEF Said, Moves, Kept, Gets, Free
<1>10. Owed'
  <2>1. /\ (Gets(d) /\ Free(MM)') \/ (Kept(d) /\ Tells(MM, d)')
        /\ pc[d] # "got" /\ Owes(MM, d)
    BY <1>2, <1>3, <1>8
  <2>. QED
    BY <1>1, <1>4, <1>6, <1>9, <2>1, AnswerOwed
<1>11. Once'
  <2>1. /\ (pc[MM] = "child_done" => ~Tells(MM, src[MM]))'
        /\ (pc[MM] \in MmForks => src[MM] # child)'
    BY <1>4 DEF MmForks
  <2>. QED
    BY <1>1, <1>6, <1>9, <2>1, OnceOf
<1>12. DriveInv'
  BY <1>6, <1>9, DriveStep
<1>13. Children'
  BY <1>1, <1>4, <1>6, <1>9, MmChildren, Untold DEF MmForks
<1>14. Locals'
  BY <1>1, <1>4, <1>6 DEF Locals, PcStep, MmForks
<1>. QED
  BY <1>8, <1>9, <1>10, <1>11, <1>12, <1>13, <1>14 DEF Cycle

\* do_fork() writes the slot and the memory of the child c, and nothing else: c
\* awaits MM after it, and awaited nobody else before.
Copies(c) ==
  /\ Free(MM) /\ ~halted /\ c \in Users /\ \A x \in Procs \ {MM, c} : Kept(x)
  /\ \A s \in Procs : Awaits(c, s) => s = MM
  /\ Mode(c) \in {"free", "turns", "waits"}
  /\ Free(MM)' /\ Awaits(c, MM)' /\ UserAt(c)' /\ ~halted'
  /\ pc'[MM] \in {"slot", "memory"} /\ pc' \in [Procs -> Labels]
  /\ \A x \in Tasks \ {MM} : src'[x] = src[x]
  /\ src'[MM] \in Users /\ src'[MM] # c /\ Awaits(src'[MM], MM)
  /\ child' = c /\ tty_procnr' = tty_procnr /\ scenario' = scenario /\ drive' = drive
  /\ \A x \in Procs \ {MM, c} : WorkStays(x)

\* After either step of do_fork() the child is one more process that awaits MM, and
\* to which MM owes an answer.
LEMMA CopiesInv ==
  ASSUME Locals, Places, Words, Owed, Once, NEW c, Copies(c), DOMAIN src' = Tasks
  PROVE  Places' /\ Words' /\ Owed' /\ Once' /\ Cycle' /\ Locals'
<1>. USE Distinct DEF Copies
<1>1. c \in Procs /\ c # MM /\ c \notin Tasks /\ MM \in Tasks /\ FS \in Tasks
  BY DEF Tasks, Users
<1>2. \A x \in Procs \ {MM, c} : Passive(x) /\ ~Gets(x)
  BY DEF Kept, Passive, Gets, Free
<1>3. Places'
  <2>1. At(MM)'
    BY DEF At, MmAt
  <2>2. At(c)'
    BY DEF At
  <2>. QED
    BY <1>1, <1>2, <2>1, <2>2, PassiveAt DEF Places
<1>4. Words'
  <2>1. Word(MM)'
    BY DEF Word, Working, Free
  <2>2. Word(c)'
    BY <1>1 DEF Word, Awaits, Turns, Waits, Free
  <2>3. \A x \in Procs \ {MM, c} : Word(x)'
    BY <1>1, <1>2, PassiveWord DEF Places, Words
  <2>. QED
    BY <2>1, <2>2, <2>3 DEF Words
<1>5. \A x, s \in Procs : Awaits(x, s) => Awaits(x, s)'
  <2>1. \A x, s \in Procs : x \notin {MM, c} /\ Awaits(x, s) => Awaits(x, s)'
    BY DEF Kept, Awaits, Turns, Waits
  <2>. QED
    BY <1>1, <2>1 DEF Awaits, Turns, Waits, Free
<1>6. /\ Suspended' <=> Suspended
      /\ Resuming' <=> Resuming
      /\ buf'[TTY] = buf[TTY] /\ Passive(TTY) /\ Kept(FS) /\ Kept(TTY)
      /\ src'[FS] = src[FS]
  <2>1. Kept(FS) /\ Kept(TTY) /\ Passive(TTY)
    BY <1>1, <1>2
  <2>. QED
    BY <1>1, <2>1 DEF Kept, Suspended, Resuming, Tells, Free, Got
<1>7. \A x : TtyKeeps(x)' => TtyKeeps(x)
  BY <1>6, KeepsLess
<1>8. \A s \in Tasks \ {MM}, x \in Procs : Owes(s, x)' => Owes(s, x)
  <2>1. ASSUME NEW s \in Tasks \ {MM} PROVE OwnKept(s) /\ Passive(s) /\ ~Gets(s)
    BY <1>1, <1>2, <1>6, <2>1 DEF OwnKept, Tasks
  <2>. QED
    BY <2>1, OwesLess
<1>9. \A x : Owes(MM, x)' => x = src'[MM] \/ x = c
  BY <1>1 DEF Owes, MmOwes, Working, Tells, Free
<1>10. Owed'
  <2>1. \A s \in Tasks \ {MM}, x \in Procs : Owes(s, x)' => Awaits(x, s)'
    BY <1>5, <1>8 DEF Owed, Tasks
  <2>2. \A x \in Procs : Owes(MM, x)' => Awaits(x, MM)'
    <3>1. PICK r \in Users : r = src'[MM] /\ Awaits(r, MM)
      OBVIOUS
    <3>2. Awaits(r, MM)'
      BY <1>5, <3>1
    <3>. QED
      BY <1>9, <3>1, <3>2
  <2>3. \A x \in Procs : TtyKeeps(x)' => Awaits(x, FS)'
    BY <1>5, <1>7 DEF Owed
  <2>4. \A s \in Tasks, x \in Procs : Owes(s, x)' => Awaits(x, s)'
    BY <2>1, <2>2
  <2>. QED
    BY <2>3, <2>4 DEF Owed
<1>11. Once'
  <2>1. \A x \in Procs : ~(FsOwes(x)' /\ TtyKeeps(x)')
    BY <1>1, <1>7, <1>8 DEF Once, Owes
  <2>2. (Awaits(FS, TTY) => halted \/ TtyOwes(FS))'
    BY <1>6 DEF Once, Awaits, Turns, Waits, TtyOwes, Working, Tells, Free, Kept
  <2>3. (pc[MM] = "child_done" => ~Tells(MM, src[MM]))'
    OBVIOUS
  <2>4. (Resuming => \A t \in Ttys : tty_procnr[t] # buf[TTY].type.about)'
    BY <1>6 DEF Once
  <2>5. (pc[MM] \in MmForks => src[MM] # child)'
    OBVIOUS
  <2>. QED
    BY <2>1, <2>2, <2>3, <2>4, <2>5 DEF Once
<1>12. Locals'
  <2>1. pc'[FS] = pc[FS] /\ pc'[HD] = pc[HD] /\ src'[FS] = src[FS] /\ src'[HD] = src[HD]
    BY <1>1 DEF Kept, Tasks
  <2>. QED
    BY <2>1 DEF Locals
<1>. QED
  BY <1>3, <1>4, <1>10, <1>11, <1>12 DEF Cycle

\* The child gets memory of its own.
LEMMA MmCopyMemoryInv ==
  ASSUME ServersInv, MmCopyMemory
  PROVE  ServersInv'
<1>. USE Distinct DEF ServersInv
<1>1. /\ Free(MM) /\ ~halted /\ pc[MM] = "slot" /\ MM \in Tasks /\ Goto(MM, "memory")
      /\ UNCHANGED <<ipcVars, reply_from, halted, src, ttyVars, scenario, drive,
                     alive, child, counted>>
  BY Runs DEF MmCopyMemory, Tasks
<1>2. PICK c \in Users, r \in Users :
        /\ c = child /\ r = src[MM] /\ r # c /\ c \in alive
        /\ memory' = [memory EXCEPT ![c] = c] /\ buf' = [buf EXCEPT ![c] = buf[r]]
  <2>1. child \in Users /\ src[MM] \in Users /\ src[MM] # child /\ child \in alive
    BY <1>1 DEF Children, Locals, Once, MmForks
  <2>. QED
    BY <2>1 DEF MmCopyMemory
<1>3. Awaits(c, MM) /\ Awaits(r, MM)
  <2>1. Owes(MM, c) /\ Owes(MM, r)
    BY <1>1, <1>2 DEF Owes, MmOwes, MmForks
  <2>. QED
    BY <1>1, <2>1 DEF Owed
<1>4. /\ pc'[MM] = "memory" /\ PcStep(MM) /\ pc' \in [Procs -> Labels]
  BY <1>1, GotoOthers DEF Labels, MmForks, PcStep
<1>5. \A x \in Procs : Mode(x)' = Mode(x) /\ Peer(x)' = Peer(x)
  BY <1>1 DEF ipcVars, Mode, Peer
<1>6. \A x \in Procs \ {MM, c} : Kept(x)
  BY <1>2, <1>4, <1>5 DEF Kept, PcStep, IInv, TypeOK
<1>7. IInv'
  <2>1. TypeOK'
    BY <1>1, <1>2 DEF IInv, TypeOK, ipcVars
  <2>. QED
    BY <1>1, <2>1 DEF IInv, ipcVars, FlagsInv, QueueInv, NoMissedRendezvous, ReplyInv,
                      Sending, Receiving
<1>8. Halves'
  BY <1>1, <1>5 DEF Halves, ipcVars
<1>9. Copies(c) /\ DOMAIN src' = Tasks
  <2>1. UserAt(c)'
    <3>1. UserAt(c)
      BY DEF Places, At
    <3>. QED
      BY <1>2, <1>4, <1>5, <3>1 DEF UserAt, PcStep, Returning, Calling, Waits, Free, Asks, Turns
  <2>2. /\ src' = src /\ child' = c /\ tty_procnr' = tty_procnr /\ scenario' = scenario
        /\ drive' = drive /\ ~halted'
    BY <1>1, <1>2 DEF ttyVars
  <2>3. \A x \in Procs : WorkStays(x)
    BY <1>2, <2>2, WorkStaysWork
  <2>4. Free(MM)' /\ Awaits(c, MM)'
    BY <1>1, <1>3, <1>5 DEF Free, Awaits, Turns, Waits
  <2>5. /\ \A s \in Procs : Awaits(c, s) => s = MM
        /\ Mode(c) \in {"free", "turns", "waits"}
    BY <1>3 DEF Awaits, Turns, Waits
  <2>. QED
    BY <1>1, <1>2, <1>3, <1>4, <1>6, <2>1, <2>2, <2>3, <2>4, <2>5 DEF Copies, Locals
<1>10. Places' /\ Words' /\ Owed' /\ Once' /\ Cycle' /\ Locals'
  BY <1>9, CopiesInv
<1>11. DriveInv'
  BY <1>1, <1>4, <1>5 DEF DriveInv, ipcVars, Waits, PcStep
<1>12. Children'
  BY <1>1, <1>2, <1>4, <1>5 DEF Children, MmForks, PcStep, Free, Tells
<1>. QED
  BY <1>7, <1>8, <1>10, <1>11, <1>12

\* A slot may become a copy of another to which nobody sends, nor to it.
LEMMA SlotCopied ==
  ASSUME IInv, NEW parent \in Procs, NEW c \in Procs, parent # c, ~Sending(parent), ~Sending(c),
         \A x \in Procs : ~(Sending(x) /\ p_sendto[x] \in {parent, c}),
         Receiving(parent) => p_recvfrom[parent] \in Procs \ {c},
         reply_from[parent] # c, ~has_int_msg[parent],
         p_flags' = [p_flags EXCEPT ![c] = p_flags[parent]],
         p_recvfrom' = [p_recvfrom EXCEPT ![c] = p_recvfrom[parent]],
         p_sendto' = [p_sendto EXCEPT ![c] = p_sendto[parent]],
         p_msg' = [p_msg EXCEPT ![c] = p_msg[parent]],
         has_int_msg' = [has_int_msg EXCEPT ![c] = has_int_msg[parent]],
         q_sending' = [q_sending EXCEPT ![c] = q_sending[parent]],
         reply_from' = [reply_from EXCEPT ![c] = reply_from[parent]],
         buf' = [buf EXCEPT ![c] = buf[parent]], UNCHANGED halted
  PROVE  IInv'
<1>1. TypeOK'
  BY DEF IInv, TypeOK
<1>2. /\ p_flags \in [Procs -> SUBSET {SENDING, RECEIVING}]
      /\ p_recvfrom \in [Procs -> Procs \union {ANY, INTERRUPT, NO_TASK}]
      /\ p_sendto \in [Procs -> Procs \union {NO_TASK}]
      /\ p_msg \in [Procs -> BOOLEAN] /\ has_int_msg \in [Procs -> BOOLEAN]
      /\ q_sending \in [Procs -> Seq(Procs)]
      /\ reply_from \in [Procs -> Procs \union {NO_TASK}]
  BY DEF IInv, TypeOK
<1>3. \A x \in Procs \ {c} :
        /\ p_flags'[x] = p_flags[x] /\ p_recvfrom'[x] = p_recvfrom[x]
        /\ p_sendto'[x] = p_sendto[x] /\ p_msg'[x] = p_msg[x]
        /\ has_int_msg'[x] = has_int_msg[x] /\ q_sending'[x] = q_sending[x]
        /\ reply_from'[x] = reply_from[x]
        /\ Sending(x)' = Sending(x) /\ Receiving(x)' = Receiving(x)
  BY <1>2 DEF Sending, Receiving
<1>4. /\ p_flags'[c] = p_flags[parent] /\ p_recvfrom'[c] = p_recvfrom[parent]
      /\ p_sendto'[c] = p_sendto[parent] /\ p_msg'[c] = p_msg[parent]
      /\ ~has_int_msg'[c] /\ q_sending'[c] = q_sending[parent]
      /\ reply_from'[c] = reply_from[parent]
      /\ ~Sending(c)' /\ (Receiving(c)' <=> Receiving(parent))
  BY <1>2 DEF Sending, Receiving
<1>5. FlagsInv'
  <2>1. ASSUME NEW x \in Procs
        PROVE  \/ /\ p_flags'[x] = {} /\ ~p_msg'[x]
                  /\ p_recvfrom'[x] = NO_TASK /\ p_sendto'[x] = NO_TASK
               \/ /\ p_flags'[x] = {SENDING} /\ p_msg'[x]
                  /\ p_recvfrom'[x] = NO_TASK /\ p_sendto'[x] \in Procs \ {x}
               \/ /\ p_flags'[x] = {RECEIVING} /\ p_msg'[x]
                  /\ p_recvfrom'[x] \notin {x, NO_TASK} /\ p_sendto'[x] = NO_TASK
    <3>1. CASE x = c
      BY <1>4, <3>1, Flags, IpcAssumption DEF IInv, FlagsInv, IpcAssumption
    <3>2. CASE x # c
      BY <1>3, <3>2 DEF IInv, FlagsInv
    <3>. QED
      BY <3>1, <3>2
  <2>. QED
    BY <2>1 DEF FlagsInv
<1>6. QueueInv'
  <2>1. ASSUME NEW d \in Procs
        PROVE  /\ IsInjective(q_sending'[d])
               /\ \A p \in Procs :
                    Contains(q_sending'[d], p) <=> (Sending(p)' /\ p_sendto'[p] = d)
    <3>1. \A x \in Procs : (Sending(x)' <=> Sending(x) /\ x # c)
                           /\ (x # c => p_sendto'[x] = p_sendto[x])
      BY <1>3, <1>4
    <3>2. CASE d = c
      BY <1>4, <3>1, <3>2 DEF IInv, QueueInv
    <3>3. CASE d # c
      <4>1. ~Contains(q_sending[d], c)
        BY DEF IInv, QueueInv
      <4>. QED
        BY <1>3, <3>1, <3>3, <4>1 DEF IInv, QueueInv
    <3>. QED
      BY <3>2, <3>3
  <2>. QED
    BY <2>1 DEF QueueInv
<1>7. NoMissedRendezvous'
  <2>1. ASSUME NEW d \in Procs, Receiving(d)'
        PROVE  /\ \A p \in Procs :
                    p_recvfrom'[d] \in {p, ANY} => ~(Sending(p)' /\ p_sendto'[p] = d)
               /\ p_recvfrom'[d] \in {ANY, INTERRUPT} => ~has_int_msg'[d]
    <3>1. CASE d = c
      BY <1>3, <1>4, <3>1
    <3>2. CASE d # c
      BY <1>3, <1>4, <2>1, <3>2 DEF IInv, NoMissedRendezvous
    <3>. QED
      BY <3>1, <3>2
  <2>. QED
    BY <2>1 DEF NoMissedRendezvous
<1>8. ReplyInv'
  BY <1>3, <1>4 DEF IInv, ReplyInv
<1>. QED
  BY <1>1, <1>5, <1>6, <1>7, <1>8 DEF IInv

\* do_fork() finds no free slot.
LEMMA ForkFails ==
  ASSUME ServersInv, NEW parent \in Users, Free(MM), ~halted, pc[MM] = "got",
         Awaits(parent, MM), src' = [src EXCEPT ![MM] = parent], child' = NO_TASK,
         Goto(MM, "child_done"),
         UNCHANGED <<vars, alive, memory, counted, ttyVars, scenario, drive>>
  PROVE  ServersInv'
<1>. USE Distinct DEF ServersInv
<1>1. MM \in Tasks /\ FS \in Procs \ {MM} /\ FS \in Tasks
  BY DEF Tasks
<1>2. /\ pc'[MM] = "child_done" /\ PcStep(MM) /\ pc' \in [Procs -> Labels]
  BY GotoOthers DEF Labels, PcStep
<1>3. /\ src'[FS] = src[FS] /\ src'[MM] = parent /\ DOMAIN src' = Tasks
      /\ src'[HD] = src[HD]
      /\ tty_procnr' = tty_procnr /\ drive' = drive /\ scenario' = scenario
  BY <1>1 DEF ttyVars, Locals, Tasks
<1>4. /\ IInv' /\ Halves' /\ StepOf(MM) /\ OthersPassive(MM) /\ Free(MM)'
      /\ UNCHANGED <<buf, has_int_msg, halted>>
      /\ \A x \in Procs \ {MM} : Kept(x) /\ ~Gets(x) /\ Moves(MM, x)
  BY <1>2, SilentStep
<1>5. Places'
  <2>1. At(MM)'
    BY <1>2, <1>4 DEF At, MmAt, Telling
  <2>. QED
    BY <1>4, <2>1, PlacesStep
<1>6. Words'
  <2>1. Word(MM)'
    BY <1>2, <1>4 DEF Word, Working, Free
  <2>2. \A x \in Procs \ {MM} : WorkStays(x)
    BY <1>3, WorkStaysFree
  <2>. QED
    BY <1>4, <2>1, <2>2, WordsStep
<1>7. Owed'
  <2>1. \A x : Owes(MM, x)' => x = parent
    BY <1>2, <1>3, <1>4 DEF Owes, MmOwes, Working, Tells, Free, MmForks
  <2>2. Awaits(parent, MM)'
    BY <1>1, <1>4 DEF Kept, Awaits, Turns, Waits
  <2>3. \A s \in Tasks \ {MM} : OwnKept(s)
    BY <1>3, <1>4, KeptOwner
  <2>4. \A x \in Procs : Owes(MM, x)' => Awaits(x, MM)'
    BY <2>1, <2>2
  <2>. QED
    BY <1>1, <1>3, <1>4, <2>3, <2>4, MovesOwed
<1>8. Once'
  <2>1. /\ (pc[MM] = "child_done" => ~Tells(MM, src[MM]))'
        /\ (pc[MM] \in MmForks => src[MM] # child)'
    BY <1>2, <1>4 DEF MmForks, Tells, Free
  <2>. QED
    BY <1>1, <1>3, <1>4, <2>1, OnceOf
<1>9. DriveInv'
  BY <1>3, <1>4, DriveStep
<1>10. Children'
  BY <1>2, <1>4, MmChildren, Untold DEF MmForks
<1>11. Locals'
  BY <1>2, <1>3 DEF Locals, PcStep, MmForks
<1>. QED
  BY <1>4, <1>5, <1>6, <1>7, <1>8, <1>9, <1>10, <1>11 DEF Cycle

\* ... and one, which becomes a copy of the parent's.
LEMMA ForkCopies ==
  ASSUME ServersInv, NEW parent \in Users, NEW c \in Users, Free(MM), ~halted,
         pc[MM] = "got", Awaits(parent, MM), c \notin alive,
         src' = [src EXCEPT ![MM] = parent], child' = c, alive' = alive \union {c},
         p_flags' = [p_flags EXCEPT ![c] = p_flags[parent]],
         p_recvfrom' = [p_recvfrom EXCEPT ![c] = p_recvfrom[parent]],
         p_sendto' = [p_sendto EXCEPT ![c] = p_sendto[parent]],
         p_msg' = [p_msg EXCEPT ![c] = p_msg[parent]],
         has_int_msg' = [has_int_msg EXCEPT ![c] = has_int_msg[parent]],
         q_sending' = [q_sending EXCEPT ![c] = q_sending[parent]],
         reply_from' = [reply_from EXCEPT ![c] = reply_from[parent]],
         buf' = [buf EXCEPT ![c] = buf[parent]],
         memory' = [memory EXCEPT ![c] = memory[parent]],
         pc' = [pc EXCEPT ![c] = pc[parent], ![MM] = "slot"],
         UNCHANGED <<halted, ttyVars, scenario, drive, counted>>
  PROVE  ServersInv'
<1>. USE Distinct DEF ServersInv
<1>1. /\ MM \in Tasks /\ parent \in Procs /\ c \in Procs /\ c # MM /\ c # parent
      /\ parent # MM /\ Free(c) /\ pc[c] = "top"
      /\ FS # c /\ HD # c /\ TTY # c /\ FS # MM /\ HD # MM /\ TTY # MM
  BY DEF Children, Awaits, Turns, Waits, Free, Tasks
<1>2. /\ p_flags \in [Procs -> SUBSET {SENDING, RECEIVING}]
      /\ p_recvfrom \in [Procs -> Procs \union {ANY, INTERRUPT, NO_TASK}]
      /\ p_sendto \in [Procs -> Procs \union {NO_TASK}]
      /\ reply_from \in [Procs -> Procs \union {NO_TASK}]
      /\ buf \in [Procs -> Message] /\ has_int_msg \in [Procs -> BOOLEAN]
      /\ pc \in [Procs -> Labels] /\ memory \in [Users -> Users]
      /\ DOMAIN src = Tasks
  BY DEF IInv, TypeOK, Locals, Children
<1>3. Mode(parent) \in {"turns", "waits"} /\ Peer(parent) = MM
  BY DEF Awaits, Turns, Waits
<1>4. \A x \in Procs \ {c} :
        Mode(x)' = Mode(x) /\ Peer(x)' = Peer(x) /\ buf'[x] = buf[x]
  BY <1>2 DEF Mode, Peer
<1>5. Mode(c)' = Mode(parent) /\ Peer(c)' = Peer(parent)
  BY <1>2 DEF Mode, Peer
<1>6. /\ pc'[MM] = "slot" /\ pc'[c] = pc[parent] /\ pc' \in [Procs -> Labels]
      /\ \A x \in Procs \ {MM, c} : pc'[x] = pc[x]
  BY <1>1, <1>2 DEF Labels, MmForks
<1>7. \A x \in Procs \ {MM, c} : Kept(x)
  BY <1>4, <1>6 DEF Kept
\* Nobody sends to the parent, which awaits MM, or to a process that does not exist.
<1>8. \A x \in Procs : ~(Sending(x) /\ p_sendto[x] \in {parent, c})
  <2>1. SUFFICES ASSUME NEW x \in Procs, Mode(x) \in {"asks", "tells"},
                        Peer(x) \in {parent, c}
                 PROVE  FALSE
    BY Modes, Flags
  <2>2. CASE Mode(x) = "asks"
    BY <1>1, <2>1, <2>2, Edges
  <2>3. CASE Mode(x) = "tells"
    <3>1. ~Tells(x, MM) /\ ~Tells(x, c) /\ ~Tells(MM, parent)
      BY <1>1, Untold DEF Tells, Free
    <3>2. Awaits(parent, x) \/ x = TTY
      BY <2>1, <2>3, <3>1, Tellers DEF Tells
    <3>3. x # TTY
      BY <2>1, <2>3, Tellers
    <3>. QED
      BY <1>3, <2>1, <2>3, <3>1, <3>2, <3>3 DEF Awaits, Turns, Waits, Tells
  <2>. QED
    BY <2>1, <2>2, <2>3
<1>9. IInv'
  <2>1. ~Sending(parent) /\ ~Sending(c)
    BY <1>1, <1>3, Modes DEF Free
  <2>2. Receiving(parent) => p_recvfrom[parent] = MM
    BY <1>1, <1>3, Modes, Flags
  <2>3. reply_from[parent] # c
    <3>1. CASE Mode(parent) = "turns"
      BY <1>1, <1>3, <3>1, Modes
    <3>2. CASE Mode(parent) = "waits"
      BY <1>1, <3>2 DEF Halves
    <3>. QED
      BY <1>3, <3>1, <3>2
  <2>4. ~has_int_msg[parent] /\ halted' = halted
    BY <1>1 DEF DriveInv
  <2>. QED
    BY <1>1, <1>8, <2>1, <2>2, <2>3, <2>4, SlotCopied
<1>10. Halves'
  BY <1>1, <1>2, <1>3, <1>4, <1>5 DEF Halves
<1>11. Copies(c) /\ DOMAIN src' = Tasks
  <2>1. UserAt(c)'
    <3>1. PICK s \in {FS, SYS, MM} : \/ pc[parent] = "top" /\ Returning(parent, s)
                                     \/ pc[parent] = "called" /\ Calling(parent, s)
      BY <1>1 DEF Places, At, UserAt
    <3>2. \/ pc'[c] = "top" /\ Returning(c, s)'
          \/ pc'[c] = "called" /\ Calling(c, s)'
      BY <1>5, <1>6, <3>1 DEF Returning, Calling, Waits, Free, Asks, Turns
    <3>. QED
      BY <3>2 DEF UserAt
  <2>2. /\ \A x \in Tasks \ {MM} : src'[x] = src[x]
        /\ src'[MM] = parent /\ DOMAIN src' = Tasks /\ src'[FS] = src[FS]
        /\ tty_procnr' = tty_procnr /\ scenario' = scenario /\ drive' = drive
        /\ ~halted'
    BY <1>1, <1>2 DEF ttyVars, Tasks
  <2>3. \A x \in Procs \ {MM} : WorkStays(x)
    BY <2>2, WorkStaysFree
  <2>4. Free(MM)' /\ Awaits(c, MM)'
    BY <1>1, <1>3, <1>4, <1>5 DEF Free, Awaits, Turns, Waits
  <2>5. /\ \A s \in Procs : Awaits(c, s) => s = MM
        /\ Mode(c) \in {"free", "turns", "waits"}
    BY <1>1 DEF Awaits, Turns, Waits, Free
  <2>. QED
    BY <1>1, <1>6, <1>7, <2>1, <2>2, <2>3, <2>4, <2>5 DEF Copies
<1>12. Places' /\ Words' /\ Owed' /\ Once' /\ Cycle' /\ Locals'
  BY <1>11, CopiesInv
<1>13. DriveInv'
  <2>1. \A p \in Procs \ {TTY, HD} : ~has_int_msg'[p]
    BY <1>1, <1>2 DEF DriveInv
  <2>2. has_int_msg'[HD] = has_int_msg[HD] /\ Kept(HD) /\ drive' = drive
    BY <1>1, <1>2, <1>7
  <2>. QED
    BY <2>1, <2>2 DEF DriveInv, Kept, Waits
<1>14. Children'
  <2>1. \A u \in Users \ alive' : Free(u)' /\ pc'[u] = "top"
    BY <1>4, <1>6 DEF Children, Free
  <2>2. ~Tells(FS, MM)'
    <3>1. ~Tells(FS, MM)
      BY Untold
    <3>. QED
      BY <1>1, <1>4, <3>1 DEF Tells
  <2>3. memory' \in [Users -> Users] /\ \A u \in Users : u # c => memory'[u] = memory[u]
    BY <1>2
  <2>4. counted' = counted
    OBVIOUS
  <2>. QED
    BY <1>6, <2>1, <2>2, <2>3, <2>4 DEF Children, MmForks
<1>. QED
  BY <1>9, <1>10, <1>12, <1>13, <1>14

\* The child gets a copy of the parent's slot, or the fork fails.
LEMMA MmCopySlotInv ==
  ASSUME ServersInv, MmCopySlot
  PROVE  ServersInv'
<1>. USE Distinct DEF ServersInv
<1>1. MM \in Tasks /\ Running(MM, "got")
  BY DEF Tasks, MmCopySlot
<1>2. /\ Free(MM) /\ ~halted /\ pc[MM] = "got" /\ IsWork(MM, buf[MM])
  BY <1>1, AtWork
<1>3. PICK parent \in Users : parent = buf[MM].source
  BY <1>2 DEF IsWork, WorkOf
<1>4. Awaits(parent, MM)
  <2>1. Owes(MM, parent)
    BY <1>2, <1>3 DEF Owes, MmOwes, Working
  <2>. QED
    BY <1>1, <2>1 DEF Owed
<1>5. CASE /\ child' = NO_TASK /\ Goto(MM, "child_done")
           /\ UNCHANGED <<vars, alive, memory>>
  <2>1. /\ src' = [src EXCEPT ![MM] = parent]
        /\ UNCHANGED <<vars, alive, memory, counted, ttyVars, scenario, drive>>
    BY <1>3, <1>5 DEF MmCopySlot
  <2>. QED
    BY <1>2, <1>4, <1>5, <2>1, ForkFails
<1>6. CASE ~(/\ child' = NO_TASK /\ Goto(MM, "child_done")
             /\ UNCHANGED <<vars, alive, memory>>)
  <2>1. PICK c \in Users \ alive :
          /\ child' = c /\ alive' = alive \union {c}
          /\ p_flags' = [p_flags EXCEPT ![c] = p_flags[parent]]
          /\ p_recvfrom' = [p_recvfrom EXCEPT ![c] = p_recvfrom[parent]]
          /\ p_sendto' = [p_sendto EXCEPT ![c] = p_sendto[parent]]
          /\ p_msg' = [p_msg EXCEPT ![c] = p_msg[parent]]
          /\ has_int_msg' = [has_int_msg EXCEPT ![c] = has_int_msg[parent]]
          /\ q_sending' = [q_sending EXCEPT ![c] = q_sending[parent]]
          /\ reply_from' = [reply_from EXCEPT ![c] = reply_from[parent]]
          /\ buf' = [buf EXCEPT ![c] = buf[parent]]
          /\ memory' = [memory EXCEPT ![c] = memory[parent]]
          /\ pc' = [pc EXCEPT ![c] = pc[parent], ![MM] = "slot"]
          /\ UNCHANGED halted
    BY <1>3, <1>6 DEF MmCopySlot, ChildFlags
  <2>2. /\ src' = [src EXCEPT ![MM] = parent]
        /\ UNCHANGED <<halted, ttyVars, scenario, drive, counted>>
    BY <1>3, <2>1 DEF MmCopySlot
  <2>. QED
    BY <1>2, <1>4, <2>1, <2>2, ForkCopies
<1>. QED
  BY <1>5, <1>6

----------------------------------------------------------------------------
\* task_fs.
LEMMA FsChildren ==
  ASSUME Children, StepOf(FS), UNCHANGED <<alive, child, memory>>,
         counted \subseteq counted', Tells(FS, MM)' => child \in counted',
         Free(MM)' => Free(MM) \/ child \in counted'
  PROVE  Children'
<1>. USE Distinct
<1>1. /\ \A u \in Users \ alive : Free(u)' /\ pc'[u] = pc[u]
      /\ pc'[MM] = pc[MM]
  BY DEF Children, StepOf, OthersPassive, Passive, Free
<1>. QED
  BY <1>1 DEF Children

\* A step of FS leads to no second answer if FS owes none to a reader TTY keeps.
LEMMA FsOnce ==
  ASSUME Once, StepOf(FS), tty_procnr' = tty_procnr, src'[MM] = src[MM], child' = child,
         \A x \in Procs : FsOwes(x)' => ~TtyKeeps(x),
         Awaits(FS, TTY)' => halted' \/ TtyOwes(FS)'
  PROVE  Once'
<1>. USE Distinct
<1>1. Passive(TTY) /\ Passive(MM)
  BY DEF StepOf, OthersPassive
<1>2. /\ Resuming' => Resuming /\ buf'[TTY] = buf[TTY]
      /\ \A x : TtyKeeps(x)' => TtyKeeps(x)
  BY <1>1, KeepsLess
<1>3. (pc[MM] = "child_done" => ~Tells(MM, src[MM]))'
  BY <1>1 DEF Once, Passive, Tells, Free
<1>4. (pc[MM] \in MmForks => src[MM] # child)'
  BY <1>1 DEF Once, Passive
<1>5. \A x \in Procs : ~(FsOwes(x)' /\ TtyKeeps(x)')
  BY <1>2
<1>6. (Resuming => \A t \in Ttys : tty_procnr[t] # buf[TTY].type.about)'
  BY <1>2 DEF Once
<1>7. (Awaits(FS, TTY) => halted \/ TtyOwes(FS))'
  OBVIOUS
<1>. QED
  BY <1>3, <1>4, <1>5, <1>6, <1>7 DEF Once

\* While FS runs TTY has nothing to tell it.
LEMMA NotSuspended ==
  ASSUME Owed, Suspended, FS \in Procs, TTY \in Tasks
  PROVE  \/ Awaits(FS, TTY) /\ Tells(TTY, FS) /\ buf[TTY].type.kind = "SUSPEND_PROC"
         \/ pc[FS] = "tty_done" /\ Free(FS) /\ Got(FS, "SUSPEND_PROC")
<1>1. CASE Tells(TTY, FS) /\ buf[TTY].type.kind = "SUSPEND_PROC"
  <2>1. Owes(TTY, FS)
    BY <1>1, Distinct DEF Owes, TtyOwes, Resuming
  <2>. QED
    BY <1>1, <2>1 DEF Owed
<1>. QED
  BY <1>1 DEF Suspended

\* FS comes for the answer of the task it called.
LEMMA FsAwaitInv ==
  ASSUME ServersInv, NEW s \in {TTY, HD}, NEW l \in FsBusy, Reply(FS), Runnable(FS),
         Goto(FS, l), pc[FS] \in FsBusy, Calling(FS, s), s = TTY => l = "tty_done",
         s = HD => l \in {"hd_done", "read_done", "opening"},
         UNCHANGED <<src, ttyVars, scenario, drive, forkVars>>
  PROVE  ServersInv'
<1>. USE Distinct DEF ServersInv
<1>1. Turns(FS, s) /\ FS \in Tasks /\ TTY \in Tasks
  BY Modes DEF Runnable, Calling, Asks, Tasks
<1>2. /\ pc'[FS] = l /\ PcStep(FS) /\ pc' \in [Procs -> Labels]
  BY GotoOthers DEF Labels, PcStep
<1>3. Returning(FS, s)' => At(FS)'
  BY <1>2 DEF At, FsAt
<1>4. /\ src' = src /\ child' = child /\ tty_procnr' = tty_procnr /\ drive' = drive
      /\ scenario' = scenario /\ UNCHANGED <<alive, memory, counted>>
  BY DEF ttyVars, forkVars
<1>5. /\ IInv' /\ Halves' /\ Places' /\ Words' /\ Turned(FS, s)
  BY <1>1, <1>2, <1>3, <1>4, AwaitStep DEF FsBusy
<1>6. Suspended => Suspended'
  <2>1. SUFFICES ASSUME Suspended PROVE Suspended'
    OBVIOUS
  <2>2. /\ Awaits(FS, TTY) /\ Tells(TTY, FS) /\ buf[TTY].type.kind = "SUSPEND_PROC"
    BY <1>1, <2>1, NotSuspended DEF Turns, Free
  <2>3. s = TTY
    BY <1>1, <2>2 DEF Awaits, Turns, Waits
  <2>4. Free(FS)' /\ buf'[FS] = buf[TTY]
    BY <1>5, <2>2, <2>3 DEF Turned
  <2>5. IsAnswer(TTY, FS, buf[TTY])
    BY <2>2 DEF Words, Word, Tells
  <2>6. buf[TTY].type # HARD_INT
    BY <2>5, NotPayloads DEF IsAnswer
  <2>. QED
    BY <1>2, <2>2, <2>3, <2>4, <2>6 DEF Suspended, Got
<1>7. \A x : FsOwes(x)' => FsOwes(x)
  <2>1. pc'[FS] # "got" /\ Mode(FS)' # "tells"
    BY <1>2, <1>5 DEF Turned, Free, Waits, FsBusy
  <2>. QED
    BY <1>4, <1>6, <2>1 DEF FsOwes, Working, Tells
<1>8. Owed'
  <2>1. \A x \in Procs : Owes(FS, x)' => Owes(FS, x)
    BY <1>7 DEF Owes
  <2>. QED
    BY <1>1, <1>4, <1>5, <2>1, AwaitOwed
<1>9. /\ StepOf(FS) /\ has_int_msg' = has_int_msg /\ ~halted /\ ~halted'
  BY <1>5 DEF Turned, DriveInv
<1>10. Once'
  <2>1. Awaits(FS, TTY)' => TtyOwes(FS)'
    <3>1. SUFFICES ASSUME Awaits(FS, TTY)' PROVE TtyOwes(FS)'
      OBVIOUS
    <3>2. s = TTY /\ ~Tells(TTY, FS) /\ Kept(TTY)
      BY <1>5, <3>1 DEF Turned, Awaits, Turns, Waits, Free
    <3>3. Working(TTY) /\ buf[TTY].type # HARD_INT
      BY <1>1, <1>9, <3>2 DEF Once, Awaits, TtyOwes
    <3>. QED
      BY <3>2, <3>3 DEF TtyOwes, Working, Kept, Free
  <2>2. \A x \in Procs : FsOwes(x)' => ~TtyKeeps(x)
    BY <1>7 DEF Once
  <2>. QED
    BY <1>4, <1>9, <2>1, <2>2, FsOnce
<1>11. DriveInv'
  BY <1>4, <1>9, DriveStep
<1>12. Children'
  <2>1. Kept(MM) /\ ~Tells(FS, MM)'
    BY <1>5 DEF Turned, Tells, Free, Waits
  <2>2. Free(MM)' => Free(MM)
    BY <2>1 DEF Kept, Free
  <2>. QED
    BY <1>4, <1>9, <2>1, <2>2, FsChildren
<1>13. Locals'
  BY <1>2, <1>4 DEF Locals, PcStep
<1>. QED
  BY <1>5, <1>8, <1>9, <1>10, <1>11, <1>12, <1>13 DEF Cycle

\* FS serves the process u, for which it calls TTY or HD.
LEMMA FsAsks ==
  ASSUME ServersInv, NEW d \in {TTY, HD}, NEW u \in Users, NEW t \in Types,
         t \in Payloads, SendRec(FS, d, t), Owes(FS, u), NEW l \in FsBusy, Goto(FS, l),
         l = "tty" <=> d = TTY, l \notin {"tty_done", "hd_done", "read_done", "opening"},
         Free(FS), ~halted, src'[FS] = u, \A s \in Tasks \ {FS} : src'[s] = src[s],
         DOMAIN src' = Tasks, WorkAfter(d, Letter(FS, t)),
         UNCHANGED <<ttyVars, scenario, drive, forkVars>>
  PROVE  ServersInv'
<1>. USE Distinct DEF ServersInv
<1>1. FS \in Tasks /\ d \in Tasks /\ d \in Procs /\ MM \in Tasks /\ HD \in Tasks /\ d # FS
  BY DEF Tasks
<1>2. /\ pc'[FS] = l /\ PcStep(FS) /\ pc' \in [Procs -> Labels]
  BY GotoOthers DEF Labels, PcStep
<1>3. /\ src'[MM] = src[MM] /\ src'[HD] = src[HD]
      /\ child' = child /\ tty_procnr' = tty_procnr /\ drive' = drive
      /\ scenario' = scenario /\ UNCHANGED <<alive, memory, counted>>
  BY <1>1 DEF ttyVars, forkVars
<1>4. Calling(FS, d)' => At(FS)'
  BY <1>2 DEF At, FsAt, FsBusy
<1>5. \A x \in Procs \ {FS} : WorkStays(x)
  BY <1>3, WorkStaysFree
<1>6. buf'[d] = Letter(FS, t) => Fits(d)
  BY DEF Fits
<1>7. /\ IInv' /\ Halves' /\ Places' /\ Words'
      /\ Said(FS, d, Letter(FS, t)) /\ Called(FS, d, Letter(FS, t))
  BY <1>1, <1>2, <1>4, <1>5, <1>6, AskStep DEF FsBusy
<1>8. /\ Moves(FS, d) /\ StepOf(FS) /\ has_int_msg' = has_int_msg
      /\ (Gets(d) => buf'[d].source = FS /\ Turns(FS, d)')
      /\ Calling(FS, d)'
  BY <1>7 DEF Said, Moves, Called, Calling, Letter, Kept, Gets, Free
<1>9. Awaits(u, FS) /\ u \notin Tasks
  BY <1>1 DEF Owed, Tasks
<1>10. \A x : FsOwes(x)' => x = u
  BY <1>2, <1>8 DEF FsOwes, Working, Calling, Turns, Asks, Tells, FsBusy
<1>11. \A x \in Procs : TtyKeeps(x) => x \in Users
  BY KeepsUsers
<1>12. Owed'
  <2>1. \A x \in Procs : Owes(FS, x)' => Awaits(x, FS)'
    <3>1. Awaits(u, FS)'
      BY <1>1, <1>8, <1>9 DEF Moves, Kept, Awaits, Turns, Waits
    <3>. QED
      BY <1>10, <3>1 DEF Owes
  <2>2. ~TtyKeeps(d)
    BY <1>1, <1>11
  <2>. QED
    BY <1>1, <1>3, <1>8, <2>1, <2>2, AskOwed
<1>13. Once'
  <2>1. \A x \in Procs : FsOwes(x)' => ~TtyKeeps(x)
    BY <1>10 DEF Once, Owes
  <2>2. Awaits(FS, TTY)' => halted' \/ TtyOwes(FS)'
    <3>1. SUFFICES ASSUME Awaits(FS, TTY)', ~halted' PROVE TtyOwes(FS)'
      OBVIOUS
    <3>2. d = TTY
      BY <1>8, <3>1 DEF Calling, Awaits, Turns, Asks, Waits
    <3>3. Gets(TTY) /\ buf'[TTY] = Letter(FS, t)
      BY <1>7, <3>1, <3>2 DEF Called, Awaits, Turns, Asks, Waits
    <3>4. pc[TTY] = "got" /\ pc'[TTY] = "got"
      BY <1>2, <3>3 DEF Places, At, ServerAt, Gets, Telling, Free, PcStep
    <3>5. t # HARD_INT
      BY NotPayloads
    <3>. QED
      BY <3>3, <3>4, <3>5 DEF TtyOwes, Working, Gets, Letter
  <2>. QED
    BY <1>3, <1>8, <2>1, <2>2, FsOnce
<1>14. DriveInv'
  BY <1>3, <1>8, DriveStep
<1>15. Children'
  <2>1. Kept(MM) /\ ~Tells(FS, MM)'
    BY <1>8 DEF Moves, Calling, Turns, Asks, Tells
  <2>2. Free(MM)' => Free(MM)
    BY <2>1 DEF Kept, Free
  <2>. QED
    BY <1>3, <1>8, <2>1, <2>2, FsChildren
<1>16. Locals'
  BY <1>2, <1>3 DEF Locals, PcStep
<1>17. Cycle'
  <2>1. SUFFICES ASSUME halted' PROVE Sending(TTY)' /\ p_sendto'[TTY] = FS /\ pc'[FS] = "tty"
    BY DEF Cycle
  <2>2. Kept(d) /\ Deadlock(FS, d)
    BY <1>7, <2>1 DEF Called
  <2>3. d = TTY
    <3>1. SUFFICES ASSUME d = HD PROVE ~Deadlock(FS, HD)
      BY <2>2
    <3>2. {HD, SYS} \in SUBSET (Procs \ {FS})
      OBVIOUS
    <3>3. \A x \in {HD, SYS} : Mode(x) = "asks" => Peer(x) \in {HD, SYS}
      BY Edges
    <3>. QED
      BY <3>2, <3>3, NoWay
  <2>4. Mode(TTY) = "tells" /\ Peer(TTY) = FS
    <3>1. Mode(TTY) \in {"asks", "tells"}
      BY <2>2, <2>3, Modes DEF Deadlock
    <3>2. Mode(TTY) # "asks"
      BY Edges
    <3>. QED
      BY <3>1, <3>2, Tellers
  <2>. QED
    BY <1>2, <2>2, <2>3, <2>4, RowSends DEF Kept
<1>. QED
  BY <1>7, <1>12, <1>13, <1>14, <1>15, <1>16, <1>17

\* FS answers d, which may be MM, whose new child FS has counted.
LEMMA FsAnswers ==
  ASSUME ServersInv, NEW d \in Users \union {MM}, Owes(FS, d), Free(FS), ~halted,
         Send(FS, d, Say("SYSCALL_RET", NO_TASK, HD)), Goto(FS, "top"),
         UNCHANGED <<src, ttyVars, scenario, drive, alive, child, memory>>,
         counted \subseteq counted', d = MM => child \in counted'
  PROVE  ServersInv'
<1>. USE Distinct DEF ServersInv
<1>1. FS \in Tasks /\ d \in Procs /\ d # FS /\ d # TTY
  BY DEF Tasks
<1>2. PICK t \in Types : Send(FS, d, t) /\ IsAnswer(FS, d, Letter(FS, t))
  BY SayIsPayload DEF Answers, IsAnswer, Letter
<1>3. /\ pc'[FS] = "top" /\ PcStep(FS) /\ pc' \in [Procs -> Labels]
  BY GotoOthers DEF Labels, PcStep
<1>4. Telling(FS)' => At(FS)'
  BY <1>3 DEF At, FsAt, ServerAt
<1>5. /\ tty_procnr' = tty_procnr /\ drive' = drive /\ scenario' = scenario
      /\ src' = src /\ child' = child
  BY DEF ttyVars
<1>6. \A x \in Procs \ {FS} : WorkStays(x)
  BY <1>5, WorkStaysWork
<1>7. /\ IInv' /\ Halves' /\ Places' /\ Words'
      /\ Said(FS, d, Letter(FS, t)) /\ halted' = halted /\ pc[d] # "got"
      /\ \/ Gets(d) /\ Waits(d, FS) /\ buf'[d] = Letter(FS, t) /\ Free(FS)'
         \/ Kept(d) /\ Tells(FS, d)'
  BY <1>1, <1>2, <1>3, <1>4, <1>6, AnswerStep
<1>8. /\ Moves(FS, d) /\ StepOf(FS) /\ has_int_msg' = has_int_msg /\ ~halted'
  BY <1>7 DEF Said, Moves
<1>9. \A x : Tells(FS, x)' => x = d
  BY <1>7 DEF Tells, Free
<1>10. Owed'
  <2>1. /\ (Gets(d) /\ Free(FS)') \/ (Kept(d) /\ Tells(FS, d)')
        /\ pc[d] # "got"
    BY <1>7
  <2>. QED
    BY <1>1, <1>3, <1>5, <1>8, <2>1, AnswerOwed
<1>11. Once'
  <2>1. \A x \in Procs : FsOwes(x)' => ~TtyKeeps(x)
    <3>1. \A x : Owes(FS, x)' => Tells(FS, x)'
      BY <1>1, <1>3, TopOwes
    <3>2. \A x : FsOwes(x)' => x = d
      BY <1>9, <3>1 DEF Owes
    <3>. QED
      BY <3>2 DEF Once, Owes
  <2>2. ~Awaits(FS, TTY)'
    BY <1>7 DEF Awaits, Turns, Waits, Tells, Free
  <2>. QED
    BY <1>5, <1>8, <2>1, <2>2, FsOnce
<1>12. DriveInv'
  BY <1>5, <1>8, DriveStep
<1>13. Children'
  <2>1. Tells(FS, MM)' => child \in counted'
    BY <1>9
  <2>2. Free(MM)' => Free(MM) \/ child \in counted'
    BY <1>8 DEF Moves, Kept, Free
  <2>. QED
    BY <1>8, <2>1, <2>2, FsChildren
<1>14. Locals'
  BY <1>3, <1>5 DEF Locals, PcStep, FsBusy
<1>. QED
  BY <1>7, <1>8, <1>10, <1>11, <1>12, <1>13, <1>14 DEF Cycle

\* FS calls TTY.
LEMMA FsToTtyInv ==
  ASSUME ServersInv, FsToTty
  PROVE  ServersInv'
<1>. USE Distinct DEF ServersInv
<1>1. /\ FS \in Tasks /\ TTY \in Tasks /\ Free(FS) /\ ~halted /\ pc[FS] \in {"got", "opening"}
      /\ Goto(FS, "tty") /\ UNCHANGED <<ttyVars, scenario, drive, forkVars>>
  BY Runs DEF FsToTty, Tasks, outside
<1>2. PICK u \in Users, t \in Types :
        /\ SendRec(FS, TTY, t) /\ Owes(FS, u) /\ src'[FS] = u
        /\ \A s \in Tasks \ {FS} : src'[s] = src[s]
        /\ DOMAIN src' = Tasks
        /\ t \in Payloads /\ t.kind \in {"DEV_READ", "DEV_WRITE", "DEV_OPEN"}
        /\ t.kind = "DEV_READ" => t.about = u /\ t.dev \in Ttys
  <2>1. CASE pc[FS] = "got"
    <3>1. /\ Got(FS, "READ") \/ Got(FS, "WRITE")
          /\ src' = [src EXCEPT ![FS] = buf[FS].source]
      BY <2>1, Runs DEF FsToTty
    <3>2. IsWork(FS, buf[FS])
      BY <1>1, <2>1 DEF Words, Word, Working
    <3>3. PICK u \in Users : u = buf[FS].source /\ buf[FS].type.dev \in Ttys
      BY <3>1, <3>2 DEF IsWork, WorkOf, Got
    <3>4. Owes(FS, u)
      BY <1>1, <2>1, <3>3 DEF Owes, FsOwes, Working
    <3>5. PICK k \in {"DEV_READ", "DEV_WRITE"} :
            k = IF Got(FS, "READ") THEN "DEV_READ" ELSE "DEV_WRITE"
      OBVIOUS
    <3>6. SendRec(FS, TTY, Say(k, u, buf[FS].type.dev))
      BY <1>1, <2>1, <3>3, <3>5, Runs DEF FsToTty
    <3>7. /\ Say(k, u, buf[FS].type.dev) \in Payloads /\ Say(k, u, buf[FS].type.dev) \in Types
          /\ Say(k, u, buf[FS].type.dev).kind = k /\ Say(k, u, buf[FS].type.dev).about = u
          /\ Say(k, u, buf[FS].type.dev).dev = buf[FS].type.dev
      BY <3>3, SayIsPayload DEF ToDrivers
    <3>. QED
      BY <1>1, <3>1, <3>3, <3>4, <3>6, <3>7 DEF Locals
  <2>2. CASE pc[FS] = "opening"
    <3>1. /\ src' = src
          /\ SendRec(FS, TTY, Say("DEV_OPEN", NO_TASK, scenario.terminal[src[FS]]))
      BY <2>2, Runs DEF FsToTty
    <3>2. src[FS] \in Users /\ scenario.terminal[src[FS]] \in Ttys
      BY <2>2, ServersAssumption DEF Locals, FsBusy, ServersAssumption
    <3>3. ~Suspended
      BY <1>1, <2>2, NotSuspended DEF Awaits, Turns, Waits, Free
    <3>4. Owes(FS, src[FS])
      BY <2>2, <3>3 DEF Owes, FsOwes, FsBusy
    <3>5. PICK u \in Users : u = src[FS]
      BY <3>2
    <3>6. PICK d \in Ttys : d = scenario.terminal[src[FS]]
      BY <3>2
    <3>7. /\ Say("DEV_OPEN", NO_TASK, d) \in Payloads /\ Say("DEV_OPEN", NO_TASK, d) \in Types
          /\ Say("DEV_OPEN", NO_TASK, d).kind = "DEV_OPEN"
      BY SayIsPayload DEF ToDrivers
    <3>8. DOMAIN src' = Tasks /\ src'[FS] = u
      BY <3>1, <3>5 DEF Locals
    <3>. QED
      BY <3>1, <3>4, <3>5, <3>6, <3>7, <3>8
  <2>. QED
    BY <1>1, <2>1, <2>2
<1>3. WorkAfter(TTY, Letter(FS, t))
  BY <1>2 DEF WorkAfter, WorkOf, Letter
<1>4. "tty" \in FsBusy /\ ("tty" = "tty" <=> TTY = TTY)
  BY DEF FsBusy
<1>. QED
  BY <1>1, <1>2, <1>3, <1>4, FsAsks

\* FS calls HD.
LEMMA FsToHdInv ==
  ASSUME ServersInv, FsToHd
  PROVE  ServersInv'
<1>. USE Distinct DEF ServersInv
<1>1. /\ {FS, HD, TTY} \subseteq Tasks /\ Free(FS) /\ ~halted /\ pc[FS] \in {"got", "read_done"}
      /\ UNCHANGED <<ttyVars, scenario, drive, forkVars>>
  BY Runs DEF FsToHd, Tasks, outside
<1>2. PICK u \in Users, t \in Types, l \in {"hd", "hd_inode", "hd_first"} :
        /\ SendRec(FS, HD, t) /\ Owes(FS, u) /\ Goto(FS, l) /\ src'[FS] = u
        /\ \A s \in Tasks \ {FS} : src'[s] = src[s]
        /\ DOMAIN src' = Tasks
        /\ t \in Payloads /\ t.kind \in {"DEV_READ", "DEV_WRITE"}
  <2>1. CASE pc[FS] = "got"
    <3>1. /\ \E kind \in {"OPEN", "FILE_READ", "FILE_WRITE"} : Got(FS, kind)
          /\ src' = [src EXCEPT ![FS] = buf[FS].source]
          /\ SendRec(FS, HD, Say("DEV_READ", FS, HD))
      BY <2>1, Runs DEF FsToHd
    <3>2. IsWork(FS, buf[FS])
      BY <1>1, <2>1 DEF Words, Word, Working
    <3>3. PICK u \in Users : u = buf[FS].source
      BY <3>1, <3>2 DEF IsWork, WorkOf, Got
    <3>4. Owes(FS, u)
      BY <1>1, <2>1, <3>3 DEF Owes, FsOwes, Working
    <3>5. PICK l \in {"hd", "hd_inode", "hd_first"} : Goto(FS, l)
      BY <2>1, <3>1 DEF FsToHd
    <3>6. /\ Say("DEV_READ", FS, HD) \in Payloads /\ Say("DEV_READ", FS, HD) \in Types
          /\ Say("DEV_READ", FS, HD).kind = "DEV_READ"
      BY SayIsPayload DEF ToDrivers
    <3>7. /\ DOMAIN src' = Tasks /\ src'[FS] = u
          /\ \A s \in Tasks \ {FS} : src'[s] = src[s]
      BY <1>1, <3>1, <3>3 DEF Locals
    <3>. QED
      BY <3>1, <3>4, <3>5, <3>6, <3>7
  <2>2. CASE pc[FS] = "read_done"
    <3>1. /\ src' = src /\ SendRec(FS, HD, Say("DEV_WRITE", FS, HD)) /\ Goto(FS, "hd")
      BY <2>2, Runs DEF FsToHd
    <3>2. src[FS] \in Users
      BY <2>2 DEF Locals, FsBusy
    <3>3. ~Suspended
      BY <1>1, <2>2, NotSuspended DEF Awaits, Turns, Waits, Free
    <3>4. Owes(FS, src[FS])
      BY <2>2, <3>3 DEF Owes, FsOwes, FsBusy
    <3>5. PICK u \in Users : u = src[FS]
      BY <3>2
    <3>6. /\ Say("DEV_WRITE", FS, HD) \in Payloads /\ Say("DEV_WRITE", FS, HD) \in Types
          /\ Say("DEV_WRITE", FS, HD).kind = "DEV_WRITE"
      BY SayIsPayload DEF ToDrivers
    <3>7. DOMAIN src' = Tasks /\ src'[FS] = u
      BY <3>1, <3>5 DEF Locals
    <3>. QED
      BY <3>1, <3>4, <3>5, <3>6, <3>7
  <2>. QED
    BY <1>1, <2>1, <2>2
<1>3. WorkAfter(HD, Letter(FS, t))
  BY <1>2 DEF WorkAfter, WorkOf, Letter
<1>4. /\ l \in FsBusy /\ (l = "tty" <=> HD = TTY)
      /\ l \notin {"tty_done", "hd_done", "read_done", "opening"}
  BY DEF FsBusy
<1>. QED
  BY <1>1, <1>2, <1>3, <1>4, FsAsks

\* FS comes for the answer of TTY or HD.
LEMMA FsAwaitsInv ==
  ASSUME ServersInv, FsTtyAwait \/ FsHdAwait
  PROVE  ServersInv'
<1>. USE Distinct DEF ServersInv, FsBusy
<1>1. PICK s \in {TTY, HD}, l \in {"tty_done", "hd_done", "read_done", "opening"} :
        /\ Reply(FS) /\ Runnable(FS) /\ Goto(FS, l)
        /\ \/ s = TTY /\ pc[FS] = "tty" /\ l = "tty_done"
           \/ s = HD /\ pc[FS] \in {"hd", "hd_first", "hd_inode"} /\ l # "tty_done"
        /\ UNCHANGED <<src, ttyVars, scenario, drive, forkVars>>
  BY DEF FsTtyAwait, FsHdAwait, Await, outside
<1>2. Calling(FS, s) /\ pc[FS] \in FsBusy /\ l \in FsBusy
  BY <1>1 DEF Places, At, FsAt, ServerAt
<1>3. (s = TTY => l = "tty_done") /\ (s = HD => l \in {"hd_done", "read_done", "opening"})
  BY <1>1
<1>. QED
  BY <1>1, <1>2, <1>3, FsAwaitInv

\* FS answers the reader TTY resumes.
LEMMA FsResumeInv ==
  ASSUME ServersInv, FsResume
  PROVE  ServersInv'
<1>. USE Distinct DEF ServersInv
<1>1. /\ FS \in Tasks /\ Free(FS) /\ ~halted /\ pc[FS] = "got" /\ Goto(FS, "top")
      /\ Got(FS, "RESUME_PROC") /\ UNCHANGED <<src, ttyVars, scenario, drive, forkVars>>
  BY Runs DEF FsResume, Tasks, outside
<1>2. IsWork(FS, buf[FS])
  BY <1>1 DEF Words, Word, Working
<1>3. PICK d \in Users : d = buf[FS].type.about /\ buf[FS].source = TTY
  BY <1>1, <1>2 DEF IsWork, WorkOf, Got, FsServes
<1>4. Owes(FS, d)
  BY <1>1, <1>3 DEF Owes, FsOwes, Working
<1>5. Send(FS, d, Say("SYSCALL_RET", NO_TASK, HD))
  BY <1>3 DEF FsResume
<1>6. UNCHANGED <<src, ttyVars, scenario, drive, alive, child, memory, counted>>
  BY <1>1 DEF forkVars
<1>. QED
  BY <1>1, <1>4, <1>5, <1>6, FsAnswers

\* FS answers the process it served.
LEMMA FsAnswerInv ==
  ASSUME ServersInv, FsAnswer
  PROVE  ServersInv'
<1>. USE Distinct DEF ServersInv
<1>1. /\ FS \in Tasks /\ TTY \in Tasks /\ Free(FS) /\ ~halted /\ Goto(FS, "top")
      /\ pc[FS] = "hd_done" \/ (pc[FS] = "tty_done" /\ ~Got(FS, "SUSPEND_PROC"))
      /\ UNCHANGED <<src, ttyVars, scenario, drive, forkVars>>
  BY Runs DEF FsAnswer, Tasks, outside
<1>2. PICK d \in Users : d = src[FS]
  BY <1>1 DEF Locals, FsBusy
<1>3. ~Suspended
  BY <1>1, NotSuspended DEF Awaits, Turns, Waits, Free
<1>4. Owes(FS, d)
  BY <1>1, <1>2, <1>3 DEF Owes, FsOwes, FsBusy
<1>5. Send(FS, d, Say("SYSCALL_RET", NO_TASK, HD))
  BY <1>2 DEF FsAnswer
<1>6. UNCHANGED <<src, ttyVars, scenario, drive, alive, child, memory, counted>>
  BY <1>1 DEF forkVars
<1>. QED
  BY <1>1, <1>4, <1>5, <1>6, FsAnswers

\* FS counts the child's descriptors and answers MM.
LEMMA FsForkInv ==
  ASSUME ServersInv, FsFork
  PROVE  ServersInv'
<1>. USE Distinct DEF ServersInv
<1>1. /\ FS \in Tasks /\ Free(FS) /\ ~halted /\ pc[FS] = "got" /\ Goto(FS, "top")
      /\ Got(FS, "FORK")
      /\ UNCHANGED <<src, ttyVars, scenario, drive, alive, child, memory>>
  BY Runs DEF FsFork, Tasks
<1>2. IsWork(FS, buf[FS])
  BY <1>1 DEF Words, Word, Working
<1>3. buf[FS].source = MM /\ buf[FS].type.about = child
  BY <1>1, <1>2 DEF IsWork, WorkOf, Got, FsServes
<1>4. Owes(FS, MM)
  BY <1>1, <1>3 DEF Owes, FsOwes, Working
<1>5. /\ Send(FS, MM, Say("SYSCALL_RET", NO_TASK, HD))
      /\ counted \subseteq counted' /\ child \in counted'
  BY <1>3 DEF FsFork
<1>. QED
  BY <1>1, <1>4, <1>5, FsAnswers

\* A task at the top of its loop looks for work.
LEMMA GetWorkInv ==
  ASSUME ServersInv, NEW p \in Tasks, GetWork(p)
  PROVE  ServersInv'
<1>1. /\ pc[p] = "top" /\ Receive(p, ANY) /\ Goto(p, "got")
      /\ UNCHANGED <<src, ttyVars, scenario, drive, forkVars>>
  BY DEF GetWork, Running, outside
<1>. QED
  BY <1>1, FetchInv

\* FS leaves a suspended reader without an answer and looks for work.
LEMMA FsSuspendInv ==
  ASSUME ServersInv, FsSuspend
  PROVE  ServersInv'
<1>1. /\ pc[FS] = "tty_done" /\ Receive(FS, ANY) /\ Goto(FS, "got") /\ FS \in Tasks
      /\ UNCHANGED <<src, ttyVars, scenario, drive, forkVars>>
  BY DEF FsSuspend, Running, outside, Tasks
<1>. QED
  BY <1>1, FetchInv

----------------------------------------------------------------------------
\* At the start everybody runs, nobody is owed anything.
LEMMA InitServersInv == ServersInit => ServersInv
<1>. SUFFICES ASSUME ServersInit PROVE ServersInv
  OBVIOUS
<1>. USE Distinct
<1>1. /\ \A x \in Procs : /\ Mode(x) = "free" /\ pc[x] = "top" /\ buf[x].source = x
                          /\ ~has_int_msg[x]
      /\ scenario \in Scenarios /\ DOMAIN src = Tasks /\ drive = "idle" /\ ~halted
      /\ pc = [p \in Procs |-> "top"] /\ tty_procnr = [t \in Ttys |-> NO_TASK]
      /\ alive = scenario.founders /\ counted = alive /\ child = NO_TASK
      /\ memory = [u \in Users |-> u]
  BY DEF ServersInit, Init, Mode
<1>2. \A x \in Procs : /\ Free(x) /\ Telling(x) /\ \A s : Returning(x, s)
                       /\ \A s : ~Tells(x, s) /\ ~Waits(x, s) /\ ~Turns(x, s)
  BY <1>1 DEF Free, Telling, Returning, Tells, Waits, Turns
<1>3. {TTY, SYS, HD, FS, MM} = Tasks /\ Tasks \subseteq Procs
  BY DEF Tasks
<1>4. IInv
  BY InitIInv DEF ServersInit
<1>5. Halves
  BY <1>1 DEF Halves
<1>6. Locals
  BY <1>1, <1>3 DEF Locals, Labels, FsBusy, MmForks
<1>7. Places
  BY <1>1, <1>2, <1>3 DEF Places, At, UserAt, ServerAt, HdAt, FsAt, MmAt
<1>8. Words
  BY <1>1, <1>3 DEF Words, Word, Working, IsDone
<1>9. ~Resuming /\ \A s \in Tasks, x \in Procs : ~Owes(s, x)
  BY <1>1, <1>2, <1>3 DEF Resuming, Owes, SysOwes, HdOwes, TtyOwes, MmOwes, FsOwes,
     Working, FsBusy, MmForks
<1>10. \A x \in Procs : ~TtyKeeps(x)
  BY <1>1, <1>9 DEF TtyKeeps
<1>11. Owed
  BY <1>9, <1>10 DEF Owed
<1>12. Once
  BY <1>1, <1>2, <1>3, <1>9, <1>10 DEF Once, Awaits, MmForks
<1>13. DriveInv
  BY <1>1 DEF DriveInv
<1>14. alive \subseteq Users
  BY <1>1, ServersAssumption DEF ServersAssumption
<1>15. Children
  BY <1>1, <1>2, <1>3, <1>14 DEF Children, MmForks
<1>16. Cycle
  BY <1>1 DEF Cycle
<1>. QED
  BY <1>4, <1>5, <1>6, <1>7, <1>8, <1>11, <1>12, <1>13, <1>15, <1>16 DEF ServersInv

\* Every step keeps the invariant: of the user processes, of each task, of the
\* interrupt handlers.
LEMMA NextServersInv == ServersInv /\ [ServersNext]_serverVars => ServersInv'
<1>. SUFFICES ASSUME ServersInv, [ServersNext]_serverVars PROVE ServersInv'
  OBVIOUS
<1>1. ASSUME NEW u \in Users, User(u) PROVE ServersInv'
  BY <1>1, UserCallInv, UserAwaitInv DEF User
<1>2. CASE Tty
  <2>1. ASSUME NEW q \in Ttys, TtyLine(q) PROVE ServersInv'
    <3>1. CASE tty_procnr[q] # NO_TASK
      BY <2>1, <3>1, TtyLineInv
    <3>2. CASE tty_procnr[q] = NO_TASK
      <4>1. UNCHANGED <<vars, pc, src, tty_procnr, scenario, drive, forkVars>>
        BY <2>1, <3>2 DEF TtyLine, outside
      <4>. QED
        BY <4>1, IdleInv
    <3>. QED
      BY <3>1, <3>2
  <2>2. TTY \in Tasks
    BY DEF Tasks
  <2>. QED
    BY <1>2, <2>1, <2>2, GetWorkInv, TtyHardIntInv, TtyServesInv DEF Tty
<1>3. CASE Sys
  BY <1>3, GetWorkInv, SysAnswerInv DEF Sys, Tasks
<1>4. CASE Hd
  BY <1>4, GetWorkInv, HdWaitforInv, HdAwaitInv, HdStartInv, HdWaitInv, HdAnswerInv
     DEF Hd, Tasks
<1>5. CASE Fs
  BY <1>5, GetWorkInv, FsToTtyInv, FsAwaitsInv, FsSuspendInv, FsResumeInv, FsToHdInv,
     FsAnswerInv, FsForkInv DEF Fs, Tasks
<1>6. CASE Mm
  BY <1>6, GetWorkInv, MmCopySlotInv, MmCopyMemoryInv, MmToFsInv, MmAwaitInv,
     MmAnswerChildInv, MmAnswerInv DEF Mm, Tasks
<1>7. ASSUME NEW t, Type(t) PROVE ServersInv'
  <2>1. UNCHANGED <<vars, pc, src, tty_procnr, scenario, drive, forkVars>>
    BY <1>7 DEF Type, outside
  <2>. QED
    BY <2>1, IdleInv
<1>8. CASE UNCHANGED serverVars
  <2>1. UNCHANGED <<vars, pc, src, tty_procnr, scenario, drive, forkVars>>
    BY <1>8 DEF serverVars, programVars, outside, ttyVars
  <2>. QED
    BY <2>1, IdleInv
<1>. QED
  BY <1>1, <1>2, <1>3, <1>4, <1>5, <1>6, <1>7, <1>8, ClockInformsInv, DriveInformsInv
     DEF ServersNext

\* The invariant holds for ever.
LEMMA ServersInductive == ServersSpec => []ServersInv
  BY InitServersInv, NextServersInv, PTL DEF ServersSpec

----------------------------------------------------------------------------
\* Who awaits an answer is in its call, turning from the SEND to the RECEIVE or
\* asleep in the RECEIVE.
LEMMA SleepsInCall ==
  ASSUME IInv, Places, NEW u \in Users, NEW s \in Tasks, Awaits(u, s)
  PROVE  InCall(u) /\ s \in {p_recvfrom[u], reply_from[u]}
<1>. USE Distinct
<1>1. u \in Procs /\ UserAt(u)
  BY DEF Places, At
<1>2. CASE Waits(u, s)
  <2>1. p_flags[u] = {RECEIVING} /\ p_recvfrom[u] = s
    BY <1>1, <1>2 DEF Waits, Mode, Peer, IInv, FlagsInv
  <2>. QED
    BY <2>1 DEF InCall, Receiving
<1>3. CASE Turns(u, s)
  <2>1. reply_from[u] = s
    BY <1>3 DEF Turns, Mode, Peer
  <2>2. pc[u] = "called"
    BY <1>1, <1>3 DEF UserAt, Returning, Turns, Waits, Free
  <2>. QED
    BY <2>1, <2>2 DEF InCall
<1>. QED
  BY <1>2, <1>3 DEF Awaits

\* do_fork() copies a slot of the proc table while the kernel's calls go on: for
\* any number of processes the flags, the sending queues and the pending messages
\* of the table stay what msg_send() and msg_receive() take for granted.
THEOREM TablesConsistent == ServersSpec => []TableConsistent
<1>1. ServersInv => TableConsistent
  BY DEF ServersInv, IInv, TableConsistent
<1>. QED
  BY <1>1, ServersInductive, PTL

\* Whom a task answers waits for that very answer, and what a process has when
\* its call is over is the answer of the server it called.
THEOREM AnswersAwaited == ServersSpec => []AnswersAreAwaited
<1>1. ASSUME ServersInv PROVE AnswersAreAwaited
  <2>. USE <1>1, Distinct DEF ServersInv
  <2>1. ASSUME NEW p \in Tasks, Sending(p), p_sendto[p] \in Users
        PROVE  reply_from[p_sendto[p]] = p
    <3>1. PICK u \in Users : u = p_sendto[p]
      BY <2>1
    <3>2. p \in Procs /\ u \in Procs /\ p_flags[p] = {SENDING} /\ p # u
      BY <2>1, <3>1 DEF Tasks, Sending, IInv, FlagsInv
    <3>3. Mode(p) \in {"asks", "tells"} /\ Peer(p) = u
      BY <3>1, <3>2 DEF Mode, Peer
    <3>4. Mode(p) # "asks"
      BY <3>2, <3>3 DEF Words, Word, IsWork, WorkOf
    <3>5. Tells(p, u)
      BY <3>3, <3>4 DEF Tells
    <3>6. Owes(p, u)
      BY <3>2, <3>5 DEF Owes, SysOwes, HdOwes, TtyOwes, MmOwes, FsOwes, Resuming, Tells,
         Tasks
    <3>7. Awaits(u, p)
      BY <3>2, <3>6 DEF Owed
    <3>8. ~Waits(u, p)
      <4>1. SUFFICES ASSUME Waits(u, p) PROVE FALSE
        OBVIOUS
      <4>2. p_flags[u] = {RECEIVING} /\ p_recvfrom[u] = p
        BY <3>2, <4>1 DEF Waits, Mode, Peer, IInv, FlagsInv
      <4>. QED
        BY <2>1, <3>1, <3>2, <4>2 DEF IInv, NoMissedRendezvous, Receiving
    <3>. QED
      BY <3>1, <3>7, <3>8 DEF Awaits, Turns, Mode, Peer
  <2>2. ASSUME NEW u \in Users, Running(u, "top"), buf[u].source # u
        PROVE  /\ buf[u].source \in {FS, SYS, MM}
               /\ Got(u, "SYSCALL_RET") \/ Got(u, "GET_TICKS") \/ Spins(u)
    <3>1. p_flags[u] = {} /\ reply_from[u] = NO_TASK /\ u \in Procs
      BY <2>2 DEF Running, Runnable
    <3>2. Free(u)
      BY <3>1 DEF Free, Mode
    <3>3. IsDone(u, buf[u])
      BY <3>1, <3>2 DEF Words, Word
    <3>4. buf[u].source \in {FS, SYS, MM} /\ IsAnswer(buf[u].source, u, buf[u])
      BY <2>2, <3>3 DEF IsDone
    <3>5. buf[u].type # HARD_INT
      BY <3>4, NotPayloads DEF IsAnswer
    <3>. QED
      BY <3>4, <3>5 DEF IsAnswer, Got, Spins
  <2>. QED
    BY <2>1, <2>2 DEF AnswersAreAwaited
<1>. QED
  BY <1>1, ServersInductive, PTL

\* TTY's record of a suspended reader names a process that is asleep in its call
\* to FS, until the reader is resumed.
THEOREM ReadersSleep == ServersSpec => []ReaderSleeps
<1>1. ASSUME ServersInv PROVE ReaderSleeps
  <2>. USE <1>1, Distinct DEF ServersInv
  <2>1. SUFFICES ASSUME NEW t \in Ttys, tty_procnr[t] # NO_TASK
                 PROVE  /\ InCall(tty_procnr[t])
                        /\ FS \in {p_recvfrom[tty_procnr[t]], reply_from[tty_procnr[t]]}
    BY DEF ReaderSleeps
  <2>2. PICK u \in Users : u = tty_procnr[t]
    BY <2>1 DEF Locals
  <2>3. Awaits(u, FS)
    BY <2>2 DEF Owed, TtyKeeps
  <2>. QED
    BY <2>2, <2>3, SleepsInCall DEF Tasks
<1>. QED
  BY <1>1, ServersInductive, PTL

\* The system stops for one reason only, FS and TTY calling each other; no other
\* chain of calls closes a cycle, and no assertion about interrupts fails.
THEOREM OnlyOneCycle == ServersSpec => []OnlyFsAndTtyDeadlock
<1>1. ASSUME ServersInv PROVE OnlyFsAndTtyDeadlock
  <2>. USE <1>1, Distinct DEF ServersInv
  <2>1. /\ halted => \/ Sending(TTY) /\ p_sendto[TTY] = FS /\ pc[FS] = "tty"
                     \/ Sending(FS) /\ p_sendto[FS] = TTY /\ pc[TTY] = "top"
        /\ has_int_msg[HD] => pc[HD] = "started"
    BY DEF Cycle, DriveInv
  <2>2. ASSUME pc[HD] = "got", Runnable(HD) PROVE buf[HD].type # HARD_INT
    <3>1. p_flags[HD] = {}
      BY <2>2 DEF Runnable
    <3>2. Returning(HD, ANY)
      BY <2>2 DEF Places, At, HdAt, ServerAt
    <3>3. Free(HD) /\ HD \in Tasks
      BY <3>1, <3>2 DEF Returning, Waits, Free, Mode, Tasks
    <3>4. IsWork(HD, buf[HD])
      BY <2>2, <3>3 DEF Words, Word, Working
    <3>. QED
      BY <3>4, NotPayloads DEF IsWork, WorkOf
  <2>. QED
    BY <2>1, <2>2 DEF OnlyFsAndTtyDeadlock
<1>. QED
  BY <1>1, ServersInductive, PTL

\* A child is inside its copy of the parent's call to MM until it has memory of
\* its own and FS has counted its descriptors.
THEOREM ChildWhole == ServersSpec => []ChildIsWhole
<1>1. ASSUME ServersInv PROVE ChildIsWhole
  <2>. USE <1>1, Distinct DEF ServersInv
  <2>1. SUFFICES ASSUME NEW u \in alive, memory[u] # u \/ u \notin counted
                 PROVE  InCall(u) /\ MM \in {p_recvfrom[u], reply_from[u]}
    BY DEF ChildIsWhole
  <2>2. u \in Users /\ u = child /\ pc[MM] \in MmForks
    BY <2>1 DEF Children, MmForks
  <2>3. Awaits(u, MM)
    BY <2>2 DEF Owed, Owes, MmOwes, Tasks
  <2>. QED
    BY <2>2, <2>3, SleepsInCall DEF Tasks
<1>. QED
  BY <1>1, ServersInductive, PTL
=============================================================================
