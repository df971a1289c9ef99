------------------------------ MODULE Servers ------------------------------
(***************************************************************************)
(* The five tasks of the system and the user processes, as programs over   *)
(* the system calls of Ipc: task_tty (kernel/tty.c), task_sys              *)
(* (kernel/systask.c), task_hd (kernel/hd.c), task_fs (fs/main.c,          *)
(* fs/read_write.c) and task_mm (mm/main.c, mm/forkexit.c), and the calls  *)
(* of lib/.  Who calls whom, who waits for whom, and who is answered.      *)
(*                                                                         *)
(* A message is its type, the process it is about (PROC_NR) and the        *)
(* terminal or drive (DEVICE); what the tasks do with files, keys and      *)
(* sectors is in the modules about them.  Between two system calls a task  *)
(* touches nothing another process reads, so a call and the statements     *)
(* before it are one step.  A process may be preempted between any two.    *)
(***************************************************************************)
EXTENDS Ipc

CONSTANTS TTY, SYS, HD, FS, MM,   \* proc_table[0 .. 4]
          Ttys,                   \* the terminals
          Scenarios               \* the user processes that kernel_main() starts,
                                  \* the other slots being free (founders), the
                                  \* terminal each opened (terminal), what each asks
                                  \* for (asks), the terminals somebody types on
                                  \* (keyboards), and the bound on the lines typed
                                  \* (lines)

Tasks == {TTY, SYS, HD, FS, MM}
Users == Procs \ Tasks

FromUsers == {"READ", "WRITE", "OPEN", "FILE_READ", "FILE_WRITE", "FORK", "GET_TICKS"}
ToDrivers == {"DEV_READ", "DEV_WRITE", "DEV_OPEN"}
\* FORK_FAILED is a SYSCALL_RET with RETVAL -1.
Answers == {"SYSCALL_RET", "FORK_FAILED", "SUSPEND_PROC", "RESUME_PROC"}

Payloads == [kind : FromUsers \union ToDrivers \union Answers,
             about : Procs \union {NO_TASK}, dev : Ttys \union {HD}]

Say(kind, about, dev) == [kind |-> kind, about |-> about, dev |-> dev]

ASSUME ServersAssumption ==
  /\ Tasks \subseteq Procs /\ IntTasks = {TTY, HD}
  /\ IsInjective(<<TTY, SYS, HD, FS, MM>>)
  /\ Scenarios \subseteq [founders : SUBSET Users, terminal : [Users -> Ttys],
                          asks : [Users -> SUBSET FromUsers],
                          keyboards : SUBSET Ttys, lines : Nat]
  /\ Types = Payloads

VARIABLES
  scenario,  \* one of Scenarios
  pc,        \* per process: where it is in its program
  src,       \* per task: the local variable src, whom to answer
  tty_procnr,\* per terminal: who reads from it, or NO_TASK (tty_left_cnt 0)
  typed,     \* terminals whose keyboard input holds a finished line
  lines,     \* how many lines have been typed
  key_pressed,
  drive,     \* "idle", or "busy" with a sector: an interrupt will come
  alive,     \* the user processes whose slot is not FREE_SLOT
  child,     \* MM's child_pid, or NO_TASK
  memory,    \* per user process: in whose memory it runs
  counted,   \* history: the user processes whose descriptors FS has counted
  overtaken  \* history: readers whose place in tty_procnr another has taken

ttyVars == <<tty_procnr, typed, lines, key_pressed, overtaken>>
forkVars == <<alive, child, memory, counted>>
outside == <<scenario, drive, forkVars>>
programVars == <<pc, src, ttyVars, outside>>
serverVars == <<vars, programVars>>

ServersInit ==
  /\ Init
  /\ scenario \in Scenarios
  /\ pc = [p \in Procs |-> "top"]
  /\ src = [p \in Tasks |-> NO_TASK]
  /\ tty_procnr = [t \in Ttys |-> NO_TASK]
  /\ typed = {} /\ lines = 0 /\ key_pressed = FALSE
  /\ drive = "idle"
  /\ alive = scenario.founders /\ counted = scenario.founders
  /\ child = NO_TASK /\ overtaken = {}
  /\ memory = [u \in Users |-> u]

Goto(p, label) == pc' = [pc EXCEPT ![p] = label]

\* p runs, at the label, with the message it was waiting for.
Running(p, label) == Runnable(p) /\ reply_from[p] = NO_TASK /\ pc[p] = label
Got(p, kind) == buf[p].type # HARD_INT /\ buf[p].type.kind = kind
Await(p, label, next) ==
  Runnable(p) /\ pc[p] = label /\ Reply(p) /\ Goto(p, next)

\* send_recv(RECEIVE, ANY, ...) at the top of each task's loop.
GetWork(p) ==
  /\ Running(p, "top")
  /\ Receive(p, ANY) /\ Goto(p, "got")
  /\ UNCHANGED <<src, ttyVars, outside>>

----------------------------------------------------------------------------
\* User processes: lib/read.c, write.c, open.c, fork.c and kernel/main.c.
ServerFor(kind) == CASE kind = "FORK" -> MM
                     [] kind = "GET_TICKS" -> SYS
                     [] OTHER -> FS

\* fork() asserts RETVAL == 0: a user process spins in the failed assertion.
Spins(u) == buf[u].source = MM /\ Got(u, "FORK_FAILED")

UserCall(u) ==
  /\ Running(u, "top") /\ u \in alive /\ ~Spins(u)
  /\ \E kind \in scenario.asks[u] :
       SendRec(u, ServerFor(kind), Say(kind, NO_TASK, scenario.terminal[u]))
  /\ Goto(u, "called")
  /\ UNCHANGED <<src, ttyVars, outside>>

UserAwait(u) ==
  /\ Await(u, "called", "top")
  /\ UNCHANGED <<src, ttyVars, outside>>

User(u) == UserCall(u) \/ UserAwait(u)

----------------------------------------------------------------------------
\* Variant with a fault: the case of a request ends without its SEND.
SysForgets ==
  /\ Running(SYS, "got") /\ Goto(SYS, "top")
  /\ UNCHANGED <<vars, src, ttyVars, outside>>

\* task_sys
SysAnswer ==
  /\ Running(SYS, "got")
  /\ Send(SYS, buf[SYS].source, buf[SYS].type) /\ Goto(SYS, "top")
  /\ UNCHANGED <<src, ttyVars, outside>>

Sys == GetWork(SYS) \/ SysAnswer

\* Variant with a fault: the child may run at once.
ChildRuns(parent) == {}

ChildFlags(parent) == p_flags[parent]

\* task_mm, do_fork().  The child's slot becomes a copy of the parent's: it is
\* blocked where the parent is, or runs if the parent was preempted between the
\* SEND and the RECEIVE of its call.  Without a free slot the call fails.
MmCopySlot ==
  /\ Running(MM, "got") /\ Got(MM, "FORK")
  /\ LET parent == buf[MM].source
         CopyOf(f, c) == [f EXCEPT ![c] = f[parent]]
     IN
     /\ src' = [src EXCEPT ![MM] = parent]
     /\ \/ /\ Users \subseteq alive
           /\ child' = NO_TASK /\ Goto(MM, "child_done")
           /\ UNCHANGED <<vars, alive, memory>>
        \/ \E c \in Users \ alive :
             /\ child' = c /\ alive' = alive \union {c}
             /\ p_flags' = [p_flags EXCEPT ![c] = ChildFlags(parent)]
             /\ p_recvfrom' = CopyOf(p_recvfrom, c)
             /\ p_sendto' = CopyOf(p_sendto, c)
             /\ p_msg' = CopyOf(p_msg, c)
             /\ has_int_msg' = CopyOf(has_int_msg, c)
             /\ q_sending' = CopyOf(q_sending, c)
             /\ reply_from' = CopyOf(reply_from, c)
             /\ buf' = CopyOf(buf, c)
             /\ memory' = CopyOf(memory, c)
             /\ pc' = [pc EXCEPT ![c] = pc[parent], ![MM] = "slot"]
             /\ UNCHANGED halted
  /\ UNCHANGED <<ttyVars, scenario, drive, counted>>

\* The parent's memory is copied and the child's segments point at the copy.  There is
\* memory for every slot, and code and data of a process are one segment: the assertions
\* of lines 54-56 and the panics of alloc_mem() (mm/main.c:53-59) are left out.
MmCopyMemory ==
  /\ Running(MM, "slot")
  /\ memory' = [memory EXCEPT ![child] = child]
  /\ buf' = [buf EXCEPT ![child] = buf[src[MM]]]
  /\ Goto(MM, "memory")
  /\ UNCHANGED <<ipcVars, reply_from, halted, src, ttyVars, scenario, drive,
                 alive, child, counted>>

\* Variant with a fault: FS is not told.
MmForgetsFs ==
  /\ Running(MM, "memory") /\ Goto(MM, "fs_done")
  /\ UNCHANGED <<vars, src, ttyVars, outside>>

MmToFs ==
  /\ Running(MM, "memory")
  /\ SendRec(MM, FS, Say("FORK", child, HD)) /\ Goto(MM, "fs")
  /\ UNCHANGED <<src, ttyVars, outside>>

MmAwait ==
  /\ Await(MM, "fs", "fs_done")
  /\ UNCHANGED <<src, ttyVars, outside>>

MmAnswerChild ==
  /\ Running(MM, "fs_done")
  /\ Send(MM, child, Say("SYSCALL_RET", NO_TASK, HD)) /\ Goto(MM, "child_done")
  /\ UNCHANGED <<src, ttyVars, outside>>

MmAnswer ==
  /\ Running(MM, "child_done")
  /\ Send(MM, src[MM], Say(IF child = NO_TASK THEN "FORK_FAILED" ELSE "SYSCALL_RET",
                           NO_TASK, HD))
  /\ child' = NO_TASK /\ Goto(MM, "top")
  /\ UNCHANGED <<src, ttyVars, scenario, drive, alive, memory, counted>>

Mm == \/ GetWork(MM) \/ MmCopySlot \/ MmCopyMemory \/ MmToFs \/ MmAwait
      \/ MmAnswerChild \/ MmAnswer

----------------------------------------------------------------------------
\* task_fs.  A terminal is read and written by TTY (do_rdwt, lines 36-56),
\* and opened by it once its directory entry and inode were read (do_open).
FsToTty ==
  /\ \/ /\ Running(FS, "got") /\ (Got(FS, "READ") \/ Got(FS, "WRITE"))
        /\ src' = [src EXCEPT ![FS] = buf[FS].source]
        /\ LET kind == IF Got(FS, "READ") THEN "DEV_READ" ELSE "DEV_WRITE" IN
             SendRec(FS, TTY, Say(kind, buf[FS].source, buf[FS].type.dev))
     \/ /\ Running(FS, "opening")
        /\ SendRec(FS, TTY, Say("DEV_OPEN", NO_TASK, scenario.terminal[src[FS]]))
        /\ UNCHANGED src
  /\ Goto(FS, "tty")
  /\ UNCHANGED <<ttyVars, outside>>

FsTtyAwait ==
  /\ Await(FS, "tty", "tty_done")
  /\ UNCHANGED <<src, ttyVars, outside>>

\* a read that TTY suspends is not answered now: FS looks for other work,
FsSuspend ==
  /\ Running(FS, "tty_done") /\ Got(FS, "SUSPEND_PROC")
  /\ Receive(FS, ANY) /\ Goto(FS, "got")
  /\ UNCHANGED <<src, ttyVars, outside>>

\* but when TTY says RESUME_PROC, to the process PROC_NR.
FsResume ==
  /\ Running(FS, "got") /\ Got(FS, "RESUME_PROC")
  /\ Send(FS, buf[FS].type.about, Say("SYSCALL_RET", NO_TASK, HD))
  /\ Goto(FS, "top")
  /\ UNCHANGED <<src, ttyVars, outside>>

\* A file is read from the disk, and for a write written back (lines 77-92); a
\* terminal's inode is read before it is opened.
FsToHd ==
  /\ \/ Running(FS, "got") /\ \E kind \in {"OPEN", "FILE_READ", "FILE_WRITE"} : Got(FS, kind)
     \/ Running(FS, "read_done")
  /\ IF pc[FS] = "got"
       THEN /\ src' = [src EXCEPT ![FS] = buf[FS].source]
            /\ SendRec(FS, HD, Say("DEV_READ", FS, HD))
            /\ Goto(FS, CASE Got(FS, "FILE_READ") -> "hd"
                          [] Got(FS, "OPEN") -> "hd_inode"
                          [] OTHER -> "hd_first")
       ELSE /\ SendRec(FS, HD, Say("DEV_WRITE", FS, HD))
            /\ Goto(FS, "hd") /\ UNCHANGED src
  /\ UNCHANGED <<ttyVars, outside>>

FsHdAwait ==
  /\ \/ Await(FS, "hd", "hd_done")
     \/ Await(FS, "hd_first", "read_done")
     \/ Await(FS, "hd_inode", "opening")
  /\ UNCHANGED <<src, ttyVars, outside>>

\* Variant with a fault: a suspended call is answered too.
FsAnswerSuspended ==
  /\ Running(FS, "hd_done") \/ Running(FS, "tty_done")
  /\ Send(FS, src[FS], Say("SYSCALL_RET", NO_TASK, HD))
  /\ Goto(FS, "top")
  /\ UNCHANGED <<src, ttyVars, outside>>

FsAnswer ==
  /\ \/ Running(FS, "hd_done")
     \/ Running(FS, "tty_done") /\ ~Got(FS, "SUSPEND_PROC")
  /\ Send(FS, src[FS], Say("SYSCALL_RET", NO_TASK, HD))
  /\ Goto(FS, "top")
  /\ UNCHANGED <<src, ttyVars, outside>>

\* fs_fork(): the child's descriptors are counted.
FsFork ==
  /\ Running(FS, "got") /\ Got(FS, "FORK")
  /\ counted' = counted \union {buf[FS].type.about}
  /\ Send(FS, buf[FS].source, Say("SYSCALL_RET", NO_TASK, HD))
  /\ Goto(FS, "top")
  /\ UNCHANGED <<src, ttyVars, scenario, drive, alive, child, memory>>

Fs == \/ GetWork(FS) \/ FsToTty \/ FsTtyAwait \/ FsSuspend \/ FsResume
      \/ FsToHd \/ FsHdAwait \/ FsAnswer \/ FsFork

----------------------------------------------------------------------------
\* task_hd.  waitfor() asks SYS for the time; a read is command, interrupt,
\* a write is command, waitfor() again, data, interrupt.
HdWaitfor ==
  /\ \/ Running(HD, "got") /\ (Got(HD, "DEV_READ") \/ Got(HD, "DEV_WRITE"))
     \/ Running(HD, "command") /\ src[HD].kind = "DEV_WRITE"
  /\ src' = IF pc[HD] = "got"
              THEN [src EXCEPT ![HD] = [proc |-> buf[HD].source,
                                        kind |-> buf[HD].type.kind]]
              ELSE src
  /\ SendRec(HD, SYS, Say("GET_TICKS", NO_TASK, HD))
  /\ Goto(HD, IF pc[HD] = "got" THEN "ready" ELSE "drq")
  /\ UNCHANGED <<ttyVars, outside>>

HdAwait ==
  /\ Await(HD, "ready", "command") \/ Await(HD, "drq", "data")
  /\ UNCHANGED <<src, ttyVars, outside>>

\* The drive starts on the sector, and HD waits for its interrupt.
HdStart ==
  /\ \/ Running(HD, "command") /\ src[HD].kind = "DEV_READ"
     \/ Running(HD, "data")
  /\ drive' = "busy"
  /\ Goto(HD, "started")
  /\ UNCHANGED <<vars, src, ttyVars, scenario, forkVars>>

\* Variant with a fault: the interrupt that ends a write is not waited for.
HdWaitForReads ==
  /\ Running(HD, "started") /\ Goto(HD, "interrupted")
  /\ IF src[HD].kind = "DEV_READ" THEN Receive(HD, INTERRUPT) ELSE UNCHANGED vars
  /\ UNCHANGED <<src, ttyVars, outside>>

HdWait ==
  /\ Running(HD, "started") /\ Receive(HD, INTERRUPT) /\ Goto(HD, "interrupted")
  /\ UNCHANGED <<src, ttyVars, outside>>

HdAnswer ==
  /\ Running(HD, "interrupted")
  /\ Send(HD, src[HD].proc, Say(src[HD].kind, NO_TASK, HD)) /\ Goto(HD, "top")
  /\ UNCHANGED <<src, ttyVars, outside>>

Hd == GetWork(HD) \/ HdWaitfor \/ HdAwait \/ HdStart \/ HdWait \/ HdAnswer

----------------------------------------------------------------------------
\* Variant with a fault: tty_left_cnt is not cleared.
TtyLineKeeps(t) ==
  /\ Running(TTY, "top") /\ t \in typed
  /\ typed' = typed \ {t}
  /\ IF tty_procnr[t] = NO_TASK
       THEN UNCHANGED vars
       ELSE Send(TTY, FS, Say("RESUME_PROC", tty_procnr[t], t))
  /\ UNCHANGED <<pc, src, tty_procnr, lines, key_pressed, overtaken, outside>>

\* task_tty.  Each round it looks at every terminal's input (tty_dev_read,
\* tty_dev_write): a line it finds finished goes to who reads, or to nobody.  It
\* may not get as far as the end of a line (one scan code is read in a round;
\* module Tty), and then waits for a message with the line still to come.
TtyLine(t) ==
  /\ Running(TTY, "top") /\ t \in typed
  /\ typed' = typed \ {t}
  /\ IF tty_procnr[t] = NO_TASK
       THEN UNCHANGED <<vars, tty_procnr>>
       ELSE /\ Send(TTY, FS, Say("RESUME_PROC", tty_procnr[t], t))
            /\ tty_procnr' = [tty_procnr EXCEPT ![t] = NO_TASK]
  /\ UNCHANGED <<pc, src, lines, key_pressed, overtaken, outside>>

TtyHardInt ==
  /\ Running(TTY, "got") /\ buf[TTY].type = HARD_INT
  /\ key_pressed' = FALSE /\ Goto(TTY, "top")
  /\ UNCHANGED <<vars, src, tty_procnr, typed, lines, overtaken, outside>>

TtyRead ==
  /\ Running(TTY, "got") /\ Got(TTY, "DEV_READ")
  /\ LET t == buf[TTY].type.dev IN
       /\ tty_procnr' = [tty_procnr EXCEPT ![t] = buf[TTY].type.about]
       /\ overtaken' = overtaken \union ({tty_procnr[t]} \ {NO_TASK})
  /\ Send(TTY, buf[TTY].source, Say("SUSPEND_PROC", NO_TASK, HD))
  /\ Goto(TTY, "top")
  /\ UNCHANGED <<src, typed, lines, key_pressed, outside>>

TtyWrite ==
  /\ Running(TTY, "got") /\ (Got(TTY, "DEV_WRITE") \/ Got(TTY, "DEV_OPEN"))
  /\ Send(TTY, buf[TTY].source, Say("SYSCALL_RET", NO_TASK, HD))
  /\ Goto(TTY, "top")
  /\ UNCHANGED <<src, ttyVars, outside>>

Tty == \/ \E t \in Ttys : TtyLine(t)
       \/ GetWork(TTY) \/ TtyHardInt \/ TtyRead \/ TtyWrite

----------------------------------------------------------------------------
\* The keyboard handler takes a key that ends a line; the clock handler tells
\* TTY as long as key_pressed is set; the drive is done with a sector.
Type(t) ==
  /\ ~halted /\ t \notin typed /\ lines < scenario.lines /\ lines' = lines + 1
  /\ typed' = typed \union {t} /\ key_pressed' = TRUE
  /\ UNCHANGED <<vars, pc, src, tty_procnr, overtaken, outside>>

ClockInforms ==
  /\ key_pressed /\ InformInt(TTY)
  /\ UNCHANGED programVars

DriveInforms ==
  /\ drive = "busy" /\ InformInt(HD) /\ drive' = "idle"
  /\ UNCHANGED <<pc, src, ttyVars, scenario, forkVars>>

ServersNext ==
  \/ \E u \in Users : User(u)
  \/ Tty \/ Sys \/ Hd \/ Fs \/ Mm
  \/ \E t \in scenario.keyboards : Type(t)
  \/ ClockInforms \/ DriveInforms

\* Every process the scheduler owes the processor gets it (Sched), clock and
\* drive interrupts keep coming.  Users need not call and nobody need type.
ServersFairness ==
  /\ \A u \in Users : WF_serverVars(UserAwait(u))
  /\ WF_serverVars(Tty) /\ WF_serverVars(Sys) /\ WF_serverVars(Hd)
  /\ WF_serverVars(Fs) /\ WF_serverVars(Mm)
  /\ WF_serverVars(ClockInforms) /\ WF_serverVars(DriveInforms)

ServersSpec == ServersInit /\ [][ServersNext]_serverVars
FairServersSpec == ServersSpec /\ ServersFairness

----------------------------------------------------------------------------
\* Properties.

\* A task that answers a user process finds it waiting for that very answer: no
\* answer goes to a process that did not call, or has been answered, and no task
\* is left sleeping in a SEND to a process that will not receive.  And what a
\* process has when its call is over is the answer of the server it called, not a
\* message of some other step of the conversation between the tasks.
AnswersAreAwaited ==
  /\ \A p \in Tasks :
       Sending(p) /\ p_sendto[p] \in Users => reply_from[p_sendto[p]] = p
  /\ \A u \in Users :
       Running(u, "top") /\ buf[u].source # u =>
         /\ buf[u].source \in {FS, SYS, MM}
         /\ Got(u, "SYSCALL_RET") \/ Got(u, "GET_TICKS") \/ Spins(u)

\* The suspended reader of a terminal sleeps until it is resumed: TTY's record
\* of it never points at a process that does something else.
InCall(u) == pc[u] = "called" \/ Receiving(u)

ReaderSleeps ==
  \A t \in Ttys :
    tty_procnr[t] # NO_TASK =>
      InCall(tty_procnr[t]) /\ FS \in {p_recvfrom[tty_procnr[t]],
                                       reply_from[tty_procnr[t]]}

\* deadlock() stops the system for one reason only: of FS and TTY, one calls the
\* other while the other is calling it.  No other chain of calls among the tasks
\* closes a cycle, and no assertion of proc.c fails: the interrupt a task did not ask for,
\* that line 519 refuses to sleep over, never comes, for the drive is silent while
\* HD asks SYS for the time, and task_hd never gets an interrupt for a request.
OnlyFsAndTtyDeadlock ==
  /\ halted => \/ Sending(TTY) /\ p_sendto[TTY] = FS /\ pc[FS] = "tty"
               \/ Sending(FS) /\ p_sendto[FS] = TTY /\ pc[TTY] = "top"
  /\ has_int_msg[HD] => pc[HD] = "started"
  /\ pc[HD] = "got" /\ Runnable(HD) => buf[HD].type # HARD_INT

\* do_fork() makes a process out of a copied slot while the kernel's own calls go
\* on: the table stays one that msg_send() and msg_receive() can work with.
TableConsistent == FlagsInv /\ QueueInv /\ NoMissedRendezvous

\* A child does nothing of its own before it is whole: until it has its own
\* memory and FS has counted its descriptors it is inside its copy of the
\* parent's call to MM, whether it was copied asleep or running.
ChildIsWhole ==
  \A u \in alive :
    memory[u] # u \/ u \notin counted =>
      InCall(u) /\ MM \in {p_recvfrom[u], reply_from[u]}

\* Every call is answered, whatever the others do: only a suspended reader of a
\* terminal may wait for ever, and one whose place in tty_procnr a second reader
\* of the terminal took.
CallsAreAnswered ==
  \A u \in Users :
    InCall(u) ~> \/ ~InCall(u) \/ halted
                 \/ tty_procnr[scenario.terminal[u]] = u \/ u \in overtaken
=============================================================================
