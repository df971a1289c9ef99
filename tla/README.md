# OSin32bits in TLA+

OSin32bits is a 32-bit microkernel in the style of Orange'S: a small kernel with
message passing and a scheduler, four tasks that serve requests (terminal, system,
disk, file system), a memory manager, and user processes. This directory holds TLA+ modules
that model its core, TLC configurations that check them on small instances,
and proofs, checked by TLAPS, of what holds for every instance.

Contents

1. The system: components, state, interactions, what is hard
2. Plan: modules, order, what is left
3. The modules and how they correspond to the code
4. The runs: bounds, what each shows, fairness
5. Disagreements found between the code and what it says of itself
6. The proofs
7. What is only model-checked, what is not modelled, and why

`tlc -config X.cfg M` checks a run, `tlapm M.tla` a proof module.

## 1. The system

| Component | State | Operations | Where |
|---|---|---|---|
| Message passing | per process `p_flags`, `p_recvfrom`, `p_sendto`, `p_msg`, `has_int_msg`, `q_sending` | `send_recv` (SEND, RECEIVE, BOTH), `inform_int` | kernel/proc.c |
| Scheduler, kernel entry | `p_proc_ready`, `ticks`, `k_reenter`, interrupt mask | `schedule`, `block`, `clock_handler`, `save`, `sys_call`, `restart` | kernel/proc.c, clock.c, kernel.asm |
| TTY task | per terminal: input ring, pending read; console on screen | DEV_OPEN, DEV_READ, DEV_WRITE, HARD_INT | kernel/tty.c |
| Keyboard | ring of 32 scan codes, `key_pressed`, modifier keys | interrupt handler, `keyboard_read` | kernel/keyboard.c |
| Console | cursor and window of each console, video memory, CRTC registers | `out_char`, `scroll_screen`, `select_console`; `printx` | kernel/console.c, tty.c |
| SYS task | clock ticks | GET_TICKS, GET_PID, time, reboot | kernel/systask.c |
| HD task | `hd_info` (partitions found), `open_cnt`, the request in progress | DEV_OPEN, CLOSE, READ, WRITE, IOCTL | kernel/hd.c |
| FS task | inode table, descriptor table, `filp` of each process; on disk: two bitmaps, inodes, root directory | OPEN, CLOSE, READ, WRITE, UNLINK, FORK, RESUME_PROC | fs/ |
| MM task | proc slots, memory | FORK | mm/ |
| User library | none | one `send_recv(BOTH)` per call | lib/ |
| Boot, loader, protection, 8259 | set up once | | boot/, kernel/ |

How they interact. A user process calls FS, MM or SYS with `send_recv(BOTH)`: a
SEND, then a RECEIVE from the same server. FS calls HD for every
sector and TTY for terminals, HD calls SYS for the time, MM calls FS when a process
forks. A read of a terminal is answered in two steps: TTY tells FS to *suspend* the caller,
FS goes on with other work, and when the line is complete TTY *sends* FS a
RESUME_PROC, which FS turns into the caller's answer. Interrupts reach tasks
through `inform_int`: the clock handler informs TTY while `key_pressed` is set,
the disk handler informs HD. Keyboard handler and TTY share the scan-code
ring and `key_pressed`.

What is hard.

* System calls run in the kernel with interrupts enabled (kernel.asm:301), so
  `inform_int` can strike between any two statements of `msg_send` and
  `msg_receive`, and clock and device interrupts between those of `schedule`.
* Synchronous calls among servers can form cycles; `deadlock()` detects cycles of SENDs only.
* Answers are delayed (suspended reads), so an answer must find the right call.
* The file system caches inodes, shares descriptors over `fork`, and writes
  several sectors per request with power failures between them.
* Bitmaps, chunks of sectors and a line editor with limits: boundaries and off-by-ones.
* Rings and counters shared with interrupt handlers; consoles shared by TTY, which can be
  preempted, and `printx`, which prints from inside the kernel.
* `do_fork` copies the slot of a parent that is in the middle of a system call.

What makes each component correct (each becomes a property of section 4):
the proc table's fields and queues agree, no message is lost, no rendezvous is missed, no wrong
answer; a blocked process never runs and a ready one eventually does; every call
is answered, once, by its server; descriptors keep their inodes, the directory is sound at
every moment the power may fail, no file changes another's bytes; the sector
map is exact; the driver finds the disk's partitions and keeps them apart, in step with the drive;
no key is lost or given to the wrong reader; the user sees what was written; a child does nothing
of its own before it is whole.

## 2. Plan

| # | Module | About | Composes / refines | Status |
|---|---|---|---|---|
| 1 | Ipc | system calls as atomic steps | implements Rendezvous | checked, proved |
| 2 | IpcProofs | theorems about Ipc | | proved |
| 3 | IpcIrq, IpcAtomic | the calls statement by statement, with interrupts | implements Ipc outside a window | checked, safety and refinement proved (IpcIrqProofs) |
| 4 | Sched, SchedProofs | schedule(), clock, kernel entry | | checked, safety proved |
| 5 | Servers | the tasks as programs over Ipc | composes Ipc, TTY, SYS, HD, FS, MM and users | checked, safety proved (ServersProofs) |
| 6 | Fs | tables, directory, crashes | implements FileStore; uses extents | checked, tables, maps and names proved (FsProofs) |
| 7 | FsRw | do_rdwt byte by byte | implements FileBytes | checked, proved (SectorProofs) |
| 8 | Smap | the sector map | implements Extents, which Fs relies on | checked, proved (SectorProofs) |
| 9 | Hd | driver and drive, opening the disk, partition() | implements BlockDevice | checked, safety and refinement proved (HdProofs) |
| 10 | Tty | keyboard, ring, line editor | | checked, safety proved (TerminalProofs) |
| 11 | Console | out_char, scroll_screen, printx against TTY | | checked, safety proved (TerminalProofs) |
| 12 | do_fork | the copied slot, the calls and answers around it | part of Servers; descriptors in Fs | checked, the table and the child proved (ServersProofs) |
| 13 | FsProofs | theorems about Fs | | proved |

Left for existing modules: lock keys and `set_leds` against the keyboard handler (Tty);
what follows a power failure in an unlink (Fs).

## 3. The modules and the code

**Ipc** (kernel/proc.c). State is the proc table field by field: `p_flags` as a
set, `q_sending` as a sequence in place of the linked list, `p_msg` as "is the
pointer non-null" with the message it points to in `buf[p]`, the one MESSAGE a
process hands to the kernel. `reply_from` is the program counter inside
`send_recv(BOTH)`. One action is one call: `Send`, `SendRec` (first
half of BOTH), `Reply` (second half), `Receive`, and `InformInt` for the
interrupt handlers. `Handover`, `Enqueue`, `PanicOnCycle` are the three ways
through `msg_send`; `TakeInterrupt`, `TakeMessage`, `BlockReceiving` those
through `msg_receive`. `Deadlock` says "src is reachable from dest along
`p_sendto`" as "src is in every set that holds dest and is closed": this
is what the loop computes, and a form the provers can use. **Rendezvous** is the
promise: offers and wants, no flags or queues.

**IpcIrq** takes the calls apart: `call` is the call in progress with its pc, each
test and assignment of `msg_send`/`msg_receive` an interrupt can matter to
is a step, and `Irq` may come at any moment. Runs of statements no handler can
observe (queue surgery, a sender's own fields) are one step. `failed` is the line of the
failed assertion, `wild` that something was written through a null `p_msg`.
**IpcAtomic** adds two history variables and the refinement mapping back to Ipc: a call takes
effect when it ends or when its hand-over makes the partner runnable.

**Sched** (schedule, block, clock_handler, save/sys_call/restart). `pc` is where
the kernel is; `masked` says that schedule() was called by the clock handler
(hwint_master masks that line); what a process waits for is reduced to
`blocked`. `IntTasks` are woken by interrupts at any moment.

**Servers** extends Ipc with one program counter per process. Each task's loop is
a set of actions, one per `send_recv` with the statements before it. The data
of requests is reduced to message type, process and device. Disk requests stand
for every request that reads or reads and writes sectors; they differ in the
number of rounds with HD only. A terminal is opened through the disk first. `TtyLine` is
left free: TTY may find a finished line on any visit or later. do_fork() is taken apart:
`MmCopySlot` copies the parent's slot of the proc table as it is, asleep or preempted
between the two halves of its call, `MmCopyMemory` its memory, `MmToFs` and `FsFork` count
its descriptors, `MmAnswerChild` and `MmAnswer` end the call for both. `overtaken` remembers
readers whose place in `tty_procnr` a second reader of the terminal took.

**Fs** (fs/). The tables are functions, the disk a record of bitmaps, inodes,
directory and its size. A request computes its new tables at once (FS serves
one at a time) and the list of states its sector writes lead through
(`pending`); `Flush` performs one write, `Reboot` may come between two.
The directory keeps its quirks: the search sees one entry beyond the size, the
size shrinks only under the condition in do_unlink, refusals after get_inode keep
the count. A name has a length (`NameLength`) and the field it is copied into a `mark`, how far that has bytes: strcpy()
leaves the rest of a longer name that was never cleared, and search_file() compares the whole field (`Clean`).
`op` names the request in progress, its path and the inode the path shall lead to. **FileStore** is the promise: names come and go
one at a time and only when asked for, and when a request is answered its name leads where it shall.

**FsRw** (do_rdwt). Sectors have `SECTOR_SIZE` bytes, chunks `FSBUF_SECTS`
sectors; `CopyRound` is the body of the loop with its off, bytes, chunk and bytes_rw, `Copied` the loop: which places of the
caller's buffer meet which places of the disk, in the order of the copies. A WRITE has the bytes its caller gives it
(`WriteData`, any sequences), each at its place in the buffer; a READ fills a buffer by the same places. `careful` is
chosen at the start: processes take no descriptor beyond its file's room, or they write `LongData` and read on
up to `MaxPos`. **FileBytes** is the promise: the bytes `given` to a write appear at the position, in their order.

**Smap** (alloc_smap_bit, the release in do_unlink, mkfs). A byte is a set of
bits; `AllocByte` is the body of the allocation loop, `AllocLoop` the loop, as a function of the
bytes done; `FreedIn` the three parts of the release. **Extents** is the
map as Fs uses it.

**Hd** (kernel/hd.c) with an ATA drive in programmed-transfer mode. The
drive is external: it is modelled from the registers the driver uses (BSY, DRQ, INTRQ, the
data port). Sectors are values; what the disk's partition tables say is a *layout*, chosen at the
start. The first DEV_OPEN runs hd_identify() and partition(): one command and interrupt per table, primary entries first,
then along the chain of tables inside an extended one, filling `hd_info` entry by entry.
A layout is a disk the driver can make sense of: an unused entry has size 0, the tables of a chain
are different sectors, and no sector belongs to two partitions (`LayoutType`).
**BlockDevice** is the promise: every partition is a store of its own.

**Terminals** counts them; Console and Tty stand on it.

**Console** (kernel/console.c). `screen` is the video memory, console_table and the CRTC. The
operators on it (`Put`, `Store`, `CopyToTop`, `Home`, `scroll_screen`, ...) are the
statements of out_char(); `OutChar` composes them into the one step `Printx` takes, the `Tty...` actions
take them one by one (`writer` says where TTY is), with the load and store of `cursor++` apart. `paper` is a history: what a
roll of paper would show, against which the screen is compared.

**Tty** (kernel/tty.c, kernel/keyboard.c). The ring, `key_pressed`, `informed` (a
HARD_INT under way), the TTY loop with its pc and the terminal it visits, the
input buffer and pending read of each terminal. `typed` is a history of
accepted codes, against which the properties compare: `Meaning` and `Line` say what keys
mean without the task, `AfterCode` and `AfterKey` for one code and one key.

Operators introduced by "Variant with a fault" (or "Variant") are seeded
faults: each is the definition below it with one plausible slip. No
specification uses them; putting one in place of its original makes TLC report a
property violated, which shows that the property can fail.

## 4. The runs

| Run | Module, cfg | Bounds | Distinct states |
|---|---|---|---|
| ipc | MCIpc | 4 processes, one informed by interrupts, one message type | 62 thousand |
| ipc_irq | MCIpcIrq | 3 processes | 164 thousand |
| sched | MCSched | a task, two processes, Init; rounds of 4 and 2 ticks; 2 nested interrupts | 49 thousand |
| servers | MCServers | five tasks, two user processes, two terminals, seven scenarios | 73 thousand |
| fs | MCFs | 2 processes, 2 names of 1 and 3 characters, 4 inodes, 2 extents, 3 table slots, 4 entries a sector, 1 restart | 280 thousand |
| fs_rw | MCFsRw | 2 files of 3 sectors of 2 bytes, chunks of 2 sectors, 3 descriptors | 76 thousand |
| smap | Smap, MCSmap | bytes of 4 bits, 8 bytes, file sizes 3 to 15 | 667 |
| hd | MCHd | 10 sectors in four layouts, requests of up to 3 sectors, count limit 2 | 109 thousand |
| tty | MCTty | 2 consoles, ring of 2, 4 codes typed of 6 kinds, 2 reads | 3.0 million |
| console | MCConsole | 2 consoles of 3 rows of 2 cells, screen of 2 rows, 1 printx | 566 thousand |
| ipc_lost | MCIpcIrq_Delivered | as ipc_irq | violation |
| fs_shared | MCFs_Rdwt33 | as fs, no restart | violation |

**ipc**: four processes give cycles of senders of length 2, 3 and 4, queues of three with
a removal from the middle, and interrupts for a task in every state. `FlagsInv`,
`QueueInv`, `NoMissedRendezvous`, `NoSendCycle` are the table's consistency;
`HandedOverOnce` and `AnswersMatch` say what a step may never do;
`RefinesRendezvous` that all this is synchronous message passing. One message type suffices:
messages are told apart by source. The run says SYMMETRY in the processes that
are interchangeable; all its properties are safety.

**ipc_irq**: `RefinesIpc` says that until an interrupt strikes inside the window of
IpcAtomic the statements implement the atomic calls, and that until then the only assertion to fail
is the one an unasked interrupt meets (`OnlyUnaskedInterruptFails`, a part of it); `OnlyInterruptedFail`
says for whom assertions can fail at all; `RestConsistent` that between calls the table is
consistent no matter what struck. Three processes allow a caller, its partner and a third in the queue.

**sched**: `RunningIsReady`, `RoundsAreUsedUp` under interrupts between all
statements; `NoStarvation` under fairness. Two ticks already separate
"used up", "one left" and "full"; two nested interrupts can take them both.

**servers**: seven scenarios, because together they would be too many states: two terminals,
one of them typed on; one reader and two lines; files and the time; a terminal opened through the
disk while another is read; two readers of one terminal; a child that reads the terminal of its
parent; forks for which no slot is left.
`AnswersAreAwaited` relates every answer to the call it ends; `ReaderSleeps` TTY's record
to the reader. `OnlyFsAndTtyDeadlock` says what can stop the system: the one
cycle of section 5, and nothing else, no stray interrupt either. `TableConsistent` and
`ChildIsWhole` are about do_fork(): a copied slot keeps Ipc's invariants, and the child stays in its
copy of the parent's call until memory and descriptors are its own.
`CallsAreAnswered` is liveness, with the two exceptions its comment names. Two lines typed
reach a resume during a call and one after it. The bound on lines also bounds how long the
keyboard can keep TTY busy with interrupts, see hazards.

**fs**: three slots for inodes (the root takes one), so the table fills; five bits of inode map,
so it fills; two names, so a slot in the directory is reused and, with four entries to a sector,
the directory ends with its sector and shrinks; one descriptor per process of two; counts up to 2.
The machine may be started again between requests, after a failed assertion, and between the writes of a creation. In an
unlink it may not (`CrashIn`): there the code leaves a name that leads nowhere. `SoundOnDisk` says how
bad that is: at every moment of every request the directory is sound but for the entry being removed. What
a system started with such an entry would do is not followed. The names have one and three characters, so the first
copied over the second leaves a tail, which takes an entry nobody cleared: one a power failure or a shrinking left
behind the directory's end, or a creation without an inode left in it. `KeepsFiles` has two exceptions, both of section 5: the shrinking (`CutsOff`), and a name
copied over a longer one (`Hides`); TLC finds it violated without either. `CacheCoherent` and the assertions in
`SoundOnDisk` except an entry cut off that way. `LeaksBounded` says which steps may
lose an inode, and that each loses at most one. No name has
twelve characters: one that has overwrites its neighbour's entry (a listed hazard). `MaxEntries` bounds the directory in
the model; it is never reached (`DirectoryFits`).

**fs_rw**: the bytes written tell their places in the writer's buffer. Writes of 1 and 5 bytes at every offset begin and
end inside and at the edge of sectors; 5 bytes of a file of three sectors take two rounds of chunks of two sectors, the second of
which takes a sector of the next file along. Writes of 3 and 8 bytes, if nobody is careful, go beyond the room of 6 and
beyond the chunk behind it; reads move positions up to 8. `KeepsBytes` is for careful processes: with bytes_rw left at 0 (line 93)
the second round would repeat the bytes of the first, and TLC finds it;
`NeighboursUntouched` also says how far a careless write reaches into the next file; `ReadsFromStart` compares what lies in the
reader's buffer, place by place.

**smap**: sizes 3 to 15 with bytes of four bits give every alignment of a file in
its bytes, of one to four bytes; the map holds several files. `MapExact` includes that
allocation stops the system only when the map has no room.

**hd**: three sectors against a count of two make both the request that fits and the one that
does not; `RequestsEnd` is conditional on it. The layouts: a primary partition before an extended one with two
logical ones; a chain of logical partitions longer than the device has numbers; an empty extended partition; an
empty table, for which hd_open() fails its assertion. `PartitionsFound` compares `hd_info` with the layout;
`RefinesBlockDevice` would fail as soon as commands, interrupts and data port were out
of step, or a sector of another device were touched.

**tty**: a ring of two fills, wraps and drops; four codes contain a line with a
correction and its end, a console change in a line, and an E0 prefix with its
byte. `PatientTypistIsRead` assumes a typist who waits for the ring to be
empty; a faster one can leave codes in the ring until the next key, because
TTY takes one code per console and HARD_INT.

**console**: three rows against a screen of two, so the window scrolls, wraps to the top and stands
at either end, above, on and below the cursor; two cells make the first, the last and the cell after a row different;
two consoles have one neighbour to spill into; a printx() may come at each statement of TTY. One letter suffices,
since cells are compared with `paper`. TTY writes any character at any time, '\b' included, as tty_do_write() does for any
process (tty.c:143-145). `ShowsWhatWasWritten` says what the user sees; `OnlyRacesFail` that out_char() asserts, and
sys_printx() loops in vain, only when a printx() cut in; `OutCharReturns` that TTY gets out of out_char() unless a printx() cut in or
'\b' took the cursor above the window of a console that is not full (`CursorAbove`): scroll_screen(SCR_UP) does nothing there and the loop of l.90
has no end (section 5). `OnlyBlanksSpill` says how far a console reaches into its neighbour. After a race (`raced`), text
written while the user has scrolled old rows onto the screen below the cursor, or '\b' back to rows the roll of paper does not
hold any more (`mixed`) TTY only finishes what it has begun. The user's Strings of printx() hold no '\b' (printl() prints text).

Deadlock checking is off where the system really stops: after a panic or failed
assertion (ipc, ipc_irq, servers, fs, smap, console) and after a disk request too long for the count (hd).

**Fairness.** Sched: weak fairness of the kernel's own statements (the processor
executes them) and strong fairness of the clock interrupt at user level (the
timer never stops and is not in step with the calls). Servers: weak
fairness of each task and of a user's return from a call; justified by
`NoStarvation` of Sched. Users need not call and nobody need type. Clock and drive
interrupts are weakly fair. Hd: weak fairness of the task, of the
drive's progress and of the handler. Tty: weak fairness of the task
and of the clock handler. Console: weak fairness of TTY.

## 5. Where the code and its words disagree

* `ipc_lost`: an interrupt in the hand-over of msg_send() overwrites the message
  (comment at proc.c:282-283).
* `OnlyFsAndTtyDeadlock` (holds, with the case it names reached): a resume of a terminal read and a call
  of FS to TTY close a cycle; msg_send() panics on ordinary system calls (proc.c:301).
* `KeepsFiles` (holds but for `CutsOff`, which is reached): a full last sector of the directory shrinks
  to the number of its entries (link.c:145-147) and cuts a file off; removing that file
  fails the assertion at link.c:144.
* `KeepsFiles` (holds but for `Hides`, which is reached): do_open() answers a creation with a descriptor, and the name it gave
  the file is not found again: strcpy() (open.c:223) put it over a longer one in an entry that was not cleared,
  and memcmp() (misc.c:54) compares the rest of that too. The name can then be created once more.
* `OnlyRacesFail` (holds, races reached): a printx() between TTY's statements makes the assertion of
  console.c:55 fail or the loop of line 90 endless.
* `OutCharReturns` (holds with its condition): on a console that is not full, '\b's written to the terminal take the cursor above a window
  that stands below the origin; scroll_screen(SCR_UP) then does nothing and TTY never leaves the loop of line 90. Without
  the condition TLC finds that, with no printx().
* `OnlyBlanksSpill` (holds, the spill is reached): clear_screen() from a cursor in the last row blanks cells of
  the next console, against console.h:9.
* `fs_shared`: close() of a descriptor shared through fork() clears it for both;
  the assertion at read_write.c:33 fails (fs.h:61, `fd_cnt`, is never read).
* `ReadsFromStart` (holds): reads restart at the beginning of the file, against fs.h:60.
* `NeighboursUntouched` (holds, the overrun is reached): line 67 of read_write.c means to cut a write at the end of
  the file's room, but line 76 copies until the chunk is full, and so into the next file. The run bounds that by a chunk, for any buffer; with
  the buffer of the code (2048 sectors, as many as a file) and no more sectors a request than the driver can count
  (hd.c:284) a chunk ends with the sector behind the file's room, and it is that sector that is overwritten.
* `KeepsBytes` (holds with its condition): a READ moves the position, and a position beyond the end makes the file
  longer (lines 94-101), so a file read often enough outgrows its room and counts its neighbour's bytes among its
  own. Without the guard on reads TLC finds that.
* `RequestsEnd` (holds with its condition): the sector count is cut to 8 bits and MAX_IO_BYTES (hd.h:200) not enforced.

## 6. The proofs

The theorems hold for every set of processes and every value of the constants that satisfies
the named assumption of the module: `IpcAssumption` (pseudo process numbers are distinct and no processes;
the type of interrupts is none of the ordinary ones), `SchedAssumption` (tasks and Init are processes, rounds
are positive), `TtyAssumption` (there is a console and a ring, codes mean keys, bounds are numbers), `HdAssumption`
and `LayoutType` (numbers in their ranges; the disk's tables as in section 3), `ServersAssumption` (the five tasks are
different processes, scenarios and message types are of the form Servers gives them), `FsAssumption` (fds are
finitely many, names have 1 to 12 characters and are no special paths, tables and maps have room for something), `SmapAssumption` (numbers are positive, the map
has room for the root directory), `FsRwAssumption` (numbers are positive, requests are numbers or sequences of bytes, descriptors lead to files),
`ConsoleAssumption` (numbers are positive, a screen has two rows or more, a console two screens of rows or
a row less, what printx() prints is text). What a theorem covers is the specification
with its bounds: that of Servers holds for every set of scenarios.

**Ipc.** `TypeOK`, `FlagsInv`, `QueueInv` and `NoMissedRendezvous` are not
inductive one by one: unlinking a sender from a queue keeps `FlagsInv` only
because the queue holds nobody but blocked senders (`QueueInv`), handing over keeps
`QueueInv` only because a process that waits to receive is in no queue (`FlagsInv`), and blocking in a
RECEIVE keeps `NoMissedRendezvous` only because `SenderReady` looks at exactly the
senders of `QueueInv`. Their conjunction, with what it says of `reply_from`, is `IInv`; `InitIInv` and one
lemma per action (`HandoverIInv`, `EnqueueIInv`, ..., `InformIntIInv`) give `NextIInv`, and
from it `TypeCorrect`, `FlagsConsistent`, `QueuesExact`, `RendezvousComplete`. The lemmas
`RemoveAtElements`, `Unlink` and `Link` say what the queue operations do.

`CyclesExcluded` needs `IInv` and the definition of `Deadlock`: a step
that adds an edge p -> d does so only if some closed set holds d and not p; a
new cycle S would have to go through p, and what the closed set shares with S is a
smaller cycle without p, which was there before (`NewEdge`). `Implements` maps the
proc table to Rendezvous: `Correspondence` relates flags and fields, `SendRefines`,
`ReceiveRefines`, `StrikeRefines` map every action to an abstract one.
`MessagesHandedOver` is an action property from the same invariant. `AnswersFromPartner` needs one more,
`SignedInv`: a message that waits in a queue names the process that sends it, so
what `Fetch` copies out for the second half of BOTH comes from the peer.

**Sched.** `IInv` adds to `TypeOK` what the loop of schedule() knows (`FoundInv`:
the best so far is ready, holds `p_proc_ready` and lies behind the loop variable) and what the
refill knows (`SpentInv`: the ready processes seen so far have no ticks left, tasks
that interrupts wake excepted). It gives `RunningReady`, `BestReady` and `RoundsUsedUp`.

**IpcIrq.** Between two statements of a call most of `IInv` does not hold, and an interrupt that strikes
there may break what the next statement relies on. `IrqInv` says what survives. `QueueInv` holds at every
statement, whatever strikes (`QueuesStayExact`): queue surgery is one step, and a handler touches no queue.
`TableInv` is the rest of the table with the call in progress as its only exception:
`SlotsInv` for the processes that are not in a call, `SendInv` and `ReceiveInv` for what each pc knows of the
caller and its partner. It holds as long as the system does: until it halts or an assertion fails. `OnlyInterruptedFail` is part of it, since the tests before each assertion exclude the others.
One lemma per statement; `RestIsConsistent` and `OnlyInterruptsFail` follow.

**IpcAtomic.** That the statements implement the atomic calls until an interrupt strikes
inside the window (`AtomicUntilStruck`) needs three facts of a call that nothing struck,
`Undisturbed`: the slot of every process is the one the call started with but for the fields
its statements have assigned (`CallMade`), what its tests found still holds (`TestsHold`), and the buffers
are those of before (`BuffersKept`). Then the statement at which the call takes effect maps to
the action of Ipc, with `before` in the place of the slots, and each other one to a
stutter; an interrupt outside the window is Ipc's `InformInt`. After a strike or a failure the mapping
stays where it was.

**Servers.** Every call of Servers is one of Ipc's, so `IInv` holds of the table, but for `MmCopySlot`,
which writes the table behind the kernel's back. Copying a slot keeps `IInv` when nobody is sending to the
parent or to the free slot and the parent is not in a queue (`SlotCopied`), and that is a fact about the conversations of
all tasks: the parent awaits MM, and whoever sends to a process is one it awaits. Hence one
invariant for everything, `ServersInv`. A process is in one of five modes (`Mode`): free of calls, asking,
turning from the SEND to the RECEIVE of a call, telling, waiting. `Places` says with whom, for each pc; `Words`
what the messages on their way and at hand can be. `Owes(s, x)` says when task s has an answer to give to x, from
s's pc, message and variables; `TtyKeeps` that TTY has x on record as a reader. `Owed`: whoever is owed an
answer awaits it. `Once`: nobody is owed one twice, nor kept by TTY and owed one by FS; two terminals keep different
readers; FS awaits TTY only while TTY owes it an answer. `DriveInv`, `Children` and `Cycle`
are the parts for the drive's interrupts, for do_fork() and for the way the system may stop.

Most steps change one process and the one it reaches. `SendCases`, `SendRecCases`, `ReplyCases`, `ReceiveCases` and
`InformCases` say what a call does to the modes, `PlacesStep`, `WordsStep`, `OnceStep` carry over what holds
of the rest, `AnswerOwed` and `AskOwed` do so for `Owed`; one lemma per action puts them together. No cycle but
that of FS and TTY closes because whom a task answers is in no SEND (`NoWay`, `Untold`), and FS and TTY may meet in one when
a reader is resumed while FS calls TTY (`TtyLineInv`, `FsToTtyInv`). `TablesConsistent`, `AnswersAwaited`,
`ReadersSleep`, `OnlyOneCycle` and `ChildWhole` are what `ServersInv` says of `IInv`, `Owed`, `Words`, `Cycle` and
`Children`.

**Tty.** `RingIsQueue` compares the ring with the history of accepted codes. It is inductive together with
`HeadFollows` (head = tail + count, modulo the ring's size): an insertion at the head
overwrites no code that is counted, a removal at the tail shifts the queue by one (`RingHoldsQueue`). A step
is an insertion, a removal or neither (`RingPut`, `RingTake`, `RingKept`).
`ReadersBufferFits`: the driver never copies more than the reader asked for, since
`tty_trans_cnt + tty_left_cnt` stays the size of the request until the read is over; this rests on the
types (`TtyTypeCorrect`).

The line editor is compared with the history of all keys: `LinesAreRight` and `ReadersGetLines` say for any number
of consoles and any keys that a reader's buffer holds the line of the keys typed since its read, with its corrections, and
that it is resumed with that line complete and none of the next one. The inductive `EditorInv` joins four facts. keyboard_read() knows
what the codes taken mean: the console on screen, the ctrl keys held, and that no E0 is pending unless it waits for the next byte
(`KeyStateInv`). At most one character waits for the editor, on the terminal TTY visits (`IbufInv`).
A read came at some code taken (`SinceInv`). And for each terminal there are the keys the editor has `seen`: those since the read without the one that
waits; while a read is open, or being answered, its buffer is their line (`EditedLine`).
A fold over the history is a recursive function; `FoldExists` and `FoldNext` give one step of it, by the least place where
two folds would differ (`CountUp`), and so `MeaningNext` and `LineNext`. `InProcessMeans` then compares in_process() with
`AfterCode`, and `EditKeepsEditor` tty_dev_write() with `AfterKey`. A first form of `Meaning` let Ctrl-F2 show a
second console where there is none, against select_console() (console.c:118), and the proof did not go through; with `NR_CONSOLES = 1`
TLC shows it. Now it asks for a console 1.

**Console.** The proof speaks of rows instead of cells: `RowOfOffset`, `RowsExist` and `ScrollUpRows` turn offsets and
windows into row numbers. `StoreEffect`, `CopyEffect`, `HomeEffect`, `TurnEffect`, ... say what each statement does to
a screen, and are used twice: step by step for TTY's actions, and joined (`OutCharEffect`, `OutStringEffect`) for printx(), which
is one step. The loop of l.90 in sys_printx() ends because each turn brings the window nearer to the cursor (`TurnsLeft`,
`TurnsShrink`), provided that the window is not past the cursor in a console that is not full yet: there
scroll_screen() would not move. That proviso is the heart of `ConsoleInv`. `WindowInv` says that when TTY is not between the
switch and the end of its loop (`Moving`) the cursor is at most the rows of a screen but one above the last row of the window
(`NotPast` with `Margin`), so that it is in the window or the window can follow; what TTY is about to do to it with a '\b' it does while it moves, and
a printx() in that time is a race. The other parts: types, with every window at a row of its console; `CursorsFit`, a cursor is in its console but
between the store that leaves it and the wrap; `WriterInv`, what TTY has read is a place of its console; `RegistersInv`, what
the CRTC shows. After a race only types, `CursorsFit` and `WriterInv` remain, and of these the last two
only while nothing has failed. `AssertionsHold`, `WindowsStayInside` and, with what a step writes (`WritesOwn`),
`ConsolesKeepApart` follow.

What is on the screen against what is on paper is a second invariant, `PaperInv` (`PaperInvariant`), inductive on top of
`ConsoleInv`. Between two calls (`AtRest`) the cursor stands where the roll's last row ends, the rows of the roll stand above
it in order (`TextUpTo`), and behind it the console is blank to its end or, once it is full, to the end of its row and
of its first screen (`Ends`). Each statement of out_char() has a phase of its own: `Fresh` before the
switch, which also says that the window shows no old rows behind the cursor (`NewBehind`: what `OldBelow` excludes),
`Storing` between the cell and the cursor, `Looping` in the loop of l.90, `Wrapping` from the store that leaves the console
until the first screen is copied and blanked. A printx() takes its console through all of them in one step. Any other console is
`Spared`: what spills into it is blank and stays in its first row, hence the exception of `CellShows` and `RowShows`.
`Told` says that a '\b' finds a cell of the roll to erase (`Erases`), or none on the screen either: else the history says `mixed` (`ErasesPast`).
`ConsolesShowWhatWasWritten` follows from `AtRest`.

**Fs.** Two inductive invariants. `DirectoryInv` needs nothing of the tables: of the `Clean` entries with the same name
only the first may hold a file (`OneName`), in each state the request in progress leads the disk through. A cleared entry keeps
no name and an unlisted one keeps its own, hence "the first". That a name not found is that of no file
(`Search`) keeps it through new_dir_entry() (`NewEntry`): `DirectoryIsMap` holds wherever the power fails, for names of
every length and whatever they are copied over. `FsInv` adds the maps, the `Listing` and the tables. A creation writes the inode after both maps, so a disk it leaves half written
agrees with its maps (`MapsAgree`), and its directory leads to taken inodes, each once (`Listing`, through
`ListingNew` and `ListingCleared`); a removal clears the inode map first, so one it leaves half written
does not, and `MapsInv` says nothing of the states within it. Hence the other theorems assume `CrashIn \subseteq {"create"}`,
as the run does: power may fail in a creation or between requests, not within a removal. They need it: after create, close, a removal that loses power behind the first of its writes and a restart,
the name leads to an inode that the map calls free; if one process opens it and another creates a file, creat_file() fills in
the slot anew with i_cnt 1 while two descriptors lead to it, and TLC finds `DescriptorsBacked` violated with
`CrashIn = {"create", "unlink"}`. `CachedOnce` ties a slot to the inode on the disk; with `OpenInv` (no
descriptor leads to an inode without a mode) it shows that creat_file() reuses no slot that a
descriptor has, and with `MapsAgree` that do_unlink() finds taken what it frees. `DirectoryStaysSound` joins names and maps
(`SoundIs`); and since entries lead to different inodes, the directory has never more than there are inodes (`Fits`, `DirectoryFits`).

**Hd.** `HdInv` has five parts: types, `Serving` (what pc and request say of each other), `Finding`, `InStep`,
`NoneStray`. `Finding` follows partition() along the disk: the entries of `hd_info` that the scan has passed are those of the
layout, the others still as hd_init() left them, and the table being read is the next of its chain. At the end
of the scan that is `PartitionsKnown`; `DeviceOnDisk` and `DeviceFound` turn it into "a device number
in hd_info is a partition of the disk, and the reverse". `InStep` puts driver and drive
side by side: for each pc the state of the drive, its command, the sectors it has left and whether an interrupt
is on its way. Hence `NoStrayInterrupt`: no interrupt comes unasked, the driver
never finds a state of the drive it does not expect, the open fails only for lack of a partition and a transfer only when
it is too long for the count. `DriverImplements` maps steps to those of BlockDevice (`AskStep`, `ReadStep`,
`WriteStep`, `AnswerStep`, or `Unmoved`); that a written sector changes one store and no other is
where the disjoint partitions of `LayoutType` are used.

**Smap and FsRw.** Both are loops over data, written as recursive functions of the rounds done. The library's induction
theorems do not help (they take an operator as a parameter); instead the least round at which a claim
fails is taken (`SmallestOf`), and the one before it refutes it. `LoopExists` and `LoopResult` do so for alloc_smap_bit():
after each byte the bits taken are those of the first free one on. Then a place is a number (`PlacesInOrder`), and `SmapInv`
says that a bit is 1 if and only if it is bit 0, the root directory's, or lies at a place taken; hence
a free bit is the first of a free place and what do_unlink() clears, head, whole bytes and tail (`FreedIn`), is one place.
`MapIsExact` and `MapImplementsExtents` follow, for every width of a byte, length of the map and size of a file.
For do_rdwt() the claim of each round (`Sofar`) is that the bytes copied are one run on the disk from the position on, and one
in the buffer from its beginning on, which bytes_rw ends; `CopiedIsRun`
says how long they are in the end: all that was asked for, or beyond pos_end, and no further than a chunk. With `RwInv` (no position
beyond its file's end; no file beyond its room while processes are careful) follow `ReadsGiveStart` and `WritesStayInFile`.
The refinement `FilesKeepBytes` takes two steps: a request moves a position and leaves every byte but those between the old and
the new one as it was (`MoveKeeps`), and these are the caller's, in their order (`WriteImplements`, by what Overwrite
does to a file byte by byte, `OverwriteIs`), or nothing has changed (`ReadImplements`).

## 7. What is not proved and not modelled

Only model-checked: liveness (`NoStarvation`, `CallsAreAnswered`, `RequestsEnd`,
`PatientTypistIsRead`, `OutCharReturns`) and everything with ENABLED are beyond the proof
system. Of Fs, `CacheCoherent` is proved but for its
first line (the cached inode is allocated), and `SoundOnDisk` but for the disk within a removal and for the assertions
link.c:144 and open.c:90. The rest of them, `LeaksBounded` and `KeepsFiles` hold in the instance of the run and not in every one, so no theorem
states them: with two restarts TLC finds an entry that do_unlink() cut off and search_file() or a
longer directory shows again (`SoundOnDisk`, `KeepsFiles`), and with a name of MAX_FILENAME_LEN characters one that
unlists its neighbour (`NameLength[f] = 12`: `CacheCoherent` with 4 entries a sector and a restart, `LeaksBounded` with 5 and none).

Not modelled, and why: boot sector and loader, descriptor tables, 8259 and string
routines (straight-line set-up or pure I/O); formatting and logging, with the red screen of a failed
assertion; the shell's commands (users may make any
call); do_lseek (no message reaches it); the close of an fd that is not open, which follows a null pointer (open.c:231), and
reads and writes of a descriptor without O_RDWR, which are refused (read_write.c:24); memory that runs out in do_fork() and
the assertions on its segments (mm/main.c:53-59, forkexit.c:54-56: `OnlyFsAndTtyDeadlock` is about message passing); a drive that
stays busy (hd.c:229-231); colours on the screen; Pause and PrintScreen sequences and
lock keys (abstracted from Tty). `PROJECT.json` lists the hazards with the property that watches each, or the
reason why none does.
