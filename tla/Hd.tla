---------------------------------- MODULE Hd ----------------------------------
(***************************************************************************)
(* The disk driver and the drive, in step with each other: task_hd() of    *)
(* kernel/hd.c with hd_open(), hd_identify(), partition(), hd_close(),     *)
(* hd_rdwt(), hd_ioctl(), hd_cmd_out(), interrupt_wait(), waitfor() and    *)
(* hd_handler(), against a drive that follows the ATA protocol for         *)
(* programmed transfers and a disk whose partition tables describe one of  *)
(* several layouts.                                                        *)
(*                                                                         *)
(* Sectors are values, requests count whole sectors (all that task_fs asks *)
(* for).  The messages HD exchanges meanwhile, with its caller and with    *)
(* SYS for the time, are in module Servers.                                *)
(***************************************************************************)
EXTENDS Integers, Sequences

CONSTANTS
  COUNT_LIMIT,        \* 2^8: struct hd_cmd holds the number of sectors in a u8
  MaxAsk,             \* sectors a request may ask for
  NrSectors,
  Values,             \* what a sector may hold
  NR_PART_PER_DRIVE,
  NR_SUB_PER_PART,
  Layouts,            \* how the disk may be partitioned, see LayoutType
  MaxOpen,            \* bound: open_cnt
  NoRequest

RequestType ==
  [type : {"DEV_OPEN", "DEV_CLOSE", "DEV_IOCTL", "DEV_READ", "DEV_WRITE"},
   dev : Nat, at : Nat, n : Nat]

ASSUME HdAssumption ==
  /\ COUNT_LIMIT \in Nat \ {0} /\ MaxAsk \in Nat \ {0} /\ NrSectors \in Nat
  /\ MaxAsk <= NrSectors /\ 0 \in Values /\ MaxOpen \in Nat
  /\ NR_PART_PER_DRIVE \in Nat \ {0} /\ NR_SUB_PER_PART \in Nat \ {0}
  /\ NoRequest \notin RequestType

Sectors == 0 .. NrSectors - 1

\* Device numbers of the first drive: 1 .. NR_PART_PER_DRIVE are its primary
\* partitions, those from MINOR_hd1a its logical ones.
NR_SUB_PER_DRIVE == NR_SUB_PER_PART * NR_PART_PER_DRIVE
NR_PRIM_PER_DRIVE == NR_PART_PER_DRIVE + 1
MAX_PRIM == 2 * NR_PRIM_PER_DRIVE - 1
MINOR_hd1a == MAX_PRIM + 1

part_info(b, n) == [base |-> b, size |-> n]
Entry(id, b, n) == [sys |-> id, start |-> b, size |-> n]
Unused == Entry("NO_PART", 0, 0)

\* The partitions of a layout, by device number; an extended one is only the place
\* of its logical ones, and those the driver has no number for are not devices.
Devices(l) ==
  LET prim == {i \in 1 .. NR_PART_PER_DRIVE : l.prim[i].sys = "DATA"}
      sub == {k \in 0 .. NR_SUB_PER_DRIVE - 1 :
                (k % NR_SUB_PER_PART) + 1 \in
                  DOMAIN l.sub[(k \div NR_SUB_PER_PART) + 1]}
      entry(d) == IF d \in prim THEN l.prim[d]
                  ELSE l.sub[((d - MINOR_hd1a) \div NR_SUB_PER_PART) + 1]
                            [((d - MINOR_hd1a) % NR_SUB_PER_PART) + 1]
  IN  [d \in prim \union {MINOR_hd1a + k : k \in sub} |->
         part_info(entry(d).start, entry(d).size)]

SectorsOf(p) == p.base .. p.base + p.size - 1

\* A layout: the entries of the disk's partition table, and for each of them the
\* logical partitions inside it, in the order of the chain of tables that
\* describes them: each with the sector of its table.  The tables of a chain are
\* different sectors, and no sector belongs to two partitions.
ASSUME LayoutType == \A l \in Layouts :
  /\ l.prim \in [1 .. NR_PART_PER_DRIVE ->
                  [sys : {"NO_PART", "EXT_PART", "DATA"}, start : Nat, size : Nat]]
  /\ l.sub \in [1 .. NR_PART_PER_DRIVE ->
                 Seq([table : Nat, start : Nat, size : Nat])]
  /\ \A i \in DOMAIN l.prim :
       /\ l.prim[i].sys = "NO_PART" => l.prim[i].size = 0
       /\ l.prim[i].sys # "NO_PART" => l.prim[i].start + l.prim[i].size <= NrSectors
       /\ l.prim[i].sys # "EXT_PART" => l.sub[i] = <<>>
       /\ \A k \in DOMAIN l.sub[i] :
            /\ l.sub[i][k].start \in l.sub[i][k].table + 1 .. NrSectors - l.sub[i][k].size
            /\ k = 1 => l.sub[i][k].table = l.prim[i].start
            /\ \A m \in DOMAIN l.sub[i] :
                 l.sub[i][k].table = l.sub[i][m].table => k = m
  /\ \A d, e \in DOMAIN Devices(l) :
       d # e => SectorsOf(Devices(l)[d]) \intersect SectorsOf(Devices(l)[e]) = {}

Buffers == [0 .. MaxAsk - 1 -> Values]
ZeroBuffer == [i \in 0 .. MaxAsk - 1 |-> 0]

VARIABLES
  layout,    \* of the disk
  pc,        \* where task_hd is
  req,       \* msg: the request it serves
  left,      \* bytes_left, in sectors
  scan,      \* hd_open(): the sector it reads, i and nr of the partitions it is at
  hd_info,   \* primary and logical: where the driver takes the partitions to be
  open_cnt,
  mem,       \* the buffer msg.BUF of the caller
  geo,       \* what DEV_IOCTL copied to its caller
  irq,       \* has_int_msg of HD
  line,      \* the drive's interrupt request
  drive,     \* its state, the command, the next sector, the sectors left,
             \* and whether to be silent when it is ready (the first of a write)
  platter,   \* what the disk holds
  failed

hdVars == <<layout, pc, req, left, scan, hd_info, open_cnt, mem, geo, irq, line,
            drive, platter, failed>>
taskVars == <<layout, req, left, scan, hd_info, open_cnt, geo>>
infoVars == <<layout, scan, hd_info, open_cnt>>

NoScan == [s |-> 0, i |-> 0, nr |-> 0]

HdInit ==
  /\ layout \in Layouts
  /\ pc = "top" /\ req = NoRequest /\ left = 0 /\ scan = NoScan /\ open_cnt = 0
  /\ hd_info = [primary |-> [i \in 0 .. NR_PART_PER_DRIVE |-> part_info(0, 0)],
                logical |-> [i \in 0 .. NR_SUB_PER_DRIVE - 1 |-> part_info(0, 0)]]
  /\ mem = ZeroBuffer /\ geo = part_info(0, 0)
  /\ irq = FALSE /\ line = FALSE
  /\ drive = [st |-> "idle", cmd |-> "READ", lba |-> 0, left |-> 0, silent |-> FALSE]
  /\ platter = [s \in Sectors |-> 0]
  /\ failed = "no"

At(label) == failed = "no" /\ pc = label

----------------------------------------------------------------------------
\* The disk's partitions, as the layout has them.
OnDisk == Devices(layout)

\* Entries 0 and 1 of the table in sector s of an extended partition, as
\* partitioning programs write them: the logical partition, relative to s, and
\* the next table, relative to the extended partition.
SubTable(i, s) ==
  IF \E k \in DOMAIN layout.sub[i] : layout.sub[i][k].table = s
  THEN LET k == CHOOSE x \in DOMAIN layout.sub[i] : layout.sub[i][x].table = s
           this == layout.sub[i][k]
       IN  <<Entry("DATA", this.start - s, this.size),
             IF k = Len(layout.sub[i]) THEN Unused
             ELSE Entry("EXT_PART",
                        layout.sub[i][k + 1].table - layout.prim[i].start, 1)>>
  ELSE <<Unused, Unused>>

\* Where the driver takes a device to be: hd_rdwt() and hd_ioctl().
Found(d) == IF d < MAX_PRIM THEN hd_info.primary[d]
            ELSE hd_info.logical[(d - MINOR_hd1a) % NR_SUB_PER_DRIVE]

\* The request served, with the caller's buffer.
Ask(r, b) ==
  /\ req' = r /\ mem' = b
  /\ left' = IF r.type = "DEV_OPEN" THEN 1 ELSE r.n
  /\ open_cnt' = IF r.type = "DEV_CLOSE" THEN open_cnt - 1 ELSE open_cnt
  /\ geo' = IF r.type = "DEV_IOCTL" THEN Found(r.dev) ELSE part_info(0, 0)
  /\ pc' = IF r.type \in {"DEV_CLOSE", "DEV_IOCTL"} THEN "answer" ELSE "bsy"
  /\ UNCHANGED <<layout, scan, hd_info, failed>>

\* The requests of a task_fs that opens a device before it uses it, and keeps
\* inside the size it asked for.
Requests ==
  LET of(types, devs) == [type : types, dev : devs, at : {0}, n : {0}]
      transfers == {r \in [type : {"DEV_READ", "DEV_WRITE"}, dev : DOMAIN OnDisk,
                          at : Sectors, n : 1 .. MaxAsk] :
                      r.at + r.n <= OnDisk[r.dev].size}
  IN  (IF open_cnt < MaxOpen THEN of({"DEV_OPEN"}, {1}) ELSE {}) \union
      (IF open_cnt > 0 THEN of({"DEV_CLOSE"}, {1}) \union
                            of({"DEV_IOCTL"}, DOMAIN OnDisk) \union transfers
       ELSE {})

\* Line 42: a request, or an interrupt nobody waited for, which spin()s.
Receive ==
  /\ At("top")
  /\ IF irq
       THEN failed' = "spin" /\ UNCHANGED <<pc, taskVars, mem>>
       ELSE \E r \in Requests :
              \E b \in IF r.type = "DEV_WRITE" THEN Buffers ELSE {ZeroBuffer} : Ask(r, b)
  /\ UNCHANGED <<irq, line, drive, platter>>

\* waitfor() asks SYS for the time: with an interrupt pending that fails the
\* assertion proc.c:519.
Waitfor(label, cond, next) ==
  /\ At(label)
  /\ IF irq THEN failed' = "proc.c:519" /\ UNCHANGED <<pc, drive>>
            ELSE cond /\ next /\ UNCHANGED failed
  /\ UNCHANGED <<taskVars, mem, irq, line, platter>>

\* Variant with a fault: 0 is taken for 0.
count_truncated(n) == n % COUNT_LIMIT

\* hd_cmd_out(): the count goes through a u8, and 0 means COUNT_LIMIT to the drive.
count(n) == IF n % COUNT_LIMIT = 0 THEN COUNT_LIMIT ELSE n % COUNT_LIMIT

Reading == req.type # "DEV_WRITE"

\* The command registers: IDENTIFY and the tables for hd_open(); else the sectors,
\* from where the device is.
Registers ==
  IF req.type = "DEV_OPEN"
  THEN [cmd |-> IF scan = NoScan THEN "IDENTIFY" ELSE "READ", lba |-> scan.s,
        left |-> 1]
  ELSE [cmd |-> IF Reading THEN "READ" ELSE "WRITE",
        lba |-> Found(req.dev).base + req.at, left |-> count(left)]

Started == [st |-> "busy", cmd |-> Registers.cmd, lba |-> Registers.lba,
            left |-> Registers.left, silent |-> ~Reading]

Command == /\ pc' = IF Reading THEN "wait" ELSE "drq"
           /\ drive' = Started

\* hd_cmd_out(), to a drive that is ready again within HD_TIMEOUT: the panic of line 230 is
\* left out.
HdCmdOut == Waitfor("bsy", drive.st # "busy", Command)

\* Line 303: the drive asks for data, or is not going to, and HD_TIMEOUT passes.
WaitDrq == Waitfor("drq", drive.st = "drq", pc' = "write" /\ UNCHANGED drive)

DrqTimeout ==
  /\ At("drq") /\ drive.st = "idle" /\ ~irq
  /\ failed' = "hard driver writing error."
  /\ UNCHANGED <<pc, taskVars, mem, irq, line, drive, platter>>

\* interrupt_wait()
WaitInterrupt ==
  /\ At("wait") /\ irq /\ irq' = FALSE
  /\ IF Reading THEN pc' = "read" /\ UNCHANGED left
                ELSE /\ left' = left - 1
                     /\ pc' = IF left' = 0 THEN "answer" ELSE "drq"
  /\ UNCHANGED <<infoVars, req, geo, mem, line, drive, platter, failed>>

\* The drive has given or taken a sector through its data port.
Moved == [drive EXCEPT !.st = IF @ # "drq" THEN @
                              ELSE IF drive.left = 1 /\ drive.cmd # "WRITE"
                                   THEN "idle" ELSE "busy",
                       !.lba = @ + 1, !.left = @ - 1, !.silent = FALSE]

\* Variant with a fault: la does not move on.
PortReadToStart ==
  /\ At("read") /\ req.type # "DEV_OPEN"
  /\ drive' = Moved /\ left' = left - 1
  /\ mem' = [mem EXCEPT ![0] = IF drive.st = "drq" THEN platter[drive.lba] ELSE 0]
  /\ pc' = IF left' = 0 THEN "answer" ELSE "wait"
  /\ UNCHANGED <<infoVars, req, geo, irq, line, platter, failed>>

\* hd_rdwt(): port_read(), and phys_copy() to the caller.
PortRead ==
  /\ At("read") /\ req.type # "DEV_OPEN"
  /\ drive' = Moved /\ left' = left - 1
  /\ mem' = [mem EXCEPT ![req.n - left] =
               IF drive.st = "drq" THEN platter[drive.lba] ELSE 0]
  /\ pc' = IF left' = 0 THEN "answer" ELSE "wait"
  /\ UNCHANGED <<infoVars, req, geo, irq, line, platter, failed>>

\* hd_open() reads sector x next.
GoOn(x) == scan' = x /\ pc' = "bsy"
Opened == scan' = NoScan /\ pc' = "answer"

\* hd_identify() has read the size of the disk; the first open goes on to the
\* partition table.
Identified ==
  /\ hd_info' = [hd_info EXCEPT !.primary[0] = part_info(0, NrSectors)]
  /\ open_cnt' = open_cnt + 1
  /\ IF open_cnt = 0 THEN GoOn([s |-> 0, i |-> 0, nr |-> 1]) ELSE Opened
  /\ UNCHANGED failed

\* partition(P_PRIMARY), from entry i on: the entries in use, up to the next
\* extended one, which is read before the others are looked at.
Primaries(i, info) ==
  LET used == {x \in i + 1 .. NR_PART_PER_DRIVE : layout.prim[x].sys # "NO_PART"}
      ext == {x \in used : layout.prim[x].sys = "EXT_PART"}
      e == IF ext = {} THEN NR_PART_PER_DRIVE ELSE CHOOSE x \in ext : \A y \in ext : x <= y
  IN  /\ hd_info' = [info EXCEPT !.primary = [x \in DOMAIN @ |->
                       IF x \in used /\ x <= e
                       THEN part_info(layout.prim[x].start, layout.prim[x].size)
                       ELSE @[x]]]
      /\ IF ext = {} THEN Opened ELSE GoOn([s |-> layout.prim[e].start, i |-> e, nr |-> 0])
      /\ failed' = IF i = 0 /\ used = {} THEN "hd.c:135" ELSE "no"
      /\ UNCHANGED open_cnt

\* Variant with a fault: the next table is looked for relative to this one.
ExtendedFromHere ==
  LET tbl == SubTable(scan.i, scan.s)
      nr_lst_sub == (scan.i - 1) * NR_SUB_PER_PART
      info == [hd_info EXCEPT !.logical[nr_lst_sub + scan.nr] =
                 part_info(scan.s + tbl[1].start, tbl[1].size)]
  IN  IF tbl[2].sys = "NO_PART" \/ scan.nr + 1 = NR_SUB_PER_PART
      THEN Primaries(scan.i, info)
      ELSE /\ hd_info' = info /\ UNCHANGED <<open_cnt, failed>>
           /\ GoOn([s |-> scan.s + tbl[2].start, i |-> scan.i, nr |-> scan.nr + 1])

\* partition(P_EXTENDED): one table of the chain; after the last one, or as many
\* as have a number, back to the primary partitions.
Extended ==
  LET tbl == SubTable(scan.i, scan.s)
      ext_start_sect == hd_info.primary[scan.i].base
      nr_lst_sub == (scan.i - 1) * NR_SUB_PER_PART
      info == [hd_info EXCEPT !.logical[nr_lst_sub + scan.nr] =
                 part_info(scan.s + tbl[1].start, tbl[1].size)]
  IN  IF tbl[2].sys = "NO_PART" \/ scan.nr + 1 = NR_SUB_PER_PART
      THEN Primaries(scan.i, info)
      ELSE /\ hd_info' = info /\ UNCHANGED <<open_cnt, failed>>
           /\ GoOn([s |-> ext_start_sect + tbl[2].start, i |-> scan.i,
                    nr |-> scan.nr + 1])

\* hd_open(): what was read into hdbuf.
PortReadTable ==
  /\ At("read") /\ req.type = "DEV_OPEN"
  /\ drive' = Moved /\ left' = left
  /\ CASE scan = NoScan -> Identified
       [] scan.i = 0 /\ scan # NoScan -> Primaries(0, hd_info)
       [] scan.i > 0 -> Extended
  /\ UNCHANGED <<layout, req, mem, geo, irq, line, platter>>

PortWrite ==
  /\ At("write") /\ pc' = "wait"
  /\ drive' = Moved
  /\ platter' = IF drive.st = "drq"
                THEN [platter EXCEPT ![drive.lba] = mem[req.n - left]] ELSE platter
  /\ UNCHANGED <<taskVars, mem, irq, line, failed>>

Answer ==
  /\ At("answer")
  /\ pc' = "top" /\ req' = NoRequest /\ left' = 0
  /\ UNCHANGED <<infoVars, geo, mem, irq, line, drive, platter, failed>>

TaskHd == \/ HdCmdOut \/ WaitDrq \/ DrqTimeout \/ WaitInterrupt
          \/ PortRead \/ PortReadTable \/ PortWrite \/ Answer

----------------------------------------------------------------------------
\* The drive: a sector is there to be read, or taken to be written.
DriveStep ==
  /\ drive.st = "busy"
  /\ drive' = [drive EXCEPT !.st = IF drive.left = 0 THEN "idle" ELSE "drq"]
  /\ line' = ~drive.silent
  /\ UNCHANGED <<pc, taskVars, mem, irq, platter, failed>>

\* hd_handler(): reading the status takes the request back; inform_int().
Handler ==
  /\ line
  /\ line' = FALSE /\ irq' = TRUE
  /\ UNCHANGED <<pc, taskVars, mem, drive, platter, failed>>

HdNext == Receive \/ TaskHd \/ DriveStep \/ Handler

\* HD gets the processor (Sched), the drive finishes what it has begun, and its
\* interrupt is not masked for ever.
HdSpec ==
  /\ HdInit /\ [][HdNext]_hdVars
  /\ WF_hdVars(TaskHd) /\ WF_hdVars(DriveStep) /\ WF_hdVars(Handler)

----------------------------------------------------------------------------
\* Properties.

\* Once the disk is open the driver knows every partition of the layout that has
\* a device number, and takes no other place for one: primary ones behind and
\* before an extended one, logical ones along the chain of tables, which may be
\* longer than there are numbers.
PartitionsFound ==
  LET agrees(found, part) == /\ found.size = part.size
                             /\ part.size > 0 => found = part
  IN  pc = "top" /\ open_cnt > 0 /\ failed = "no" =>
        /\ hd_info.primary[0] = part_info(0, NrSectors)
        /\ \A i \in 1 .. NR_PART_PER_DRIVE :
             agrees(hd_info.primary[i],
                    part_info(layout.prim[i].start, layout.prim[i].size))
        /\ \A l \in 0 .. NR_SUB_PER_DRIVE - 1 :
             agrees(hd_info.logical[l],
                    IF MINOR_hd1a + l \in DOMAIN OnDisk
                    THEN OnDisk[MINOR_hd1a + l] ELSE part_info(0, 0))

\* The commands, interrupts and ports implement BlockDevice: the partitions of the
\* disk are separate stores, a request moves its sectors between the one it names
\* and its caller's buffer, and DEV_IOCTL says where that one is.  (Violated as
\* soon as driver and drive are out of step: an interrupt taken for another, the
\* data port used when the drive has no data, a sector of the wrong device.)
D == INSTANCE BlockDevice WITH
       part <- OnDisk,
       content <- [d \in DOMAIN OnDisk |->
                     [i \in 0 .. OnDisk[d].size - 1 |-> platter[OnDisk[d].base + i]]],
       done <- IF req = NoRequest THEN 0 ELSE IF req.n = 0 THEN 0 ELSE
               IF pc = "wait" /\ ~Reading THEN req.n - left + 1
                                         ELSE req.n - left

RefinesBlockDevice == D!Spec

\* A request of no more sectors than fit the count is answered, on a disk with
\* partitions (without one hd_open() fails its assertion).  (One of more waits for
\* an interrupt that does not come, or panics when it has waited for the drive to
\* ask for data: nothing bounds CNT by MAX_IO_BYTES.)
RequestsEnd ==
  (/\ pc = "bsy" /\ left <= COUNT_LIMIT
   /\ \E i \in 1 .. NR_PART_PER_DRIVE : layout.prim[i].sys # "NO_PART") ~> pc = "top"
=============================================================================
