------------------------------ MODULE HdProofs ------------------------------
(***************************************************************************)
(* Proofs about Hd for a disk of any size with any well-formed partition   *)
(* tables, any limit of the count register and requests of any length: the *)
(* driver finds the partitions, it stays in step with the drive, and so    *)
(* the commands, interrupts and ports implement BlockDevice.               *)
(***************************************************************************)
EXTENDS Hd, WellFoundedInduction, TLAPS

----------------------------------------------------------------------------
\* Arithmetic.
Less == {ss \in Nat \X Nat : ss[1] < ss[2]}

\* A set of numbers that is not empty has a least element.
LEMMA LeastOf ==
  ASSUME NEW T \in SUBSET Nat, T # {}
  PROVE  \E x \in T : \A y \in T : x <= y
<1>1. OpToRel(<, Nat) = Less
  BY DEF OpToRel, Less
<1>2. IsWellFoundedOn(Less, Nat)
  BY <1>1, NatLessThanWellFounded
<1>3. PICK x \in T : \A y \in T : ~ (<<y, x>> \in Less)
  BY <1>2, WFMin
<1>4. \A y \in T : x <= y
  <2>. TAKE y \in T
  <2>1. y < x => <<y, x>> \in Less
    BY DEF Less
  <2>. QED BY <1>3, <2>1
<1>. QED BY <1>4

LEMMA DivMod ==
  ASSUME NEW k \in Nat \ {0}, NEW q \in Nat, NEW r \in 0 .. k - 1
  PROVE  /\ (q * k + r) \div k = q
         /\ (q * k + r) % k = r
  BY SMTT(30)

\* Numbers below k * m are m rows of k.
LEMMA RowsOf ==
  ASSUME NEW k \in Nat \ {0}, NEW m \in Nat, NEW l \in 0 .. k * m - 1
  PROVE  /\ l \div k \in 0 .. m - 1
         /\ l % k \in 0 .. k - 1
         /\ l = (l \div k) * k + (l % k)
<1>1. l \div k \in Nat /\ l % k \in 0 .. k - 1
  BY SMTT(30)
<1>2. l = (l \div k) * k + (l % k)
  BY SMTT(30)
<1>3. ASSUME NEW q \in Nat, NEW r \in 0 .. k - 1, q >= m, l = q * k + r
      PROVE  FALSE
  <2>1. q * k >= k * m
    BY <1>3, SMTT(30)
  <2>. QED BY <2>1, <1>3
<1>. QED BY <1>1, <1>2, <1>3

LEMMA RowFits ==
  ASSUME NEW k \in Nat \ {0}, NEW m \in Nat, NEW i \in 1 .. m, NEW r \in 0 .. k - 1
  PROVE  /\ (i - 1) * k + r \in 0 .. k * m - 1
         /\ (i - 1) * k + k = i * k
<1>1. (i - 1) * k >= 0 /\ (i - 1) * k + k = i * k
  BY SMTT(30)
<1>2. i * k <= k * m
  BY SMTT(30)
<1>. QED BY <1>1, <1>2

\* The count register: a command asks for at least one sector and never for more
\* than the request, and for all of it if that fits the register.
LEMMA CountBounds ==
  ASSUME NEW n \in Nat \ {0}
  PROVE  /\ count(n) \in 1 .. n
         /\ n <= COUNT_LIMIT => count(n) = n
<1>1. COUNT_LIMIT \in Nat \ {0}
  BY HdAssumption
<1>2. n % COUNT_LIMIT \in 0 .. COUNT_LIMIT - 1
  BY <1>1, SMTT(30)
<1>3. n < COUNT_LIMIT => n % COUNT_LIMIT = n
  BY <1>1, SMTT(30)
<1>4. n = COUNT_LIMIT => n % COUNT_LIMIT = 0
  BY <1>1, SMTT(30)
<1>. QED BY <1>1, <1>2, <1>3, <1>4 DEF count

----------------------------------------------------------------------------
\* The devices of a layout.
LEMMA PrimaryDevices ==
  ASSUME NEW l \in Layouts, NEW d \in 1 .. NR_PART_PER_DRIVE
  PROVE  /\ d \in DOMAIN Devices(l) <=> l.prim[d].sys = "DATA"
         /\ d \in DOMAIN Devices(l) =>
              Devices(l)[d] = part_info(l.prim[d].start, l.prim[d].size)
<1>1. NR_PART_PER_DRIVE \in Nat \ {0} /\ NR_SUB_PER_PART \in Nat \ {0}
  BY HdAssumption
<1>2. NR_SUB_PER_DRIVE \in Int
  BY <1>1, SMTT(30) DEF NR_SUB_PER_DRIVE
<1>3. \A k \in 0 .. NR_SUB_PER_DRIVE - 1 : d # MINOR_hd1a + k
  BY <1>1, <1>2 DEF MINOR_hd1a, MAX_PRIM, NR_PRIM_PER_DRIVE
<1>. QED
  BY <1>3 DEF Devices

\* The logical partition k + 1 of the chain in entry i.
LEMMA LogicalDevices ==
  ASSUME NEW l \in Layouts, NEW i \in 1 .. NR_PART_PER_DRIVE,
         NEW k \in 0 .. NR_SUB_PER_PART - 1
  PROVE  LET n == (i - 1) * NR_SUB_PER_PART + k IN
         /\ n \in 0 .. NR_SUB_PER_DRIVE - 1
         /\ MINOR_hd1a + n \in DOMAIN Devices(l) <=> k + 1 \in DOMAIN l.sub[i]
         /\ MINOR_hd1a + n \in DOMAIN Devices(l) =>
              Devices(l)[MINOR_hd1a + n] =
                part_info(l.sub[i][k + 1].start, l.sub[i][k + 1].size)
<1>. DEFINE n == (i - 1) * NR_SUB_PER_PART + k
<1>1. NR_PART_PER_DRIVE \in Nat \ {0} /\ NR_SUB_PER_PART \in Nat \ {0}
  BY HdAssumption
<1>2. n \in 0 .. NR_SUB_PER_DRIVE - 1
  BY <1>1, RowFits DEF NR_SUB_PER_DRIVE
<1>3. n \div NR_SUB_PER_PART = i - 1 /\ n % NR_SUB_PER_PART = k
  BY <1>1, DivMod
<1>4. NR_SUB_PER_DRIVE \in Int
  BY <1>1, SMTT(30) DEF NR_SUB_PER_DRIVE
<1>. HIDE DEF n
<1>5. MINOR_hd1a \in Int /\ MINOR_hd1a > NR_PART_PER_DRIVE
  BY <1>1 DEF MINOR_hd1a, MAX_PRIM, NR_PRIM_PER_DRIVE
<1>6. MINOR_hd1a + n \notin 1 .. NR_PART_PER_DRIVE
  BY <1>1, <1>2, <1>4, <1>5
<1>7. (MINOR_hd1a + n) - MINOR_hd1a = n
  BY <1>2, <1>4, <1>5
<1>8. (n \div NR_SUB_PER_PART) + 1 = i /\ (n % NR_SUB_PER_PART) + 1 = k + 1
  BY <1>1, <1>3
<1>9. MINOR_hd1a + n \in DOMAIN Devices(l) <=> k + 1 \in DOMAIN l.sub[i]
  <2>1. \A x \in 0 .. NR_SUB_PER_DRIVE - 1 : MINOR_hd1a + x = MINOR_hd1a + n => x = n
    BY <1>2, <1>4, <1>5
  <2>. QED BY <1>2, <1>6, <1>8, <2>1 DEF Devices
<1>10. MINOR_hd1a + n \in DOMAIN Devices(l) =>
         Devices(l)[MINOR_hd1a + n] =
           part_info(l.sub[i][k + 1].start, l.sub[i][k + 1].size)
  BY <1>6, <1>7, <1>8 DEF Devices
<1>. QED
  BY <1>2, <1>9, <1>10 DEF n

\* Every logical device number belongs to one place in one chain.
LEMMA LogicalPlaces ==
  ASSUME NEW n \in 0 .. NR_SUB_PER_DRIVE - 1
  PROVE  \E i \in 1 .. NR_PART_PER_DRIVE, k \in 0 .. NR_SUB_PER_PART - 1 :
           n = (i - 1) * NR_SUB_PER_PART + k
<1>1. NR_PART_PER_DRIVE \in Nat \ {0} /\ NR_SUB_PER_PART \in Nat \ {0}
  BY HdAssumption
<1>. DEFINE q == n \div NR_SUB_PER_PART
            r == n % NR_SUB_PER_PART
<1>2. /\ q \in 0 .. NR_PART_PER_DRIVE - 1
      /\ r \in 0 .. NR_SUB_PER_PART - 1
      /\ n = q * NR_SUB_PER_PART + r
  BY <1>1, RowsOf DEF NR_SUB_PER_DRIVE
<1>. HIDE DEF q, r
<1>3. q + 1 \in 1 .. NR_PART_PER_DRIVE /\ (q + 1) - 1 = q
  BY <1>1, <1>2
<1>. QED
  BY <1>2, <1>3

----------------------------------------------------------------------------
\* What the driver knows of the disk.
Info == [primary : [0 .. NR_PART_PER_DRIVE -> [base : Int, size : Nat]],
         logical : [0 .. NR_SUB_PER_DRIVE - 1 -> [base : Int, size : Nat]]]

PrimaryRight(info, i) ==
  IF layout.prim[i].sys = "NO_PART" THEN info.primary[i].size = 0
  ELSE info.primary[i] = part_info(layout.prim[i].start, layout.prim[i].size)

LogicalRight(info, n) ==
  IF MINOR_hd1a + n \in DOMAIN OnDisk THEN info.logical[n] = OnDisk[MINOR_hd1a + n]
  ELSE info.logical[n].size = 0

\* It never takes another place for a partition ...
NoneWrong(info) ==
  /\ \A i \in 1 .. NR_PART_PER_DRIVE : info.primary[i].size = 0 \/ PrimaryRight(info, i)
  /\ \A n \in 0 .. NR_SUB_PER_DRIVE - 1 : info.logical[n].size = 0 \/ LogicalRight(info, n)

\* ... and it knows the primary partitions up to i and the logical ones below m.
KnownTo(info, i, m) ==
  /\ \A x \in 1 .. i : PrimaryRight(info, x)
  /\ \A n \in 0 .. m - 1 : LogicalRight(info, n)

AllKnown(info) == KnownTo(info, NR_PART_PER_DRIVE, NR_SUB_PER_DRIVE)

\* The scan is at table nr of the chain in the extended partition i.
InChain(x) ==
  /\ x.i \in 1 .. NR_PART_PER_DRIVE /\ x.nr \in 0 .. NR_SUB_PER_PART - 1
  /\ layout.prim[x.i].sys = "EXT_PART"
  /\ \/ /\ x.nr + 1 \in DOMAIN layout.sub[x.i]
        /\ x.s = layout.sub[x.i][x.nr + 1].table
     \/ layout.sub[x.i] = <<>> /\ x.nr = 0 /\ x.s = layout.prim[x.i].start

Scanned(x, info) ==
  InChain(x) /\ KnownTo(info, x.i, (x.i - 1) * NR_SUB_PER_PART + x.nr)

\* The open disk is known; while the first DEV_OPEN scans it, as far as it has got.
Finding ==
  /\ hd_info \in Info /\ NoneWrong(hd_info) /\ open_cnt \in Nat
  /\ open_cnt > 0 => hd_info.primary[0] = part_info(0, NrSectors)
  /\ open_cnt > 0 /\ scan = NoScan => AllKnown(hd_info)
  /\ scan # NoScan =>
       /\ req # NoRequest /\ req.type = "DEV_OPEN"
       /\ pc \in {"bsy", "wait", "read"} /\ open_cnt > 0
       /\ scan = [s |-> 0, i |-> 0, nr |-> 1] \/ Scanned(scan, hd_info)

Transfers == {"DEV_READ", "DEV_WRITE"}

\* The request served.
Serving ==
  /\ layout \in Layouts
  /\ pc \in {"top", "bsy", "drq", "wait", "read", "write", "answer"}
  /\ pc = "top" => req = NoRequest
  /\ pc # "top" =>
       /\ req \in RequestType
       /\ req.type \notin Transfers => req.n = 0
       /\ req.type \in Transfers =>
            /\ req.dev \in DOMAIN OnDisk /\ req.n \in 1 .. MaxAsk
            /\ req.at + req.n <= OnDisk[req.dev].size
            /\ open_cnt > 0 /\ scan = NoScan

\* What there is to move, what the drive was told, and how much of it is moved.
Due == IF req.type = "DEV_OPEN" THEN 1 ELSE req.n

MovedSoFar == IF pc = "wait" /\ ~Reading THEN Due - (left - 1) ELSE Due - left

DriveAt ==
  /\ drive.lba = Registers.lba + MovedSoFar
  /\ drive.left = count(Due) - MovedSoFar
  /\ drive.cmd = Registers.cmd

Quiet == ~irq /\ ~line

\* Driver and drive are in step: where the driver is, the drive's state, its
\* interrupt and the sectors left say the same; the request line and the pending
\* interrupt are never both there, and neither is when nobody waits.
InStep ==
  /\ pc = "top" => left = 0
  /\ pc = "answer" /\ req.type # "DEV_OPEN" => left = 0
  /\ pc = "bsy" => left = Due
  /\ pc \in {"bsy", "drq", "wait", "read", "write"} =>
       left \in 1 .. Due /\ req.type \in Transfers \union {"DEV_OPEN"}
  /\ pc \in {"drq", "write"} => req.type = "DEV_WRITE"
  /\ pc = "read" => Reading
  /\ pc \in {"top", "bsy", "answer"} => drive.st = "idle"
  /\ pc # "wait" => Quiet
  /\ pc \in {"drq", "wait", "read", "write"} => DriveAt /\ drive.left >= 0
  /\ pc = "drq" =>
       /\ drive.st = "busy" => drive.silent /\ drive.left > 0
       /\ drive.st = "drq" => drive.left > 0
       /\ drive.st = "idle" => drive.left = 0
  /\ pc \in {"read", "write"} => drive.st = "drq" /\ drive.left > 0
  /\ pc = "wait" =>
       /\ drive.st = "busy" => ~drive.silent /\ Quiet /\ (Reading => drive.left > 0)
       /\ drive.st = "drq" => line # irq /\ drive.left > 0
       /\ drive.st = "idle" => drive.left = 0 /\ (IF Reading THEN Quiet ELSE line # irq)

DriveType == [st : {"idle", "busy", "drq"}, cmd : {"IDENTIFY", "READ", "WRITE"},
              lba : Int, left : Int, silent : BOOLEAN]

HdTypes ==
  /\ left \in Nat /\ mem \in Buffers /\ irq \in BOOLEAN /\ line \in BOOLEAN
  /\ scan \in [s : Int, i : 0 .. NR_PART_PER_DRIVE, nr : Nat]
  /\ drive \in DriveType
  /\ platter \in [Sectors -> Values]

\* The assertions and panics there are: hd_open() of a disk without partitions, and
\* a drive that has no use for more than the count it was given.  No interrupt
\* comes that nobody waits for.
NoneStray == failed \in {"no", "hd.c:135", "hard driver writing error."}

HdInv == HdTypes /\ Serving /\ Finding /\ InStep /\ NoneStray

----------------------------------------------------------------------------
\* The scan.
LEMMA Sizes ==
  /\ NR_PART_PER_DRIVE \in Nat \ {0} /\ NR_SUB_PER_PART \in Nat \ {0}
  /\ NR_SUB_PER_DRIVE \in Nat
  /\ NR_PART_PER_DRIVE * NR_SUB_PER_PART = NR_SUB_PER_DRIVE
  /\ MINOR_hd1a \in Nat
<1>1. NR_PART_PER_DRIVE \in Nat \ {0} /\ NR_SUB_PER_PART \in Nat \ {0}
  BY HdAssumption
<1>2. NR_SUB_PER_DRIVE \in Nat /\ NR_PART_PER_DRIVE * NR_SUB_PER_PART = NR_SUB_PER_DRIVE
  BY <1>1, SMTT(30) DEF NR_SUB_PER_DRIVE
<1>. QED
  BY <1>1, <1>2 DEF MINOR_hd1a, MAX_PRIM, NR_PRIM_PER_DRIVE

LEMMA RowOrder ==
  ASSUME NEW k \in Nat \ {0}, NEW x \in Int, NEW y \in Int
  PROVE  /\ x <= y => x * k <= y * k
         /\ x < y => x * k + k <= y * k
<1>1. x <= y => x * k <= y * k
  BY SMTT(30)
<1>2. x < y => x * k + k <= y * k
  BY SMTT(30)
<1>. QED BY <1>1, <1>2

\* What is assumed of a layout, in parts.
LEMMA LayoutFacts ==
  ASSUME layout \in Layouts
  PROVE  /\ layout.prim \in [1 .. NR_PART_PER_DRIVE ->
                [sys : {"NO_PART", "EXT_PART", "DATA"}, start : Nat, size : Nat]]
         /\ \A i \in 1 .. NR_PART_PER_DRIVE :
              /\ layout.prim[i].sys = "NO_PART" => layout.prim[i].size = 0
              /\ layout.prim[i].sys # "NO_PART" =>
                   layout.prim[i].start + layout.prim[i].size <= NrSectors
              /\ layout.prim[i].sys # "EXT_PART" => layout.sub[i] = <<>>
<1>1. /\ layout.prim \in [1 .. NR_PART_PER_DRIVE ->
                [sys : {"NO_PART", "EXT_PART", "DATA"}, start : Nat, size : Nat]]
      /\ \A i \in DOMAIN layout.prim :
           /\ layout.prim[i].sys = "NO_PART" => layout.prim[i].size = 0
           /\ layout.prim[i].sys # "NO_PART" =>
                layout.prim[i].start + layout.prim[i].size <= NrSectors
           /\ layout.prim[i].sys # "EXT_PART" => layout.sub[i] = <<>>
  BY LayoutType, Zenon
<1>. QED BY <1>1

LEMMA ChainFacts ==
  ASSUME layout \in Layouts, NEW i \in 1 .. NR_PART_PER_DRIVE
  PROVE  /\ layout.sub[i] \in Seq([table : Nat, start : Nat, size : Nat])
         /\ \A k \in DOMAIN layout.sub[i] :
              /\ layout.sub[i][k].start \in
                   layout.sub[i][k].table + 1 .. NrSectors - layout.sub[i][k].size
              /\ k = 1 => layout.sub[i][k].table = layout.prim[i].start
              /\ \A m \in DOMAIN layout.sub[i] :
                   layout.sub[i][k].table = layout.sub[i][m].table => k = m
<1>1. layout.sub \in [1 .. NR_PART_PER_DRIVE ->
                        Seq([table : Nat, start : Nat, size : Nat])]
  BY LayoutType, Zenon
<1>2. DOMAIN layout.prim = 1 .. NR_PART_PER_DRIVE
  BY LayoutFacts
<1>3. \A x \in DOMAIN layout.prim : \A k \in DOMAIN layout.sub[x] :
           /\ layout.sub[x][k].start \in
                layout.sub[x][k].table + 1 .. NrSectors - layout.sub[x][k].size
           /\ k = 1 => layout.sub[x][k].table = layout.prim[x].start
           /\ \A m \in DOMAIN layout.sub[x] :
                layout.sub[x][k].table = layout.sub[x][m].table => k = m
  BY LayoutType, Zenon
<1>. QED BY <1>1, <1>2, <1>3

\* A chain without a table for it gives a logical device number no partition.
LEMMA NoDevice ==
  ASSUME layout \in Layouts, NEW info, NoneWrong(info),
         NEW i \in 1 .. NR_PART_PER_DRIVE, NEW k \in 0 .. NR_SUB_PER_PART - 1,
         k + 1 \notin DOMAIN layout.sub[i]
  PROVE  LogicalRight(info, (i - 1) * NR_SUB_PER_PART + k)
  BY LogicalDevices DEF NoneWrong, LogicalRight, OnDisk

\* The primary partitions between two extended ones bring no logical ones.
LEMMA NoneBetween ==
  ASSUME layout \in Layouts, NEW info, NoneWrong(info),
         NEW i \in 0 .. NR_PART_PER_DRIVE, NEW e \in i .. NR_PART_PER_DRIVE,
         \A n \in 0 .. i * NR_SUB_PER_PART - 1 : LogicalRight(info, n),
         \A x \in i + 1 .. e : layout.prim[x].sys # "EXT_PART"
  PROVE  \A n \in 0 .. e * NR_SUB_PER_PART - 1 : LogicalRight(info, n)
<1>. SUFFICES ASSUME NEW n \in 0 .. e * NR_SUB_PER_PART - 1
              PROVE  LogicalRight(info, n)
  OBVIOUS
<1>1. e * NR_SUB_PER_PART <= NR_SUB_PER_DRIVE /\ e * NR_SUB_PER_PART \in Int
  <2>1. e * NR_SUB_PER_PART <= NR_PART_PER_DRIVE * NR_SUB_PER_PART
    BY Sizes, RowOrder
  <2>2. e * NR_SUB_PER_PART \in Int
    BY Sizes, SMTT(30)
  <2>. QED BY <2>1, <2>2, Sizes
<1>2. PICK x \in 1 .. NR_PART_PER_DRIVE, k \in 0 .. NR_SUB_PER_PART - 1 :
        n = (x - 1) * NR_SUB_PER_PART + k
  <2>1. n \in 0 .. NR_SUB_PER_DRIVE - 1
    BY <1>1, Sizes
  <2>. QED BY <2>1, LogicalPlaces
<1>. DEFINE row == (x - 1) * NR_SUB_PER_PART
            end == i * NR_SUB_PER_PART
<1>3. row \in Int /\ end \in Int
  BY Sizes, SMTT(30)
<1>4. x <= e
  <2>1. e <= x - 1 => e * NR_SUB_PER_PART <= row
    BY Sizes, RowOrder
  <2>. HIDE DEF row
  <2>. QED BY <2>1, <1>1, <1>2, <1>3, Sizes DEF row
<1>5. CASE x <= i
  <2>1. row + NR_SUB_PER_PART <= end
    BY <1>5, Sizes, RowOrder
  <2>. HIDE DEF row, end
  <2>2. n = row + k
    BY <1>2 DEF row
  <2>3. n \in 0 .. end - 1
    BY <2>1, <2>2, <1>3, Sizes
  <2>. QED BY <2>3 DEF end
<1>6. CASE i < x
  <2>1. layout.prim[x].sys # "EXT_PART"
    BY <1>4, <1>6
  <2>2. layout.sub[x] = <<>>
    BY <2>1, LayoutFacts
  <2>. QED BY <2>2, <1>2, NoDevice
<1>. QED BY <1>5, <1>6

\* partition(P_PRIMARY) from an entry on: it knows all partitions up to the next
\* extended one, or all there are.
LEMMA PrimariesKnown ==
  ASSUME layout \in Layouts, NEW info \in Info, NoneWrong(info),
         NEW i \in 0 .. NR_PART_PER_DRIVE, KnownTo(info, i, i * NR_SUB_PER_PART),
         Primaries(i, info)
  PROVE  /\ hd_info' \in Info /\ NoneWrong(hd_info')
         /\ hd_info'.primary[0] = info.primary[0]
         /\ open_cnt' = open_cnt
         /\ failed' \in {"no", "hd.c:135"}
         /\ \/ scan' = NoScan /\ pc' = "answer" /\ AllKnown(hd_info')
            \/ /\ pc' = "bsy" /\ Scanned(scan', hd_info')
               /\ scan' \in [s : Int, i : 1 .. NR_PART_PER_DRIVE, nr : Nat]
<1>. DEFINE used == {x \in i + 1 .. NR_PART_PER_DRIVE : layout.prim[x].sys # "NO_PART"}
            ext  == {x \in used : layout.prim[x].sys = "EXT_PART"}
            e    == IF ext = {} THEN NR_PART_PER_DRIVE
                    ELSE CHOOSE x \in ext : \A y \in ext : x <= y
<1>1. /\ ext = {} => e = NR_PART_PER_DRIVE
      /\ ext # {} => e \in ext /\ \A y \in ext : e <= y
  <2>1. ext \in SUBSET Nat
    BY Sizes
  <2>2. ext # {} => \E x \in ext : \A y \in ext : x <= y
    BY <2>1, LeastOf
  <2>. QED BY <2>2
<1>2. /\ hd_info' = [info EXCEPT !.primary = [x \in DOMAIN @ |->
                       IF x \in used /\ x <= e
                       THEN part_info(layout.prim[x].start, layout.prim[x].size)
                       ELSE @[x]]]
      /\ IF ext = {} THEN Opened ELSE GoOn([s |-> layout.prim[e].start, i |-> e, nr |-> 0])
      /\ failed' = IF i = 0 /\ used = {} THEN "hd.c:135" ELSE "no"
      /\ UNCHANGED open_cnt
  BY DEF Primaries
<1>3. /\ used \subseteq i + 1 .. NR_PART_PER_DRIVE
      /\ \A x \in used : layout.prim[x].sys # "NO_PART"
      /\ \A x \in i + 1 .. NR_PART_PER_DRIVE : x \notin used => layout.prim[x].sys = "NO_PART"
  OBVIOUS
<1>4. e \in i .. NR_PART_PER_DRIVE /\ (ext # {} => e \in i + 1 .. NR_PART_PER_DRIVE)
  BY <1>1, Sizes
<1>5. \A x \in i + 1 .. e : layout.prim[x].sys # "EXT_PART" \/ (ext # {} /\ x = e)
  BY <1>1, <1>4, Sizes
<1>6. ext # {} => layout.prim[e].sys = "EXT_PART"
  BY <1>1
<1>. HIDE DEF used, ext, e
<1>7. /\ \A x \in 1 .. NR_PART_PER_DRIVE :
           layout.prim[x].start \in Nat /\ layout.prim[x].size \in Nat
      /\ \A x \in 1 .. NR_PART_PER_DRIVE :
           layout.prim[x].sys = "NO_PART" => layout.prim[x].size = 0
  BY LayoutFacts
<1>8. /\ hd_info'.logical = info.logical
      /\ hd_info'.primary = [x \in 0 .. NR_PART_PER_DRIVE |->
                       IF x \in used /\ x <= e
                       THEN part_info(layout.prim[x].start, layout.prim[x].size)
                       ELSE info.primary[x]]
      /\ hd_info' = [primary |-> hd_info'.primary, logical |-> hd_info'.logical]
  BY <1>2 DEF Info
<1>9. hd_info' \in Info
  <2>1. hd_info'.primary \in [0 .. NR_PART_PER_DRIVE -> [base : Int, size : Nat]]
    <3>1. \A x \in used : part_info(layout.prim[x].start, layout.prim[x].size)
                            \in [base : Int, size : Nat]
      BY <1>3, <1>7, Sizes DEF part_info
    <3>2. \A x \in 0 .. NR_PART_PER_DRIVE : info.primary[x] \in [base : Int, size : Nat]
      BY DEF Info
    <3>. QED BY <3>1, <3>2, <1>8
  <2>2. hd_info'.logical \in [0 .. NR_SUB_PER_DRIVE - 1 -> [base : Int, size : Nat]]
    BY <1>8 DEF Info
  <2>. QED BY <2>1, <2>2, <1>8 DEF Info
<1>10. \A x \in 1 .. e : PrimaryRight(hd_info', x)
  <2>. SUFFICES ASSUME NEW x \in 1 .. e
                PROVE  PrimaryRight(hd_info', x)
    OBVIOUS
  <2>0. x \in 1 .. NR_PART_PER_DRIVE
    BY <1>4, Sizes
  <2>1. CASE x <= i
    <3>1. x \notin used /\ PrimaryRight(info, x)
      BY <2>1, <1>3, Sizes DEF KnownTo
    <3>. QED BY <3>1, <2>0, <1>8, Sizes DEF PrimaryRight
  <2>2. CASE x \in used
    BY <2>2, <2>0, <1>3, <1>4, <1>8, Sizes DEF PrimaryRight
  <2>3. CASE x \notin used /\ i < x
    <3>1. layout.prim[x].sys = "NO_PART"
      BY <2>3, <2>0, <1>3
    <3>2. info.primary[x].size = 0
      BY <3>1, <2>0, <1>7 DEF NoneWrong, PrimaryRight
    <3>. QED BY <3>1, <3>2, <2>3, <2>0, <1>8 DEF PrimaryRight
  <2>. QED BY <2>1, <2>2, <2>3, <1>4, Sizes
<1>11. NoneWrong(hd_info')
  <2>1. \A n \in 0 .. NR_SUB_PER_DRIVE - 1 :
          hd_info'.logical[n].size = 0 \/ LogicalRight(hd_info', n)
    BY <1>8 DEF NoneWrong, LogicalRight
  <2>2. ASSUME NEW x \in 1 .. NR_PART_PER_DRIVE, ~(x <= e)
        PROVE  hd_info'.primary[x].size = 0 \/ PrimaryRight(hd_info', x)
    BY <2>2, <1>8 DEF NoneWrong, PrimaryRight
  <2>. QED BY <2>1, <2>2, <1>4, <1>10, Sizes DEF NoneWrong
<1>12. \A n \in 0 .. i * NR_SUB_PER_PART - 1 : LogicalRight(hd_info', n)
  BY <1>8 DEF KnownTo, LogicalRight
<1>13. CASE ext = {}
  <2>1. e = NR_PART_PER_DRIVE
    BY <1>13, <1>1
  <2>2. \A n \in 0 .. NR_PART_PER_DRIVE * NR_SUB_PER_PART - 1 : LogicalRight(hd_info', n)
    BY <2>1, <1>4, <1>5, <1>11, <1>12, <1>13, NoneBetween
  <2>3. AllKnown(hd_info')
    BY <2>1, <2>2, <1>10, Sizes DEF AllKnown, KnownTo
  <2>. QED
    BY <2>3, <1>2, <1>3, <1>8, <1>9, <1>11, <1>13, Sizes DEF Opened
<1>14. CASE ext # {}
  <2>1. e \in 1 .. NR_PART_PER_DRIVE /\ e - 1 \in i .. NR_PART_PER_DRIVE
    BY <1>14, <1>4, Sizes
  <2>2. \A x \in i + 1 .. e - 1 : layout.prim[x].sys # "EXT_PART"
    BY <1>4, <1>5, Sizes
  <2>3. \A n \in 0 .. (e - 1) * NR_SUB_PER_PART - 1 : LogicalRight(hd_info', n)
    BY <2>1, <2>2, <1>11, <1>12, NoneBetween
  <2>4. (e - 1) * NR_SUB_PER_PART + 0 = (e - 1) * NR_SUB_PER_PART
    BY <2>1, Sizes, SMTT(30)
  <2>5. scan' = [s |-> layout.prim[e].start, i |-> e, nr |-> 0] /\ pc' = "bsy"
    BY <1>2, <1>14 DEF GoOn
  <2>6. KnownTo(hd_info', e, (e - 1) * NR_SUB_PER_PART + 0)
    BY <2>3, <2>4, <1>10 DEF KnownTo
  <2>7. layout.sub[e] = <<>> \/ (1 \in DOMAIN layout.sub[e]
                                 /\ layout.sub[e][1].table = layout.prim[e].start)
    <3>1. layout.sub[e] \in Seq([table : Nat, start : Nat, size : Nat])
      BY <2>1, ChainFacts
    <3>2. layout.sub[e] = <<>> \/ 1 \in DOMAIN layout.sub[e]
      BY <3>1
    <3>. QED BY <3>2, <2>1, ChainFacts
  <2>8. InChain(scan')
    BY <2>1, <2>5, <2>7, <1>6, <1>14, Sizes DEF InChain
  <2>9. Scanned(scan', hd_info')
    BY <2>5, <2>6, <2>8 DEF Scanned
  <2>10. scan' \in [s : Int, i : 1 .. NR_PART_PER_DRIVE, nr : Nat]
    BY <2>1, <2>5, <1>7
  <2>. QED
    BY <2>5, <2>9, <2>10, <1>2, <1>3, <1>8, <1>9, <1>11, Sizes
<1>. QED BY <1>13, <1>14

\* partition(P_EXTENDED): one table of the chain more is known, and where the next
\* one is, if there is one.
Step(x) == [hd_info EXCEPT !.logical[(x.i - 1) * NR_SUB_PER_PART + x.nr] =
              part_info(x.s + SubTable(x.i, x.s)[1].start, SubTable(x.i, x.s)[1].size)]

LEMMA MemberOfSeq ==
  ASSUME NEW T, NEW s \in Seq(T), NEW m \in DOMAIN s
  PROVE  s[m] \in T
  OBVIOUS

LEMMA NextTable ==
  ASSUME NEW chain \in Seq([table : Nat, start : Nat, size : Nat]), NEW n \in Nat,
         n + 1 \in DOMAIN chain
  PROVE  /\ chain[n + 1] \in [table : Nat, start : Nat, size : Nat]
         /\ n + 1 # Len(chain) => n + 2 \in DOMAIN chain /\ chain[n + 2].table \in Nat
         /\ n + 1 = Len(chain) => n + 2 \notin DOMAIN chain
<1>1. DOMAIN chain = 1 .. Len(chain) /\ Len(chain) \in Nat
  OBVIOUS
<1>2. \A m \in DOMAIN chain : chain[m] \in [table : Nat, start : Nat, size : Nat]
  BY MemberOfSeq
<1>3. \A m \in DOMAIN chain : chain[m].table \in Nat
  BY <1>2
<1>4. /\ n + 1 # Len(chain) => n + 2 \in DOMAIN chain
      /\ n + 1 = Len(chain) => n + 2 \notin DOMAIN chain
  <2>1. ASSUME NEW k \in Nat, n + 1 \in 1 .. k
        PROVE  /\ n + 1 # k => n + 2 \in 1 .. k
               /\ n + 1 = k => n + 2 \notin 1 .. k
    BY <2>1
  <2>2. n + 1 \in 1 .. Len(chain)
    BY <1>1
  <2>. QED BY <1>1, <2>1, <2>2, Zenon
<1>. QED BY <1>2, <1>3, <1>4

LEMMA TableRead ==
  ASSUME layout \in Layouts, NEW x, InChain(x)
  PROVE  LET tbl == SubTable(x.i, x.s)
             chain == layout.sub[x.i] IN
         /\ x.nr + 1 \in DOMAIN chain =>
              /\ x.s + tbl[1].start = chain[x.nr + 1].start
              /\ tbl[1].size = chain[x.nr + 1].size
         /\ x.nr + 1 \notin DOMAIN chain => tbl[1].size = 0
         /\ tbl[1].start \in Int /\ tbl[1].size \in Nat /\ x.s \in Nat
         /\ tbl[2].sys = "NO_PART" => x.nr + 2 \notin DOMAIN chain
         /\ tbl[2].sys # "NO_PART" =>
              /\ x.nr + 2 \in DOMAIN chain
              /\ layout.prim[x.i].start + tbl[2].start = chain[x.nr + 2].table
<1>. DEFINE chain == layout.sub[x.i]
            here == {k \in DOMAIN chain : chain[k].table = x.s}
<1>1. /\ chain \in Seq([table : Nat, start : Nat, size : Nat])
      /\ layout.prim[x.i].start \in Nat
      /\ x.nr \in Nat
  <2>1. x.i \in 1 .. NR_PART_PER_DRIVE /\ x.nr \in Nat
    BY Sizes DEF InChain
  <2>. QED BY <2>1, ChainFacts, LayoutFacts
<1>2. CASE x.nr + 1 \in DOMAIN chain
  <2>. DEFINE k == CHOOSE y \in DOMAIN layout.sub[x.i] : layout.sub[x.i][y].table = x.s
  <2>1. chain[x.nr + 1].table = x.s
    BY <1>2 DEF InChain
  <2>2. \A y \in DOMAIN chain : chain[y].table = x.s => y = x.nr + 1
    <3>1. x.i \in 1 .. NR_PART_PER_DRIVE
      BY DEF InChain
    <3>2. \A a, b \in DOMAIN chain : chain[a].table = chain[b].table => a = b
      BY <3>1, ChainFacts
    <3>. QED BY <1>2, <2>1, <3>2
  <2>3. k = x.nr + 1
    BY <1>2, <2>1, <2>2
  <2>4. SubTable(x.i, x.s) =
          <<Entry("DATA", chain[x.nr + 1].start - x.s, chain[x.nr + 1].size),
            IF x.nr + 1 = Len(chain) THEN Unused
            ELSE Entry("EXT_PART",
                       chain[x.nr + 2].table - layout.prim[x.i].start, 1)>>
    <3>1. \E y \in DOMAIN chain : chain[y].table = x.s
      BY <1>2, <2>1
    <3>2. (x.nr + 1) + 1 = x.nr + 2
      BY <1>1
    <3>. HIDE DEF k
    <3>3. SubTable(x.i, x.s) =
            <<Entry("DATA", chain[k].start - x.s, chain[k].size),
              IF k = Len(chain) THEN Unused
              ELSE Entry("EXT_PART",
                         chain[k + 1].table - layout.prim[x.i].start, 1)>>
      BY <3>1, Zenon DEF SubTable, k
    <3>. QED BY <2>3, <3>2, <3>3
  <2>. HIDE DEF chain, k
  <2>5. /\ chain[x.nr + 1] \in [table : Nat, start : Nat, size : Nat]
        /\ x.nr + 1 # Len(chain) => /\ x.nr + 2 \in DOMAIN chain
                                    /\ chain[x.nr + 2].table \in Nat
        /\ x.nr + 1 = Len(chain) => x.nr + 2 \notin DOMAIN chain
    BY <1>1, <1>2, NextTable
  <2>6. SubTable(x.i, x.s)[1] = Entry("DATA", chain[x.nr + 1].start - x.s, chain[x.nr + 1].size)
    BY <2>4
  <2>7. SubTable(x.i, x.s)[2] = IF x.nr + 1 = Len(chain) THEN Unused
                                ELSE Entry("EXT_PART", chain[x.nr + 2].table
                                                         - layout.prim[x.i].start, 1)
    BY <2>4
  <2>8. /\ x.s \in Nat
        /\ x.s + SubTable(x.i, x.s)[1].start = chain[x.nr + 1].start
        /\ SubTable(x.i, x.s)[1].size = chain[x.nr + 1].size
        /\ SubTable(x.i, x.s)[1].start \in Int /\ SubTable(x.i, x.s)[1].size \in Nat
    BY <2>1, <2>5, <2>6 DEF Entry
  <2>9. /\ SubTable(x.i, x.s)[2].sys = "NO_PART" => x.nr + 2 \notin DOMAIN chain
        /\ SubTable(x.i, x.s)[2].sys # "NO_PART" =>
             /\ x.nr + 2 \in DOMAIN chain
             /\ layout.prim[x.i].start + SubTable(x.i, x.s)[2].start
                  = chain[x.nr + 2].table
    <3>1. CASE x.nr + 1 = Len(chain)
      BY <3>1, <2>5, <2>7 DEF Entry, Unused
    <3>2. CASE x.nr + 1 # Len(chain)
      <4>1. /\ SubTable(x.i, x.s)[2].sys = "EXT_PART"
            /\ SubTable(x.i, x.s)[2].start
                 = chain[x.nr + 2].table - layout.prim[x.i].start
        BY <3>2, <2>7 DEF Entry
      <4>2. \A a, b \in Nat : a + (b - a) = b
        OBVIOUS
      <4>3. x.nr + 2 \in DOMAIN chain /\ chain[x.nr + 2].table \in Nat
        BY <3>2, <2>5
      <4>4. layout.prim[x.i].start + SubTable(x.i, x.s)[2].start = chain[x.nr + 2].table
        <5>1. layout.prim[x.i].start
                + (chain[x.nr + 2].table - layout.prim[x.i].start) = chain[x.nr + 2].table
          BY <4>2, <4>3, <1>1
        <5>. QED BY <4>1, <5>1
      <4>. QED BY <4>1, <4>3, <4>4
    <3>. QED BY <3>1, <3>2
  <2>. QED
    BY <1>2, <2>8, <2>9 DEF chain
<1>3. CASE x.nr + 1 \notin DOMAIN chain
  <2>1. chain = <<>> /\ x.nr = 0 /\ x.s = layout.prim[x.i].start
    BY <1>3 DEF InChain
  <2>2. DOMAIN chain = {}
    BY <2>1
  <2>3. SubTable(x.i, x.s) = <<Unused, Unused>>
    BY <2>2, Zenon DEF SubTable
  <2>. QED
    BY <1>1, <1>3, <2>1, <2>2, <2>3 DEF Entry, Unused
<1>. QED BY <1>2, <1>3

LEMMA TableKnown ==
  ASSUME layout \in Layouts, hd_info \in Info, NoneWrong(hd_info),
         NEW x, Scanned(x, hd_info)
  PROVE  /\ Step(x) \in Info /\ NoneWrong(Step(x))
         /\ Step(x).primary = hd_info.primary
         /\ KnownTo(Step(x), x.i, (x.i - 1) * NR_SUB_PER_PART + (x.nr + 1))
         /\ SubTable(x.i, x.s)[2].sys = "NO_PART" \/ x.nr + 1 = NR_SUB_PER_PART =>
              KnownTo(Step(x), x.i, x.i * NR_SUB_PER_PART)
<1>. DEFINE row == (x.i - 1) * NR_SUB_PER_PART
            n   == row + x.nr
            tbl == SubTable(x.i, x.s)
            p   == part_info(x.s + tbl[1].start, tbl[1].size)
            chain == layout.sub[x.i]
<1>1. /\ x.i \in 1 .. NR_PART_PER_DRIVE /\ x.nr \in 0 .. NR_SUB_PER_PART - 1
      /\ x.nr \in Nat /\ InChain(x) /\ KnownTo(hd_info, x.i, n)
  BY Sizes DEF Scanned, InChain
<1>2. /\ n \in 0 .. NR_SUB_PER_DRIVE - 1
      /\ row + NR_SUB_PER_PART = x.i * NR_SUB_PER_PART
      /\ row \in Nat
  <2>1. n \in 0 .. NR_PART_PER_DRIVE * NR_SUB_PER_PART - 1
    <3>1. NR_SUB_PER_PART * NR_PART_PER_DRIVE = NR_PART_PER_DRIVE * NR_SUB_PER_PART
      BY Sizes DEF NR_SUB_PER_DRIVE
    <3>. QED BY <1>1, <3>1, Sizes, RowFits
  <2>2. row \in Nat /\ row + NR_SUB_PER_PART = x.i * NR_SUB_PER_PART
    BY <1>1, Sizes, SMTT(30)
  <2>. QED BY <2>1, <2>2, Sizes
<1>3. /\ x.nr + 1 \in DOMAIN chain =>
           /\ x.s + tbl[1].start = chain[x.nr + 1].start
           /\ tbl[1].size = chain[x.nr + 1].size
      /\ x.nr + 1 \notin DOMAIN chain => tbl[1].size = 0
      /\ x.s + tbl[1].start \in Int /\ tbl[1].size \in Nat
      /\ tbl[2].sys = "NO_PART" => x.nr + 2 \notin DOMAIN chain
  BY <1>1, TableRead
<1>4. LET d == MINOR_hd1a + n IN
      IF d \in DOMAIN OnDisk THEN p = OnDisk[d] ELSE p.size = 0
  <2>1. /\ MINOR_hd1a + n \in DOMAIN Devices(layout) <=> x.nr + 1 \in DOMAIN chain
        /\ MINOR_hd1a + n \in DOMAIN Devices(layout) =>
              Devices(layout)[MINOR_hd1a + n] =
                part_info(chain[x.nr + 1].start, chain[x.nr + 1].size)
    BY <1>1, LogicalDevices
  <2>. HIDE DEF n, chain, tbl
  <2>. QED BY <2>1, <1>3 DEF OnDisk, part_info
<1>5. p \in [base : Int, size : Nat]
  BY <1>3 DEF part_info
<1>6. Step(x) = [hd_info EXCEPT !.logical[n] = p]
  BY DEF Step
<1>. HIDE DEF n, p, row, tbl, chain
<1>7. /\ Step(x).primary = hd_info.primary
      /\ Step(x).logical = [hd_info.logical EXCEPT ![n] = p]
      /\ Step(x) = [primary |-> Step(x).primary, logical |-> Step(x).logical]
  BY <1>6 DEF Info
<1>8. Step(x) \in Info
  BY <1>5, <1>7 DEF Info
<1>9. LogicalRight(Step(x), n)
      /\ \A m \in 0 .. NR_SUB_PER_DRIVE - 1 :
           m # n => Step(x).logical[m] = hd_info.logical[m]
  BY <1>2, <1>4, <1>7 DEF LogicalRight, Info
<1>10. NoneWrong(Step(x))
  <2>1. \A i \in 1 .. NR_PART_PER_DRIVE :
          Step(x).primary[i].size = 0 \/ PrimaryRight(Step(x), i)
    BY <1>7 DEF NoneWrong, PrimaryRight
  <2>2. \A m \in 0 .. NR_SUB_PER_DRIVE - 1 :
          Step(x).logical[m].size = 0 \/ LogicalRight(Step(x), m)
    BY <1>9 DEF NoneWrong, LogicalRight
  <2>. QED BY <2>1, <2>2 DEF NoneWrong
<1>11. \A i \in 1 .. x.i : PrimaryRight(Step(x), i)
  BY <1>1, <1>7 DEF KnownTo, PrimaryRight
<1>12. \A m \in 0 .. n : LogicalRight(Step(x), m)
  <2>1. \A m \in 0 .. n - 1 : LogicalRight(hd_info, m)
    BY <1>1 DEF KnownTo, n, row
  <2>2. \A m \in 0 .. n - 1 : LogicalRight(Step(x), m)
    BY <2>1, <1>2, <1>9, Sizes DEF LogicalRight
  <2>. QED BY <2>2, <1>2, <1>9, Sizes
<1>13. row + (x.nr + 1) = n + 1
  BY <1>1, <1>2 DEF n
<1>14. KnownTo(Step(x), x.i, row + (x.nr + 1))
  BY <1>2, <1>11, <1>12, <1>13, Sizes DEF KnownTo
<1>15. ASSUME tbl[2].sys = "NO_PART" \/ x.nr + 1 = NR_SUB_PER_PART,
              NEW m \in n + 1 .. (row + NR_SUB_PER_PART) - 1
       PROVE  LogicalRight(Step(x), m)
  <2>. DEFINE k == m - row
  <2>1. /\ k \in 0 .. NR_SUB_PER_PART - 1 /\ m = row + k /\ k > x.nr
        /\ x.nr + 1 # NR_SUB_PER_PART
    BY <1>1, <1>2, Sizes DEF n
  <2>2. x.nr + 2 \notin DOMAIN chain
    BY <2>1, <1>3, <1>15
  <2>3. chain \in Seq([table : Nat, start : Nat, size : Nat])
    BY <1>1, ChainFacts DEF chain
  <2>. HIDE DEF k
  <2>4. k + 1 \notin DOMAIN chain
    <3>1. DOMAIN chain = 1 .. Len(chain) /\ Len(chain) \in Nat
      BY <2>3
    <3>. QED BY <3>1, <2>1, <2>2, <1>1, Sizes
  <2>. QED BY <2>1, <2>4, <1>1, <1>10, NoDevice DEF row, chain
<1>16. tbl[2].sys = "NO_PART" \/ x.nr + 1 = NR_SUB_PER_PART =>
         KnownTo(Step(x), x.i, x.i * NR_SUB_PER_PART)
  BY <1>2, <1>11, <1>12, <1>15, Sizes DEF KnownTo
<1>. QED
  BY <1>7, <1>8, <1>10, <1>14, <1>16 DEF row, tbl

LEMMA ExtendedKnown ==
  ASSUME layout \in Layouts, hd_info \in Info, NoneWrong(hd_info),
         Scanned(scan, hd_info), Extended
  PROVE  /\ hd_info' \in Info /\ NoneWrong(hd_info')
         /\ hd_info'.primary[0] = hd_info.primary[0]
         /\ open_cnt' = open_cnt
         /\ failed' \in {failed, "no", "hd.c:135"}
         /\ \/ scan' = NoScan /\ pc' = "answer" /\ AllKnown(hd_info')
            \/ /\ pc' = "bsy" /\ Scanned(scan', hd_info')
               /\ scan' \in [s : Int, i : 1 .. NR_PART_PER_DRIVE, nr : Nat]
<1>. DEFINE last == SubTable(scan.i, scan.s)[2].sys = "NO_PART"
                    \/ scan.nr + 1 = NR_SUB_PER_PART
<1>1. /\ scan.i \in 1 .. NR_PART_PER_DRIVE /\ scan.nr \in 0 .. NR_SUB_PER_PART - 1
      /\ scan.nr \in Nat /\ InChain(scan)
  BY Sizes DEF Scanned, InChain
<1>2. /\ Step(scan) \in Info /\ NoneWrong(Step(scan))
      /\ Step(scan).primary = hd_info.primary
      /\ KnownTo(Step(scan), scan.i, (scan.i - 1) * NR_SUB_PER_PART + (scan.nr + 1))
      /\ last => KnownTo(Step(scan), scan.i, scan.i * NR_SUB_PER_PART)
  BY TableKnown
<1>3. IF last THEN Primaries(scan.i, Step(scan))
      ELSE /\ hd_info' = Step(scan) /\ UNCHANGED <<open_cnt, failed>>
           /\ GoOn([s |-> hd_info.primary[scan.i].base + SubTable(scan.i, scan.s)[2].start,
                    i |-> scan.i, nr |-> scan.nr + 1])
  BY DEF Extended, Step
<1>4. CASE last
  BY <1>1, <1>2, <1>3, <1>4, PrimariesKnown
<1>5. CASE ~last
  <2>. DEFINE x == [s |-> hd_info.primary[scan.i].base + SubTable(scan.i, scan.s)[2].start,
                    i |-> scan.i, nr |-> scan.nr + 1]
  <2>1. hd_info.primary[scan.i].base = layout.prim[scan.i].start
    <3>1. PrimaryRight(hd_info, scan.i) /\ layout.prim[scan.i].sys = "EXT_PART"
      BY <1>1 DEF Scanned, KnownTo, InChain
    <3>. QED BY <3>1 DEF PrimaryRight, part_info
  <2>2. /\ scan.nr + 2 \in DOMAIN layout.sub[scan.i]
        /\ x.s = layout.sub[scan.i][scan.nr + 2].table
    BY <1>1, <1>5, <2>1, TableRead
  <2>3. scan' = x /\ pc' = "bsy" /\ hd_info' = Step(scan)
    BY <1>3, <1>5 DEF GoOn
  <2>4. x.i = scan.i /\ x.nr = scan.nr + 1 /\ x.nr + 1 = scan.nr + 2
    BY <1>1
  <2>. HIDE DEF x
  <2>5. x.nr \in 0 .. NR_SUB_PER_PART - 1
    <3>1. scan.nr + 1 # NR_SUB_PER_PART
      BY <1>5
    <3>. QED BY <3>1, <1>1, <2>4, Sizes
  <2>6. InChain(x)
    BY <1>1, <2>2, <2>4, <2>5 DEF InChain
  <2>7. Scanned(x, Step(scan))
    BY <1>2, <2>4, <2>6 DEF Scanned
  <2>8. x \in [s : Int, i : 1 .. NR_PART_PER_DRIVE, nr : Nat]
    <3>1. layout.sub[scan.i][scan.nr + 2] \in [table : Nat, start : Nat, size : Nat]
      BY <1>1, <2>2, ChainFacts, MemberOfSeq
    <3>. QED BY <3>1, <1>1, <2>2 DEF x
  <2>. QED
    BY <1>2, <1>3, <1>5, <2>3, <2>7, <2>8
<1>. QED BY <1>4, <1>5

\* A device has a place in the tables, and lies on the disk.
LEMMA DeviceOnDisk ==
  ASSUME layout \in Layouts, NEW d \in DOMAIN OnDisk
  PROVE  /\ OnDisk[d] \in [base : Nat, size : Nat]
         /\ OnDisk[d].base + OnDisk[d].size <= NrSectors
<1>1. CASE d \in 1 .. NR_PART_PER_DRIVE
  <2>1. /\ layout.prim[d].sys = "DATA"
        /\ OnDisk[d] = part_info(layout.prim[d].start, layout.prim[d].size)
    BY <1>1, PrimaryDevices DEF OnDisk
  <2>2. /\ layout.prim[d].start \in Nat /\ layout.prim[d].size \in Nat
        /\ layout.prim[d].start + layout.prim[d].size <= NrSectors
    BY <1>1, <2>1, LayoutFacts
  <2>. QED BY <2>1, <2>2 DEF part_info
<1>2. CASE d \notin 1 .. NR_PART_PER_DRIVE
  <2>1. PICK n \in 0 .. NR_SUB_PER_DRIVE - 1 : d = MINOR_hd1a + n
    BY <1>2 DEF OnDisk, Devices
  <2>2. PICK i \in 1 .. NR_PART_PER_DRIVE, k \in 0 .. NR_SUB_PER_PART - 1 :
          n = (i - 1) * NR_SUB_PER_PART + k
    BY LogicalPlaces
  <2>3. /\ k + 1 \in DOMAIN layout.sub[i]
        /\ OnDisk[d] = part_info(layout.sub[i][k + 1].start, layout.sub[i][k + 1].size)
    BY <2>1, <2>2, LogicalDevices DEF OnDisk
  <2>4. /\ layout.sub[i][k + 1] \in [table : Nat, start : Nat, size : Nat]
        /\ layout.sub[i][k + 1].start \in
             layout.sub[i][k + 1].table + 1 .. NrSectors - layout.sub[i][k + 1].size
    BY <2>3, ChainFacts, MemberOfSeq
  <2>5. /\ layout.sub[i][k + 1].start \in Nat /\ layout.sub[i][k + 1].size \in Nat
        /\ layout.sub[i][k + 1].start + layout.sub[i][k + 1].size <= NrSectors
    BY <2>4, HdAssumption
  <2>. QED BY <2>3, <2>5 DEF part_info
<1>. QED BY <1>1, <1>2

\* A device of the open disk is where the driver takes it to be.
LEMMA DeviceFound ==
  ASSUME layout \in Layouts, AllKnown(hd_info), NEW d \in DOMAIN OnDisk
  PROVE  Found(d) = OnDisk[d]
<1>1. CASE d \in 1 .. NR_PART_PER_DRIVE
  <2>1. /\ layout.prim[d].sys = "DATA"
        /\ OnDisk[d] = part_info(layout.prim[d].start, layout.prim[d].size)
    BY <1>1, PrimaryDevices DEF OnDisk
  <2>2. PrimaryRight(hd_info, d)
    BY <1>1 DEF AllKnown, KnownTo
  <2>3. d < MAX_PRIM
    BY <1>1, Sizes DEF MAX_PRIM, NR_PRIM_PER_DRIVE
  <2>. QED
    BY <2>1, <2>2, <2>3 DEF Found, PrimaryRight
<1>2. CASE d \notin 1 .. NR_PART_PER_DRIVE
  <2>1. PICK n \in 0 .. NR_SUB_PER_DRIVE - 1 : d = MINOR_hd1a + n
    BY <1>2 DEF OnDisk, Devices
  <2>2. LogicalRight(hd_info, n)
    BY <2>1 DEF AllKnown, KnownTo
  <2>3. n \in Nat /\ n % NR_SUB_PER_DRIVE = n /\ ~(d < MAX_PRIM) /\ d - MINOR_hd1a = n
    <3>1. n \in Nat /\ n < NR_SUB_PER_DRIVE
      BY <2>1, Sizes
    <3>2. MAX_PRIM \in Nat /\ MINOR_hd1a = MAX_PRIM + 1
      BY Sizes DEF MINOR_hd1a, MAX_PRIM, NR_PRIM_PER_DRIVE
    <3>3. n % NR_SUB_PER_DRIVE = n
      BY <3>1, Sizes, SMTT(30)
    <3>. QED BY <2>1, <3>1, <3>2, <3>3
  <2>. QED
    BY <2>1, <2>2, <2>3 DEF Found, LogicalRight
<1>. QED BY <1>1, <1>2

----------------------------------------------------------------------------
\* The invariant.
LEMMA InitHdInv == HdInit => HdInv
<1>. SUFFICES ASSUME HdInit PROVE HdInv
  OBVIOUS
<1>. USE DEF HdInit
<1>1. HdTypes
  <2>1. ZeroBuffer \in Buffers
    BY HdAssumption DEF ZeroBuffer, Buffers
  <2>2. scan \in [s : Int, i : 0 .. NR_PART_PER_DRIVE, nr : Nat]
    BY Sizes DEF NoScan
  <2>3. platter \in [Sectors -> Values]
    BY HdAssumption
  <2>4. drive \in DriveType
    BY DEF DriveType
  <2>. QED BY <2>1, <2>2, <2>3, <2>4 DEF HdTypes
<1>2. Serving
  BY DEF Serving
<1>3. Finding
  <2>1. hd_info \in Info
    BY DEF Info, part_info
  <2>2. NoneWrong(hd_info)
    BY Sizes DEF NoneWrong, part_info
  <2>. QED BY <2>1, <2>2 DEF Finding
<1>4. InStep
  BY DEF InStep, Quiet
<1>. QED BY <1>1, <1>2, <1>3, <1>4 DEF HdInv, NoneStray

\* What reading a table, or the size of the disk, adds.
LEMMA TableStep ==
  ASSUME HdInv, PortReadTable
  PROVE  /\ hd_info' \in Info /\ NoneWrong(hd_info') /\ open_cnt' \in Nat \ {0}
         /\ hd_info'.primary[0] = part_info(0, NrSectors)
         /\ failed' \in {"no", "hd.c:135"}
         /\ scan' \in [s : Int, i : 0 .. NR_PART_PER_DRIVE, nr : Nat]
         /\ \/ scan' = NoScan /\ pc' = "answer" /\ AllKnown(hd_info')
            \/ /\ pc' = "bsy" /\ scan' # NoScan
               /\ scan' = [s |-> 0, i |-> 0, nr |-> 1] \/ Scanned(scan', hd_info')
<1>1. /\ layout \in Layouts /\ failed = "no" /\ hd_info \in Info /\ NoneWrong(hd_info)
      /\ open_cnt \in Nat
      /\ scan \in [s : Int, i : 0 .. NR_PART_PER_DRIVE, nr : Nat]
  BY DEF HdInv, HdTypes, Serving, Finding, PortReadTable, At
<1>2. CASE scan = NoScan
  <2>1. Identified
    BY <1>2 DEF PortReadTable, NoScan
  <2>2. /\ hd_info' = [hd_info EXCEPT !.primary[0] = part_info(0, NrSectors)]
        /\ open_cnt' = open_cnt + 1 /\ failed' = "no"
        /\ IF open_cnt = 0 THEN GoOn([s |-> 0, i |-> 0, nr |-> 1]) ELSE Opened
    BY <2>1, <1>1 DEF Identified
  <2>3. /\ hd_info'.logical = hd_info.logical
        /\ hd_info'.primary = [hd_info.primary EXCEPT ![0] = part_info(0, NrSectors)]
        /\ hd_info' = [primary |-> hd_info'.primary, logical |-> hd_info'.logical]
    BY <2>2, <1>1 DEF Info
  <2>4. hd_info' \in Info /\ hd_info'.primary[0] = part_info(0, NrSectors)
    <3>1. /\ part_info(0, NrSectors) \in [base : Int, size : Nat]
          /\ 0 \in 0 .. NR_PART_PER_DRIVE
      BY HdAssumption, Sizes DEF part_info
    <3>2. /\ hd_info.primary \in [0 .. NR_PART_PER_DRIVE -> [base : Int, size : Nat]]
          /\ hd_info.logical \in [0 .. NR_SUB_PER_DRIVE - 1 -> [base : Int, size : Nat]]
      BY <1>1 DEF Info
    <3>3. /\ hd_info'.primary \in [0 .. NR_PART_PER_DRIVE -> [base : Int, size : Nat]]
          /\ hd_info'.primary[0] = part_info(0, NrSectors)
      BY <2>3, <3>1, <3>2
    <3>. QED BY <2>3, <3>2, <3>3 DEF Info
  <2>5. \A i \in 1 .. NR_PART_PER_DRIVE : hd_info'.primary[i] = hd_info.primary[i]
    BY <2>3, <1>1 DEF Info
  <2>6. NoneWrong(hd_info')
    BY <1>1, <2>3, <2>5 DEF NoneWrong, PrimaryRight, LogicalRight
  <2>7. CASE open_cnt = 0
    BY <2>2, <2>4, <2>6, <2>7, Sizes DEF GoOn, NoScan
  <2>8. CASE open_cnt # 0
    <3>1. AllKnown(hd_info)
      BY <1>1, <1>2, <2>8 DEF HdInv, Finding
    <3>2. AllKnown(hd_info')
      BY <3>1, <2>3, <2>5 DEF AllKnown, KnownTo, PrimaryRight, LogicalRight
    <3>. QED
      BY <1>1, <2>2, <2>4, <2>6, <2>8, <3>2, Sizes DEF Opened, NoScan
  <2>. QED BY <2>7, <2>8
<1>3. CASE scan # NoScan
  <2>1. /\ open_cnt > 0 /\ hd_info.primary[0] = part_info(0, NrSectors)
        /\ scan = [s |-> 0, i |-> 0, nr |-> 1] \/ Scanned(scan, hd_info)
    BY <1>1, <1>3 DEF HdInv, Finding
  <2>2. ASSUME scan' \in [s : Int, i : 1 .. NR_PART_PER_DRIVE, nr : Nat]
        PROVE  /\ scan' # NoScan
               /\ scan' \in [s : Int, i : 0 .. NR_PART_PER_DRIVE, nr : Nat]
    <3>1. scan' # NoScan
      BY <2>2, Sizes DEF NoScan
    <3>2. 1 .. NR_PART_PER_DRIVE \subseteq 0 .. NR_PART_PER_DRIVE
      BY Sizes
    <3>. QED BY <2>2, <3>1, <3>2
  <2>3. NoScan \in [s : Int, i : 0 .. NR_PART_PER_DRIVE, nr : Nat]
    BY Sizes DEF NoScan
  <2>4. CASE scan = [s |-> 0, i |-> 0, nr |-> 1]
    <3>1. Primaries(0, hd_info)
      BY <2>4, <1>3 DEF PortReadTable
    <3>2. 0 * NR_SUB_PER_PART = 0 /\ 0 \in 0 .. NR_PART_PER_DRIVE
      BY Sizes
    <3>3. KnownTo(hd_info, 0, 0 * NR_SUB_PER_PART)
      BY <3>2 DEF KnownTo
    <3>4. /\ hd_info' \in Info /\ NoneWrong(hd_info')
          /\ hd_info'.primary[0] = hd_info.primary[0]
          /\ open_cnt' = open_cnt
          /\ failed' \in {failed, "no", "hd.c:135"}
          /\ \/ scan' = NoScan /\ pc' = "answer" /\ AllKnown(hd_info')
             \/ /\ pc' = "bsy" /\ Scanned(scan', hd_info')
                /\ scan' \in [s : Int, i : 1 .. NR_PART_PER_DRIVE, nr : Nat]
      BY <1>1, <3>1, <3>2, <3>3, PrimariesKnown
    <3>. HIDE DEF HdInv
    <3>5. /\ scan' \in [s : Int, i : 0 .. NR_PART_PER_DRIVE, nr : Nat]
          /\ \/ scan' = NoScan /\ pc' = "answer" /\ AllKnown(hd_info')
             \/ /\ pc' = "bsy" /\ scan' # NoScan
                /\ Scanned(scan', hd_info')
      BY <2>2, <2>3, <3>4
    <3>6. /\ open_cnt' \in Nat \ {0} /\ failed' \in {"no", "hd.c:135"}
          /\ hd_info'.primary[0] = part_info(0, NrSectors)
      BY <1>1, <2>1, <3>4
    <3>. QED BY <3>4, <3>5, <3>6
  <2>5. CASE Scanned(scan, hd_info)
    <3>1. scan.i > 0 /\ scan.i # 0
      BY <2>5, Sizes DEF Scanned, InChain
    <3>2. Extended
      BY <3>1, <1>3 DEF PortReadTable
    <3>3. /\ hd_info' \in Info /\ NoneWrong(hd_info')
          /\ hd_info'.primary[0] = hd_info.primary[0]
          /\ open_cnt' = open_cnt
          /\ failed' \in {failed, "no", "hd.c:135"}
          /\ \/ scan' = NoScan /\ pc' = "answer" /\ AllKnown(hd_info')
             \/ /\ pc' = "bsy" /\ Scanned(scan', hd_info')
                /\ scan' \in [s : Int, i : 1 .. NR_PART_PER_DRIVE, nr : Nat]
      BY <1>1, <2>5, <3>2, ExtendedKnown
    <3>. HIDE DEF HdInv
    <3>5. /\ scan' \in [s : Int, i : 0 .. NR_PART_PER_DRIVE, nr : Nat]
          /\ \/ scan' = NoScan /\ pc' = "answer" /\ AllKnown(hd_info')
             \/ /\ pc' = "bsy" /\ scan' # NoScan
                /\ Scanned(scan', hd_info')
      BY <2>2, <2>3, <3>3
    <3>6. /\ open_cnt' \in Nat \ {0} /\ failed' \in {"no", "hd.c:135"}
          /\ hd_info'.primary[0] = part_info(0, NrSectors)
      BY <1>1, <2>1, <3>3
    <3>. QED BY <3>3, <3>5, <3>6
  <2>. QED BY <2>1, <2>4, <2>5
<1>. QED BY <1>2, <1>3

\* What does not depend on the driver's progress.
LEMMA ServingKept ==
  ASSUME Serving, UNCHANGED <<layout, req, scan, open_cnt>>, pc # "top",
         pc' \in {"bsy", "drq", "wait", "read", "write", "answer"}
  PROVE  Serving'
  BY DEF Serving, OnDisk

LEMMA FindingKept ==
  ASSUME Finding, UNCHANGED <<layout, scan, hd_info>>,
         open_cnt' \in Nat, open_cnt' > 0 => open_cnt > 0,
         scan # NoScan => /\ UNCHANGED <<req, open_cnt>>
                          /\ pc' \in {"bsy", "wait", "read"}
  PROVE  Finding'
<1>1. /\ NoneWrong(hd_info)' <=> NoneWrong(hd_info)
      /\ AllKnown(hd_info)' <=> AllKnown(hd_info)
      /\ Scanned(scan, hd_info)' <=> Scanned(scan, hd_info)
  BY DEF NoneWrong, AllKnown, Scanned, InChain, KnownTo, PrimaryRight, LogicalRight,
         OnDisk
<1>. QED
  BY <1>1 DEF Finding

LEMMA ProgressKept ==
  ASSUME UNCHANGED <<req, scan, hd_info>>
  PROVE  /\ Registers'.lba = Registers.lba /\ Registers'.cmd = Registers.cmd
         /\ Due' = Due /\ (Reading' <=> Reading) /\ count(Due)' = count(Due)
  BY DEF Registers, Due, Reading, count, Found

\* The driver's place in a request, in arithmetic.
LEMMA PlaceInRequest ==
  ASSUME HdInv, pc \in {"bsy", "drq", "wait", "read", "write"}
  PROVE  /\ Due \in Nat \ {0} /\ left \in 1 .. Due
         /\ count(Due) \in 1 .. Due
         /\ Registers.lba \in Int
         /\ req.type \in Transfers => /\ left <= MaxAsk /\ Due = req.n
                                      /\ Found(req.dev) = OnDisk[req.dev]
                                      /\ OnDisk[req.dev] \in [base : Nat, size : Nat]
                                      /\ OnDisk[req.dev].base + OnDisk[req.dev].size
                                           <= NrSectors
         /\ Reading <=> req.type # "DEV_WRITE"
         /\ Registers.cmd = "WRITE" <=> ~Reading
         /\ Registers.cmd \in {"IDENTIFY", "READ", "WRITE"}
<1>1. /\ req \in RequestType /\ layout \in Layouts /\ left \in 1 .. Due
      /\ req.type \in Transfers \union {"DEV_OPEN"}
      /\ req.type \in Transfers =>
           /\ req.dev \in DOMAIN OnDisk /\ req.n \in 1 .. MaxAsk
           /\ req.at + req.n <= OnDisk[req.dev].size
           /\ open_cnt > 0 /\ scan = NoScan
  BY DEF HdInv, Serving, InStep
<1>2. Due \in Nat \ {0} /\ (req.type \in Transfers => Due = req.n /\ Due <= MaxAsk)
  BY <1>1, HdAssumption DEF Due, Transfers
<1>3. count(Due) \in 1 .. Due
  BY <1>2, CountBounds
<1>4. req.type \in Transfers => /\ Found(req.dev) = OnDisk[req.dev]
                               /\ OnDisk[req.dev] \in [base : Nat, size : Nat]
                               /\ OnDisk[req.dev].base + OnDisk[req.dev].size <= NrSectors
  <2>1. req.type \in Transfers => AllKnown(hd_info)
    BY <1>1 DEF HdInv, Finding
  <2>. QED BY <1>1, <2>1, DeviceFound, DeviceOnDisk
<1>5. Registers.lba \in Int
  <2>1. CASE req.type = "DEV_OPEN"
    BY <2>1 DEF Registers, HdInv, HdTypes
  <2>2. CASE req.type \in Transfers
    BY <2>2, <1>1, <1>4 DEF Registers, Transfers, RequestType
  <2>. QED BY <1>1, <2>1, <2>2
<1>6. /\ Registers.cmd = "WRITE" <=> ~Reading
      /\ Registers.cmd \in {"IDENTIFY", "READ", "WRITE"}
  BY DEF Registers, Reading
<1>. QED
  BY <1>1, <1>2, <1>3, <1>4, <1>5, <1>6, HdAssumption DEF Reading

\* The sector a transfer is at lies in its device, and on the disk.
LEMMA SectorInDevice ==
  ASSUME HdInv, pc \in {"read", "write"}, req.type \in Transfers
  PROVE  /\ req.at + (req.n - left) \in 0 .. OnDisk[req.dev].size - 1
         /\ drive.lba = OnDisk[req.dev].base + (req.at + (req.n - left))
         /\ drive.lba \in Sectors
         /\ platter[drive.lba] \in Values
<1>1. /\ req \in RequestType /\ req.at + req.n <= OnDisk[req.dev].size
      /\ DriveAt
  BY DEF HdInv, Serving, InStep
<1>2. /\ left \in 1 .. req.n /\ req.n \in Nat /\ Due = req.n
      /\ Found(req.dev) = OnDisk[req.dev]
      /\ OnDisk[req.dev] \in [base : Nat, size : Nat]
      /\ OnDisk[req.dev].base + OnDisk[req.dev].size <= NrSectors
  BY <1>1, PlaceInRequest DEF RequestType
<1>3. req.at \in Nat /\ NrSectors \in Nat
  BY <1>1, HdAssumption DEF RequestType
<1>4. drive.lba = OnDisk[req.dev].base + (req.at + (req.n - left))
  <2>1. drive.lba = (OnDisk[req.dev].base + req.at) + (req.n - left)
    BY <1>1, <1>2 DEF DriveAt, MovedSoFar, Registers, Transfers
  <2>. QED BY <1>2, <1>3, <2>1
<1>5. req.at + (req.n - left) \in 0 .. OnDisk[req.dev].size - 1
  BY <1>1, <1>2, <1>3
<1>6. drive.lba \in Sectors
  BY <1>2, <1>3, <1>4, <1>5 DEF Sectors
<1>. QED
  BY <1>4, <1>5, <1>6 DEF HdInv, HdTypes

\* The drive's state when it has moved a sector.
LEMMA DriveMoves ==
  ASSUME NEW dr \in DriveType, NEW st \in {"idle", "busy", "drq"}
  PROVE  LET next == [dr EXCEPT !.st = st, !.lba = dr.lba + 1, !.left = dr.left - 1,
                                !.silent = FALSE] IN
         /\ next \in DriveType
         /\ next.st = st /\ next.lba = dr.lba + 1 /\ next.left = dr.left - 1
         /\ next.cmd = dr.cmd /\ next.silent = FALSE
<1>. DEFINE lba == dr.lba + 1
            left_ == dr.left - 1
            d1 == [dr EXCEPT !.st = st]
            d2 == [d1 EXCEPT !.lba = lba]
            d3 == [d2 EXCEPT !.left = left_]
            off == FALSE
            next == [d3 EXCEPT !.silent = off]
<1>1. /\ dr = [st |-> dr.st, cmd |-> dr.cmd, lba |-> dr.lba, left |-> dr.left,
               silent |-> dr.silent]
      /\ dr.cmd \in {"IDENTIFY", "READ", "WRITE"} /\ lba \in Int /\ left_ \in Int
  BY DEF DriveType
<1>. HIDE DEF lba, left_, off
<1>2. d1 = [st |-> st, cmd |-> dr.cmd, lba |-> dr.lba, left |-> dr.left,
            silent |-> dr.silent]
  BY <1>1
<1>. HIDE DEF d1
<1>3. d2 = [st |-> st, cmd |-> dr.cmd, lba |-> lba, left |-> dr.left,
            silent |-> dr.silent]
  BY <1>2
<1>. HIDE DEF d2
<1>4. d3 = [st |-> st, cmd |-> dr.cmd, lba |-> lba, left |-> left_, silent |-> dr.silent]
  BY <1>3
<1>. HIDE DEF d3
<1>5. next = [st |-> st, cmd |-> dr.cmd, lba |-> lba, left |-> left_, silent |-> off]
  BY <1>4
<1>. HIDE DEF next
<1>6. next \in DriveType
  BY <1>1, <1>5 DEF DriveType, off
<1>7. /\ next.st = st /\ next.lba = lba /\ next.left = left_
      /\ next.cmd = dr.cmd /\ next.silent = off
  BY <1>5
<1>. QED BY <1>6, <1>7 DEF next, d3, d2, d1, lba, left_, off

----------------------------------------------------------------------------
\* Each step keeps the invariant.
LEMMA ReceiveHdInv ==
  ASSUME HdInv, Receive
  PROVE  HdInv'
<1>1. /\ pc = "top" /\ failed = "no" /\ ~irq /\ ~line /\ drive.st = "idle"
      /\ layout \in Layouts /\ scan = NoScan /\ open_cnt \in Nat
  BY DEF Receive, At, HdInv, Serving, InStep, Quiet, Finding
<1>2. PICK r \in Requests :
        \E b \in IF r.type = "DEV_WRITE" THEN Buffers ELSE {ZeroBuffer} : Ask(r, b)
  BY <1>1 DEF Receive
<1>3. PICK b \in IF r.type = "DEV_WRITE" THEN Buffers ELSE {ZeroBuffer} : Ask(r, b)
  BY <1>2
<1>4. /\ r \in RequestType
      /\ r.type \notin Transfers => r.n = 0
      /\ r.type = "DEV_CLOSE" => open_cnt > 0
      /\ r.type \in Transfers =>
           /\ r.dev \in DOMAIN OnDisk /\ r.n \in 1 .. MaxAsk
           /\ r.at + r.n <= OnDisk[r.dev].size /\ open_cnt > 0
  <2>1. DOMAIN OnDisk \subseteq Nat
    BY Sizes DEF OnDisk, Devices
  <2>2. Sectors \subseteq Nat /\ 1 .. MaxAsk \subseteq Nat
    BY HdAssumption DEF Sectors
  <2>3. CASE r \in [type : {"DEV_OPEN"}, dev : {1}, at : {0}, n : {0}]
    BY <2>3 DEF RequestType, Transfers
  <2>4. CASE open_cnt > 0 /\ r \in [type : {"DEV_CLOSE"}, dev : {1}, at : {0}, n : {0}]
    BY <2>4 DEF RequestType, Transfers
  <2>5. CASE r \in [type : {"DEV_IOCTL"}, dev : DOMAIN OnDisk, at : {0}, n : {0}]
    BY <2>5, <2>1 DEF RequestType, Transfers
  <2>6. CASE /\ open_cnt > 0
             /\ r \in [type : {"DEV_READ", "DEV_WRITE"}, dev : DOMAIN OnDisk,
                        at : Sectors, n : 1 .. MaxAsk]
             /\ r.at + r.n <= OnDisk[r.dev].size
    BY <2>6, <2>1, <2>2 DEF RequestType, Transfers
  <2>. QED BY <2>3, <2>4, <2>5, <2>6 DEF Requests
<1>5. /\ req' = r /\ mem' = b
      /\ left' = IF r.type = "DEV_OPEN" THEN 1 ELSE r.n
      /\ open_cnt' = IF r.type = "DEV_CLOSE" THEN open_cnt - 1 ELSE open_cnt
      /\ pc' = IF r.type \in {"DEV_CLOSE", "DEV_IOCTL"} THEN "answer" ELSE "bsy"
      /\ UNCHANGED <<layout, scan, hd_info, failed, irq, line, drive, platter>>
  BY <1>3 DEF Ask, Receive
<1>6. HdTypes'
  <2>1. ZeroBuffer \in Buffers
    BY HdAssumption DEF ZeroBuffer, Buffers
  <2>2. mem' \in Buffers
    BY <1>5, <2>1
  <2>3. left' \in Nat
    BY <1>4, <1>5 DEF RequestType
  <2>. QED BY <1>5, <2>2, <2>3 DEF HdInv, HdTypes
<1>7. Serving'
  BY <1>1, <1>4, <1>5 DEF Serving, OnDisk, Transfers
<1>8. Finding'
  <2>1. open_cnt' \in Nat /\ (open_cnt' > 0 => open_cnt > 0)
    BY <1>1, <1>4, <1>5
  <2>. QED BY <1>1, <1>5, <2>1, FindingKept DEF HdInv
<1>9. InStep'
  <2>1. /\ Due' = IF r.type = "DEV_OPEN" THEN 1 ELSE r.n
        /\ left' = Due' /\ pc' \in {"bsy", "answer"}
    BY <1>5 DEF Due
  <2>2. pc' = "bsy" => left' \in 1 .. Due' /\ req'.type \in Transfers \union {"DEV_OPEN"}
    BY <1>4, <1>5, <2>1, HdAssumption DEF RequestType, Transfers
  <2>3. pc' = "answer" => left' = 0
    BY <1>4, <1>5 DEF Transfers
  <2>. QED BY <1>1, <1>5, <2>1, <2>2, <2>3 DEF InStep, Quiet
<1>. QED
  BY <1>5, <1>6, <1>7, <1>8, <1>9 DEF HdInv, NoneStray

LEMMA HdCmdOutHdInv ==
  ASSUME HdInv, HdCmdOut
  PROVE  HdInv'
<1>1. /\ pc = "bsy" /\ failed = "no" /\ ~irq /\ ~line /\ left = Due
      /\ req.type \in Transfers \union {"DEV_OPEN"}
  BY DEF HdCmdOut, Waitfor, At, HdInv, InStep, Quiet
<1>2. /\ pc' = IF Reading THEN "wait" ELSE "drq"
      /\ drive' = Started
      /\ UNCHANGED <<layout, req, left, scan, hd_info, open_cnt, geo, mem, irq, line,
                     platter, failed>>
  BY <1>1 DEF HdCmdOut, Waitfor, Command, taskVars
<1>3. /\ Due \in Nat \ {0} /\ left \in 1 .. Due /\ count(Due) \in 1 .. Due
      /\ Registers.lba \in Int /\ Registers.cmd \in {"IDENTIFY", "READ", "WRITE"}
      /\ Reading <=> req.type # "DEV_WRITE"
  BY <1>1, PlaceInRequest
<1>4. Registers.left = count(Due)
  <2>1. CASE req.type = "DEV_OPEN"
    <3>1. Due = 1 /\ count(1) = 1
      BY <2>1, CountBounds DEF Due
    <3>. QED BY <2>1, <3>1 DEF Registers
  <2>2. CASE req.type # "DEV_OPEN"
    BY <2>2, <1>1 DEF Registers
  <2>. QED BY <2>1, <2>2
<1>5. drive' = [st |-> "busy", cmd |-> Registers.cmd, lba |-> Registers.lba,
                left |-> count(Due), silent |-> ~Reading]
  BY <1>2, <1>4 DEF Started
<1>6. HdTypes'
  <2>1. drive' \in DriveType
    <3>1. (~Reading) \in BOOLEAN
      BY DEF Reading
    <3>. QED BY <1>3, <1>5, <3>1 DEF DriveType
  <2>. QED BY <1>2, <2>1 DEF HdInv, HdTypes
<1>7. Serving'
  BY <1>1, <1>2, ServingKept DEF HdInv
<1>8. Finding'
  <2>1. scan # NoScan => Reading
    BY DEF HdInv, Finding, Reading
  <2>. QED BY <1>2, <2>1, FindingKept DEF HdInv, Finding
<1>9. InStep'
  <2>1. /\ Registers'.lba = Registers.lba /\ Registers'.cmd = Registers.cmd
        /\ Due' = Due /\ (Reading' <=> Reading) /\ count(Due)' = count(Due)
    BY <1>2, ProgressKept
  <2>2. MovedSoFar' = 0
    BY <1>1, <1>2, <1>3, <2>1 DEF MovedSoFar
  <2>3. DriveAt'
    BY <1>3, <1>5, <2>1, <2>2 DEF DriveAt
  <2>4. /\ drive'.st = "busy" /\ drive'.left > 0 /\ drive'.left \in Int
        /\ drive'.silent <=> req.type = "DEV_WRITE"
    <3>1. count(Due) > 0 /\ count(Due) \in Int
      BY <1>3
    <3>2. drive'.st = "busy" /\ drive'.left = count(Due) /\ drive'.silent = (~Reading)
      BY <1>5
    <3>3. drive'.silent <=> req.type = "DEV_WRITE"
      BY <3>2 DEF Reading
    <3>. QED BY <3>1, <3>2, <3>3
  <2>. QED
    BY <1>1, <1>2, <1>3, <2>1, <2>3, <2>4 DEF InStep, Quiet, Transfers, Reading
<1>. QED
  BY <1>2, <1>6, <1>7, <1>8, <1>9 DEF HdInv, NoneStray

LEMMA WaitDrqHdInv ==
  ASSUME HdInv, WaitDrq
  PROVE  HdInv'
<1>1. pc = "drq" /\ failed = "no" /\ ~irq /\ ~line /\ drive.st = "drq"
  BY DEF WaitDrq, Waitfor, At, HdInv, InStep, Quiet
<1>2. /\ pc' = "write"
      /\ UNCHANGED <<layout, req, left, scan, hd_info, open_cnt, geo, mem, irq, line,
                     drive, platter, failed>>
  BY <1>1 DEF WaitDrq, Waitfor, taskVars
<1>3. HdTypes'
  BY <1>2 DEF HdInv, HdTypes
<1>4. Serving'
  BY <1>1, <1>2, ServingKept DEF HdInv
<1>5. Finding'
  <2>1. scan = NoScan
    BY <1>1 DEF HdInv, Finding
  <2>. QED BY <1>2, <2>1, FindingKept DEF HdInv, Finding
<1>6. InStep'
  <2>1. /\ Registers'.lba = Registers.lba /\ Registers'.cmd = Registers.cmd
        /\ Due' = Due /\ (Reading' <=> Reading) /\ count(Due)' = count(Due)
    BY <1>2, ProgressKept
  <2>2. MovedSoFar' = MovedSoFar
    BY <1>1, <1>2, <2>1 DEF MovedSoFar
  <2>3. DriveAt'
    BY <1>1, <1>2, <2>1, <2>2 DEF HdInv, InStep, DriveAt
  <2>. QED
    BY <1>1, <1>2, <2>1, <2>3 DEF HdInv, InStep, Quiet, Transfers
<1>. QED
  BY <1>2, <1>3, <1>4, <1>5, <1>6 DEF HdInv, NoneStray

LEMMA DrqTimeoutHdInv ==
  ASSUME HdInv, DrqTimeout
  PROVE  HdInv'
<1>1. /\ failed' = "hard driver writing error."
      /\ UNCHANGED <<layout, pc, req, left, scan, hd_info, open_cnt, geo, mem, irq, line,
                     drive, platter>>
  BY DEF DrqTimeout, taskVars
<1>2. HdTypes' /\ Serving' /\ InStep'
  <2>1. HdTypes'
    BY <1>1 DEF HdInv, HdTypes
  <2>2. Serving'
    BY <1>1 DEF HdInv, Serving, OnDisk
  <2>3. /\ Registers'.lba = Registers.lba /\ Registers'.cmd = Registers.cmd
        /\ Due' = Due /\ (Reading' <=> Reading) /\ count(Due)' = count(Due)
    BY <1>1, ProgressKept
  <2>4. MovedSoFar' = MovedSoFar
    BY <1>1, <2>3 DEF MovedSoFar
  <2>5. DriveAt => DriveAt'
    BY <1>1, <2>3, <2>4 DEF DriveAt
  <2>. QED
    BY <1>1, <2>1, <2>2, <2>3, <2>5 DEF HdInv, InStep, Quiet, Transfers
<1>3. Finding'
  BY <1>1, FindingKept DEF HdInv, Finding
<1>. QED
  BY <1>1, <1>2, <1>3 DEF HdInv, NoneStray

LEMMA WaitInterruptHdInv ==
  ASSUME HdInv, WaitInterrupt
  PROVE  HdInv'
<1>1. /\ pc = "wait" /\ failed = "no" /\ irq /\ irq' = FALSE /\ ~line
      /\ drive.st # "busy" /\ DriveAt
  BY DEF WaitInterrupt, At, HdInv, InStep, Quiet, HdTypes, DriveType
<1>2. /\ UNCHANGED <<layout, req, scan, hd_info, open_cnt, geo, mem, line,
                     drive, platter, failed>>
      /\ IF Reading THEN pc' = "read" /\ UNCHANGED left
                    ELSE /\ left' = left - 1
                         /\ pc' = IF left' = 0 THEN "answer" ELSE "drq"
  BY DEF WaitInterrupt, infoVars
<1>3. /\ Due \in Nat \ {0} /\ left \in 1 .. Due /\ count(Due) \in 1 .. Due
      /\ Reading <=> req.type # "DEV_WRITE"
      /\ req.type \in Transfers \union {"DEV_OPEN"}
  BY <1>1, PlaceInRequest DEF HdInv, InStep
<1>4. HdTypes'
  <2>1. left' \in Nat
    BY <1>2, <1>3
  <2>. QED BY <1>1, <1>2, <2>1 DEF HdInv, HdTypes
<1>5. Serving'
  BY <1>1, <1>2, ServingKept DEF HdInv
<1>6. Finding'
  <2>1. scan # NoScan => Reading
    BY DEF HdInv, Finding, Reading
  <2>. QED BY <1>2, <2>1, FindingKept DEF HdInv, Finding
<1>7. InStep'
  <2>1. /\ Registers'.lba = Registers.lba /\ Registers'.cmd = Registers.cmd
        /\ Due' = Due /\ (Reading' <=> Reading) /\ count(Due)' = count(Due)
    BY <1>2, ProgressKept
  <2>2. MovedSoFar' = MovedSoFar
    BY <1>1, <1>2, <1>3, <2>1 DEF MovedSoFar
  <2>3. DriveAt'
    BY <1>1, <1>2, <2>1, <2>2 DEF DriveAt
  <2>4. CASE Reading
    <3>1. drive.st = "drq" /\ drive.left > 0 /\ drive.left \in Int
      BY <1>1, <2>4 DEF HdInv, InStep, Quiet, HdTypes, DriveType
    <3>. QED
      BY <1>1, <1>2, <1>3, <2>1, <2>3, <2>4, <3>1 DEF InStep, Quiet, Transfers, Reading
  <2>5. CASE ~Reading
    <3>1. /\ drive.st \in {"drq", "idle"} /\ drive.left \in Int
          /\ drive.st = "drq" => drive.left > 0
          /\ drive.st = "idle" => drive.left = 0
      BY <1>1 DEF HdInv, InStep, HdTypes, DriveType
    <3>2. MovedSoFar = Due - (left - 1) /\ left' = left - 1 /\ left - 1 >= 0
      BY <1>1, <1>2, <1>3, <2>5 DEF MovedSoFar
    <3>3. left - 1 = 0 => drive.st = "idle"
      BY <1>1, <1>3, <3>1, <3>2 DEF DriveAt
    <3>. QED
      BY <1>1, <1>2, <1>3, <2>1, <2>3, <2>5, <3>1, <3>2, <3>3
      DEF InStep, Quiet, Transfers, Reading
  <2>. QED BY <2>4, <2>5
<1>. QED
  BY <1>2, <1>4, <1>5, <1>6, <1>7 DEF HdInv, NoneStray

LEMMA PortReadHdInv ==
  ASSUME HdInv, PortRead
  PROVE  HdInv'
<1>1. /\ pc = "read" /\ failed = "no" /\ ~irq /\ ~line /\ DriveAt
      /\ drive.st = "drq" /\ drive.left > 0 /\ Reading
      /\ req.type # "DEV_OPEN"
  BY DEF PortRead, At, HdInv, InStep, Quiet
<1>2. /\ Due \in Nat \ {0} /\ left \in 1 .. Due /\ count(Due) \in 1 .. Due
      /\ req.type \in Transfers \union {"DEV_OPEN"}
      /\ left <= MaxAsk /\ Due = req.n
      /\ Registers.lba \in Int /\ (Registers.cmd = "WRITE" <=> ~Reading)
  BY <1>1, PlaceInRequest DEF HdInv, InStep
<1>3. /\ UNCHANGED <<layout, req, scan, hd_info, open_cnt, geo, irq, line, platter,
                     failed>>
      /\ left' = left - 1
      /\ pc' = IF left - 1 = 0 THEN "answer" ELSE "wait"
      /\ mem' = [mem EXCEPT ![req.n - left] = platter[drive.lba]]
  BY <1>1 DEF PortRead, infoVars
<1>4. /\ drive.lba = Registers.lba + (Due - left)
      /\ drive.left = count(Due) - (Due - left)
      /\ drive.cmd # "WRITE" /\ drive.cmd = Registers.cmd
      /\ drive.lba \in Int /\ drive.left \in Int
  BY <1>1, <1>2 DEF HdInv, HdTypes, DriveType, DriveAt, MovedSoFar
<1>5. drive' = [drive EXCEPT !.st = IF drive.left = 1 THEN "idle" ELSE "busy",
                             !.lba = drive.lba + 1, !.left = drive.left - 1,
                             !.silent = FALSE]
  BY <1>1, <1>4 DEF PortRead, Moved
<1>6. /\ drive' \in DriveType
      /\ drive'.st = IF drive.left = 1 THEN "idle" ELSE "busy"
      /\ drive'.lba = drive.lba + 1 /\ drive'.left = drive.left - 1
      /\ drive'.cmd = drive.cmd /\ drive'.silent = FALSE
  <2>. DEFINE st == IF drive.left = 1 THEN "idle" ELSE "busy"
  <2>1. st \in {"idle", "busy", "drq"} /\ drive \in DriveType
    BY DEF HdInv, HdTypes
  <2>2. drive' = [drive EXCEPT !.st = st, !.lba = drive.lba + 1,
                               !.left = drive.left - 1, !.silent = FALSE]
    BY <1>5
  <2>. HIDE DEF st
  <2>3. /\ drive' \in DriveType
        /\ drive'.st = st /\ drive'.lba = drive.lba + 1 /\ drive'.left = drive.left - 1
        /\ drive'.cmd = drive.cmd /\ drive'.silent = FALSE
    BY <2>1, <2>2, DriveMoves
  <2>. QED BY <2>3 DEF st
<1>7. HdTypes'
  <2>1. platter[drive.lba] \in Values
    <3>1. req.type \in Transfers
      BY <1>1, <1>2
    <3>. QED BY <1>1, <3>1, SectorInDevice
  <2>2. mem' \in Buffers
    BY <1>3, <2>1 DEF HdInv, HdTypes, Buffers
  <2>3. left' \in Nat
    BY <1>2, <1>3
  <2>. QED BY <1>3, <1>6, <2>2, <2>3 DEF HdInv, HdTypes
<1>8. Serving'
  BY <1>1, <1>3, ServingKept DEF HdInv
<1>9. Finding'
  <2>1. scan = NoScan
    BY <1>1 DEF HdInv, Finding
  <2>. QED BY <1>3, <2>1, FindingKept DEF HdInv, Finding
<1>10. InStep'
  <2>1. /\ Registers'.lba = Registers.lba /\ Registers'.cmd = Registers.cmd
        /\ Due' = Due /\ (Reading' <=> Reading) /\ count(Due)' = count(Due)
    BY <1>3, ProgressKept
  <2>2. MovedSoFar' = (Due - left) + 1
    BY <1>1, <1>2, <1>3, <2>1 DEF MovedSoFar
  <2>3. DriveAt'
    BY <1>2, <1>4, <1>6, <2>1, <2>2 DEF DriveAt, Reading
  <2>4. left - 1 = 0 => drive.left = 1
    BY <1>1, <1>2, <1>4
  <2>5. /\ drive'.left >= 0 /\ drive'.left \in Int
        /\ drive'.st = "busy" => drive'.left > 0
        /\ drive'.st = "idle" => drive'.left = 0
        /\ drive'.st \in {"idle", "busy"}
        /\ left - 1 = 0 => drive'.st = "idle"
    BY <1>1, <1>4, <1>6, <2>4
  <2>6. CASE left - 1 = 0
    BY <1>1, <1>3, <2>1, <2>5, <2>6 DEF InStep, Quiet, Transfers, Reading
  <2>7. CASE left - 1 # 0
    <3>1. left' \in 1 .. Due' /\ pc' = "wait"
      BY <1>2, <1>3, <2>1, <2>7
    <3>. QED
      BY <1>1, <1>2, <1>3, <1>6, <2>1, <2>3, <2>5, <3>1 DEF InStep, Quiet, Transfers, Reading
  <2>. QED BY <2>6, <2>7
<1>. QED
  BY <1>3, <1>7, <1>8, <1>9, <1>10 DEF HdInv, NoneStray

LEMMA PortWriteHdInv ==
  ASSUME HdInv, PortWrite
  PROVE  HdInv'
<1>1. /\ pc = "write" /\ failed = "no" /\ ~irq /\ ~line /\ DriveAt
      /\ drive.st = "drq" /\ drive.left > 0 /\ ~Reading
      /\ req.type = "DEV_WRITE"
  BY DEF PortWrite, At, HdInv, InStep, Quiet, Reading
<1>2. /\ Due \in Nat \ {0} /\ left \in 1 .. Due /\ count(Due) \in 1 .. Due
      /\ left <= MaxAsk /\ Due = req.n
      /\ Registers.lba \in Int /\ (Registers.cmd = "WRITE" <=> ~Reading)
  BY <1>1, PlaceInRequest DEF HdInv, InStep, Transfers
<1>3. /\ UNCHANGED <<layout, req, left, scan, hd_info, open_cnt, geo, mem, irq, line,
                     failed>>
      /\ pc' = "wait"
      /\ platter' = [platter EXCEPT ![drive.lba] = mem[req.n - left]]
  BY <1>1 DEF PortWrite, taskVars
<1>4. /\ drive.lba = Registers.lba + (Due - left)
      /\ drive.left = count(Due) - (Due - left)
      /\ drive.cmd = "WRITE" /\ drive.cmd = Registers.cmd
      /\ drive.lba \in Int /\ drive.left \in Int
  BY <1>1, <1>2 DEF HdInv, HdTypes, DriveType, DriveAt, MovedSoFar
<1>5. drive' = [drive EXCEPT !.st = "busy", !.lba = drive.lba + 1,
                             !.left = drive.left - 1, !.silent = FALSE]
  BY <1>1, <1>4 DEF PortWrite, Moved
<1>6. /\ drive' \in DriveType
      /\ drive'.st = "busy"
      /\ drive'.lba = drive.lba + 1 /\ drive'.left = drive.left - 1
      /\ drive'.cmd = drive.cmd /\ drive'.silent = FALSE
  BY <1>5, DriveMoves DEF HdInv, HdTypes
<1>7. HdTypes'
  <2>1. req.n - left \in 0 .. MaxAsk - 1
    <3>1. req.n <= MaxAsk
      BY <1>1 DEF HdInv, Serving, Transfers
    <3>. QED BY <1>2, <3>1, HdAssumption
  <2>2. mem[req.n - left] \in Values
    BY <2>1 DEF HdInv, HdTypes, Buffers
  <2>3. platter' \in [Sectors -> Values]
    BY <1>3, <2>2 DEF HdInv, HdTypes
  <2>. QED BY <1>3, <1>6, <2>3 DEF HdInv, HdTypes
<1>8. Serving'
  BY <1>1, <1>3, ServingKept DEF HdInv
<1>9. Finding'
  <2>1. scan = NoScan
    BY <1>1 DEF HdInv, Finding
  <2>. QED BY <1>3, <2>1, FindingKept DEF HdInv, Finding
<1>10. InStep'
  <2>1. /\ Registers'.lba = Registers.lba /\ Registers'.cmd = Registers.cmd
        /\ Due' = Due /\ (Reading' <=> Reading) /\ count(Due)' = count(Due)
    BY <1>3, ProgressKept
  <2>2. MovedSoFar' = (Due - left) + 1
    BY <1>1, <1>2, <1>3, <2>1 DEF MovedSoFar
  <2>3. DriveAt'
    BY <1>2, <1>4, <1>6, <2>1, <2>2 DEF DriveAt, Reading
  <2>4. /\ drive'.left >= 0 /\ drive'.left \in Int
        /\ left' \in 1 .. Due'
    BY <1>1, <1>2, <1>3, <1>4, <1>6, <2>1
  <2>. QED
    BY <1>1, <1>3, <1>6, <2>1, <2>3, <2>4 DEF InStep, Quiet, Transfers, Reading
<1>. QED
  BY <1>3, <1>7, <1>8, <1>9, <1>10 DEF HdInv, NoneStray

LEMMA PortReadTableHdInv ==
  ASSUME HdInv, PortReadTable
  PROVE  HdInv'
<1>1. /\ pc = "read" /\ failed = "no" /\ ~irq /\ ~line /\ DriveAt
      /\ drive.st = "drq" /\ drive.left > 0
      /\ req.type = "DEV_OPEN" /\ layout \in Layouts /\ req \in RequestType
  BY DEF PortReadTable, At, HdInv, InStep, Quiet, Serving
<1>2. /\ Due = 1 /\ left = 1 /\ count(Due) = 1
      /\ Registers.lba \in Int /\ Registers.cmd # "WRITE"
  <2>1. Due = 1
    BY <1>1 DEF Due
  <2>2. left \in 1 .. Due /\ count(Due) \in 1 .. Due /\ Registers.lba \in Int
    BY <1>1, PlaceInRequest
  <2>3. Registers.cmd # "WRITE"
    BY <1>1 DEF Registers
  <2>. QED BY <2>1, <2>2, <2>3
<1>3. /\ UNCHANGED <<layout, req, left, geo, mem, irq, line, platter>>
      /\ drive' = Moved
  BY DEF PortReadTable
<1>4. drive.left = 1 /\ drive.cmd # "WRITE" /\ drive.lba \in Int
  BY <1>1, <1>2 DEF HdInv, HdTypes, DriveType, DriveAt, MovedSoFar
<1>5. /\ drive' \in DriveType
      /\ drive'.st = "idle"
  <2>1. drive' = [drive EXCEPT !.st = "idle", !.lba = drive.lba + 1,
                               !.left = drive.left - 1, !.silent = FALSE]
    BY <1>1, <1>3, <1>4 DEF Moved
  <2>. QED BY <2>1, DriveMoves DEF HdInv, HdTypes
<1>6. /\ hd_info' \in Info /\ NoneWrong(hd_info') /\ open_cnt' \in Nat \ {0}
      /\ hd_info'.primary[0] = part_info(0, NrSectors)
      /\ failed' \in {"no", "hd.c:135"}
      /\ scan' \in [s : Int, i : 0 .. NR_PART_PER_DRIVE, nr : Nat]
      /\ \/ scan' = NoScan /\ pc' = "answer" /\ AllKnown(hd_info')
         \/ /\ pc' = "bsy" /\ scan' # NoScan
            /\ scan' = [s |-> 0, i |-> 0, nr |-> 1] \/ Scanned(scan', hd_info')
  BY TableStep
<1>7. HdTypes'
  BY <1>3, <1>5, <1>6 DEF HdInv, HdTypes
<1>8. Serving'
  <2>1. req.type \notin Transfers /\ req.n = 0 /\ pc' \in {"bsy", "answer"}
    BY <1>1, <1>6 DEF HdInv, Serving, Transfers
  <2>. QED BY <1>1, <1>3, <2>1 DEF Serving
<1>9. Finding'
  <2>1. /\ NoneWrong(hd_info)' /\ open_cnt' \in Nat /\ open_cnt' > 0
        /\ AllKnown(hd_info)' <=> AllKnown(hd_info')
        /\ Scanned(scan, hd_info)' <=> Scanned(scan', hd_info')
    BY <1>3, <1>6
    DEF NoneWrong, AllKnown, Scanned, InChain, KnownTo, PrimaryRight, LogicalRight, OnDisk
  <2>2. req' # NoRequest /\ req'.type = "DEV_OPEN"
    BY <1>1, <1>3, HdAssumption
  <2>. QED BY <1>6, <2>1, <2>2 DEF Finding
<1>10. InStep'
  <2>1. Due' = 1 /\ left' = 1 /\ ~irq' /\ ~line' /\ req'.type = "DEV_OPEN"
    BY <1>1, <1>2, <1>3 DEF Due
  <2>. QED BY <1>5, <1>6, <2>1 DEF InStep, Quiet, Transfers
<1>. QED
  BY <1>6, <1>7, <1>8, <1>9, <1>10 DEF HdInv, NoneStray

LEMMA AnswerHdInv ==
  ASSUME HdInv, Answer
  PROVE  HdInv'
<1>1. /\ pc = "answer" /\ failed = "no" /\ Quiet /\ drive.st = "idle" /\ scan = NoScan
      /\ layout \in Layouts
  BY DEF Answer, At, HdInv, InStep, Serving, Finding
<1>2. /\ pc' = "top" /\ req' = NoRequest /\ left' = 0
      /\ UNCHANGED <<layout, scan, hd_info, open_cnt, geo, mem, irq, line, drive, platter,
                     failed>>
  BY DEF Answer, infoVars
<1>3. HdTypes'
  BY <1>2 DEF HdInv, HdTypes
<1>4. Serving'
  BY <1>1, <1>2 DEF Serving
<1>5. Finding'
  BY <1>1, <1>2, FindingKept DEF HdInv, Finding
<1>6. InStep'
  BY <1>1, <1>2 DEF InStep, Quiet
<1>. QED
  BY <1>2, <1>3, <1>4, <1>5, <1>6 DEF HdInv, NoneStray

\* The drive and its interrupt change nothing the task has.
LEMMA TaskKept ==
  ASSUME HdInv, UNCHANGED <<layout, pc, req, left, scan, hd_info, open_cnt, mem, platter,
                            failed>>
  PROVE  /\ Serving' /\ Finding' /\ NoneStray'
         /\ Registers'.lba = Registers.lba /\ Registers'.cmd = Registers.cmd
         /\ Due' = Due /\ (Reading' <=> Reading) /\ count(Due)' = count(Due)
         /\ MovedSoFar' = MovedSoFar
<1>1. Serving'
  BY DEF HdInv, Serving, OnDisk
<1>2. Finding'
  BY FindingKept DEF HdInv, Finding
<1>3. /\ Registers'.lba = Registers.lba /\ Registers'.cmd = Registers.cmd
      /\ Due' = Due /\ (Reading' <=> Reading) /\ count(Due)' = count(Due)
  BY ProgressKept
<1>4. MovedSoFar' = MovedSoFar
  BY <1>3 DEF MovedSoFar
<1>. QED
  BY <1>1, <1>2, <1>3, <1>4 DEF HdInv, NoneStray

LEMMA DriveStepHdInv ==
  ASSUME HdInv, DriveStep
  PROVE  HdInv'
<1>1. /\ drive.st = "busy" /\ drive \in DriveType
      /\ pc \in {"drq", "wait"} /\ Quiet /\ DriveAt /\ drive.left >= 0
      /\ drive.left \in Int
      /\ pc = "drq" => drive.silent /\ drive.left > 0
      /\ pc = "wait" => ~drive.silent /\ (Reading => drive.left > 0)
  BY DEF DriveStep, HdInv, HdTypes, Serving, InStep, DriveType
<1>2. /\ UNCHANGED <<layout, pc, req, left, scan, hd_info, open_cnt, mem, irq, platter,
                     failed>>
      /\ drive' = [drive EXCEPT !.st = IF drive.left = 0 THEN "idle" ELSE "drq"]
      /\ line' = ~drive.silent
  BY <1>1 DEF DriveStep, taskVars
<1>3. /\ drive' \in DriveType
      /\ drive'.st = IF drive.left = 0 THEN "idle" ELSE "drq"
      /\ drive'.lba = drive.lba /\ drive'.left = drive.left /\ drive'.cmd = drive.cmd
  BY <1>1, <1>2 DEF DriveType
<1>4. /\ Serving' /\ Finding' /\ NoneStray'
      /\ Registers'.lba = Registers.lba /\ Registers'.cmd = Registers.cmd
      /\ Due' = Due /\ (Reading' <=> Reading) /\ count(Due)' = count(Due)
      /\ MovedSoFar' = MovedSoFar
  BY <1>2, TaskKept
<1>5. line' \in BOOLEAN /\ (line' <=> pc = "wait") /\ ~irq'
  BY <1>1, <1>2 DEF Quiet
<1>6. HdTypes'
  BY <1>2, <1>3, <1>5 DEF HdInv, HdTypes
<1>7. DriveAt'
  BY <1>1, <1>3, <1>4 DEF DriveAt
<1>8. InStep'
  <2>1. /\ pc' = "drq" => drive'.st = "drq" /\ drive'.left > 0
        /\ pc' = "wait" => /\ drive'.st \in {"drq", "idle"}
                           /\ drive'.st = "drq" => drive'.left > 0
                           /\ drive'.st = "idle" => drive'.left = 0 /\ ~Reading
        /\ pc' = pc /\ drive'.left >= 0
    BY <1>1, <1>2, <1>3
  <2>2. /\ left' \in 1 .. Due' /\ req'.type \in Transfers \union {"DEV_OPEN"}
        /\ pc = "drq" => req'.type = "DEV_WRITE"
    BY <1>1, <1>2, <1>4 DEF HdInv, InStep
  <2>3. CASE pc = "drq"
    BY <2>1, <2>2, <2>3, <1>4, <1>5, <1>7 DEF InStep, Quiet
  <2>4. CASE pc = "wait"
    BY <2>1, <2>2, <2>4, <1>4, <1>5, <1>7 DEF InStep, Quiet
  <2>. QED BY <1>1, <2>3, <2>4
<1>. QED
  BY <1>4, <1>6, <1>8 DEF HdInv

LEMMA HandlerHdInv ==
  ASSUME HdInv, Handler
  PROVE  HdInv'
<1>1. /\ line /\ ~irq /\ pc = "wait" /\ DriveAt /\ drive.left >= 0
      /\ drive.st \in {"drq", "idle"}
      /\ drive.st = "drq" => drive.left > 0
      /\ drive.st = "idle" => drive.left = 0 /\ ~Reading
      /\ left \in 1 .. Due /\ req.type \in Transfers \union {"DEV_OPEN"}
  BY DEF Handler, HdInv, HdTypes, DriveType, InStep, Quiet
<1>2. /\ UNCHANGED <<layout, pc, req, left, scan, hd_info, open_cnt, mem, drive, platter,
                     failed>>
      /\ ~line' /\ irq' /\ line' \in BOOLEAN /\ irq' \in BOOLEAN
  BY DEF Handler, taskVars
<1>3. /\ Serving' /\ Finding' /\ NoneStray'
      /\ Registers'.lba = Registers.lba /\ Registers'.cmd = Registers.cmd
      /\ Due' = Due /\ (Reading' <=> Reading) /\ count(Due)' = count(Due)
      /\ MovedSoFar' = MovedSoFar
  BY <1>2, TaskKept
<1>4. HdTypes'
  BY <1>2 DEF HdInv, HdTypes
<1>5. DriveAt'
  BY <1>1, <1>2, <1>3 DEF DriveAt
<1>6. InStep'
  BY <1>1, <1>2, <1>3, <1>5 DEF InStep, Quiet
<1>. QED
  BY <1>3, <1>4, <1>6 DEF HdInv

LEMMA NextHdInv ==
  ASSUME HdInv, [HdNext]_hdVars
  PROVE  HdInv'
<1>1. CASE Receive
  BY <1>1, ReceiveHdInv
<1>2. CASE HdCmdOut
  BY <1>2, HdCmdOutHdInv
<1>3. CASE WaitDrq
  BY <1>3, WaitDrqHdInv
<1>4. CASE DrqTimeout
  BY <1>4, DrqTimeoutHdInv
<1>5. CASE WaitInterrupt
  BY <1>5, WaitInterruptHdInv
<1>6. CASE PortRead
  BY <1>6, PortReadHdInv
<1>7. CASE PortReadTable
  BY <1>7, PortReadTableHdInv
<1>8. CASE PortWrite
  BY <1>8, PortWriteHdInv
<1>9. CASE Answer
  BY <1>9, AnswerHdInv
<1>10. CASE DriveStep
  BY <1>10, DriveStepHdInv
<1>11. CASE Handler
  BY <1>11, HandlerHdInv
<1>12. CASE UNCHANGED hdVars
  <2>1. UNCHANGED <<layout, pc, req, left, scan, hd_info, open_cnt, mem, irq, line, drive,
                    platter, failed>>
    BY <1>12 DEF hdVars
  <2>2. /\ Serving' /\ Finding' /\ NoneStray'
        /\ Registers'.lba = Registers.lba /\ Registers'.cmd = Registers.cmd
        /\ Due' = Due /\ (Reading' <=> Reading) /\ count(Due)' = count(Due)
        /\ MovedSoFar' = MovedSoFar
    BY <2>1, TaskKept
  <2>3. HdTypes'
    BY <2>1 DEF HdInv, HdTypes
  <2>4. DriveAt' <=> DriveAt
    BY <2>1, <2>2 DEF DriveAt
  <2>5. InStep'
    BY <2>1, <2>2, <2>4 DEF HdInv, InStep, Quiet
  <2>. QED BY <2>2, <2>3, <2>5 DEF HdInv
<1>. QED
  BY <1>1, <1>2, <1>3, <1>4, <1>5, <1>6, <1>7, <1>8, <1>9, <1>10, <1>11, <1>12
  DEF HdNext, TaskHd

LEMMA HdInductive == HdSpec => []HdInv
<1>. QED
  BY InitHdInv, NextHdInv, PTL DEF HdSpec

----------------------------------------------------------------------------
\* Theorems.

\* Whatever partition tables a disk has, a driver that has opened it knows every
\* partition that has a device number and takes no other place for one: partition()
\* and hd_open(), kernel/hd.c.  Rests on Finding: what the scan has found so far is
\* right, and nothing before the place it is at is missing.
THEOREM PartitionsKnown == HdSpec => []PartitionsFound
<1>1. HdInv => PartitionsFound
  <2>. SUFFICES ASSUME HdInv, pc = "top", open_cnt > 0
                PROVE  /\ hd_info.primary[0] = part_info(0, NrSectors)
                       /\ \A i \in 1 .. NR_PART_PER_DRIVE :
                            LET part == part_info(layout.prim[i].start, layout.prim[i].size)
                                found == hd_info.primary[i]
                            IN  found.size = part.size /\ (part.size > 0 => found = part)
                       /\ \A l \in 0 .. NR_SUB_PER_DRIVE - 1 :
                            LET part == IF MINOR_hd1a + l \in DOMAIN OnDisk
                                        THEN OnDisk[MINOR_hd1a + l] ELSE part_info(0, 0)
                                found == hd_info.logical[l]
                            IN  found.size = part.size /\ (part.size > 0 => found = part)
    BY DEF PartitionsFound
  <2>1. /\ hd_info.primary[0] = part_info(0, NrSectors) /\ AllKnown(hd_info)
        /\ layout \in Layouts
    BY DEF HdInv, Finding, Serving
  <2>2. ASSUME NEW i \in 1 .. NR_PART_PER_DRIVE
        PROVE  LET part == part_info(layout.prim[i].start, layout.prim[i].size)
                   found == hd_info.primary[i]
               IN  found.size = part.size /\ (part.size > 0 => found = part)
    <3>1. PrimaryRight(hd_info, i)
      BY <2>1 DEF AllKnown, KnownTo
    <3>2. layout.prim[i].sys = "NO_PART" => layout.prim[i].size = 0
      BY <2>1, LayoutFacts
    <3>. QED BY <3>1, <3>2 DEF PrimaryRight, part_info
  <2>3. ASSUME NEW l \in 0 .. NR_SUB_PER_DRIVE - 1
        PROVE  LET part == IF MINOR_hd1a + l \in DOMAIN OnDisk
                           THEN OnDisk[MINOR_hd1a + l] ELSE part_info(0, 0)
                   found == hd_info.logical[l]
               IN  found.size = part.size /\ (part.size > 0 => found = part)
    <3>1. LogicalRight(hd_info, l)
      BY <2>1 DEF AllKnown, KnownTo
    <3>. QED BY <3>1 DEF LogicalRight, part_info
  <2>. QED BY <2>1, <2>2, <2>3
<1>. QED
  BY <1>1, HdInductive, PTL

\* The driver stops for no other reason than these two: the disk it is to open has
\* no partition at all, or it is to write more sectors than the count register holds.
FailsOnlyWhen ==
  /\ NoneStray
  /\ failed = "hd.c:135" =>
       \A i \in 1 .. NR_PART_PER_DRIVE : layout.prim[i].sys = "NO_PART"
  /\ failed = "hard driver writing error." => req.n > COUNT_LIMIT

\* It waits in vain only for a sector the drive was not told of.
LEMMA TimeoutCause ==
  ASSUME HdInv, DrqTimeout
  PROVE  req.n > COUNT_LIMIT
<1>1. /\ pc = "drq" /\ drive.st = "idle" /\ drive.left = 0 /\ DriveAt
      /\ req.type = "DEV_WRITE"
  BY DEF DrqTimeout, At, HdInv, InStep
<1>2. /\ Due \in Nat \ {0} /\ left \in 1 .. Due /\ Due = req.n
      /\ count(Due) \in Int
  BY <1>1, PlaceInRequest DEF Transfers
<1>3. count(Due) = Due - left
  BY <1>1, <1>2 DEF DriveAt, MovedSoFar
<1>4. count(Due) # Due
  BY <1>2, <1>3
<1>. QED
  BY <1>2, <1>4, CountBounds, HdAssumption

LEMMA AssertionCause ==
  ASSUME HdInv, PortReadTable, failed' = "hd.c:135"
  PROVE  \A i \in 1 .. NR_PART_PER_DRIVE : layout.prim[i].sys = "NO_PART"
<1>1. failed = "no" /\ (scan = NoScan \/ scan.i = 0 \/ scan.i > 0)
  BY DEF PortReadTable, At, HdInv, HdTypes
<1>2. scan.i > 0 => scan # NoScan
  BY DEF NoScan
<1>3. CASE scan = NoScan
  BY <1>1, <1>3 DEF PortReadTable, Identified, NoScan
<1>4. CASE scan # NoScan /\ scan.i = 0
  <2>1. Primaries(0, hd_info)
    BY <1>4 DEF PortReadTable
  <2>. QED BY <2>1 DEF Primaries
<1>5. CASE scan.i > 0
  <2>1. Extended /\ scan.i # 0
    BY <1>2, <1>5 DEF PortReadTable, HdInv, HdTypes
  <2>2. \A info : Primaries(scan.i, info) => failed' = "no"
    BY <2>1 DEF Primaries
  <2>. QED BY <1>1, <2>1, <2>2 DEF Extended
<1>. QED BY <1>1, <1>3, <1>4, <1>5

\* No interrupt comes that nobody waits for: task_hd() never spin()s on one, and
\* none makes the driver's other messages fail (proc.c:519).  What can stop it is
\* the assertion of partition() on a disk without partitions, and HD_TIMEOUT in a
\* write of more sectors than the count register holds.  Rests on InStep: where the
\* driver is, the drive's state, its interrupt and the sectors left say the same.
THEOREM NoStrayInterrupt == HdSpec => []FailsOnlyWhen
<1>1. HdInit => FailsOnlyWhen
  BY DEF HdInit, FailsOnlyWhen, NoneStray
<1>2. ASSUME HdInv, HdInv', FailsOnlyWhen, [HdNext]_hdVars
      PROVE  FailsOnlyWhen'
  <2>1. NoneStray'
    BY <1>2 DEF HdInv
  <2>2. CASE UNCHANGED <<layout, req, failed>>
    BY <2>1, <2>2, <1>2 DEF FailsOnlyWhen
  <2>3. CASE DrqTimeout
    <3>1. failed' = "hard driver writing error." /\ req' = req
      BY <2>3 DEF DrqTimeout, taskVars
    <3>. QED BY <1>2, <2>1, <2>3, <3>1, TimeoutCause DEF FailsOnlyWhen
  <2>4. CASE PortReadTable
    <3>1. layout' = layout /\ failed' \in {"no", "hd.c:135"}
      BY <1>2, <2>4, TableStep DEF PortReadTable
    <3>. QED BY <1>2, <2>1, <2>4, <3>1, AssertionCause DEF FailsOnlyWhen
  <2>5. CASE Receive \/ Answer
    <3>1. failed' = "no"
      BY <1>2, <2>5
      DEF Receive, Answer, Ask, At, HdInv, InStep, Quiet, infoVars
    <3>. QED BY <2>1, <3>1 DEF FailsOnlyWhen
  <2>6. CASE HdCmdOut \/ WaitDrq
    <3>1. UNCHANGED <<layout, req, failed>>
      BY <1>2, <2>6
      DEF HdCmdOut, WaitDrq, Waitfor, Command, At, taskVars, HdInv, InStep, Quiet
    <3>. QED BY <2>2, <3>1
  <2>7. CASE WaitInterrupt \/ PortRead \/ PortWrite
    <3>1. UNCHANGED <<layout, req, failed>>
      BY <2>7 DEF WaitInterrupt, PortRead, PortWrite, taskVars, infoVars
    <3>. QED BY <2>2, <3>1
  <2>8. CASE DriveStep \/ Handler \/ UNCHANGED hdVars
    <3>1. UNCHANGED <<layout, req, failed>>
      BY <2>8 DEF DriveStep, Handler, hdVars, taskVars
    <3>. QED BY <2>2, <3>1
  <2>. QED
    BY <1>2, <2>3, <2>4, <2>5, <2>6, <2>7, <2>8 DEF HdNext, TaskHd
<1>. QED
  BY <1>1, <1>2, HdInductive, PTL DEF HdSpec

----------------------------------------------------------------------------
\* The driver implements BlockDevice: the expressions of the refinement, by name.
Content == [d \in DOMAIN OnDisk |->
              [i \in 0 .. OnDisk[d].size - 1 |-> platter[OnDisk[d].base + i]]]

SectorsDone == IF req = NoRequest THEN 0 ELSE IF req.n = 0 THEN 0 ELSE
               IF pc = "wait" /\ ~Reading THEN req.n - left + 1 ELSE req.n - left

AskStep ==
  /\ req = NoRequest /\ req' # NoRequest /\ SectorsDone' = 0
  /\ req'.n > 0 => req'.at + req'.n <= OnDisk[req'.dev].size
  /\ req'.type = "DEV_IOCTL" => geo' = OnDisk[req'.dev]
  /\ mem' \in Buffers
  /\ OnDisk' = OnDisk /\ Content' = Content

ReadStep ==
  /\ req # NoRequest /\ SectorsDone < req.n /\ SectorsDone' = SectorsDone + 1
  /\ req.type = "DEV_READ"
  /\ mem' = [mem EXCEPT ![SectorsDone] = Content[req.dev][req.at + SectorsDone]]
  /\ OnDisk' = OnDisk /\ Content' = Content /\ geo' = geo /\ req' = req

WriteStep ==
  /\ req # NoRequest /\ SectorsDone < req.n /\ SectorsDone' = SectorsDone + 1
  /\ req.type = "DEV_WRITE"
  /\ Content' = [Content EXCEPT ![req.dev][req.at + SectorsDone] = mem[SectorsDone]]
  /\ OnDisk' = OnDisk /\ mem' = mem /\ geo' = geo /\ req' = req

AnswerStep ==
  /\ req # NoRequest /\ SectorsDone = req.n
  /\ req' = NoRequest /\ SectorsDone' = 0
  /\ OnDisk' = OnDisk /\ Content' = Content /\ mem' = mem /\ geo' = geo

Unmoved ==
  /\ OnDisk' = OnDisk /\ Content' = Content /\ mem' = mem /\ geo' = geo /\ req' = req
  /\ SectorsDone' = SectorsDone

LEMMA AbstractSteps ==
  ASSUME AskStep \/ ReadStep \/ WriteStep \/ AnswerStep \/ Unmoved
  PROVE  [D!Next]_(D!vars)
<1>1. CASE AskStep
  <2>1. D!Ask
    BY <1>1, Zenon DEF AskStep, D!Ask, SectorsDone, Content
  <2>. QED BY <2>1 DEF D!Next
<1>2. CASE ReadStep
  <2>1. D!Move
    BY <1>2, Zenon DEF ReadStep, D!Move, SectorsDone, Content
  <2>. QED BY <2>1 DEF D!Next
<1>3. CASE WriteStep
  <2>1. D!Move
    BY <1>3, Zenon DEF WriteStep, D!Move, SectorsDone, Content
  <2>. QED BY <2>1 DEF D!Next
<1>4. CASE AnswerStep
  <2>1. D!Answer
    BY <1>4, Zenon DEF AnswerStep, D!Answer, SectorsDone, Content
  <2>. QED BY <2>1 DEF D!Next
<1>5. CASE Unmoved
  <2>1. UNCHANGED D!vars
    BY <1>5, Zenon DEF Unmoved, D!vars, SectorsDone, Content
  <2>. QED BY <2>1
<1>. QED BY <1>1, <1>2, <1>3, <1>4, <1>5

\* The sectors done, where the driver is in a request.
LEMMA DoneSoFar ==
  ASSUME HdInv
  PROVE  /\ pc = "top" => SectorsDone = 0
         /\ req.n = 0 => SectorsDone = 0
         /\ pc # "top" /\ req.n # 0 =>
              SectorsDone = IF pc = "wait" /\ ~Reading THEN (req.n - left) + 1
                            ELSE req.n - left
         /\ pc # "top" => req # NoRequest /\ req \in RequestType
  BY HdAssumption DEF HdInv, Serving, SectorsDone

LEMMA SameDisk ==
  ASSUME UNCHANGED layout
  PROVE  /\ OnDisk' = OnDisk
         /\ UNCHANGED platter => Content' = Content
  BY DEF OnDisk, Content

\* A step that moves no sector and leaves the request where it is.
LEMMA SilentStep ==
  ASSUME UNCHANGED <<layout, req, geo, mem, platter>>,
         \/ UNCHANGED <<pc, left>>
         \/ req # NoRequest /\ req.n = 0
         \/ /\ UNCHANGED left
            /\ pc = "wait" /\ ~Reading <=> pc' = "wait" /\ ~Reading
         \/ /\ pc = "wait" /\ ~Reading /\ pc' # "wait" /\ left' = left - 1
            /\ left \in Int /\ req.n \in Int
  PROVE  Unmoved
<1>1. OnDisk' = OnDisk /\ Content' = Content /\ mem' = mem /\ geo' = geo /\ req' = req
      /\ (Reading' <=> Reading)
  BY SameDisk DEF Reading
<1>2. SectorsDone' = SectorsDone
  BY <1>1 DEF SectorsDone
<1>. QED BY <1>1, <1>2 DEF Unmoved

LEMMA ReceiveAsks ==
  ASSUME HdInv, HdInv', Receive
  PROVE  AskStep \/ Unmoved
<1>1. /\ pc = "top" /\ ~irq /\ req = NoRequest /\ layout \in Layouts /\ scan = NoScan
  BY DEF Receive, At, HdInv, Serving, InStep, Quiet, Finding
<1>2. PICK r \in Requests :
        \E b \in IF r.type = "DEV_WRITE" THEN Buffers ELSE {ZeroBuffer} : Ask(r, b)
  BY <1>1 DEF Receive
<1>3. PICK b \in IF r.type = "DEV_WRITE" THEN Buffers ELSE {ZeroBuffer} : Ask(r, b)
  BY <1>2
<1>4. /\ req' = r
      /\ left' = IF r.type = "DEV_OPEN" THEN 1 ELSE r.n
      /\ geo' = IF r.type = "DEV_IOCTL" THEN Found(r.dev) ELSE part_info(0, 0)
      /\ pc' \in {"answer", "bsy"}
      /\ UNCHANGED <<layout, platter>>
  BY <1>3 DEF Ask, Receive
<1>5. /\ req' # NoRequest /\ req' \in RequestType /\ mem' \in Buffers
      /\ req'.type \notin Transfers => req'.n = 0
      /\ req'.type \in Transfers => req'.at + req'.n <= OnDisk'[req'.dev].size
  BY <1>4, HdAssumption DEF HdInv, HdTypes, Serving
<1>6. SectorsDone' = 0
  <2>1. r.n \in Nat
    BY <1>4, <1>5 DEF RequestType
  <2>2. CASE r.n = 0
    BY <1>4, <2>2 DEF SectorsDone
  <2>3. CASE r.n # 0
    <3>1. left' = r.n /\ pc' # "wait"
      BY <1>4, <1>5, <2>3 DEF Transfers
    <3>. QED BY <1>4, <1>5, <2>1, <3>1 DEF SectorsDone
  <2>. QED BY <2>2, <2>3
<1>7. OnDisk' = OnDisk /\ Content' = Content
  BY <1>4, SameDisk
<1>8. req'.n > 0 => req'.at + req'.n <= OnDisk[req'.dev].size
  BY <1>5, <1>7
<1>9. r.type = "DEV_IOCTL" => geo' = OnDisk[r.dev]
  <2>. SUFFICES ASSUME r.type = "DEV_IOCTL" PROVE geo' = OnDisk[r.dev]
    OBVIOUS
  <2>1. open_cnt > 0 /\ r.dev \in DOMAIN OnDisk
    BY <1>2 DEF Requests
  <2>2. AllKnown(hd_info)
    BY <1>1, <2>1 DEF HdInv, Finding
  <2>. QED BY <1>1, <1>4, <2>1, <2>2, DeviceFound
<1>. QED
  BY <1>1, <1>4, <1>5, <1>6, <1>7, <1>8, <1>9 DEF AskStep

LEMMA PortReadMoves ==
  ASSUME HdInv, PortRead
  PROVE  ReadStep
<1>1. /\ pc = "read" /\ drive.st = "drq" /\ Reading /\ req.type # "DEV_OPEN"
  BY DEF PortRead, At, HdInv, InStep
<1>2. /\ req.type \in Transfers /\ req.type = "DEV_READ"
      /\ left \in 1 .. req.n /\ req.n \in Nat /\ req # NoRequest
  <2>1. req.type \in Transfers \union {"DEV_OPEN"} /\ left \in 1 .. Due
    BY <1>1 DEF HdInv, InStep
  <2>2. req \in RequestType /\ req # NoRequest
    BY <1>1, HdAssumption DEF HdInv, Serving
  <2>. QED BY <1>1, <2>1, <2>2 DEF Transfers, Reading, Due, RequestType
<1>3. /\ UNCHANGED <<layout, req, geo, platter>>
      /\ left' = left - 1
      /\ pc' = IF left - 1 = 0 THEN "answer" ELSE "wait"
      /\ mem' = [mem EXCEPT ![req.n - left] = platter[drive.lba]]
  BY <1>1 DEF PortRead, infoVars
<1>4. SectorsDone = req.n - left /\ SectorsDone' = (req.n - left) + 1
  BY <1>1, <1>2, <1>3 DEF SectorsDone, Reading
<1>5. platter[drive.lba] = Content[req.dev][req.at + (req.n - left)]
  <2>1. /\ req.at + (req.n - left) \in 0 .. OnDisk[req.dev].size - 1
        /\ drive.lba = OnDisk[req.dev].base + (req.at + (req.n - left))
    BY <1>1, <1>2, SectorInDevice
  <2>2. req.dev \in DOMAIN OnDisk
    BY <1>1, <1>2 DEF HdInv, Serving
  <2>. QED BY <2>1, <2>2 DEF Content
<1>6. OnDisk' = OnDisk /\ Content' = Content
  BY <1>3, SameDisk
<1>7. req.n - left < req.n
  BY <1>2
<1>. QED
  BY <1>2, <1>3, <1>4, <1>5, <1>6, <1>7 DEF ReadStep

\* What a write changes: no sector of another device, as the layout has no sector
\* in two partitions.
LEMMA PortWriteMoves ==
  ASSUME HdInv, PortWrite
  PROVE  WriteStep
<1>1. /\ pc = "write" /\ drive.st = "drq" /\ ~Reading /\ req.type = "DEV_WRITE"
      /\ layout \in Layouts
  BY DEF PortWrite, At, HdInv, InStep, Reading, Serving
<1>2. /\ req.type \in Transfers /\ left \in 1 .. req.n /\ req.n \in Nat
      /\ req # NoRequest /\ req.dev \in DOMAIN OnDisk
  <2>1. left \in 1 .. Due
    BY <1>1 DEF HdInv, InStep
  <2>2. req \in RequestType /\ req # NoRequest /\ req.dev \in DOMAIN OnDisk
    BY <1>1, HdAssumption DEF HdInv, Serving, Transfers
  <2>. QED BY <1>1, <2>1, <2>2 DEF Transfers, Due, RequestType
<1>3. /\ UNCHANGED <<layout, req, left, geo, mem>>
      /\ pc' = "wait"
      /\ platter' = [platter EXCEPT ![drive.lba] = mem[req.n - left]]
  BY <1>1 DEF PortWrite, taskVars
<1>4. SectorsDone = req.n - left /\ SectorsDone' = (req.n - left) + 1
  BY <1>1, <1>2, <1>3 DEF SectorsDone, Reading
<1>. DEFINE at == req.at + (req.n - left)
            new == mem[req.n - left]
<1>5. /\ at \in 0 .. OnDisk[req.dev].size - 1
      /\ drive.lba = OnDisk[req.dev].base + at /\ drive.lba \in Sectors
  BY <1>1, <1>2, SectorInDevice
<1>6. platter \in [Sectors -> Values]
  BY DEF HdInv, HdTypes
<1>7. OnDisk' = OnDisk
  BY <1>3, SameDisk
<1>. HIDE DEF at, new
<1>8. ASSUME NEW d \in DOMAIN OnDisk, NEW i \in 0 .. OnDisk[d].size - 1
      PROVE  platter'[OnDisk[d].base + i] =
               IF d = req.dev /\ i = at THEN new ELSE platter[OnDisk[d].base + i]
  <2>1. /\ OnDisk[d] \in [base : Nat, size : Nat]
        /\ OnDisk[d].base + OnDisk[d].size <= NrSectors
        /\ OnDisk[req.dev] \in [base : Nat, size : Nat]
    BY <1>1, <1>2, DeviceOnDisk
  <2>2. OnDisk[d].base + i \in Sectors
    BY <2>1, HdAssumption DEF Sectors
  <2>3. d = req.dev /\ i # at => OnDisk[d].base + i # drive.lba
    BY <1>5, <2>1
  <2>4. d # req.dev => OnDisk[d].base + i # drive.lba
    <3>1. /\ OnDisk[d].base + i \in SectorsOf(OnDisk[d])
          /\ drive.lba \in SectorsOf(OnDisk[req.dev])
      BY <1>5, <2>1 DEF SectorsOf
    <3>2. d # req.dev => SectorsOf(OnDisk[d]) \intersect SectorsOf(OnDisk[req.dev]) = {}
      BY <1>1, <1>2, LayoutType, Zenon DEF OnDisk
    <3>. QED BY <3>1, <3>2
  <2>5. d = req.dev /\ i = at => OnDisk[d].base + i = drive.lba
    BY <1>5
  <2>6. platter'[OnDisk[d].base + i] = IF OnDisk[d].base + i = drive.lba THEN new
                                       ELSE platter[OnDisk[d].base + i]
    BY <1>3, <1>6, <2>2 DEF new
  <2>. QED BY <2>3, <2>4, <2>5, <2>6
<1>9. Content' = [Content EXCEPT ![req.dev][at] = new]
  <2>1. Content' = [d \in DOMAIN OnDisk |->
                      [i \in 0 .. OnDisk[d].size - 1 |-> platter'[OnDisk[d].base + i]]]
    BY <1>7 DEF Content
  <2>2. Content' = [d \in DOMAIN OnDisk |->
                      [i \in 0 .. OnDisk[d].size - 1 |->
                         IF d = req.dev /\ i = at THEN new
                         ELSE platter[OnDisk[d].base + i]]]
    BY <2>1, <1>8
  <2>. QED BY <2>2, <1>2, <1>5 DEF Content
<1>10. req.n - left < req.n
  BY <1>2
<1>. QED
  BY <1>1, <1>2, <1>3, <1>4, <1>7, <1>9, <1>10 DEF WriteStep, at, new

LEMMA AnswerAnswers ==
  ASSUME HdInv, Answer
  PROVE  AnswerStep
<1>1. /\ pc = "answer" /\ req # NoRequest /\ req \in RequestType
      /\ req.type # "DEV_OPEN" => left = 0
      /\ req.type \notin Transfers => req.n = 0
  BY HdAssumption DEF Answer, At, HdInv, Serving, InStep
<1>2. /\ req' = NoRequest /\ UNCHANGED <<layout, geo, mem, platter>>
  BY DEF Answer, infoVars
<1>3. SectorsDone = req.n
  BY <1>1 DEF SectorsDone, Transfers, RequestType
<1>4. SectorsDone' = 0 /\ OnDisk' = OnDisk /\ Content' = Content
  BY <1>2, SameDisk DEF SectorsDone
<1>. QED BY <1>1, <1>2, <1>3, <1>4 DEF AnswerStep

LEMMA NextImplements ==
  ASSUME HdInv, HdInv', [HdNext]_hdVars
  PROVE  [D!Next]_(D!vars)
<1>1. CASE Receive
  BY <1>1, ReceiveAsks, AbstractSteps
<1>2. CASE HdCmdOut
  <2>1. /\ UNCHANGED <<layout, req, geo, mem, platter, left>>
        /\ pc = "bsy" /\ (pc' = "wait" => Reading)
    BY <1>2 DEF HdCmdOut, Waitfor, Command, At, taskVars
  <2>. QED BY <2>1, SilentStep, AbstractSteps DEF Reading
<1>3. CASE WaitDrq
  <2>1. /\ UNCHANGED <<layout, req, geo, mem, platter, left>>
        /\ pc = "drq" /\ pc' \in {"drq", "write"}
    BY <1>3 DEF WaitDrq, Waitfor, At, taskVars
  <2>. QED BY <2>1, SilentStep, AbstractSteps
<1>4. CASE DrqTimeout
  <2>1. UNCHANGED <<layout, req, geo, mem, platter, pc, left>>
    BY <1>4 DEF DrqTimeout, taskVars
  <2>. QED BY <2>1, SilentStep, AbstractSteps
<1>5. CASE WaitInterrupt
  <2>1. /\ UNCHANGED <<layout, req, geo, mem, platter>> /\ pc = "wait"
        /\ IF Reading THEN pc' = "read" /\ UNCHANGED left
                      ELSE /\ left' = left - 1
                           /\ pc' = IF left' = 0 THEN "answer" ELSE "drq"
    BY <1>5 DEF WaitInterrupt, At, infoVars
  <2>2. left \in Int /\ req.n \in Int /\ (Reading' <=> Reading)
    BY <2>1 DEF HdInv, HdTypes, Serving, RequestType, Reading
  <2>. QED BY <2>1, <2>2, SilentStep, AbstractSteps
<1>6. CASE PortRead
  BY <1>6, PortReadMoves, AbstractSteps
<1>7. CASE PortReadTable
  <2>1. /\ UNCHANGED <<layout, req, geo, mem, platter>>
        /\ pc = "read" /\ req.type = "DEV_OPEN"
    BY <1>7 DEF PortReadTable, At
  <2>2. req # NoRequest /\ req.n = 0
    BY <2>1, HdAssumption DEF HdInv, Serving, Transfers
  <2>. QED BY <2>1, <2>2, SilentStep, AbstractSteps
<1>8. CASE PortWrite
  BY <1>8, PortWriteMoves, AbstractSteps
<1>9. CASE Answer
  BY <1>9, AnswerAnswers, AbstractSteps
<1>10. CASE DriveStep
  <2>1. UNCHANGED <<layout, req, geo, mem, platter, pc, left>>
    BY <1>10 DEF DriveStep, taskVars
  <2>. QED BY <2>1, SilentStep, AbstractSteps
<1>11. CASE Handler
  <2>1. UNCHANGED <<layout, req, geo, mem, platter, pc, left>>
    BY <1>11 DEF Handler, taskVars
  <2>. QED BY <2>1, SilentStep, AbstractSteps
<1>12. CASE UNCHANGED hdVars
  <2>1. UNCHANGED <<layout, req, geo, mem, platter, pc, left>>
    BY <1>12 DEF hdVars
  <2>. QED BY <2>1, SilentStep, AbstractSteps
<1>. QED
  BY <1>1, <1>2, <1>3, <1>4, <1>5, <1>6, <1>7, <1>8, <1>9, <1>10, <1>11, <1>12
  DEF HdNext, TaskHd

LEMMA InitImplements == HdInit => D!Init
<1>. SUFFICES ASSUME HdInit PROVE D!Init
  OBVIOUS
<1>1. /\ req = NoRequest /\ mem = ZeroBuffer /\ platter = [s \in Sectors |-> 0]
      /\ layout \in Layouts
  BY DEF HdInit
<1>2. ASSUME NEW d \in DOMAIN OnDisk, NEW i \in 0 .. OnDisk[d].size - 1
      PROVE  platter[OnDisk[d].base + i] = 0
  <2>1. /\ OnDisk[d] \in [base : Nat, size : Nat]
        /\ OnDisk[d].base + OnDisk[d].size <= NrSectors
    BY <1>1, DeviceOnDisk
  <2>2. OnDisk[d].base + i \in Sectors
    BY <2>1, HdAssumption DEF Sectors
  <2>. QED BY <1>1, <2>2
<1>3. \A d \in DOMAIN OnDisk : \A s \in DOMAIN Content[d] : Content[d][s] = 0
  BY <1>2 DEF Content
<1>4. mem \in Buffers
  BY <1>1, HdAssumption DEF ZeroBuffer, Buffers
<1>5. SectorsDone = 0
  BY <1>1 DEF SectorsDone
<1>. QED
  BY <1>1, <1>3, <1>4, <1>5 DEF D!Init, Content, SectorsDone

\* Commands, interrupts and ports implement BlockDevice: hd_rdwt(), hd_ioctl() and
\* the drive move exactly the sectors asked for, each between the device named and
\* its place in the caller's buffer, and no sector of another device changes.
THEOREM DriverImplements == HdSpec => RefinesBlockDevice
<1>. QED
  BY InitImplements, HdInductive, NextImplements, PTL
  DEF HdSpec, RefinesBlockDevice, D!Spec

=============================================================================
