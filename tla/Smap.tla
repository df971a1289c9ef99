--------------------------------- MODULE Smap ---------------------------------
(***************************************************************************)
(* The sector map, byte by byte: alloc_smap_bit() of fs/open.c, the part   *)
(* of do_unlink() of fs/link.c that frees sectors, and how mkfs() of       *)
(* fs/main.c fills the map.                                                *)
(*                                                                         *)
(* A byte is the set of its bits that are 1.  The bytes of the successive  *)
(* sectors of the map are numbered through: fsbuf holds one sector at a    *)
(* time, and both loops go on in the next sector where one ends.           *)
(***************************************************************************)
EXTENDS Integers, FiniteSets, FiniteSetsExt

CONSTANTS
  BITS,        \* in a byte: 8
  NrBytes,     \* nr_smap_sects * SECTOR_SIZE
  n_1st_sect,  \* the sector of the first data bit
  Sizes        \* what NR_DEFAULT_FILE_SECTS may be

ASSUME SmapAssumption ==
  /\ BITS \in Nat \ {0} /\ NrBytes \in Nat \ {0} /\ n_1st_sect \in Nat \ {0}
  /\ Sizes \subseteq Nat \ {0}
  /\ \A n \in Sizes : n + 1 <= NrBytes * BITS

Ones == 0 .. BITS - 1
Below(n) == 0 .. n - 1

VARIABLES
  file_sects,   \* NR_DEFAULT_FILE_SECTS: chosen once
  map,          \* the bytes
  files,        \* i_start_sect of the files there are
  failed        \* the line of the assertion that failed, or "no"

smapVars == <<file_sects, map, files, failed>>

\* Variant with a fault: the bit that is not used is not counted.
SmapInitOneShort ==
  /\ file_sects \in Sizes
  /\ map = [i \in Below(NrBytes) |->
              CASE i < file_sects \div BITS -> Ones
                [] i = file_sects \div BITS -> Below(file_sects % BITS)
                [] OTHER -> {}]
  /\ files = {}
  /\ failed = "no"

\* mkfs(), 165-172: the first bit is not used, the root directory has a file's
\* sectors.
SmapInit ==
  /\ file_sects \in Sizes
  /\ LET nr_sects == file_sects + 1 IN
       map = [i \in Below(NrBytes) |->
                CASE i < nr_sects \div BITS -> Ones
                  [] i = nr_sects \div BITS -> Below(nr_sects % BITS)
                  [] OTHER -> {}]
  /\ files = {}
  /\ failed = "no"

----------------------------------------------------------------------------
\* Variant with a fault: free_sect_nr is one too high.
AllocByteOneOn(so_far, i) ==
  LET byte  == so_far.map[i]
      k     == IF so_far.at = 0 THEN Min(Ones \ byte) ELSE 0
      taken == k .. Min({BITS, k + so_far.left}) - 1
  IN IF so_far.left = 0 \/ (so_far.at = 0 /\ byte = Ones) THEN so_far
     ELSE [map  |-> [so_far.map EXCEPT ![i] = @ \union taken],
           at   |-> IF so_far.at = 0 THEN i * BITS + k + n_1st_sect ELSE so_far.at,
           left |-> so_far.left - Cardinality(taken),
           ok   |-> so_far.ok /\ byte \intersect taken = {}]

\* alloc_smap_bit(): one byte of the loop at 153-168.  at is free_sect_nr, left
\* is nr_sects_to_alloc.
AllocByte(so_far, i) ==
  LET byte  == so_far.map[i]
      k     == IF so_far.at = 0 THEN Min(Ones \ byte) ELSE 0
      taken == k .. Min({BITS, k + so_far.left}) - 1
  IN IF so_far.left = 0 \/ (so_far.at = 0 /\ byte = Ones) THEN so_far
     ELSE [map  |-> [so_far.map EXCEPT ![i] = @ \union taken],
           at   |-> IF so_far.at = 0 THEN i * BITS + k - 1 + n_1st_sect
                                     ELSE so_far.at,
           left |-> so_far.left - Cardinality(taken),
           ok   |-> so_far.ok /\ byte \intersect taken = {}]

\* The loop when n bytes are done: the code breaks off when nothing is left to
\* allocate, here the other bytes change nothing.
AllocLoop[n \in 0 .. NrBytes] ==
  IF n = 0 THEN [map |-> map, at |-> 0, left |-> file_sects, ok |-> TRUE]
           ELSE AllocByte(AllocLoop[n - 1], n - 1)

Allocated == AllocLoop[NrBytes]

Alloc ==
  /\ failed = "no"
  /\ CASE ~Allocated.ok -> failed' = "open.c:163" /\ UNCHANGED <<map, files>>
       [] Allocated.ok /\ Allocated.left # 0 ->
            failed' = "open.c:175" /\ map' = Allocated.map /\ UNCHANGED files
       [] OTHER -> /\ map' = Allocated.map
                   /\ files' = files \union {Allocated.at}
                   /\ UNCHANGED failed
  /\ UNCHANGED file_sects

----------------------------------------------------------------------------
\* do_unlink(), 69-103: what is left of the first byte, byte_cnt whole bytes,
\* and the rest of the sectors in one byte more.  C rounds the quotient to zero.
byte_cnt(bit) ==
  LET whole == file_sects - (BITS - (bit % BITS)) IN
  IF whole < 0 THEN 0 ELSE whole \div BITS

FreedIn(start) ==
  LET bit  == start - n_1st_sect + 1
      b0   == bit \div BITS
      head == (bit % BITS) .. Min({BITS, (bit % BITS) + file_sects}) - 1
      tail == b0 + byte_cnt(bit) + 1
      rest == file_sects - Cardinality(head) - BITS * byte_cnt(bit)
  IN [i \in Below(NrBytes) |->
        CASE i = b0 -> head
          [] b0 < i /\ i < tail -> Ones
          [] i = tail -> Below(rest)
          [] OTHER -> {}]

Free(start) ==
  /\ failed = "no" /\ start \in files
  /\ IF \A i \in Below(NrBytes) : FreedIn(start)[i] \subseteq map[i]
       THEN /\ map' = [i \in Below(NrBytes) |-> map[i] \ FreedIn(start)[i]]
            /\ files' = files \ {start}
            /\ UNCHANGED failed
       ELSE failed' = "link.c:79" /\ UNCHANGED <<map, files>>
  /\ UNCHANGED file_sects

SmapNext == Alloc \/ \E start \in files : Free(start)

SmapSpec == SmapInit /\ [][SmapNext]_smapVars

----------------------------------------------------------------------------
\* Properties.

Bits == {i * BITS + k : i \in Below(NrBytes), k \in Ones}
SetBits == {b \in Bits : b % BITS \in map[b \div BITS]}
BitsOf(start) == LET bit == start - n_1st_sect + 1 IN bit .. bit + file_sects - 1

\* The map says exactly which sectors belong to a file, and no two files have one
\* in common, wherever in the bytes they begin and end.  And the one assertion that
\* can fail is that the map has room (open.c:175): the bits after the first free
\* one are free too (open.c:163), and the bits of a file are set when it is removed
\* (link.c:79, 91, 101).
MapExact ==
  /\ failed = "no" =>
       /\ SetBits = (0 .. file_sects) \union UNION {BitsOf(s) : s \in files}
       /\ \A s, t \in files : s # t => BitsOf(s) \intersect BitsOf(t) = {}
  /\ failed \in {"no", "open.c:175"}

\* With all files of one size, the map behaves as the numbered places of Extents.
FirstBit(e) == 1 + e * file_sects
Places == {e \in 1 .. NrBytes * BITS : FirstBit(e) + file_sects <= NrBytes * BITS}

Store == INSTANCE Extents WITH
       nr_extents <- Cardinality(Places),
       smap <- {e \in Places : FirstBit(e) - 1 + n_1st_sect \in files},
       full <- failed = "open.c:175"

RefinesExtents == Store!Spec
=============================================================================
