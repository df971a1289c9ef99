-------------------------------- MODULE FsRw --------------------------------
(***************************************************************************)
(* do_rdwt() of fs/read_write.c on files: positions, sizes, and which bytes *)
(* of the disk a READ or WRITE takes or changes.  Terminals are read and    *)
(* written by TTY (modules Servers and Tty).                                *)
(*                                                                         *)
(* FS moves whole sectors between the disk and fsbuf, a chunk at a time;    *)
(* the files lie one after the other on the disk, each in its NR_SECTS      *)
(* sectors (NR_DEFAULT_FILE_SECTS).  All the descriptors allow reading and  *)
(* writing (O_RDWR).                                                        *)
(***************************************************************************)
EXTENDS Integers, Sequences, FiniteSetsExt, SequencesExt

CONSTANTS
  SECTOR_SIZE, NR_SECTS,
  FSBUF_SECTS,     \* FSBUF_SIZE, in sectors
  NrFiles,         \* files 0 .. NrFiles - 1
  Descs, FileOf,   \* the file each descriptor was opened on
  ReadLens,
  WriteData,       \* what processes write: sequences of bytes
  LongData,        \* what those write that do not care for a file's room
  MaxPos           \* bound: how far reading takes a descriptor

Files == 0 .. NrFiles - 1
Capacity == NR_SECTS * SECTOR_SIZE
Disk == 0 .. (NrFiles + 1) * Capacity - 1   \* bytes, 0 if never written

ASSUME FsRwAssumption ==
  /\ SECTOR_SIZE \in Nat \ {0} /\ NR_SECTS \in Nat \ {0}
  /\ FSBUF_SECTS \in Nat \ {0} /\ NrFiles \in Nat \ {0}
  /\ FileOf \in [Descs -> Files]
  /\ MaxPos \in 0 .. NrFiles * Capacity
  /\ ReadLens \subseteq Nat /\ WriteData \cup LongData \subseteq Seq(Nat)

VARIABLES
  disk,      \* the data sectors, byte by byte
  i_size,    \* per file
  fd_pos,    \* per descriptor
  got,       \* what the last READ copied to its caller's buffer, by offset from 0
  given,     \* what the last WRITE was given, <<>> after another operation
  careful    \* do processes take no descriptor beyond its file's room?

rwVars == <<disk, i_size, fd_pos, got, given, careful>>

RwInit ==
  /\ disk = [x \in Disk |-> 0]
  /\ i_size = [f \in Files |-> 0]
  /\ fd_pos = [d \in Descs |-> 0]
  /\ got = <<>> /\ given = <<>>
  /\ careful \in BOOLEAN

\* do_open(): the position is the end of the file.
Open(d) ==
  /\ fd_pos' = [fd_pos EXCEPT ![d] = i_size[FileOf[d]]]
  /\ got' = <<>> /\ given' = <<>> /\ UNCHANGED <<disk, i_size, careful>>

----------------------------------------------------------------------------
\* Variant with a fault: the chunk begins at the sector after the position's.
CopiedOneOn(f, pos, pos_end, len) ==
  LET rw_sect_min == f * NR_SECTS + pos \div SECTOR_SIZE + 1
  IN [left |-> 0, bytes_rw |-> len, buf |-> [j \in 1 .. len |-> j - 1],
      at |-> [j \in 1 .. len |-> rw_sect_min * SECTOR_SIZE + (pos % SECTOR_SIZE) + j - 1]]

\* Variant with a fault: line 93 is missing.
CopyRoundAtStart(sofar, i, off, chunk) ==
  LET bytes == Min({sofar.left, chunk * SECTOR_SIZE - off})
  IN [left     |-> sofar.left - bytes,
      bytes_rw |-> sofar.bytes_rw,
      buf      |-> sofar.buf \o [j \in 1 .. bytes |-> sofar.bytes_rw + j - 1],
      at       |-> sofar.at \o [j \in 1 .. bytes |-> i * SECTOR_SIZE + off + j - 1]]

\* One round of the loop of do_rdwt(), 75-95, with the chunk at sector i.  left and
\* bytes_rw are the variables of the code; of the bytes copied so far, one after the
\* other, buf has the places in the caller's buffer and at those on the disk.
CopyRound(sofar, i, off, chunk) ==
  LET bytes == Min({sofar.left, chunk * SECTOR_SIZE - off})
  IN [left     |-> sofar.left - bytes,
      bytes_rw |-> sofar.bytes_rw + bytes,
      buf      |-> sofar.buf \o [j \in 1 .. bytes |-> sofar.bytes_rw + j - 1],
      at       |-> sofar.at \o [j \in 1 .. bytes |-> i * SECTOR_SIZE + off + j - 1]]

\* The loop, for len bytes at pos of f.
Copied(f, pos, pos_end, len) ==
  LET rw_sect_min == f * NR_SECTS + pos \div SECTOR_SIZE
      rw_sect_max == f * NR_SECTS + pos_end \div SECTOR_SIZE
      chunk  == Min({rw_sect_max - rw_sect_min + 1, FSBUF_SECTS})
      rounds == IF rw_sect_max < rw_sect_min THEN 0
                ELSE (rw_sect_max - rw_sect_min) \div chunk + 1
      After[k \in 0 .. rounds] ==
        IF k = 0 THEN [left |-> len, bytes_rw |-> 0, buf |-> <<>>, at |-> <<>>]
        ELSE CopyRound(After[k - 1], rw_sect_min + (k - 1) * chunk,
                       IF k = 1 THEN pos % SECTOR_SIZE ELSE 0, chunk)
  IN After[rounds]

\* The copy whose place in seq is p (lines 81-87).
Copy(seq, p) == CHOOSE j \in DOMAIN seq : seq[j] = p

\* Line 94 and lines 97-101: every byte moves the position, and a position
\* beyond the end makes the file longer.
Advance(d, n) ==
  /\ fd_pos' = [fd_pos EXCEPT ![d] = @ + n]
  /\ i_size' = [i_size EXCEPT ![FileOf[d]] = Max({@, fd_pos'[d]})]

\* Variant: a READ at the descriptor's position, as fs.h:60 has it.
ReadAtPosition(d, len) ==
  LET f == FileOf[d]
      c == Copied(f, fd_pos[d], i_size[f], len)
  IN /\ fd_pos[d] + Len(c.at) <= MaxPos
     /\ got' = [o \in ToSet(c.buf) |-> disk[c.at[Copy(c.buf, o)]]]
     /\ Advance(d, Len(c.at))
     /\ given' = <<>> /\ UNCHANGED <<disk, careful>>

Read(d, len) ==
  LET f == FileOf[d]
      c == Copied(f, 0, i_size[f], len)   \* line 29: pos=0
  IN /\ fd_pos[d] + Len(c.at) <= IF careful THEN Capacity ELSE MaxPos
     /\ got' = [o \in ToSet(c.buf) |-> disk[c.at[Copy(c.buf, o)]]]
     /\ Advance(d, Len(c.at))
     /\ given' = <<>> /\ UNCHANGED <<disk, careful>>

Write(d, data) ==
  LET f   == FileOf[d]
      pos == fd_pos[d]
      c   == Copied(f, pos, Min({pos + Len(data), Capacity}), Len(data))
  IN /\ careful => pos + Len(data) <= Capacity
     /\ disk' = [x \in Disk |-> IF x \in ToSet(c.at)
                                THEN data[c.buf[Copy(c.at, x)] + 1] ELSE disk[x]]
     /\ Advance(d, Len(c.at))
     /\ got' = <<>> /\ given' = data /\ UNCHANGED careful

RwNext ==
  \E d \in Descs :
    \/ Open(d)
    \/ \E len \in ReadLens : Read(d, len)
    \/ \E data \in IF careful THEN WriteData ELSE LongData : Write(d, data)

RwSpec == RwInit /\ [][RwNext]_rwVars

----------------------------------------------------------------------------
\* Properties.

Sectors(f) == f * Capacity .. (f + 1) * Capacity - 1
Contents(f, n) == [j \in 1 .. n |-> disk[f * Capacity + j - 1]]

\* The promise of FileBytes is kept, as long as no descriptor goes beyond the room
\* of its file: whatever way the chunks fall, the bytes of a file are those its
\* writers had in their buffers, in that order, each at the descriptor's position,
\* and no READ and no other file's WRITE changes them.
B == INSTANCE FileBytes WITH
       content  <- [f \in Files |-> Contents(f, i_size[f])],
       position <- fd_pos

KeepsBytes == /\ careful => B!Init
              /\ [][careful => B!Next]_(B!vars)

\* A READ changes nothing on the disk, a WRITE only bytes of its own file: the
\* sectors of the next file that a chunk takes along are put back as they were.  A
\* write beyond the room a file has (line 67 cuts pos_end, but the sector of
\* pos_end is rewritten too, and the rest of its chunk) goes into the file behind
\* it, no further than a chunk, and takes the position there.
NeighboursUntouched ==
  [][\A x \in Disk :
       disk'[x] # disk[x] =>
         \E d \in Descs :
           LET f == FileOf[d] IN
           /\ fd_pos'[d] # fd_pos[d]
           /\ \/ x \in Sectors(f)
              \/ /\ ~careful /\ fd_pos'[d] > Capacity
                 /\ x - (f + 1) * Capacity \in 0 .. FSBUF_SECTS * SECTOR_SIZE - 1]_rwVars

Reading == got' # <<>>

\* A READ gives its caller the first bytes of the file whatever the descriptor's
\* position (line 29), from the beginning of its buffer on and without a gap, as many
\* as it asks for or, if it gives fewer, all the file has.
ReadsFromStart ==
  [][Reading =>
       \E d \in Descs :
         LET n == fd_pos'[d] - fd_pos[d] IN
         /\ got' = [o \in 0 .. n - 1 |-> disk[FileOf[d] * Capacity + o]]
         /\ n \in ReadLens \/ n > i_size[FileOf[d]]]_rwVars
=============================================================================
