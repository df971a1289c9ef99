------------------------------ MODULE FsProofs ------------------------------
(***************************************************************************)
(* Proofs about Fs: as long as the power fails in no removal, descriptors  *)
(* keep their inodes, the inode table and the maps agree with the disk,    *)
(* and however it fails, the directory gives a name to one file only.      *)
(***************************************************************************)
EXTENDS Fs, FiniteSetTheorems, NaturalsInduction, WellFoundedInduction, TLAPS

----------------------------------------------------------------------------
FileNames == Names \union {Dot, Tty0}
Modes == {DIRECTORY, CHAR_SPECIAL, REGULAR, "none"}
Numbers == 0 .. NrInodes - 1
EntryType == [nr : Numbers, name : FileNames \union {NoName}, mark : 0 .. MAX_FILENAME_LEN]

Disks == [imap    : SUBSET Numbers,
          smap    : SUBSET (1 .. NrExtents),
          inodes  : [Inodes -> [i_mode : Modes, ext : 0 .. NrExtents]],
          entries : [1 .. MaxEntries -> EntryType],
          size    : 0 .. MaxEntries - 1]

\* Of the entries of the directory that bear the same name, and no tail of an older
\* one, only the first may hold a file; entries of a long name's neighbour, or of
\* inode 0, keep a name and hold none.
OneName(entries, size) ==
  /\ \A i, j \in 1 .. size :
       i < j /\ entries[i].name = entries[j].name /\ Clean(entries[i]) /\ Clean(entries[j])
       => entries[j].nr = 0
  /\ \A i \in 1 .. size : entries[i].name = NoName => entries[i].nr = 0

\* The entries of the directory lead to inodes that are taken, each to one of its own.
Listing(d) ==
  /\ \A i \in Entries(d) : d.entries[i].nr \in d.imap
  /\ \A i, j \in Entries(d) : d.entries[i].nr = d.entries[j].nr => i = j

\* The maps, the inodes and the directory of a disk: a free inode is unused, a file's
\* sectors are taken, and no other file's; the root directory is one.
MapsAgree(d) ==
  /\ Listing(d)
  /\ \A n \in Inodes : d.inodes[n].i_mode # REGULAR => d.inodes[n].ext = 0
  /\ d.inodes[ROOT_INODE].i_mode = DIRECTORY
  /\ \A n \in Inodes \ d.imap : d.inodes[n].i_mode = "none"
  /\ \A n \in Inodes : d.inodes[n].i_mode = REGULAR => d.inodes[n].ext \in d.smap
  /\ \A n, m \in Inodes :
       d.inodes[n].i_mode = REGULAR /\ d.inodes[m].i_mode = REGULAR
         /\ d.inodes[n].ext = d.inodes[m].ext => n = m

\* The directory, at every moment the power may fail.
DirectoryInv ==
  /\ disk \in Disks /\ OneName(disk.entries, disk.size)
  /\ pending \in Seq(Disks)
  /\ \A i \in 1 .. Len(pending) : OneName(pending[i].entries, pending[i].size)
  /\ root_size = Target.size

\* The maps, but for the moments within a removal.
MapsInv ==
  /\ MapsAgree(Target)
  /\ op.kind # "unlink" =>
       MapsAgree(disk) /\ \A i \in 1 .. Len(pending) : MapsAgree(pending[i])

\* The descriptors that lead to slot s.
Refs(table, s) == {d \in Descs : table[d] = s}

\* The tables, of which only do_open() and creat_file() add descriptors.
TablesType ==
  /\ inode_table \in [Slots -> [i_cnt : Nat, i_num : Numbers, i_mode : Modes]]
  /\ f_desc_table \in [Descs -> Slots \union {0}]
  /\ filp \in [Users -> [Fds -> Descs \union {0}]]

CachedOnce ==
  /\ \A s \in Slots :
       inode_table[s].i_cnt > 0 =>
         /\ inode_table[s].i_num \in Inodes
         /\ inode_table[s].i_mode = Target.inodes[inode_table[s].i_num].i_mode
  /\ \A s, t \in Slots :
       /\ inode_table[s].i_cnt > 0 /\ inode_table[t].i_cnt > 0
       /\ inode_table[s].i_num = inode_table[t].i_num
       => s = t

OpenInv ==
  failed = "no" =>
    \A d \in Descs :
      f_desc_table[d] # 0 => inode_table[f_desc_table[d]].i_mode # "none"

\* do_unlink() finds taken what it frees: the assertions link.c:64 and link.c:79.
FreedOnce == {failed, stop} \intersect {"link.c:64", "link.c:79"} = {}

TablesInv == TablesType /\ CachedOnce /\ DescriptorsBacked /\ OpenInv

FsInv == DirectoryInv /\ MapsInv /\ TablesInv /\ FreedOnce

----------------------------------------------------------------------------
\* Numbers.

\* A nonempty set of naturals has a least element, which Min finds.
LEMMA MinOf ==
  ASSUME NEW T \in SUBSET Nat, T # {}
  PROVE  Min(T) \in T /\ \A y \in T : Min(T) <= y
<1>1. OpToRel(<, Nat) = {r \in Nat \X Nat : r[1] < r[2]}
  BY DEF OpToRel
<1>2. IsWellFoundedOn({r \in Nat \X Nat : r[1] < r[2]}, Nat)
  BY <1>1, NatLessThanWellFounded
<1>3. PICK x \in T : \A y \in T : ~ (<<y, x>> \in {r \in Nat \X Nat : r[1] < r[2]})
  BY <1>2, WFMin
<1>4. ASSUME NEW y \in T PROVE x <= y
  <2>1. <<y, x>> \in Nat \X Nat
    OBVIOUS
  <2>2. ~(y < x)
    BY <1>3, <2>1
  <2>. QED
    BY <2>2
<1>. QED
  BY <1>4 DEF Min

\* Numbers of whole sectors, rounded up.
LEMMA RoundUp ==
  ASSUME NEW r \in Nat, NEW p \in Nat \ {0}
  PROVE  p * ((r + p - 1) \div p) \in Nat /\ r <= p * ((r + p - 1) \div p)
<1>1. PICK n \in Nat : n = r + p - 1
  OBVIOUS
<1>2. n = p * (n \div p) + (n % p) /\ n % p \in 0 .. p - 1
  OBVIOUS
<1>3. n \div p \in Nat
  OBVIOUS
<1>4. p * (n \div p) \in Nat
  BY <1>3
<1>5. r <= p * (n \div p)
  BY <1>1, <1>2, <1>4
<1>. QED
  BY <1>1, <1>4, <1>5

\* The greater of two.
LEMMA MaxOf ==
  ASSUME NEW x \in Nat, NEW y \in Nat
  PROVE  Max({x, y}) = IF x < y THEN y ELSE x
<1>. DEFINE m == IF x < y THEN y ELSE x
<1>1. m \in {x, y} /\ \A z \in {x, y} : m >= z
  OBVIOUS
<1>2. Max({x, y}) \in {x, y} /\ \A z \in {x, y} : Max({x, y}) >= z
  BY <1>1 DEF Max
<1>. QED
  BY <1>2

\* The constants' ranges.
LEMMA Bounds ==
  /\ NrInodes \in Nat /\ ROOT_INODE \in Inodes /\ TTY_INODE \in Inodes
  /\ Inodes \subseteq Numbers /\ NrExtents \in Nat /\ MaxEntries \in Nat \ {0, 1, 2}
  /\ NoName \notin FileNames /\ Dot \in FileNames /\ Tty0 \in FileNames
  /\ Slash \notin FileNames /\ Deep \notin FileNames
  /\ NR_INODE \in Nat \ {0} /\ PerSector \in Nat \ {0} /\ NR_FILE_DESC \in Nat \ {0}
<1>. USE FsAssumption DEF FsAssumption
<1>5. MaxEntries \in Nat \ {0, 1, 2}
  BY DEF MaxEntries, TTY_INODE
<1>6. /\ NoName \notin FileNames /\ Dot \in FileNames /\ Tty0 \in FileNames
      /\ Slash \notin FileNames /\ Deep \notin FileNames
  <2>1. NoName # Dot /\ NoName # Tty0
    BY Zenon DEF NoName, Dot, Tty0
  <2>2. {Slash, Deep} \intersect {Dot, Tty0} = {}
    BY DEF Dot, Tty0, Slash, Deep
  <2>. QED
    BY <2>1, <2>2 DEF FileNames
<1>. QED
  BY <1>5, <1>6 DEF Inodes, Numbers, ROOT_INODE, TTY_INODE

\* A name fits into the field of an entry.
LEMMA LengthOf ==
  ASSUME NEW name \in FileNames \union {NoName}
  PROVE  Length(name) \in 0 .. MAX_FILENAME_LEN
<1>1. name \in Names => NameLength[name] \in 1 .. MAX_FILENAME_LEN
  BY FsAssumption DEF FsAssumption
<1>0. NoName # Dot /\ NoName # Tty0 /\ Dot # Tty0
  <2>1. Dot # Tty0
    BY DEF Dot, Tty0
  <2>. QED
    BY <2>1, Bounds
<1>2. name = NoName => Length(name) = 0
  BY <1>0 DEF Length
<1>3. name = Dot => Length(name) = 1
  BY <1>0 DEF Length
<1>4. name = Tty0 => Length(name) = 8
  BY <1>0 DEF Length
<1>5. name \notin {NoName, Dot, Tty0} => name \in Names /\ Length(name) = NameLength[name]
  BY DEF Length, FileNames
<1>. QED
  BY <1>1, <1>2, <1>3, <1>4, <1>5 DEF MAX_FILENAME_LEN

----------------------------------------------------------------------------
\* The directory.

\* What search_file() looks at are entries there are, and all those within i_size.
LEMMA SeenEntries ==
  ASSUME root_size \in 0 .. MaxEntries - 1
  PROVE  1 .. root_size \subseteq Seen /\ Seen \subseteq 1 .. MaxEntries
<1>. USE Bounds
<1>. DEFINE c == PerSector * ((root_size + PerSector - 1) \div PerSector)
<1>1. c \in Nat /\ root_size <= c
  BY RoundUp
<1>2. Seen = 1 .. Min({root_size + 1, c})
  BY DEF Seen
<1>. HIDE DEF c
<1>3. {root_size + 1, c} \in SUBSET Nat /\ {root_size + 1, c} # {}
  BY <1>1
<1>4. /\ Min({root_size + 1, c}) \in {root_size + 1, c}
      /\ Min({root_size + 1, c}) <= root_size + 1
  BY <1>3, MinOf
<1>5. PICK m \in root_size .. MaxEntries : Seen = 1 .. m
  BY <1>1, <1>2, <1>4
<1>. QED
  BY <1>5

\* A name that is not found is that of no file.
LEMMA Search ==
  ASSUME DirectoryInv, pending = <<>>, NEW path
  PROVE  /\ search_file(path) \in Numbers
         /\ search_file(path) = 0 /\ path \notin {Slash, NoName} =>
              \A i \in 1 .. root_size :
                disk.entries[i].name = path /\ Clean(disk.entries[i])
                => disk.entries[i].nr = 0
<1>. USE Bounds
<1>1. disk \in Disks /\ root_size = disk.size /\ OneName(disk.entries, disk.size)
  BY DEF DirectoryInv, Target
<1>2. 1 .. root_size \subseteq Seen /\ Seen \subseteq 1 .. MaxEntries
  BY <1>1, SeenEntries DEF Disks
<1>3. CASE path = Slash
  BY <1>3 DEF search_file
<1>4. CASE path # Slash
  <2>. DEFINE at == {i \in Seen : disk.entries[i].name = path /\ Clean(disk.entries[i])}
  <2>1. CASE at = {}
    <3>1. search_file(path) = 0
      BY <1>4, <2>1 DEF search_file
    <3>. QED
      BY <1>2, <2>1, <3>1 DEF Numbers
  <2>2. CASE at # {}
    <3>0. at \in SUBSET Nat
      <4>1. Seen \subseteq Nat
        BY <1>2
      <4>. QED
        BY <4>1, Zenon
    <3>1. Min(at) \in at /\ \A i \in at : Min(at) <= i
      <4>. HIDE DEF at
      <4>. QED
        BY <3>0, <2>2, MinOf
    <3>2. search_file(path) = disk.entries[Min(at)].nr
      BY <1>4, <2>2 DEF search_file
    <3>3. search_file(path) \in Numbers
      BY <1>1, <1>2, <3>1, <3>2 DEF Disks, EntryType
    <3>4. ASSUME search_file(path) = 0, NEW i \in 1 .. root_size,
                 disk.entries[i].name = path, Clean(disk.entries[i])
          PROVE  disk.entries[i].nr = 0
      <4>1. i \in at
        BY <1>2, <3>4
      <4>2. /\ Min(at) <= i /\ Min(at) \in Seen
            /\ disk.entries[Min(at)].name = path /\ Clean(disk.entries[Min(at)])
        BY <3>1, <4>1
      <4>3. PICK k \in Seen : k = Min(at)
        BY <4>2
      <4>4. CASE k = i
        BY <3>2, <3>4, <4>3, <4>4
      <4>5. CASE k < i
        <5>1. disk.entries[k].name = disk.entries[i].name
          BY <3>4, <4>2, <4>3
        <5>2. k \in 1 .. MaxEntries /\ root_size \in Nat
          BY <1>1, <1>2 DEF Disks
        <5>3. k \in 1 .. root_size
          BY <4>5, <5>2
        <5>. QED
          BY <1>1, <3>4, <4>2, <4>3, <4>5, <5>1, <5>3 DEF OneName
      <4>. QED
        BY <1>2, <4>2, <4>3, <4>4, <4>5
    <3>. QED
      BY <3>3, <3>4
  <2>. QED
    BY <2>1, <2>2
<1>. QED
  BY <1>3, <1>4

\* new_dir_entry() takes the first entry that holds no file, or one more.
LEMMA Entry ==
  ASSUME DirectoryInv, pending = <<>>
  PROVE  /\ disk \in Disks /\ root_size = disk.size /\ OneName(disk.entries, root_size)
         /\ root_size \in 0 .. MaxEntries - 1
         /\ EntryFor \in 1 .. root_size + 1
         /\ \A i \in 1 .. root_size : i < EntryFor => disk.entries[i].nr # 0
<1>. USE Bounds
<1>1. disk \in Disks /\ root_size = disk.size /\ OneName(disk.entries, root_size)
  BY DEF DirectoryInv, Target
<1>2. root_size \in 0 .. MaxEntries - 1
  BY <1>1 DEF Disks
<1>. DEFINE free == {i \in 1 .. root_size : disk.entries[i].nr = 0}
<1>3. CASE free = {}
  <2>1. EntryFor = root_size + 1
    BY <1>3 DEF EntryFor
  <2>. QED
    BY <1>1, <1>2, <1>3, <2>1
<1>4. CASE free # {}
  <2>1. EntryFor = Min(free)
    BY <1>4 DEF EntryFor
  <2>2. free \in SUBSET Nat
    <3>1. 1 .. root_size \subseteq Nat
      BY <1>2
    <3>. QED
      BY <3>1, Zenon
  <2>3. Min(free) \in free /\ \A i \in free : Min(free) <= i
    <3>. HIDE DEF free
    <3>. QED
      BY <1>4, <2>2, MinOf
  <2>4. PICK k \in 1 .. root_size : k = EntryFor
    BY <2>1, <2>3
  <2>5. \A i \in 1 .. root_size : i < k => disk.entries[i].nr # 0
    BY <1>2, <2>1, <2>3, <2>4
  <2>. QED
    BY <1>1, <1>2, <2>4, <2>5
<1>. QED
  BY <1>3, <1>4

\* A new entry gives no name to a second file, whether its size is written or not.
LEMMA NewEntry ==
  ASSUME DirectoryInv, pending = <<>>, NEW path \in FileNames, search_file(path) = 0,
         EntryFor < MaxEntries, NEW num \in Numbers, NEW new, NEW size,
         new = new_dir_entry(disk.entries, EntryFor, num, path),
         size = Max({root_size, EntryFor})
  PROVE  /\ new \in [1 .. MaxEntries -> EntryType]
         /\ OneName(new, root_size) /\ OneName(new, size) /\ size \in 0 .. MaxEntries - 1
<1>. USE Bounds
<1>1. PICK k \in 1 .. MaxEntries - 1 : k = EntryFor /\ k <= root_size + 1
  <2>1. PICK k \in 1 .. root_size + 1 : k = EntryFor
    BY Entry
  <2>2. root_size \in Nat
    BY Entry
  <2>. QED
    BY <2>1, <2>2
<1>2. /\ disk \in Disks /\ root_size \in 0 .. MaxEntries - 1
      /\ OneName(disk.entries, root_size)
      /\ \A i \in 1 .. root_size : i < k => disk.entries[i].nr # 0
  BY <1>1, Entry
<1>3. size = IF root_size < k THEN k ELSE root_size
  BY <1>1, <1>2, MaxOf
<1>4. DOMAIN disk.entries = 1 .. MaxEntries /\ 0 \in Numbers
  BY <1>2 DEF Disks, Numbers
<1>5. /\ DOMAIN new = 1 .. MaxEntries /\ new = [j \in 1 .. MaxEntries |-> new[j]]
      /\ new[k].nr = num /\ new[k].name = path /\ new[k] \in EntryType
  <2>. DEFINE m == IF disk.entries[k].mark > Length(path) + 1
                   THEN disk.entries[k].mark ELSE Length(path)
  <2>1. /\ DOMAIN new = 1 .. MaxEntries /\ new = [j \in 1 .. MaxEntries |-> new[j]]
        /\ new[k] = [nr |-> num, name |-> path, mark |-> m]
    BY <1>1, <1>4 DEF new_dir_entry
  <2>2. m \in 0 .. MAX_FILENAME_LEN
    <3>1. disk.entries[k].mark \in 0 .. MAX_FILENAME_LEN
      BY <1>1, <1>2 DEF Disks, EntryType
    <3>. QED
      BY <3>1, LengthOf
  <2>. HIDE DEF m
  <2>. QED
    BY <2>1, <2>2 DEF EntryType
<1>6. ASSUME NEW j \in 1 .. MaxEntries, j # k
      PROVE  /\ new[j] \in EntryType
             /\ new[j].name = disk.entries[j].name
             /\ Clean(new[j]) <=> Clean(disk.entries[j])
             /\ new[j].nr \in {disk.entries[j].nr, 0}
  <2>1. disk.entries[j] \in EntryType
    BY <1>2 DEF Disks
  <2>2. new[j] = disk.entries[j] \/ new[j] = [disk.entries[j] EXCEPT !.nr = 0]
    BY <1>1, <1>4, <1>6 DEF new_dir_entry
  <2>3. /\ new[j] \in EntryType /\ new[j].name = disk.entries[j].name
        /\ new[j].mark = disk.entries[j].mark /\ new[j].nr \in {disk.entries[j].nr, 0}
    BY <1>4, <2>1, <2>2 DEF EntryType
  <2>. QED
    BY <2>3 DEF Clean
<1>7. new \in [1 .. MaxEntries -> EntryType]
  BY <1>5, <1>6
<1>8. \A i \in 1 .. root_size :
        disk.entries[i].name = path /\ Clean(disk.entries[i]) => disk.entries[i].nr = 0
  BY Search
<1>9. OneName(new, size)
  <2>1. ASSUME NEW i \in 1 .. size, NEW j \in 1 .. size, i < j, new[i].name = new[j].name,
               Clean(new[i]), Clean(new[j])
        PROVE  new[j].nr = 0
    <3>1. i \in 1 .. MaxEntries /\ j \in 1 .. MaxEntries
      BY <1>2, <1>3
    <3>2. CASE j = k
      <4>1. i \in 1 .. root_size /\ i < k /\ new[i].name = path
        BY <1>1, <1>2, <1>3, <1>5, <2>1, <3>2
      <4>2. disk.entries[i].name = path /\ Clean(disk.entries[i])
        BY <1>1, <1>6, <2>1, <3>1, <4>1
      <4>. QED
        BY <1>2, <1>8, <4>1, <4>2
    <3>3. CASE i = k
      <4>1. j \in 1 .. root_size /\ j # k /\ new[j].name = path
        BY <1>1, <1>2, <1>3, <1>5, <2>1, <3>3
      <4>2. disk.entries[j].nr = 0
        BY <1>6, <1>8, <2>1, <3>1, <4>1
      <4>. QED
        BY <1>6, <3>1, <4>1, <4>2
    <3>4. CASE i # k /\ j # k
      <4>1. i \in 1 .. root_size /\ j \in 1 .. root_size
        BY <1>1, <1>2, <1>3, <3>4
      <4>2. /\ disk.entries[i].name = disk.entries[j].name
            /\ Clean(disk.entries[i]) /\ Clean(disk.entries[j])
        BY <1>6, <2>1, <3>1, <3>4
      <4>3. disk.entries[j].nr = 0
        BY <1>2, <2>1, <4>1, <4>2 DEF OneName
      <4>. QED
        BY <1>6, <3>1, <3>4, <4>3
    <3>. QED
      BY <3>2, <3>3, <3>4
  <2>2. ASSUME NEW i \in 1 .. size, new[i].name = NoName PROVE new[i].nr = 0
    <3>1. i \in 1 .. MaxEntries
      BY <1>2, <1>3
    <3>2. i # k
      BY <1>5, <2>2, NoName \notin FileNames
    <3>3. i \in 1 .. root_size
      BY <1>1, <1>2, <1>3, <3>2
    <3>4. disk.entries[i].nr = 0
      BY <1>2, <1>6, <2>2, <3>1, <3>2, <3>3 DEF OneName
    <3>. QED
      BY <1>6, <3>1, <3>2, <3>4
  <2>. QED
    BY <2>1, <2>2 DEF OneName
<1>10. OneName(new, root_size)
  <2>1. 1 .. root_size \subseteq 1 .. size
    BY <1>1, <1>2, <1>3
  <2>. QED
    BY <1>9, <2>1 DEF OneName
<1>. QED
  BY <1>1, <1>2, <1>3, <1>7, <1>9, <1>10

\* new_dir_entry() leads its entry to the inode, and no other entry to another one.
LEMMA EntryWritten ==
  ASSUME DirectoryInv, pending = <<>>, EntryFor < MaxEntries,
         NEW path, NEW num, NEW new, new = new_dir_entry(disk.entries, EntryFor, num, path)
  PROVE  /\ new[EntryFor].nr = num
         /\ \A j \in 1 .. MaxEntries : j # EntryFor => new[j].nr \in {disk.entries[j].nr, 0}
<1>. USE Bounds
<1>1. PICK k \in 1 .. MaxEntries : k = EntryFor
  <2>1. PICK k \in 1 .. root_size + 1 : k = EntryFor
    BY Entry
  <2>2. root_size \in Nat
    BY Entry
  <2>. QED
    BY <2>1, <2>2
<1>2. /\ disk.entries \in [1 .. MaxEntries -> EntryType]
      /\ DOMAIN disk.entries = 1 .. MaxEntries
  BY Entry DEF Disks
<1>3. new[k].nr = num
  BY <1>1, <1>2 DEF new_dir_entry
<1>4. ASSUME NEW j \in 1 .. MaxEntries, j # k
      PROVE  new[j].nr \in {disk.entries[j].nr, 0}
  <2>1. new[j] = disk.entries[j] \/ new[j] = [disk.entries[j] EXCEPT !.nr = 0]
    BY <1>1, <1>2, <1>4 DEF new_dir_entry
  <2>2. disk.entries[j] \in EntryType
    BY <1>2
  <2>. QED
    BY <2>1, <2>2 DEF EntryType
<1>. QED
  BY <1>1, <1>3, <1>4

\* The directory with the new entry, whether its size is written or not.
LEMMA ListingNew ==
  ASSUME DirectoryInv, pending = <<>>, EntryFor < MaxEntries, Listing(disk),
         NEW path, NEW num,
         NEW new, new = new_dir_entry(disk.entries, EntryFor, num, path),
         NEW d, d.entries = new, d.size \in {root_size, Max({root_size, EntryFor})},
         disk.imap \subseteq d.imap, num = 0 \/ num \in d.imap \ disk.imap
  PROVE  Listing(d)
<1>. USE Bounds
<1>1. PICK k \in 1 .. root_size + 1 : k = EntryFor
  BY Entry
<1>2. disk \in Disks /\ root_size = disk.size /\ root_size \in 0 .. MaxEntries - 1
  BY Entry
<1>3. d.size \in Nat /\ \A i \in 1 .. d.size : i \in 1 .. root_size \/ i = k
  <2>1. d.size = root_size \/ d.size = IF root_size < k THEN k ELSE root_size
    BY <1>1, <1>2, MaxOf
  <2>. QED
    BY <1>1, <1>2, <2>1
<1>4. /\ new[k].nr = num
      /\ \A j \in 1 .. MaxEntries : j # k => new[j].nr \in {disk.entries[j].nr, 0}
  BY <1>1, EntryWritten
<1>5. ASSUME NEW i \in Entries(d), i # k
      PROVE  i \in Entries(disk) /\ new[i].nr = disk.entries[i].nr
  <2>1. i \in 1 .. root_size /\ new[i].nr # 0
    BY <1>3, <1>5 DEF Entries
  <2>2. i \in 1 .. MaxEntries
    BY <1>2, <2>1
  <2>3. new[i].nr = disk.entries[i].nr
    BY <1>4, <1>5, <2>1, <2>2
  <2>. QED
    BY <1>2, <2>1, <2>3 DEF Entries
<1>6. k \in Entries(d) => num \in d.imap \ disk.imap
  BY <1>4 DEF Entries
<1>7. \A i \in Entries(d) : new[i].nr \in d.imap
  <2>1. ASSUME NEW i \in Entries(d), i = k PROVE new[i].nr \in d.imap
    BY <1>4, <1>6, <2>1
  <2>2. ASSUME NEW i \in Entries(d), i # k PROVE new[i].nr \in d.imap
    BY <1>5, <2>2 DEF Listing
  <2>. QED
    BY <2>1, <2>2
<1>8. ASSUME NEW i \in Entries(d), NEW j \in Entries(d), new[i].nr = new[j].nr
      PROVE  i = j
  <2>1. CASE i # k /\ j # k
    BY <1>5, <1>8, <2>1 DEF Listing
  <2>2. CASE i = k /\ j # k
    BY <1>4, <1>5, <1>6, <1>8, <2>2 DEF Listing
  <2>3. CASE i # k /\ j = k
    BY <1>4, <1>5, <1>6, <1>8, <2>3 DEF Listing
  <2>. QED
    BY <2>1, <2>2, <2>3
<1>. QED
  BY <1>7, <1>8 DEF Listing

\* Each entry leads to an inode of its own, so that there are fewer than inodes: the
\* bound on entries keeps nothing from being created.
LEMMA Fits ==
  ASSUME DirectoryInv, pending = <<>>, Listing(disk)
  PROVE  EntryFor < MaxEntries
<1>. USE Bounds
<1>1. PICK k \in 1 .. root_size + 1 : k = EntryFor
  BY Entry
<1>2. /\ disk \in Disks /\ root_size = disk.size /\ root_size \in 0 .. MaxEntries - 1
      /\ \A i \in 1 .. root_size : i < k => disk.entries[i].nr # 0
  BY <1>1, Entry
<1>3. CASE k <= root_size
  BY <1>1, <1>2, <1>3
<1>4. CASE k = root_size + 1
  <2>1. \A i \in 1 .. root_size : i \in Entries(disk) /\ disk.entries[i].nr \in Inodes
    <3>1. ASSUME NEW i \in 1 .. root_size
          PROVE  i \in Entries(disk) /\ disk.entries[i].nr \in Inodes
      <4>1. disk.entries[i].nr # 0 /\ i \in 1 .. MaxEntries
        BY <1>2, <1>4
      <4>2. disk.entries[i] \in EntryType
        BY <1>2, <4>1 DEF Disks
      <4>. QED
        BY <1>2, <4>1, <4>2 DEF Entries, EntryType, Numbers, Inodes
    <3>. QED
      BY <3>1
  <2>. DEFINE numbers == [i \in 1 .. root_size |-> disk.entries[i].nr]
  <2>2. numbers \in Injection(1 .. root_size, Inodes)
    BY <2>1 DEF Listing, Injection, IsInjective
  <2>3. /\ IsFiniteSet(Inodes) /\ Cardinality(Inodes) = NrInodes - 1
        /\ Cardinality(1 .. root_size) = root_size
    <3>1. /\ IsFiniteSet(1 .. NrInodes - 1) /\ Cardinality(1 .. NrInodes - 1) = NrInodes - 1
      BY FS_Interval, FsAssumption DEF FsAssumption, TTY_INODE
    <3>2. PICK m \in Nat : m = root_size
      BY <1>2
    <3>3. Cardinality(1 .. m) = m
      BY FS_Interval
    <3>. QED
      BY <3>1, <3>2, <3>3 DEF Inodes
  <2>4. root_size <= NrInodes - 1
    <3>. HIDE DEF numbers
    <3>1. Cardinality(1 .. root_size) <= Cardinality(Inodes)
      BY <2>2, <2>3, FS_Injection
    <3>. QED
      BY <2>3, <3>1
  <2>. QED
    BY <1>1, <1>2, <1>4, <2>4 DEF MaxEntries
<1>. QED
  BY <1>2, <1>3, <1>4

\* Clearing entries, and counting them, leaves no name to a second file.
LEMMA ClearedEntries ==
  ASSUME DirectoryInv, pending = <<>>, NEW num \in Numbers, NEW new, NEW size,
         new = Cleared(num), size = Shrunk(num)
  PROVE  /\ new \in [1 .. MaxEntries -> EntryType]
         /\ OneName(new, root_size) /\ OneName(new, size) /\ size \in 0 .. root_size
<1>. USE Bounds
<1>1. /\ disk \in Disks /\ root_size \in 0 .. MaxEntries - 1
      /\ OneName(disk.entries, root_size)
  BY Entry
<1>2. /\ disk.entries \in [1 .. MaxEntries -> EntryType]
      /\ 0 \in Numbers
  BY <1>1 DEF Disks, Numbers
<1>3. /\ \A j \in 1 .. MaxEntries : new[j] \in {Free, disk.entries[j]}
      /\ new = [j \in 1 .. MaxEntries |-> new[j]]
  BY <1>2 DEF Cleared
<1>4. Free \in EntryType /\ Free.nr = 0
      /\ Free.name = NoName
  BY <1>2 DEF Free, EntryType, MAX_FILENAME_LEN
<1>5. new \in [1 .. MaxEntries -> EntryType]
  BY <1>2, <1>3, <1>4
<1>6. OneName(new, root_size)
  <2>1. ASSUME NEW j \in 1 .. root_size, new[j].nr # 0
        PROVE  new[j] = disk.entries[j] /\ new[j].name # NoName
    <3>1. j \in 1 .. MaxEntries
      BY <1>1
    <3>. QED
      BY <1>1, <1>3, <1>4, <2>1, <3>1 DEF OneName
  <2>2. ASSUME NEW i \in 1 .. root_size, NEW j \in 1 .. root_size, i < j,
               new[i].name = new[j].name, Clean(new[i]), Clean(new[j])
        PROVE  new[j].nr = 0
    <3>1. SUFFICES ASSUME new[j].nr # 0 PROVE FALSE
      OBVIOUS
    <3>2. new[j] = disk.entries[j] /\ new[i].name # NoName
      BY <2>1, <2>2, <3>1
    <3>3. i \in 1 .. MaxEntries
      BY <1>1
    <3>4. new[i] = disk.entries[i]
      BY <1>3, <1>4, <3>2, <3>3
    <3>. QED
      BY <1>1, <2>2, <3>1, <3>2, <3>4 DEF OneName
  <2>. QED
    BY <2>1, <2>2 DEF OneName
<1>7. size \in 0 .. root_size
  <2>1. CASE LastOf(num) = root_size
    <3>. DEFINE used == {i \in 1 .. root_size : Cleared(num)[i].nr # 0}
    <3>1. used \in SUBSET (1 .. root_size) /\ size = Cardinality(used)
      BY <2>1 DEF Shrunk
    <3>2. IsFiniteSet(1 .. root_size) /\ Cardinality(1 .. root_size) = root_size
      BY <1>1, FS_Interval
    <3>. DEFINE all == 1 .. root_size
    <3>. HIDE DEF used, all
    <3>3. IsFiniteSet(used) /\ Cardinality(used) <= root_size
      <4>1. used \in SUBSET all /\ IsFiniteSet(all) /\ Cardinality(all) = root_size
        BY <3>1, <3>2 DEF all
      <4>. QED
        BY <4>1, FS_Subset
    <3>4. Cardinality(used) \in Nat
      BY <3>3, FS_CardinalityType
    <3>. QED
      BY <1>1, <3>1, <3>3, <3>4
  <2>2. CASE LastOf(num) # root_size
    BY <1>1, <2>2 DEF Shrunk
  <2>. QED
    BY <2>1, <2>2
<1>8. OneName(new, size)
  <2>1. 1 .. size \subseteq 1 .. root_size
    BY <1>1, <1>7
  <2>. QED
    BY <1>6, <2>1 DEF OneName
<1>. QED
  BY <1>5, <1>6, <1>7, <1>8

----------------------------------------------------------------------------
\* The states a request leaves the disk to go through.

\* The directory from which do_unlink() clears an inode's entry, and its new size.
LEMMA ListingCleared ==
  ASSUME DirectoryInv, pending = <<>>, Listing(disk), NEW num \in Inodes,
         NEW new, new = Cleared(num), NEW size, size = Shrunk(num),
         NEW d, d.entries = new, d.size \in {root_size, size}, d.imap = disk.imap \ {num}
  PROVE  Listing(d)
<1>. USE Bounds
<1>1. disk \in Disks /\ root_size = disk.size /\ root_size \in 0 .. MaxEntries - 1
  BY Entry
<1>2. size \in 0 .. root_size
  BY ClearedEntries
<1>3. ASSUME NEW i \in Entries(d)
      PROVE  /\ i \in Entries(disk) /\ new[i] = disk.entries[i]
             /\ disk.entries[i].nr # num
  <2>1. i \in 1 .. root_size /\ new[i].nr # 0 /\ i \in 1 .. MaxEntries
    BY <1>1, <1>2 DEF Entries
  <2>2. DOMAIN disk.entries = 1 .. MaxEntries
    BY <1>1 DEF Disks
  <2>3. /\ new[i] = disk.entries[i]
        /\ ~(i <= Min({root_size, LastOf(num)}) /\ disk.entries[i].nr = num)
    BY <2>1, <2>2 DEF Cleared, Free
  <2>4. i \in Entries(disk)
    BY <1>1, <2>1, <2>3 DEF Entries
  <2>5. ASSUME disk.entries[i].nr = num PROVE FALSE
    <3>. DEFINE at == {j \in 1 .. root_size : disk.entries[j].nr = num}
    <3>1. at \in SUBSET Nat /\ i \in at
      BY <1>1, <2>1, <2>5
    <3>2. Min(at) \in at
      <4>. HIDE DEF at
      <4>. QED
        BY <3>1, MinOf
    <3>3. Min(at) = i
      <4>1. PICK m \in 1 .. root_size : m = Min(at) /\ disk.entries[m].nr = num
        BY <3>2
      <4>2. m \in Entries(disk)
        BY <1>1, <4>1 DEF Entries, Inodes
      <4>. QED
        BY <2>4, <2>5, <4>1, <4>2 DEF Listing
    <3>4. LastOf(num) = PerSector * ((i + PerSector - 1) \div PerSector)
      BY <3>3 DEF LastOf
    <3>5. LastOf(num) \in Nat /\ i <= LastOf(num)
      BY <2>1, <3>4, RoundUp
    <3>6. Min({root_size, LastOf(num)}) \in {root_size, LastOf(num)}
      <4>1. {root_size, LastOf(num)} \in SUBSET Nat /\ {root_size, LastOf(num)} # {}
        BY <1>1, <3>5
      <4>. QED
        BY <4>1, MinOf
    <3>. QED
      BY <2>1, <2>3, <2>5, <3>5, <3>6
  <2>. QED
    BY <2>3, <2>4, <2>5
<1>. QED
  BY <1>3 DEF Listing

\* A request that writes: the directory is kept if it is in every state, the disk as
\* it will be is the last one, and the maps agree if they do in every state or the
\* request is a removal and they do in the last.
LEMMA Writes ==
  ASSUME DirectoryInv, pending = <<>>, NEW states \in Seq(Disks), states # <<>>,
         \A i \in 1 .. Len(states) : OneName(states[i].entries, states[i].size),
         pending' = states, disk' = disk, root_size' = states[Len(states)].size
  PROVE  /\ DirectoryInv' /\ Target' = states[Len(states)]
         /\ MapsInv /\ (\A i \in 1 .. Len(states) : MapsAgree(states[i])) => MapsInv'
         /\ op'.kind = "unlink" /\ MapsAgree(states[Len(states)]) => MapsInv'
<1>1. Target' = states[Len(states)]
  BY DEF Target, Last
<1>2. DirectoryInv'
  BY <1>1 DEF DirectoryInv
<1>3. ASSUME MapsInv, \A i \in 1 .. Len(states) : MapsAgree(states[i])
      PROVE  MapsInv'
  <2>1. MapsAgree(disk)
    BY <1>3 DEF MapsInv, Target
  <2>2. Len(states) \in 1 .. Len(states)
    OBVIOUS
  <2>3. MapsAgree(Target')
    BY <1>1, <1>3, <2>2
  <2>. QED
    BY <1>3, <2>1, <2>3 DEF MapsInv
<1>4. ASSUME op'.kind = "unlink", MapsAgree(states[Len(states)]) PROVE MapsInv'
  BY <1>1, <1>4 DEF MapsInv
<1>. QED
  BY <1>1, <1>2, <1>3, <1>4

\* One that does not.
LEMMA WritesNothing ==
  ASSUME DirectoryInv, UNCHANGED <<disk, pending, op, root_size>>
  PROVE  /\ DirectoryInv' /\ Target' = Target
         /\ MapsInv => MapsInv'
<1>1. Target' = Target
  BY DEF Target
<1>. QED
  BY <1>1 DEF DirectoryInv, MapsInv

\* Between requests the disk is as it will be.
LEMMA Quiet ==
  ASSUME DirectoryInv, pending = <<>>
  PROVE  /\ Target = disk /\ disk \in Disks /\ root_size = disk.size
         /\ OneName(disk.entries, root_size)
         /\ MapsInv => MapsAgree(disk)
BY DEF DirectoryInv, MapsInv, Target

\* creat_file() writes the inode map, the sector map, the inode, the entry and the size;
\* taking a bit of the inode map changes nothing else.
LEMMA CreatedImap ==
  ASSUME disk \in Disks, NEW num \in Numbers, NEW d, d = WithImap(num)
  PROVE  /\ d \in Disks /\ d.imap = disk.imap \union {num} /\ d.smap = disk.smap
         /\ d.inodes = disk.inodes /\ d.entries = disk.entries /\ d.size = disk.size
BY DEF Disks, WithImap

\* Taking an extent in the sector map changes nothing else.
LEMMA CreatedSmap ==
  ASSUME disk \in Disks, NEW num \in Numbers, NEW e \in 1 .. NrExtents,
         NEW d, d = WithSmap(num, e)
  PROVE  /\ d \in Disks /\ d.imap = disk.imap \union {num}
         /\ d.smap = disk.smap \union {e}
         /\ d.inodes = disk.inodes /\ d.entries = disk.entries /\ d.size = disk.size
<1>1. PICK d1 \in Disks :
        /\ d1 = WithImap(num) /\ d1.imap = disk.imap \union {num} /\ d1.smap = disk.smap
        /\ d1.inodes = disk.inodes /\ d1.entries = disk.entries /\ d1.size = disk.size
  BY CreatedImap
<1>2. d = [d1 EXCEPT !.smap = d1.smap \union {e}]
  BY <1>1 DEF WithSmap
<1>3. d1.smap \union {e} \in SUBSET (1 .. NrExtents)
  BY DEF Disks
<1>4. /\ d \in Disks /\ d.smap = d1.smap \union {e} /\ d.imap = d1.imap
      /\ d.inodes = d1.inodes /\ d.entries = d1.entries /\ d.size = d1.size
  BY <1>2, <1>3 DEF Disks
<1>. QED
  BY <1>1, <1>4

\* Taking a free inode, or free sectors, contradicts nothing.
LEMMA MapsTaken ==
  ASSUME NEW d0, NEW d, MapsAgree(d0), d0.imap \subseteq d.imap, d0.smap \subseteq d.smap,
         d.inodes = d0.inodes, (d.entries = d0.entries /\ d.size = d0.size) \/ Listing(d)
  PROVE  MapsAgree(d)
<1>1. Listing(d)
  BY DEF MapsAgree, Listing, Entries
<1>. QED
  BY <1>1 DEF MapsAgree

\* The new file's sectors were free, so they are nobody else's.
LEMMA MapsFilled ==
  ASSUME NEW d0 \in Disks, NEW d, NEW num \in Inodes, NEW e, MapsAgree(d0),
         num \notin d0.imap, e \notin d0.smap, d.imap = d0.imap \union {num}, d.smap = d0.smap \union {e},
         d.inodes[num].i_mode = REGULAR, d.inodes[num].ext = e,
         \A n \in Inodes : n # num => d.inodes[n] = d0.inodes[n],
         d.entries = d0.entries, d.size = d0.size
  PROVE  MapsAgree(d)
<1>1. d.inodes[num].i_mode = REGULAR /\ d.inodes[num].ext = e
  OBVIOUS
<1>2. \A n \in Inodes : n # num => d.inodes[n] = d0.inodes[n]
  OBVIOUS
<1>3. \A n \in Inodes \ d.imap : d.inodes[n].i_mode = "none"
  BY <1>2 DEF MapsAgree
<1>4. \A n \in Inodes : d.inodes[n].i_mode = REGULAR => d.inodes[n].ext \in d.smap
  BY <1>1, <1>2 DEF MapsAgree
<1>5. ASSUME NEW n \in Inodes, NEW m \in Inodes, d.inodes[n].i_mode = REGULAR,
             d.inodes[m].i_mode = REGULAR, d.inodes[n].ext = d.inodes[m].ext
      PROVE  n = m
  <2>1. n # num => d0.inodes[n].ext \in d0.smap
    BY <1>2, <1>5 DEF MapsAgree
  <2>2. m # num => d0.inodes[m].ext \in d0.smap
    BY <1>2, <1>5 DEF MapsAgree
  <2>. QED
    BY <1>1, <1>2, <1>5, <2>1, <2>2 DEF MapsAgree
<1>6. d.inodes[ROOT_INODE].i_mode = DIRECTORY
  <2>1. num # ROOT_INODE
    BY Bounds DEF MapsAgree, DIRECTORY, REGULAR
  <2>. QED
    BY <1>2, <2>1, Bounds DEF MapsAgree
<1>7. \A n \in Inodes : d.inodes[n].i_mode # REGULAR => d.inodes[n].ext = 0
  BY <1>1, <1>2 DEF MapsAgree
<1>8. Listing(d)
  BY DEF MapsAgree, Listing, Entries
<1>. QED
  BY <1>3, <1>4, <1>5, <1>6, <1>7, <1>8 DEF MapsAgree

\* Freeing a file's inode and sectors leaves the others theirs.
LEMMA MapsFreed ==
  ASSUME disk \in Disks, MapsAgree(disk), NEW num \in Inodes, NEW d,
         disk.inodes[num].i_mode = REGULAR, d.imap = disk.imap \ {num},
         d.smap = disk.smap \ {disk.inodes[num].ext},
         d.inodes[num].i_mode = "none", d.inodes[num].ext = 0,
         \A n \in Inodes : n # num => d.inodes[n] = disk.inodes[n], Listing(d)
  PROVE  MapsAgree(d)
<1>1. d.inodes[num].i_mode = "none" /\ "none" # REGULAR
  BY DEF REGULAR
<1>2. \A n \in Inodes : n # num => d.inodes[n] = disk.inodes[n]
  OBVIOUS
<1>3. \A n \in Inodes \ d.imap : d.inodes[n].i_mode = "none"
  BY <1>1, <1>2 DEF MapsAgree
<1>4. \A n \in Inodes : d.inodes[n].i_mode = REGULAR => d.inodes[n].ext \in d.smap
  BY <1>1, <1>2 DEF MapsAgree
<1>5. \A n, m \in Inodes :
        d.inodes[n].i_mode = REGULAR /\ d.inodes[m].i_mode = REGULAR
          /\ d.inodes[n].ext = d.inodes[m].ext => n = m
  BY <1>1, <1>2 DEF MapsAgree
<1>6. d.inodes[ROOT_INODE].i_mode = DIRECTORY
  <2>1. num # ROOT_INODE
    BY Bounds DEF MapsAgree, DIRECTORY, REGULAR
  <2>. QED
    BY <1>2, <2>1, Bounds DEF MapsAgree
<1>7. \A n \in Inodes : d.inodes[n].i_mode # REGULAR => d.inodes[n].ext = 0
  BY <1>1, <1>2 DEF MapsAgree
<1>. QED
  BY <1>3, <1>4, <1>5, <1>6, <1>7 DEF MapsAgree

----------------------------------------------------------------------------
\* The tables.

\* Descriptors are finitely many.
LEMMA RefsFinite ==
  ASSUME NEW table, NEW s
  PROVE  /\ IsFiniteSet(Refs(table, s)) /\ Cardinality(Refs(table, s)) \in Nat
         /\ \A d \in Descs : table[d] = s => Cardinality(Refs(table, s)) > 0
<1>. DEFINE all == 1 .. NR_FILE_DESC
            these == Refs(table, s)
<1>1. IsFiniteSet(all)
  BY Bounds, FS_Interval
<1>2. these \in SUBSET all
  BY Zenon DEF Refs, Descs
<1>3. IsFiniteSet(these) /\ Cardinality(these) \in Nat
  <2>. HIDE DEF all, these
  <2>. QED
    BY <1>1, <1>2, FS_Subset, FS_CardinalityType
<1>4. these # {} => Cardinality(these) # 0
  <2>. HIDE DEF these
  <2>. QED
    BY <1>3, FS_EmptySet
<1>5. ASSUME NEW d \in Descs, table[d] = s PROVE these # {}
  BY <1>5, Zenon DEF Refs
<1>. QED
  BY <1>3, <1>4, <1>5

\* A free descriptor that is given a slot.
LEMMA DescTaken ==
  ASSUME NEW old \in [Descs -> Slots \union {0}], NEW d \in Descs, NEW s \in Slots,
         NEW new \in [Descs -> Slots \union {0}], old[d] = 0, new[d] = s,
         \A c \in Descs : c # d => new[c] = old[c]
  PROVE  /\ Cardinality(Refs(new, s)) = Cardinality(Refs(old, s)) + 1
         /\ \A t \in Slots : t # s => Refs(new, t) = Refs(old, t)
<1>1. 0 \notin Slots
  BY DEF Slots
<1>2. d \notin Refs(old, s) /\ Refs(new, s) = Refs(old, s) \union {d}
  BY <1>1 DEF Refs
<1>3. Cardinality(Refs(old, s) \union {d}) = Cardinality(Refs(old, s)) + 1
  BY <1>2, RefsFinite, FS_AddElement
<1>4. \A t \in Slots : t # s => Refs(new, t) = Refs(old, t)
  BY <1>1 DEF Refs
<1>. QED
  BY <1>2, <1>3, <1>4

\* A descriptor that loses its slot.
LEMMA DescDropped ==
  ASSUME NEW old \in [Descs -> Slots \union {0}], NEW d \in Descs,
         NEW new \in [Descs -> Slots \union {0}], new[d] = 0,
         \A c \in Descs : c # d => new[c] = old[c]
  PROVE  /\ old[d] # 0 => Cardinality(Refs(new, old[d])) = Cardinality(Refs(old, old[d])) - 1
         /\ \A t \in Slots : t # old[d] => Refs(new, t) = Refs(old, t)
<1>1. 0 \notin Slots
  BY DEF Slots
<1>2. ASSUME old[d] # 0
      PROVE  Cardinality(Refs(new, old[d])) = Cardinality(Refs(old, old[d])) - 1
  <2>1. d \in Refs(old, old[d]) /\ Refs(new, old[d]) = Refs(old, old[d]) \ {d}
    BY <1>1, <1>2 DEF Refs
  <2>2. IsFiniteSet(Refs(old, old[d]))
    BY RefsFinite
  <2>. QED
    BY <2>1, <2>2, FS_RemoveElement
<1>3. \A t \in Slots : t # old[d] => Refs(new, t) = Refs(old, t)
  BY <1>1 DEF Refs
<1>. QED
  BY <1>2, <1>3

\* A slot that a descriptor leads to is in use.
LEMMA Backed ==
  ASSUME TablesType, DescriptorsBacked, NEW d \in Descs, f_desc_table[d] # 0
  PROVE  f_desc_table[d] \in Slots /\ inode_table[f_desc_table[d]].i_cnt > 0
<1>1. PICK s \in Slots : s = f_desc_table[d]
  BY DEF TablesType
<1>2. Cardinality(Refs(f_desc_table, s)) > 0 /\ Cardinality(Refs(f_desc_table, s)) \in Nat
  BY <1>1, RefsFinite
<1>3. Cardinality(Refs(f_desc_table, s)) <= inode_table[s].i_cnt
  BY DEF DescriptorsBacked, Refs
<1>. QED
  BY <1>1, <1>2, <1>3 DEF TablesType

\* get_inode() finds the slot that caches the inode, or one not in use.
LEMMA SlotIs ==
  ASSUME TablesType, CachedOnce, NEW num \in Inodes, ~InodeTableFull(num)
  PROVE  /\ SlotFor(num) \in Slots
         /\ Cached(num) # {} => /\ inode_table[SlotFor(num)].i_cnt > 0
                                /\ inode_table[SlotFor(num)].i_num = num
         /\ Cached(num) = {} => inode_table[SlotFor(num)].i_cnt = 0
         /\ \A t \in Slots :
              inode_table[t].i_cnt > 0 /\ inode_table[t].i_num = num => t = SlotFor(num)
<1>. DEFINE at == IF Cached(num) # {} THEN Cached(num) ELSE FreeSlots
<1>1. at \in SUBSET Slots /\ at # {} /\ Slots \subseteq Nat
  BY DEF InodeTableFull, Cached, FreeSlots, Slots
<1>2. SlotFor(num) = Min(at)
  BY DEF SlotFor
<1>3. SlotFor(num) \in at
  <2>. HIDE DEF at
  <2>. QED
    BY <1>1, <1>2, MinOf
<1>4. PICK s \in Slots : s = SlotFor(num) /\ s \in at
  BY <1>1, <1>3
<1>5. Cached(num) # {} => inode_table[s].i_cnt > 0 /\ inode_table[s].i_num = num
  BY <1>4 DEF Cached
<1>6. Cached(num) = {} => inode_table[s].i_cnt = 0
  BY <1>4 DEF FreeSlots
<1>7. ASSUME NEW t \in Slots, inode_table[t].i_cnt > 0, inode_table[t].i_num = num
      PROVE  t = s
  <2>1. Cached(num) # {}
    BY <1>7 DEF Cached
  <2>. QED
    BY <1>5, <1>7, <2>1 DEF CachedOnce
<1>. QED
  BY <1>4, <1>5, <1>6, <1>7

\* get_inode() returns the slot with one more counted, as the inode is on the disk.
LEMMA GotSlot ==
  ASSUME DirectoryInv, TablesType, CachedOnce, pending = <<>>,
         NEW num \in Inodes, ~InodeTableFull(num), NEW s, s = SlotFor(num)
  PROVE  /\ s \in Slots
         /\ get_inode(num) \in [Slots -> [i_cnt : Nat, i_num : Numbers, i_mode : Modes]]
         /\ get_inode(num)[s].i_cnt = inode_table[s].i_cnt + 1
         /\ get_inode(num)[s].i_num = num
         /\ inode_table[s].i_cnt > 0 => get_inode(num)[s].i_mode = inode_table[s].i_mode
         /\ get_inode(num)[s].i_mode = disk.inodes[num].i_mode
         /\ \A t \in Slots : t # s => get_inode(num)[t] = inode_table[t]
         /\ \A t \in Slots :
              inode_table[t].i_cnt > 0 /\ inode_table[t].i_num = num => t = s
<1>1. /\ s \in Slots
      /\ Cached(num) # {} => inode_table[s].i_cnt > 0 /\ inode_table[s].i_num = num
      /\ Cached(num) = {} => inode_table[s].i_cnt = 0
      /\ \A t \in Slots : inode_table[t].i_cnt > 0 /\ inode_table[t].i_num = num => t = s
  BY SlotIs
<1>2. Target = disk /\ disk \in Disks
  BY Quiet
<1>3. num \in Numbers /\ disk.inodes[num].i_mode \in Modes
  BY <1>2, Bounds DEF Disks
<1>4. inode_table \in [Slots -> [i_cnt : Nat, i_num : Numbers, i_mode : Modes]]
  BY DEF TablesType
<1>. DEFINE slot == IF Cached(num) # {}
                    THEN [inode_table[s] EXCEPT !.i_cnt = inode_table[s].i_cnt + 1]
                    ELSE [i_cnt |-> 1, i_num |-> num, i_mode |-> disk.inodes[num].i_mode]
<1>5. get_inode(num) = [inode_table EXCEPT ![s] = slot]
  BY <1>1, <1>4 DEF get_inode
<1>6. /\ slot \in [i_cnt : Nat, i_num : Numbers, i_mode : Modes]
      /\ slot.i_cnt = inode_table[s].i_cnt + 1 /\ slot.i_num = num
      /\ inode_table[s].i_cnt > 0 => slot.i_mode = inode_table[s].i_mode
      /\ slot.i_mode = disk.inodes[num].i_mode
  <2>1. inode_table[s] \in [i_cnt : Nat, i_num : Numbers, i_mode : Modes]
    BY <1>1, <1>4
  <2>2. CASE Cached(num) # {}
    <3>1. inode_table[s].i_mode = disk.inodes[num].i_mode
      BY <1>1, <1>2, <2>2 DEF CachedOnce
    <3>. QED
      BY <1>1, <2>1, <2>2, <3>1
  <2>3. CASE Cached(num) = {}
    BY <1>1, <1>3, <2>1, <2>3
  <2>. QED
    BY <2>2, <2>3
<1>. HIDE DEF slot
<1>. QED
  BY <1>1, <1>4, <1>5, <1>6

\* get_inode() counts one more and leaves the table a faithful cache.
LEMMA GotInode ==
  ASSUME DirectoryInv, TablesType, CachedOnce, pending = <<>>, Target' = Target,
         NEW num \in Inodes, ~InodeTableFull(num), inode_table' = get_inode(num),
         NEW s, s = SlotFor(num)
  PROVE  /\ s \in Slots
         /\ inode_table' \in [Slots -> [i_cnt : Nat, i_num : Numbers, i_mode : Modes]]
         /\ CachedOnce'
         /\ inode_table'[s].i_cnt = inode_table[s].i_cnt + 1
         /\ inode_table[s].i_cnt > 0 => inode_table'[s].i_mode = inode_table[s].i_mode
         /\ inode_table'[s].i_mode = disk.inodes[num].i_mode
         /\ \A t \in Slots : t # s => inode_table'[t] = inode_table[t]
<1>1. /\ s \in Slots
      /\ inode_table' \in [Slots -> [i_cnt : Nat, i_num : Numbers, i_mode : Modes]]
      /\ inode_table'[s].i_cnt = inode_table[s].i_cnt + 1
      /\ inode_table'[s].i_num = num
      /\ inode_table[s].i_cnt > 0 => inode_table'[s].i_mode = inode_table[s].i_mode
      /\ inode_table'[s].i_mode = disk.inodes[num].i_mode
      /\ \A t \in Slots : t # s => inode_table'[t] = inode_table[t]
      /\ \A t \in Slots : inode_table[t].i_cnt > 0 /\ inode_table[t].i_num = num => t = s
  BY GotSlot
<1>2. Target' = disk /\ Target = disk
  BY Quiet
<1>3. CachedOnce'
  <2>1. ASSUME NEW t \in Slots, inode_table'[t].i_cnt > 0
        PROVE  /\ inode_table'[t].i_num \in Inodes
               /\ inode_table'[t].i_mode = Target'.inodes[inode_table'[t].i_num].i_mode
               /\ inode_table'[t].i_num = num => t = s
    <3>1. CASE t = s
      BY <1>1, <1>2, <3>1
    <3>2. CASE t # s
      BY <1>1, <2>1, <3>2 DEF CachedOnce
    <3>. QED
      BY <3>1, <3>2
  <2>2. ASSUME NEW t \in Slots, NEW u \in Slots, inode_table'[t].i_cnt > 0,
               inode_table'[u].i_cnt > 0, inode_table'[t].i_num = inode_table'[u].i_num
        PROVE  t = u
    <3>1. CASE t = s \/ u = s
      BY <1>1, <2>1, <2>2, <3>1
    <3>2. CASE t # s /\ u # s
      BY <1>1, <2>2, <3>2 DEF CachedOnce
    <3>. QED
      BY <3>1, <3>2
  <2>. QED
    BY <2>1, <2>2 DEF CachedOnce
<1>. QED
  BY <1>1, <1>3

\* do_open() takes the first free descriptor and the first free fd.
LEMMA Installed ==
  ASSUME TablesType, NEW p \in Users, ~TablesFull(p), NEW s \in Slots, Install(p, s)
  PROVE  /\ f_desc_table' \in [Descs -> Slots \union {0}]
         /\ filp' \in [Users -> [Fds -> Descs \union {0}]]
         /\ Cardinality(Refs(f_desc_table', s)) = Cardinality(Refs(f_desc_table, s)) + 1
         /\ \A t \in Slots : t # s => Refs(f_desc_table', t) = Refs(f_desc_table, t)
         /\ \A d \in Descs : f_desc_table'[d] \in {s, f_desc_table[d]}
<1>1. FreeDescs # {} /\ FreeFds(p) # {}
  BY DEF TablesFull
<1>2. FreeDescs \in SUBSET Nat /\ FreeFds(p) \in SUBSET Nat
  <2>1. Fds \subseteq Nat
    BY FsAssumption, FS_CardinalityType DEF FsAssumption
  <2>2. Descs \subseteq Nat
    BY DEF Descs
  <2>. QED
    BY <2>1, <2>2, Zenon DEF FreeDescs, FreeFds
<1>3. Min(FreeDescs) \in FreeDescs /\ Min(FreeFds(p)) \in FreeFds(p)
  <2>. HIDE DEF FreeDescs, FreeFds
  <2>. QED
    BY <1>1, <1>2, MinOf
<1>4. PICK d \in Descs, fd \in Fds :
        d = Min(FreeDescs) /\ fd = Min(FreeFds(p)) /\ f_desc_table[d] = 0
  BY <1>3 DEF FreeDescs, FreeFds
<1>5. /\ f_desc_table' = [f_desc_table EXCEPT ![d] = s]
      /\ filp' = [filp EXCEPT ![p] = [filp[p] EXCEPT ![fd] = d]]
  BY <1>4 DEF Install
<1>6. f_desc_table \in [Descs -> Slots \union {0}] /\ filp \in [Users -> [Fds -> Descs \union {0}]]
  BY DEF TablesType
<1>7. filp' \in [Users -> [Fds -> Descs \union {0}]]
  BY <1>5, <1>6
<1>8. PICK old \in [Descs -> Slots \union {0}] : old = f_desc_table /\ old[d] = 0
  BY <1>4, <1>6
<1>9. PICK new \in [Descs -> Slots \union {0}] : new = [old EXCEPT ![d] = s]
  OBVIOUS
<1>10. new = f_desc_table'
  BY <1>5, <1>8, <1>9
<1>11. new[d] = s /\ \A c \in Descs : c # d => new[c] = old[c]
  BY <1>9
<1>12. /\ Cardinality(Refs(new, s)) = Cardinality(Refs(old, s)) + 1
      /\ \A t \in Slots : t # s => Refs(new, t) = Refs(old, t)
  BY <1>8, <1>11, DescTaken
<1>13. \A t \in Descs : new[t] \in {s, old[t]}
  BY <1>8, <1>9
<1>. QED
  BY <1>7, <1>8, <1>10, <1>12, <1>13

----------------------------------------------------------------------------
\* The requests on the disk: each leaves the directory as it should be, and, if the
\* maps agreed, the maps.

\* creat_file() is called for a name.
LEMMA PathIsName ==
  ASSUME NEW path \in Paths, search_file(path) = 0, ~strip_path_fails(path)
  PROVE  path \in FileNames /\ path # Slash
<1>1. path # Slash
  BY DEF search_file, ROOT_INODE
<1>. QED
  BY <1>1 DEF Paths, FileNames, strip_path_fails

\* alloc_imap_bit() finds a free inode or none.
LEMMA Allocated ==
  ASSUME disk \in Disks
  PROVE  /\ alloc_imap_bit \in Numbers
         /\ alloc_imap_bit # 0 => alloc_imap_bit \in Inodes \ disk.imap
<1>. USE Bounds
<1>. DEFINE free == (0 .. NrInodes - 1) \ disk.imap
<1>1. CASE free = {}
  BY <1>1 DEF alloc_imap_bit, Numbers
<1>2. CASE free # {}
  <2>1. free \in SUBSET Nat
    OBVIOUS
  <2>2. Min(free) \in free
    <3>. HIDE DEF free
    <3>. QED
      BY <1>2, <2>1, MinOf
  <2>3. alloc_imap_bit = Min(free)
    BY <1>2 DEF alloc_imap_bit
  <2>. QED
    BY <2>2, <2>3 DEF Numbers, Inodes
<1>. QED
  BY <1>1, <1>2

\* alloc_smap_bit() finds the first free extent.
LEMMA ExtentIs ==
  ASSUME FreeExtents # {}
  PROVE  Min(FreeExtents) \in 1 .. NrExtents /\ Min(FreeExtents) \notin disk.smap
<1>1. FreeExtents \in SUBSET Nat
  BY Bounds DEF FreeExtents
<1>2. Min(FreeExtents) \in FreeExtents
  <2>. HIDE DEF FreeExtents
  <2>. QED
    BY <1>1, MinOf
<1>. QED
  BY <1>2 DEF FreeExtents

\* No room in the sector map: an inode is marked and the system stops.
LEMMA CreateNoRoomWrites ==
  ASSUME DirectoryInv, NEW p \in Users, NEW path \in Paths, CreateNoRoom(p, path)
  PROVE  /\ DirectoryInv' /\ Target'.inodes = Target.inodes
         /\ MapsInv => MapsInv'
<1>1. pending = <<>> /\ alloc_imap_bit \in Numbers
  BY Quiet, Allocated DEF CreateNoRoom, Creating, Request, Ready
<1>2. PICK d \in Disks :
        /\ d = WithImap(alloc_imap_bit) /\ d.imap = disk.imap \union {alloc_imap_bit}
        /\ d.smap = disk.smap /\ d.inodes = disk.inodes /\ d.entries = disk.entries
        /\ d.size = disk.size
  BY <1>1, Quiet, CreatedImap
<1>3. pending' = <<d>> /\ disk' = disk /\ root_size' = d.size /\ op'.kind = "create"
  BY <1>1, <1>2, Quiet DEF CreateNoRoom, ToDisk, Nothing
<1>4. PICK states : states = <<d>>
  OBVIOUS
<1>5. /\ states \in Seq(Disks) /\ states # <<>> /\ Len(states) = 1 /\ states[1] = d
      /\ \A i \in 1 .. Len(states) : OneName(states[i].entries, states[i].size)
  BY <1>1, <1>2, <1>4, Quiet
<1>6. MapsInv => \A i \in 1 .. Len(states) : MapsAgree(states[i])
  BY <1>1, <1>2, <1>5, Quiet, MapsTaken
<1>7. /\ DirectoryInv' /\ Target' = d
      /\ MapsInv => MapsInv'
  BY <1>1, <1>3, <1>4, <1>5, <1>6, Writes
<1>. QED
  BY <1>1, <1>2, <1>7, Quiet

\* The inode table is full: an inode and an extent are marked and the system stops.
LEMMA CreateTableFullWrites ==
  ASSUME DirectoryInv, NEW p \in Users, NEW path \in Paths, CreateTableFull(p, path)
  PROVE  /\ DirectoryInv' /\ Target'.inodes = Target.inodes
         /\ MapsInv => MapsInv'
<1>1. pending = <<>> /\ alloc_imap_bit \in Numbers /\ FreeExtents # {}
  BY Quiet, Allocated DEF CreateTableFull, Creating, Request, Ready
<1>2. PICK e \in 1 .. NrExtents : e = Min(FreeExtents)
  BY <1>1, ExtentIs
<1>3. PICK d1 \in Disks :
        /\ d1 = WithImap(alloc_imap_bit) /\ d1.imap = disk.imap \union {alloc_imap_bit}
        /\ d1.smap = disk.smap /\ d1.inodes = disk.inodes /\ d1.entries = disk.entries
        /\ d1.size = disk.size
  BY <1>1, Quiet, CreatedImap
<1>4. PICK d2 \in Disks :
        /\ d2 = WithSmap(alloc_imap_bit, e) /\ d2.imap = disk.imap \union {alloc_imap_bit}
        /\ d2.smap = disk.smap \union {e} /\ d2.inodes = disk.inodes
        /\ d2.entries = disk.entries /\ d2.size = disk.size
  BY <1>1, Quiet, CreatedSmap
<1>5. pending' = <<d1, d2>> /\ disk' = disk /\ root_size' = d2.size
  BY <1>1, <1>2, <1>3, <1>4, Quiet DEF CreateTableFull, ToDisk, Nothing
<1>6. PICK states : states = <<d1, d2>>
  OBVIOUS
<1>7. /\ states \in Seq(Disks) /\ states # <<>> /\ Len(states) = 2
      /\ states[1] = d1 /\ states[2] = d2
      /\ \A i \in 1 .. Len(states) : i = 1 \/ i = 2
  BY <1>6
<1>8. \A i \in 1 .. Len(states) : OneName(states[i].entries, states[i].size)
  BY <1>1, <1>3, <1>4, <1>7, Quiet
<1>9. MapsInv => \A i \in 1 .. Len(states) : MapsAgree(states[i])
  BY <1>1, <1>3, <1>4, <1>7, Quiet, MapsTaken
<1>10. /\ DirectoryInv' /\ Target' = d2
       /\ MapsInv => MapsInv'
  BY <1>1, <1>5, <1>6, <1>7, <1>8, <1>9, Writes
<1>. QED
  BY <1>1, <1>4, <1>10, Quiet

\* The inode map is full: an extent and an entry without an inode are written.
LEMMA CreateNoInodeWrites ==
  ASSUME DirectoryInv, NEW p \in Users, NEW path \in Paths, CreateNoInode(p, path)
  PROVE  /\ DirectoryInv' /\ Target'.inodes = Target.inodes
         /\ MapsInv => MapsInv'
<1>. DEFINE size == Max({root_size, EntryFor})
            new == new_dir_entry(disk.entries, EntryFor, 0, path)
<1>1. /\ pending = <<>> /\ FreeExtents # {} /\ path \in FileNames
      /\ search_file(path) = 0 /\ EntryFor < MaxEntries /\ 0 \in Numbers
  BY PathIsName, Bounds DEF CreateNoInode, Creating, Request, Ready, Numbers
<1>2. PICK e \in 1 .. NrExtents : e = Min(FreeExtents)
  BY <1>1, ExtentIs
<1>3. /\ new \in [1 .. MaxEntries -> EntryType]
      /\ OneName(new, root_size) /\ OneName(new, size) /\ size \in 0 .. MaxEntries - 1
  <2>. HIDE DEF size, new
  <2>1. new = new_dir_entry(disk.entries, EntryFor, 0, path)
    BY DEF new
  <2>2. size = Max({root_size, EntryFor})
    BY DEF size
  <2>. QED
    BY <1>1, <2>1, <2>2, NewEntry
<1>4. PICK d2, d3, d4 :
        /\ d2 = [disk EXCEPT !.smap = disk.smap \union {e}]
        /\ d3 = [d2 EXCEPT !.entries = new] /\ d4 = [d3 EXCEPT !.size = size]
  OBVIOUS
<1>5. /\ pending' = <<d2, d3, d4>> /\ root_size' = size /\ disk' = disk
  <2>1. pending' = <<d2, [d2 EXCEPT !.entries = new_dir_entry(d2.entries, EntryFor, 0, path)],
                     [[d2 EXCEPT !.entries = new_dir_entry(d2.entries, EntryFor, 0, path)]
                        EXCEPT !.size = root_size']>>
    BY <1>2, <1>4 DEF CreateNoInode, ToDisk
  <2>2. d2.entries = disk.entries
    BY <1>1, <1>4, Quiet DEF Disks
  <2>. QED
    BY <1>4, <2>1, <2>2 DEF CreateNoInode, ToDisk
<1>. HIDE DEF size, new
<1>6. /\ d2 \in Disks /\ d2.imap = disk.imap /\ d2.smap = disk.smap \union {e}
      /\ d2.inodes = disk.inodes /\ d2.entries = disk.entries /\ d2.size = disk.size
  <2>1. disk.smap \union {e} \in SUBSET (1 .. NrExtents)
    BY <1>1, Quiet DEF Disks
  <2>. QED
    BY <1>1, <1>4, <2>1, Quiet DEF Disks
<1>7. /\ d3 \in Disks /\ d3.imap = d2.imap /\ d3.smap = d2.smap
      /\ d3.inodes = d2.inodes /\ d3.entries = new /\ d3.size = d2.size
      /\ d4 \in Disks /\ d4.imap = d2.imap /\ d4.smap = d2.smap
      /\ d4.inodes = d2.inodes /\ d4.entries = new /\ d4.size = size
  <2>1. /\ d3 \in Disks /\ d3.imap = d2.imap /\ d3.smap = d2.smap
        /\ d3.inodes = d2.inodes /\ d3.entries = new /\ d3.size = d2.size
    BY <1>3, <1>4, <1>6 DEF Disks
  <2>. QED
    BY <1>3, <1>4, <2>1 DEF Disks
<1>8. PICK states : states = <<d2, d3, d4>>
  OBVIOUS
<1>9. /\ states \in Seq(Disks) /\ states # <<>> /\ Len(states) = 3
      /\ states[1] = d2 /\ states[2] = d3 /\ states[3] = d4
      /\ \A i \in 1 .. Len(states) : i = 1 \/ i = 2 \/ i = 3
  BY <1>6, <1>7, <1>8
<1>10. \A i \in 1 .. Len(states) : OneName(states[i].entries, states[i].size)
  BY <1>1, <1>3, <1>6, <1>7, <1>9, Quiet
<1>11. MapsInv => \A i \in 1 .. Len(states) : MapsAgree(states[i])
  <2>1. SUFFICES ASSUME MapsInv PROVE MapsAgree(d2) /\ MapsAgree(d3) /\ MapsAgree(d4)
    BY <1>9
  <2>2. MapsAgree(disk)
    BY <1>1, <2>1, Quiet
  <2>3. Listing(d3) /\ Listing(d4)
    <3>1. Listing(disk) /\ root_size = disk.size
      BY <1>1, <2>2, Quiet DEF MapsAgree
    <3>. QED
      BY <1>1, <1>6, <1>7, <3>1, ListingNew DEF new, size
  <2>. QED
    BY <1>6, <1>7, <2>2, <2>3, MapsTaken
<1>12. /\ DirectoryInv' /\ Target' = d4
       /\ MapsInv => MapsInv'
  BY <1>1, <1>5, <1>7, <1>8, <1>9, <1>10, <1>11, Writes
<1>. QED
  BY <1>1, <1>6, <1>7, <1>12, Quiet

\* A file is created: the inode map, the sector map, the inode, the entry, the size.
LEMMA CreateWrites ==
  ASSUME DirectoryInv, NEW p \in Users, NEW path \in Paths, Create(p, path)
  PROVE  /\ DirectoryInv'
         /\ MapsInv => MapsInv'
         /\ alloc_imap_bit \in Inodes \ disk.imap
         /\ Target'.inodes[alloc_imap_bit].i_mode = REGULAR
         /\ \A n \in Inodes : n # alloc_imap_bit => Target'.inodes[n] = disk.inodes[n]
<1>1. /\ pending = <<>> /\ FreeExtents # {} /\ path \in FileNames
      /\ search_file(path) = 0 /\ EntryFor < MaxEntries /\ alloc_imap_bit # 0
  BY PathIsName DEF Create, Creating, Request, Ready
<1>2. PICK e \in 1 .. NrExtents : e = Min(FreeExtents) /\ e \notin disk.smap
  BY <1>1, ExtentIs
<1>3. PICK num \in Inodes : num = alloc_imap_bit /\ num \notin disk.imap
  BY <1>1, Quiet, Allocated
<1>. DEFINE size == Max({root_size, EntryFor})
            new == new_dir_entry(disk.entries, EntryFor, num, path)
<1>4. /\ new \in [1 .. MaxEntries -> EntryType]
      /\ OneName(new, root_size) /\ OneName(new, size) /\ size \in 0 .. MaxEntries - 1
  <2>. HIDE DEF size, new
  <2>1. new = new_dir_entry(disk.entries, EntryFor, num, path)
    BY DEF new
  <2>2. size = Max({root_size, EntryFor})
    BY DEF size
  <2>. QED
    BY <1>1, <2>1, <2>2, NewEntry, Bounds
<1>5. PICK d1 \in Disks :
        /\ d1 = WithImap(num) /\ d1.imap = disk.imap \union {num} /\ d1.smap = disk.smap
        /\ d1.inodes = disk.inodes /\ d1.entries = disk.entries /\ d1.size = disk.size
  BY <1>1, Quiet, CreatedImap, Bounds
<1>6. PICK d2 \in Disks :
        /\ d2 = WithSmap(num, e) /\ d2.imap = disk.imap \union {num}
        /\ d2.smap = disk.smap \union {e} /\ d2.inodes = disk.inodes
        /\ d2.entries = disk.entries /\ d2.size = disk.size
  BY <1>1, Quiet, CreatedSmap, Bounds
<1>7. PICK d3, d4, d5 :
        /\ d3 = [d2 EXCEPT !.inodes[num] = [i_mode |-> REGULAR, ext |-> e]]
        /\ d4 = [d3 EXCEPT !.entries = new] /\ d5 = [d4 EXCEPT !.size = size]
  OBVIOUS
<1>8. /\ d3 \in Disks /\ d3.imap = d2.imap /\ d3.smap = d2.smap
      /\ d3.entries = d2.entries /\ d3.size = d2.size
      /\ d3.inodes[num].i_mode = REGULAR /\ d3.inodes[num].ext = e
      /\ \A n \in Inodes : n # num => d3.inodes[n] = disk.inodes[n]
  <2>. DEFINE inodes == [d2.inodes EXCEPT ![num] = [i_mode |-> REGULAR, ext |-> e]]
  <2>1. /\ d2.inodes \in [Inodes -> [i_mode : Modes, ext : 0 .. NrExtents]]
        /\ [i_mode |-> REGULAR, ext |-> e] \in [i_mode : Modes, ext : 0 .. NrExtents]
    BY Bounds DEF Disks, Modes
  <2>2. /\ inodes \in [Inodes -> [i_mode : Modes, ext : 0 .. NrExtents]]
        /\ inodes[num].i_mode = REGULAR /\ inodes[num].ext = e
        /\ \A n \in Inodes : n # num => inodes[n] = d2.inodes[n]
    BY <2>1
  <2>3. d3 = [d2 EXCEPT !.inodes = inodes]
    BY <1>7
  <2>. HIDE DEF inodes
  <2>4. /\ d3 \in Disks /\ d3.imap = d2.imap /\ d3.smap = d2.smap
        /\ d3.entries = d2.entries /\ d3.size = d2.size /\ d3.inodes = inodes
    BY <2>2, <2>3 DEF Disks
  <2>. QED
    BY <1>6, <2>2, <2>4
<1>9. /\ pending' = <<d1, d2, d3, d4, d5>> /\ root_size' = size /\ disk' = disk
  <2>1. /\ pending' = <<d1, d2, d3, [d3 EXCEPT !.entries = new_dir_entry(d3.entries, EntryFor, num, path)],
                    [[d3 EXCEPT !.entries = new_dir_entry(d3.entries, EntryFor, num, path)]
                        EXCEPT !.size = root_size']>>
        /\ root_size' = size /\ disk' = disk
    BY <1>2, <1>3, <1>5, <1>6, <1>7 DEF Create, ToDisk
  <2>2. d3.entries = disk.entries
    BY <1>6, <1>8
  <2>. QED
    BY <1>7, <2>1, <2>2
<1>. HIDE DEF size, new
<1>10. /\ d4 \in Disks /\ d4.imap = d3.imap /\ d4.smap = d3.smap
       /\ d4.inodes = d3.inodes /\ d4.entries = new /\ d4.size = d3.size
  BY <1>4, <1>7, <1>8 DEF Disks
<1>11. /\ d5 \in Disks /\ d5.imap = d3.imap /\ d5.smap = d3.smap
       /\ d5.inodes = d3.inodes /\ d5.entries = new /\ d5.size = size
  BY <1>4, <1>7, <1>10 DEF Disks
<1>12. PICK states : states = <<d1, d2, d3, d4, d5>>
  OBVIOUS
<1>13. /\ states \in Seq(Disks) /\ states # <<>> /\ Len(states) = 5
       /\ states[1] = d1 /\ states[2] = d2 /\ states[3] = d3 /\ states[4] = d4
       /\ states[5] = d5
       /\ \A i \in 1 .. Len(states) : states[i] \in {d1, d2, d3, d4, d5}
  BY <1>8, <1>10, <1>11, <1>12
<1>14. \A i \in 1 .. Len(states) : OneName(states[i].entries, states[i].size)
  <2>1. \A d \in {d1, d2, d3, d4, d5} : OneName(d.entries, d.size)
    BY <1>1, <1>4, <1>5, <1>6, <1>8, <1>10, <1>11, Quiet
  <2>. QED
    BY <1>13, <2>1
<1>15. MapsInv => \A i \in 1 .. Len(states) : MapsAgree(states[i])
  <2>1. SUFFICES ASSUME MapsInv PROVE \A d \in {d1, d2, d3, d4, d5} : MapsAgree(d)
    BY <1>13
  <2>2. MapsAgree(disk) /\ disk \in Disks
    BY <1>1, <2>1, Quiet
  <2>3. MapsAgree(d1) /\ MapsAgree(d2)
    BY <1>5, <1>6, <2>2, MapsTaken
  <2>4. MapsAgree(d3)
    BY <1>2, <1>3, <1>6, <1>8, <2>2, MapsFilled
  <2>5. Listing(d4) /\ Listing(d5)
    <3>1. Listing(disk) /\ root_size = disk.size
      BY <1>1, <2>2, Quiet DEF MapsAgree
    <3>. QED
      BY <1>1, <1>3, <1>6, <1>8, <1>10, <1>11, <3>1, ListingNew DEF new, size
  <2>6. MapsAgree(d4) /\ MapsAgree(d5)
    BY <1>10, <1>11, <2>4, <2>5, MapsTaken
  <2>. QED
    BY <2>3, <2>4, <2>6
<1>16. /\ DirectoryInv' /\ Target' = d5
       /\ MapsInv => MapsInv'
  BY <1>1, <1>9, <1>11, <1>12, <1>13, <1>14, <1>15, Writes
<1>. QED
  BY <1>3, <1>8, <1>11, <1>16

\* do_unlink() frees the inode and its sectors, unlists it, and cuts the directory; the
\* assertions that find one of them free already hold if the maps agree and the inode
\* table is a faithful cache.
LEMMA UnlinkWrites ==
  ASSUME DirectoryInv, NEW p \in Users, NEW path \in Paths, Unlink(p, path),
         NEW num, num = search_file(path), NEW s, s = SlotFor(num)
  PROVE  /\ DirectoryInv' /\ num \in Inodes
         /\ MapsInv /\ disk.inodes[num].i_mode = REGULAR =>
              /\ MapsInv'
              /\ inode_table' = [inode_table EXCEPT ![s] = EmptySlot]
              /\ \A n \in Inodes : n # num => Target'.inodes[n] = Target.inodes[n]
              /\ failed' = "no" /\ stop' \in {"no", "link.c:144"}
<1>1. /\ pending = <<>> /\ failed = "no" /\ num # 0
  BY DEF Unlink, Found, Unlinking, Request, Ready
<1>2. num \in Inodes
  BY <1>1, Search, Bounds DEF Numbers, Inodes
<1>3. /\ disk \in Disks /\ Target = disk /\ root_size = disk.size
      /\ OneName(disk.entries, disk.size)
      /\ MapsInv => MapsAgree(disk)
  BY <1>1, Quiet
<1>. DEFINE new == Cleared(num)
            size == Shrunk(num)
            e == disk.inodes[num].ext
<1>4. PICK d1, d2, d3, d4, d5 :
        /\ d1 = [disk EXCEPT !.imap = disk.imap \ {num}]
        /\ d2 = [d1 EXCEPT !.smap = d1.smap \ {e}]
        /\ d3 = [d2 EXCEPT !.inodes[num] = Unused]
        /\ d4 = [d3 EXCEPT !.entries = new] /\ d5 = [d4 EXCEPT !.size = size]
  OBVIOUS
<1>5. /\ new \in [1 .. MaxEntries -> EntryType]
      /\ OneName(new, root_size) /\ OneName(new, size) /\ size \in 0 .. root_size
      /\ size \in 0 .. MaxEntries - 1
  <2>1. num \in Numbers
    BY <1>2, Bounds
  <2>2. new = Cleared(num) /\ size = Shrunk(num)
    OBVIOUS
  <2>. HIDE DEF new, size
  <2>3. /\ new \in [1 .. MaxEntries -> EntryType]
        /\ OneName(new, root_size) /\ OneName(new, size) /\ size \in 0 .. root_size
    BY <1>1, <2>1, <2>2, ClearedEntries
  <2>. QED
    BY <1>3, <2>3, Bounds DEF Disks
<1>. DEFINE listed == \E i \in 1 .. root_size : disk.entries[i].nr = num
<1>6. \/ /\ num \notin disk.imap
         /\ UNCHANGED <<disk, pending, op, root_size>>
      \/ /\ num \in disk.imap /\ e \notin disk.smap
         /\ pending' = <<d1>> /\ UNCHANGED <<disk, root_size>>
      \/ /\ inode_table' = [inode_table EXCEPT ![s] = EmptySlot]
         /\ UNCHANGED <<disk, failed>> /\ op'.kind = "unlink"
         /\ \/ /\ pending' = <<d1, d2, d3>> /\ stop' = "link.c:144"
               /\ UNCHANGED root_size /\ ~listed
            \/ /\ pending' = <<d1, d2, d3, d4, d5>> /\ stop' = "no"
               /\ root_size' = size
            \/ /\ pending' = <<d1, d2, d3, d4>> /\ stop' = "no"
               /\ UNCHANGED root_size
  <2>1. CASE num \notin disk.imap
    BY <2>1 DEF Unlink, Fail
  <2>2. CASE num \in disk.imap /\ e \notin disk.smap
    BY <1>4, <2>2 DEF Unlink, ToDisk
  <2>3. CASE num \in disk.imap /\ e \in disk.smap
    <3>1. LET g1 == [disk EXCEPT !.imap = disk.imap \ {num}]
              g2 == [g1 EXCEPT !.smap = g1.smap \ {e}]
              g3 == [g2 EXCEPT !.inodes[num] = Unused]
              g4 == [g3 EXCEPT !.entries = Cleared(num)]
          IN /\ inode_table' = [inode_table EXCEPT ![s] = EmptySlot]
             /\ IF ~(\E i \in 1 .. root_size : disk.entries[i].nr = num)
                  THEN ToDisk("unlink", path, 0, <<g1, g2, g3>>, "link.c:144")
                       /\ UNCHANGED root_size
                  ELSE /\ root_size' = Shrunk(num)
                       /\ ToDisk("unlink", path, 0, IF LastOf(num) = root_size
                                   THEN <<g1, g2, g3, g4, [g4 EXCEPT !.size = Shrunk(num)]>>
                                   ELSE <<g1, g2, g3, g4>>, "no")
      BY <2>3 DEF Unlink
    <3>2. LastOf(num) # root_size => size = root_size
      BY DEF Shrunk
    <3>. QED
      BY <1>4, <3>1, <3>2 DEF ToDisk
  <2>. QED
    BY <2>1, <2>2, <2>3
<1>7. /\ d1 \in Disks /\ d1.imap = disk.imap \ {num} /\ d1.smap = disk.smap
      /\ d1.inodes = disk.inodes /\ d1.entries = disk.entries /\ d1.size = disk.size
  BY <1>3, <1>4 DEF Disks
<1>8. /\ d2 \in Disks /\ d2.imap = disk.imap \ {num} /\ d2.smap = disk.smap \ {e}
      /\ d2.inodes = disk.inodes /\ d2.entries = disk.entries /\ d2.size = disk.size
  BY <1>4, <1>7 DEF Disks
<1>9. /\ d3 \in Disks /\ d3.imap = d2.imap /\ d3.smap = d2.smap
      /\ d3.entries = d2.entries /\ d3.size = d2.size
      /\ d3.inodes[num].i_mode = "none" /\ d3.inodes[num].ext = 0
      /\ \A n \in Inodes : n # num => d3.inodes[n] = disk.inodes[n]
  <2>. DEFINE inodes == [d2.inodes EXCEPT ![num] = Unused]
  <2>1. /\ d2.inodes \in [Inodes -> [i_mode : Modes, ext : 0 .. NrExtents]]
        /\ Unused \in [i_mode : Modes, ext : 0 .. NrExtents] /\ Unused.i_mode = "none" /\ Unused.ext = 0
    BY <1>8, Bounds DEF Disks, Modes, Unused
  <2>2. /\ inodes \in [Inodes -> [i_mode : Modes, ext : 0 .. NrExtents]]
        /\ inodes[num].i_mode = "none" /\ inodes[num].ext = 0
        /\ \A n \in Inodes : n # num => inodes[n] = d2.inodes[n]
    BY <1>2, <2>1
  <2>3. d3 = [d2 EXCEPT !.inodes = inodes]
    BY <1>4
  <2>. HIDE DEF inodes
  <2>4. /\ d3 \in Disks /\ d3.imap = d2.imap /\ d3.smap = d2.smap
        /\ d3.entries = d2.entries /\ d3.size = d2.size /\ d3.inodes = inodes
    BY <1>8, <2>2, <2>3 DEF Disks
  <2>. QED
    BY <1>8, <2>2, <2>4
<1>. HIDE DEF new, size
<1>10. /\ d4 \in Disks /\ d4.imap = d3.imap /\ d4.smap = d3.smap
       /\ d4.inodes = d3.inodes /\ d4.entries = new /\ d4.size = d3.size
  BY <1>4, <1>5, <1>9 DEF Disks
<1>11. /\ d5 \in Disks /\ d5.imap = d3.imap /\ d5.smap = d3.smap
       /\ d5.inodes = d3.inodes /\ d5.entries = new /\ d5.size = size
  BY <1>4, <1>5, <1>10 DEF Disks
<1>12. \A d \in {d1, d2, d3, d4, d5} : OneName(d.entries, d.size)
  BY <1>3, <1>5, <1>7, <1>8, <1>9, <1>10, <1>11
<1>13. MapsInv /\ disk.inodes[num].i_mode = REGULAR =>
         /\ ~listed => MapsAgree(d3)
         /\ MapsAgree(d4) /\ MapsAgree(d5)
         /\ num \in disk.imap /\ e \in disk.smap
  <2>1. SUFFICES ASSUME MapsInv, disk.inodes[num].i_mode = REGULAR
                 PROVE  /\ ~listed => MapsAgree(d3)
                        /\ MapsAgree(d4) /\ MapsAgree(d5)
                        /\ num \in disk.imap /\ e \in disk.smap
    OBVIOUS
  <2>2. MapsAgree(disk)
    BY <1>3, <2>1
  <2>3. Listing(disk) /\ Listing(d4) /\ Listing(d5)
    <3>1. Listing(disk)
      BY <2>2 DEF MapsAgree
    <3>2. new = Cleared(num) /\ size = Shrunk(num)
      BY DEF new, size
    <3>. QED
      BY <1>1, <1>2, <1>3, <1>8, <1>9, <1>10, <1>11, <3>1, <3>2, ListingCleared
  <2>4. ~listed => Listing(d3)
    BY <1>3, <1>8, <1>9, <2>3 DEF Listing, Entries
  <2>5. ~listed => MapsAgree(d3)
    BY <1>2, <1>3, <1>8, <1>9, <2>1, <2>2, <2>4, MapsFreed
  <2>6. MapsAgree(d4) /\ MapsAgree(d5)
    BY <1>2, <1>3, <1>8, <1>9, <1>10, <1>11, <2>1, <2>2, <2>3, MapsFreed
  <2>7. num \in disk.imap /\ e \in disk.smap
    BY <1>2, <2>1, <2>2 DEF MapsAgree, REGULAR
  <2>. QED
    BY <2>5, <2>6, <2>7
<1>14. CASE num \notin disk.imap /\ UNCHANGED <<disk, pending, op, root_size>>
  BY <1>2, <1>13, <1>14, WritesNothing
<1>15. CASE num \in disk.imap /\ e \notin disk.smap /\ pending' = <<d1>>
            /\ UNCHANGED <<disk, root_size>>
  <2>1. PICK states : states = <<d1>>
    OBVIOUS
  <2>2. /\ states \in Seq(Disks) /\ states # <<>> /\ Len(states) = 1 /\ states[1] = d1
        /\ \A i \in 1 .. Len(states) : states[i] = d1
    BY <1>7, <2>1
  <2>3. DirectoryInv'
    BY <1>1, <1>3, <1>7, <1>12, <1>15, <2>1, <2>2, Writes
  <2>. QED
    BY <1>2, <1>13, <1>15, <2>3
<1>16. CASE /\ inode_table' = [inode_table EXCEPT ![s] = EmptySlot]
            /\ UNCHANGED <<disk, failed>> /\ op'.kind = "unlink"
            /\ \/ /\ pending' = <<d1, d2, d3>> /\ stop' = "link.c:144"
                  /\ UNCHANGED root_size /\ ~listed
               \/ /\ pending' = <<d1, d2, d3, d4, d5>> /\ stop' = "no"
                  /\ root_size' = size
               \/ /\ pending' = <<d1, d2, d3, d4>> /\ stop' = "no"
                  /\ UNCHANGED root_size
  <2>1. PICK states : states = pending'
    OBVIOUS
  <2>2. /\ states \in Seq(Disks) /\ states # <<>>
        /\ \A i \in 1 .. Len(states) : states[i] \in {d1, d2, d3, d4, d5}
        /\ states[Len(states)] \in {d4, d5} \/ (states[Len(states)] = d3 /\ ~listed)
        /\ root_size' = states[Len(states)].size
    <3>0. /\ d1 \in Disks /\ d2 \in Disks /\ d3 \in Disks /\ d4 \in Disks /\ d5 \in Disks
          /\ root_size = d3.size /\ root_size = d4.size /\ size = d5.size
      BY <1>3, <1>7, <1>8, <1>9, <1>10, <1>11
    <3>1. CASE pending' = <<d1, d2, d3>> /\ UNCHANGED root_size /\ ~listed
      <4>1. Len(states) = 3 /\ states = <<d1, d2, d3>>
        BY <2>1, <3>1
      <4>2. /\ states[1] = d1 /\ states[2] = d2 /\ states[3] = d3
            /\ \A i \in 1 .. Len(states) : i = 1 \/ i = 2 \/ i = 3
        BY <4>1
      <4>3. states \in Seq(Disks) /\ states # <<>>
        BY <3>0, <4>1
      <4>. QED
        BY <3>0, <3>1, <4>1, <4>2, <4>3
    <3>2. CASE pending' = <<d1, d2, d3, d4, d5>> /\ root_size' = size
      <4>1. Len(states) = 5 /\ states = <<d1, d2, d3, d4, d5>>
        BY <2>1, <3>2
      <4>. QED
        BY <3>0, <3>2, <4>1
    <3>3. CASE pending' = <<d1, d2, d3, d4>> /\ UNCHANGED root_size
      <4>1. Len(states) = 4 /\ states = <<d1, d2, d3, d4>>
        BY <2>1, <3>3
      <4>. QED
        BY <3>0, <3>3, <4>1
    <3>. QED
      BY <1>16, <3>1, <3>2, <3>3
  <2>3. /\ DirectoryInv' /\ Target' = states[Len(states)]
        /\ MapsAgree(states[Len(states)]) => MapsInv'
    BY <1>1, <1>12, <1>16, <2>1, <2>2, Writes
  <2>4. \A n \in Inodes : n # num => Target'.inodes[n] = Target.inodes[n]
    BY <1>3, <1>9, <1>10, <1>11, <2>2, <2>3
  <2>. QED
    BY <1>1, <1>2, <1>13, <1>16, <2>2, <2>3, <2>4
<1>. QED
  BY <1>6, <1>14, <1>15, <1>16

----------------------------------------------------------------------------
\* The requests on the tables.

\* A request that leaves the tables alone, whatever it says.
LEMMA TablesKept ==
  ASSUME TablesInv, Target'.inodes = Target.inodes,
         UNCHANGED <<inode_table, f_desc_table, filp>>, failed = "no" \/ failed' = failed
  PROVE  TablesInv'
<1>1. TablesType' /\ DescriptorsBacked' /\ CachedOnce'
  BY DEF TablesInv, TablesType, DescriptorsBacked, CachedOnce
<1>3. OpenInv'
  BY DEF TablesInv, OpenInv
<1>. QED
  BY <1>1, <1>3 DEF TablesInv

\* A slot whose inode has no mode, or that is not in use, is no descriptor's.
LEMMA Idle ==
  ASSUME TablesInv, failed = "no", NEW s \in Slots,
         inode_table[s].i_cnt = 0 \/ inode_table[s].i_mode = "none"
  PROVE  /\ Cardinality(Refs(f_desc_table, s)) = 0
         /\ \A d \in Descs : f_desc_table[d] # s
<1>1. \A d \in Descs : f_desc_table[d] # s
  <2>1. ASSUME NEW d \in Descs, f_desc_table[d] = s PROVE FALSE
    <3>1. f_desc_table[d] # 0
      BY <2>1 DEF Slots
    <3>2. inode_table[s].i_cnt > 0
      BY <2>1, <3>1, Backed DEF TablesInv
    <3>3. inode_table[s].i_mode # "none"
      BY <2>1, <3>1 DEF TablesInv, OpenInv
    <3>. QED
      BY <3>2, <3>3
  <2>. QED
    BY <2>1
<1>3. Refs(f_desc_table, s) = {}
  BY <1>1 DEF Refs
<1>. QED
  BY <1>1, <1>3, FS_EmptySet

\* do_open(): get_inode() counts the descriptor it gets.
LEMMA OpenOldTables ==
  ASSUME DirectoryInv, MapsInv, TablesInv, NEW p \in Users, NEW path \in Paths,
         OpenOld(p, path)
  PROVE  TablesInv' /\ {failed', stop'} \intersect {"link.c:64", "link.c:79"} = {}
<1>. DEFINE num == search_file(path)
            s == SlotFor(num)
<1>1. /\ pending = <<>> /\ failed = "no" /\ stop = "no" /\ ~TablesFull(p)
      /\ UNCHANGED <<disk, pending, op, root_size, stop>>
      /\ failed' \in {"no", "inode table full", "open.c:88", "open.c:90"}
      /\ \/ UNCHANGED <<inode_table, f_desc_table, filp>>
         \/ /\ num # 0 /\ ~InodeTableFull(num)
            /\ inode_table' = get_inode(num) /\ Install(p, s)
            /\ failed' = "no" => inode_table'[s].i_mode # "none"
  BY DEF OpenOld, Request, Ready, InMemory, Nothing, Fail
<1>2. num # 0 => num \in Inodes
  <2>1. pending = <<>>
    BY <1>1
  <2>. QED
    BY <2>1, Search, Bounds DEF Numbers, Inodes
<1>3. Target' = Target
  BY <1>1, WritesNothing
<1>4. CASE UNCHANGED <<inode_table, f_desc_table, filp>>
  BY <1>1, <1>3, <1>4, TablesKept
<1>5. CASE /\ num # 0 /\ ~InodeTableFull(num)
           /\ inode_table' = get_inode(num) /\ Install(p, s)
           /\ failed' = "no" => inode_table'[s].i_mode # "none"
  <2>1. PICK n \in Inodes : n = num
    BY <1>2, <1>5
  <2>2. /\ s \in Slots
        /\ inode_table' \in [Slots -> [i_cnt : Nat, i_num : Numbers, i_mode : Modes]]
        /\ CachedOnce'
        /\ inode_table'[s].i_cnt = inode_table[s].i_cnt + 1
        /\ \A t \in Slots : t # s => inode_table'[t] = inode_table[t]
    <3>1. PICK u : u = SlotFor(n)
      OBVIOUS
    <3>. QED
      BY <1>1, <1>3, <1>5, <2>1, <3>1, GotInode DEF TablesInv
  <2>3. /\ f_desc_table' \in [Descs -> Slots \union {0}]
        /\ filp' \in [Users -> [Fds -> Descs \union {0}]]
        /\ Cardinality(Refs(f_desc_table', s)) = Cardinality(Refs(f_desc_table, s)) + 1
        /\ \A t \in Slots : t # s => Refs(f_desc_table', t) = Refs(f_desc_table, t)
        /\ \A d \in Descs : f_desc_table'[d] \in {s, f_desc_table[d]}
    <3>1. PICK u \in Slots : u = s
      BY <2>2
    <3>. HIDE DEF s
    <3>2. TablesType
      BY DEF TablesInv
    <3>3. Install(p, u)
      BY <1>5, <3>1
    <3>. QED
      BY <1>1, <3>1, <3>2, <3>3, Installed
  <2>. HIDE DEF s, num
  <2>4. TablesType'
    BY <2>2, <2>3 DEF TablesType
  <2>5. DescriptorsBacked'
    <3>1. \A t \in Slots : Cardinality(Refs(f_desc_table, t)) <= inode_table[t].i_cnt
      BY DEF TablesInv, DescriptorsBacked, Refs
    <3>2. \A t \in Slots : Cardinality(Refs(f_desc_table', t)) <= inode_table'[t].i_cnt
      <4>1. inode_table[s].i_cnt \in Nat /\ Cardinality(Refs(f_desc_table, s)) \in Nat
        BY <2>2, RefsFinite DEF TablesInv, TablesType
      <4>. QED
        BY <2>2, <2>3, <3>1, <4>1
    <3>. QED
      BY <3>2 DEF DescriptorsBacked, Refs
  <2>6. OpenInv'
    <3>1. SUFFICES ASSUME failed' = "no", NEW d \in Descs, f_desc_table'[d] # 0
                   PROVE  inode_table'[f_desc_table'[d]].i_mode # "none"
      BY DEF OpenInv
    <3>2. CASE f_desc_table'[d] = s
      BY <1>5, <3>1, <3>2
    <3>3. CASE f_desc_table'[d] # s
      BY <1>1, <2>2, <2>3, <3>1, <3>3 DEF TablesInv, OpenInv
    <3>. QED
      BY <3>2, <3>3
  <2>. QED
    BY <1>1, <2>2, <2>4, <2>5, <2>6 DEF TablesInv
<1>. QED
  BY <1>1, <1>4, <1>5

\* do_unlink() of a file it keeps: the inode stays counted, and its slot is nobody's
\* unless it held the inode already.
LEMMA UnlinkKeptTables ==
  ASSUME DirectoryInv, MapsInv, TablesInv, NEW p \in Users, NEW path \in Paths,
         UnlinkKept(p, path)
  PROVE  TablesInv'
<1>. DEFINE num == search_file(path)
            s == SlotFor(num)
<1>1. /\ pending = <<>> /\ failed = "no" /\ UNCHANGED <<disk, pending, op, root_size, failed>>
      /\ UNCHANGED <<f_desc_table, filp>>
      /\ num # 0 /\ ~InodeTableFull(num) /\ inode_table' = get_inode(num)
  BY DEF UnlinkKept, Found, Unlinking, Request, Ready, InMemory
<1>2. Target' = Target
  BY <1>1, WritesNothing
<1>3. PICK n \in Inodes : n = num
  BY <1>1, Search, Bounds DEF Numbers, Inodes
<1>4. /\ s \in Slots
      /\ inode_table' \in [Slots -> [i_cnt : Nat, i_num : Numbers, i_mode : Modes]]
      /\ CachedOnce'
      /\ inode_table'[s].i_cnt = inode_table[s].i_cnt + 1
      /\ inode_table[s].i_cnt > 0 => inode_table'[s].i_mode = inode_table[s].i_mode
      /\ \A t \in Slots : t # s => inode_table'[t] = inode_table[t]
  <2>1. PICK u : u = SlotFor(n)
    OBVIOUS
  <2>. QED
    BY <1>1, <1>2, <1>3, <2>1, GotInode DEF TablesInv
<1>. HIDE DEF s, num
<1>5. TablesType'
  BY <1>1, <1>4 DEF TablesType, TablesInv
<1>6. DescriptorsBacked'
  <2>1. \A t \in Slots : Cardinality(Refs(f_desc_table, t)) <= inode_table[t].i_cnt
    BY DEF TablesInv, DescriptorsBacked, Refs
  <2>2. \A t \in Slots : Cardinality(Refs(f_desc_table, t)) <= inode_table'[t].i_cnt
    <3>1. inode_table[s].i_cnt \in Nat /\ Cardinality(Refs(f_desc_table, s)) \in Nat
      BY <1>4, RefsFinite DEF TablesInv, TablesType
    <3>. QED
      BY <1>4, <2>1, <3>1
  <2>. QED
    BY <1>1, <2>2 DEF DescriptorsBacked, Refs
<1>7. OpenInv'
  <2>1. SUFFICES ASSUME NEW d \in Descs, f_desc_table[d] # 0
                 PROVE  inode_table'[f_desc_table[d]].i_mode # "none"
    BY <1>1 DEF OpenInv
  <2>2. /\ f_desc_table[d] \in Slots /\ inode_table[f_desc_table[d]].i_cnt > 0
        /\ inode_table[f_desc_table[d]].i_mode # "none"
    BY <1>1, <2>1, Backed DEF TablesInv, OpenInv
  <2>. QED
    BY <1>4, <2>2
<1>. QED
  BY <1>4, <1>5, <1>6, <1>7 DEF TablesInv

\* do_close(): put_inode() takes back the count of the descriptor.
LEMMA CloseTables ==
  ASSUME DirectoryInv, MapsInv, TablesInv, NEW p \in Users, NEW fd \in Fds, Close(p, fd)
  PROVE  /\ TablesInv' /\ UNCHANGED <<disk, pending, op, root_size, stop>>
         /\ failed' \in {"no", "main.c:266"}
<1>1. /\ pending = <<>> /\ failed = "no" /\ filp[p][fd] # 0
      /\ UNCHANGED <<disk, pending, op, root_size, stop>>
      /\ failed' \in {"no", "main.c:266"}
  BY DEF Close, Request, Ready, InMemory, Fail
<1>2. Target' = Target
  BY <1>1, WritesNothing
<1>3. PICK d \in Descs : d = filp[p][fd]
  BY <1>1 DEF TablesInv, TablesType
<1>4. PICK s \in Slots \union {0} : s = f_desc_table[d]
  BY DEF TablesInv, TablesType
<1>5. /\ f_desc_table' = [f_desc_table EXCEPT ![d] = 0]
      /\ filp' = [filp EXCEPT ![p] = [filp[p] EXCEPT ![fd] = 0]]
      /\ s = 0 => inode_table' = inode_table
      /\ s # 0 => /\ inode_table' = [inode_table EXCEPT ![s].i_cnt = inode_table[s].i_cnt - 1]
                  /\ failed' = "no"
  BY <1>1, <1>3, <1>4 DEF Close, InMemory
<1>6. /\ f_desc_table' \in [Descs -> Slots \union {0}]
      /\ filp' \in [Users -> [Fds -> Descs \union {0}]]
      /\ f_desc_table'[d] = 0
      /\ \A c \in Descs : c # d => f_desc_table'[c] = f_desc_table[c]
  BY <1>5 DEF TablesInv, TablesType
<1>7. /\ s # 0 => Cardinality(Refs(f_desc_table', s)) = Cardinality(Refs(f_desc_table, s)) - 1
      /\ \A t \in Slots : t # s => Refs(f_desc_table', t) = Refs(f_desc_table, t)
  <2>1. PICK old \in [Descs -> Slots \union {0}], new \in [Descs -> Slots \union {0}] :
          old = f_desc_table /\ new = f_desc_table'
    BY <1>6 DEF TablesInv, TablesType
  <2>2. /\ old[d] # 0 => Cardinality(Refs(new, old[d])) = Cardinality(Refs(old, old[d])) - 1
        /\ \A t \in Slots : t # old[d] => Refs(new, t) = Refs(old, t)
    BY <1>6, <2>1, DescDropped
  <2>. QED
    BY <1>4, <2>1, <2>2
<1>8. /\ \A t \in Slots : Cardinality(Refs(f_desc_table, t)) <= inode_table[t].i_cnt
      /\ \A t \in Slots : Cardinality(Refs(f_desc_table, t)) \in Nat
      /\ s # 0 => Cardinality(Refs(f_desc_table, s)) > 0
  BY <1>4, RefsFinite DEF TablesInv, DescriptorsBacked, Refs
<1>9. \A t \in Slots :
        /\ inode_table[t] \in [i_cnt : Nat, i_num : Numbers, i_mode : Modes]
        /\ inode_table'[t].i_cnt = inode_table[t].i_cnt - (IF t = s THEN 1 ELSE 0)
        /\ inode_table'[t].i_num = inode_table[t].i_num
        /\ inode_table'[t].i_mode = inode_table[t].i_mode
        /\ inode_table[t].i_cnt \in Nat /\ t # 0
  <2>1. /\ inode_table \in [Slots -> [i_cnt : Nat, i_num : Numbers, i_mode : Modes]]
        /\ 0 \notin Slots
    BY DEF TablesInv, TablesType, Slots
  <2>2. CASE s = 0
    <3>1. \A t \in Slots : t # s
      BY <2>2 DEF Slots
    <3>. QED
      BY <1>5, <2>1, <2>2, <3>1
  <2>3. CASE s # 0
    BY <1>5, <2>1, <2>3
  <2>. QED
    BY <2>2, <2>3
<1>10. \A t \in Slots : inode_table'[t].i_cnt \in Nat
  BY <1>8, <1>9
<1>11. inode_table' \in [Slots -> [i_cnt : Nat, i_num : Numbers, i_mode : Modes]]
  <2>1. inode_table \in [Slots -> [i_cnt : Nat, i_num : Numbers, i_mode : Modes]]
    BY DEF TablesInv, TablesType
  <2>2. CASE s = 0
    BY <1>5, <2>1, <2>2
  <2>3. CASE s # 0
    <3>1. inode_table[s].i_cnt - 1 \in Nat
      BY <1>4, <1>9, <1>10, <2>3
    <3>. QED
      BY <1>4, <1>5, <2>1, <2>3, <3>1
  <2>. QED
    BY <2>2, <2>3
<1>12. DescriptorsBacked'
  <2>1. \A t \in Slots : Cardinality(Refs(f_desc_table', t)) <= inode_table'[t].i_cnt
    BY <1>7, <1>8, <1>9
  <2>. QED
    BY <2>1 DEF DescriptorsBacked, Refs
<1>13. CachedOnce'
  BY <1>2, <1>9, <1>10 DEF TablesInv, CachedOnce
<1>14. OpenInv'
  <2>1. \A c \in Descs : f_desc_table'[c] # 0 =>
          /\ f_desc_table[c] # 0 /\ f_desc_table'[c] = f_desc_table[c]
          /\ f_desc_table[c] \in Slots
    BY <1>6
  <2>. QED
    BY <1>1, <1>9, <2>1 DEF TablesInv, OpenInv
<1>. QED
  BY <1>1, <1>6, <1>11, <1>12, <1>13, <1>14 DEF TablesInv, TablesType

\* fs_fork() counts the child's descriptors, of slots in use only.
LEMMA ForkTables ==
  ASSUME DirectoryInv, MapsInv, TablesInv, NEW p \in Users, NEW child \in Users,
         Fork(p, child)
  PROVE  /\ TablesInv' /\ UNCHANGED <<disk, pending, op, root_size, failed, stop>>
<1>1. /\ pending = <<>> /\ failed = "no" 
      /\ UNCHANGED <<disk, pending, op, root_size, failed, stop, f_desc_table>>
      /\ filp' = [filp EXCEPT ![child] = filp[p]]
      /\ inode_table' = [s \in Slots |->
           [inode_table[s] EXCEPT !.i_cnt = inode_table[s].i_cnt + Cardinality(Shared(p, s))]]
  BY DEF Fork, Request, Ready, InMemory
<1>2. Target' = Target
  BY <1>1, WritesNothing
<1>3. \A s \in Slots : Cardinality(Shared(p, s)) \in Nat
  <2>1. ASSUME NEW s \in Slots PROVE Cardinality(Shared(p, s)) \in Nat
    <3>1. Shared(p, s) \in SUBSET Fds
      BY Zenon DEF Shared
    <3>2. IsFiniteSet(Shared(p, s))
      BY <3>1, FsAssumption, FS_Subset DEF FsAssumption
    <3>. QED
      BY <3>2, FS_CardinalityType
  <2>. QED
    BY <2>1
<1>4. ASSUME NEW s \in Slots, inode_table[s].i_cnt = 0
      PROVE  Cardinality(Shared(p, s)) = 0
  <2>1. ASSUME NEW fd \in Fds, filp[p][fd] # 0, f_desc_table[filp[p][fd]] = s
        PROVE  FALSE
    <3>1. PICK d \in Descs : d = filp[p][fd]
      BY <2>1 DEF TablesInv, TablesType
    <3>2. f_desc_table[d] = s /\ s # 0
      BY <2>1, <3>1 DEF Slots
    <3>. QED
      BY <1>4, <3>2, Backed DEF TablesInv
  <2>2. Shared(p, s) = {}
    BY <2>1 DEF Shared
  <2>. QED
    BY <2>2, FS_EmptySet
<1>5. inode_table \in [Slots -> [i_cnt : Nat, i_num : Numbers, i_mode : Modes]]
  BY DEF TablesInv, TablesType
<1>6. \A s \in Slots :
        /\ inode_table'[s] \in [i_cnt : Nat, i_num : Numbers, i_mode : Modes]
        /\ inode_table'[s].i_cnt = inode_table[s].i_cnt + Cardinality(Shared(p, s))
        /\ inode_table'[s].i_num = inode_table[s].i_num
        /\ inode_table'[s].i_mode = inode_table[s].i_mode
  <2>1. ASSUME NEW s \in Slots, NEW n \in Nat, n = Cardinality(Shared(p, s))
        PROVE  /\ inode_table'[s] \in [i_cnt : Nat, i_num : Numbers, i_mode : Modes]
               /\ inode_table'[s].i_cnt = inode_table[s].i_cnt + n
               /\ inode_table'[s].i_num = inode_table[s].i_num
               /\ inode_table'[s].i_mode = inode_table[s].i_mode
    <3>1. inode_table'[s] = [inode_table[s] EXCEPT !.i_cnt = inode_table[s].i_cnt + n]
      BY <1>1, <2>1
    <3>2. inode_table[s] \in [i_cnt : Nat, i_num : Numbers, i_mode : Modes]
      BY <1>5
    <3>. QED
      BY <3>1, <3>2
  <2>. QED
    BY <1>3, <2>1
<1>7. inode_table' \in [Slots -> [i_cnt : Nat, i_num : Numbers, i_mode : Modes]]
  BY <1>1, <1>6
<1>8. filp' \in [Users -> [Fds -> Descs \union {0}]]
  BY <1>1 DEF TablesInv, TablesType
<1>9. \A s \in Slots : inode_table'[s].i_cnt > 0 => inode_table[s].i_cnt > 0
  BY <1>3, <1>4, <1>5, <1>6
<1>10. CachedOnce'
  BY <1>2, <1>6, <1>9 DEF TablesInv, CachedOnce
<1>11. DescriptorsBacked'
  <2>1. \A s \in Slots : Cardinality(Refs(f_desc_table, s)) <= inode_table[s].i_cnt
    BY DEF TablesInv, DescriptorsBacked, Refs
  <2>2. \A s \in Slots : Cardinality(Refs(f_desc_table, s)) \in Nat
    BY RefsFinite
  <2>3. \A s \in Slots : Cardinality(Refs(f_desc_table, s)) <= inode_table'[s].i_cnt
    BY <1>3, <1>5, <1>6, <2>1, <2>2
  <2>. QED
    BY <1>1, <2>3 DEF DescriptorsBacked, Refs
<1>12. OpenInv'
  BY <1>1, <1>6, Backed DEF TablesInv, OpenInv
<1>. QED
  BY <1>1, <1>7, <1>8, <1>10, <1>11, <1>12 DEF TablesInv, TablesType

\* creat_file(): the inode was free, so a slot that still holds it has no mode and no
\* descriptor, and the slot may be filled in anew.
LEMMA CreateTables ==
  ASSUME DirectoryInv, MapsInv, TablesInv, NEW p \in Users, NEW path \in Paths,
         Create(p, path)
  PROVE  /\ TablesInv' /\ UNCHANGED failed /\ stop' = "no"
<1>1. PICK num \in Inodes : num = alloc_imap_bit /\ num \notin disk.imap
  BY CreateWrites
<1>2. PICK s : s = SlotFor(num)
  OBVIOUS
<1>3. /\ pending = <<>> /\ failed = "no" /\ ~TablesFull(p) /\ ~InodeTableFull(num)
      /\ inode_table' = [inode_table EXCEPT ![s] =
                           [i_cnt |-> 1, i_num |-> num, i_mode |-> REGULAR]]
      /\ Install(p, s) /\ UNCHANGED failed /\ stop' = "no"
  BY <1>1, <1>2 DEF Create, Creating, Request, Ready, ToDisk
<1>4. /\ s \in Slots
      /\ Cached(num) # {} => inode_table[s].i_cnt > 0 /\ inode_table[s].i_num = num
      /\ Cached(num) = {} => inode_table[s].i_cnt = 0
      /\ \A t \in Slots : inode_table[t].i_cnt > 0 /\ inode_table[t].i_num = num => t = s
  BY <1>1, <1>2, <1>3, SlotIs DEF TablesInv
<1>5. Target = disk /\ MapsAgree(disk)
  BY <1>3, Quiet
<1>6. /\ Target'.inodes[num].i_mode = REGULAR
      /\ \A n \in Inodes : n # num => Target'.inodes[n] = Target.inodes[n]
  BY <1>1, <1>5, CreateWrites
<1>7. inode_table[s].i_cnt = 0 \/ inode_table[s].i_mode = "none"
  <2>1. disk.inodes[num].i_mode = "none"
    BY <1>1, <1>5 DEF MapsAgree
  <2>2. CASE Cached(num) = {}
    BY <1>4, <2>2
  <2>3. CASE Cached(num) # {}
    BY <1>4, <1>5, <2>1, <2>3 DEF TablesInv, CachedOnce
  <2>. QED
    BY <2>2, <2>3
<1>8. /\ Cardinality(Refs(f_desc_table, s)) = 0
      /\ \A d \in Descs : f_desc_table[d] # s
  BY <1>3, <1>4, <1>7, Idle
<1>9. /\ inode_table' \in [Slots -> [i_cnt : Nat, i_num : Numbers, i_mode : Modes]]
      /\ inode_table'[s] = [i_cnt |-> 1, i_num |-> num, i_mode |-> REGULAR]
      /\ \A t \in Slots : t # s => inode_table'[t] = inode_table[t]
  <2>1. inode_table \in [Slots -> [i_cnt : Nat, i_num : Numbers, i_mode : Modes]]
    BY DEF TablesInv, TablesType
  <2>2. [i_cnt |-> 1, i_num |-> num, i_mode |-> REGULAR]
          \in [i_cnt : Nat, i_num : Numbers, i_mode : Modes]
    BY Bounds DEF Modes
  <2>. QED
    BY <1>3, <1>4, <2>1, <2>2
<1>10. /\ f_desc_table' \in [Descs -> Slots \union {0}]
       /\ filp' \in [Users -> [Fds -> Descs \union {0}]]
       /\ Cardinality(Refs(f_desc_table', s)) = 1
       /\ \A t \in Slots : t # s => Refs(f_desc_table', t) = Refs(f_desc_table, t)
       /\ \A d \in Descs : f_desc_table'[d] \in {s, f_desc_table[d]}
  BY <1>3, <1>4, <1>8, Installed DEF TablesInv
<1>11. CachedOnce'
  <2>1. ASSUME NEW t \in Slots, inode_table'[t].i_cnt > 0
        PROVE  /\ inode_table'[t].i_num \in Inodes
               /\ inode_table'[t].i_mode = Target'.inodes[inode_table'[t].i_num].i_mode
               /\ inode_table'[t].i_num = num => t = s
    <3>1. CASE t = s
      BY <1>6, <1>9, <3>1
    <3>2. CASE t # s
      BY <1>4, <1>6, <1>9, <2>1, <3>2 DEF CachedOnce, TablesInv
    <3>. QED
      BY <3>1, <3>2
  <2>2. ASSUME NEW t \in Slots, NEW u \in Slots, inode_table'[t].i_cnt > 0,
               inode_table'[u].i_cnt > 0, inode_table'[t].i_num = inode_table'[u].i_num
        PROVE  t = u
    <3>1. CASE t = s \/ u = s
      BY <1>9, <2>1, <2>2, <3>1
    <3>2. CASE t # s /\ u # s
      BY <1>9, <2>2, <3>2 DEF CachedOnce, TablesInv
    <3>. QED
      BY <3>1, <3>2
  <2>. QED
    BY <2>1, <2>2 DEF CachedOnce
<1>12. DescriptorsBacked'
  <2>1. \A t \in Slots : Cardinality(Refs(f_desc_table, t)) <= inode_table[t].i_cnt
    BY DEF TablesInv, DescriptorsBacked, Refs
  <2>2. \A t \in Slots : Cardinality(Refs(f_desc_table', t)) <= inode_table'[t].i_cnt
    <3>1. ASSUME NEW t \in Slots
          PROVE  Cardinality(Refs(f_desc_table', t)) <= inode_table'[t].i_cnt
      <4>1. CASE t = s
        BY <1>9, <1>10, <4>1
      <4>2. CASE t # s
        BY <1>9, <1>10, <2>1, <4>2
      <4>. QED
        BY <4>1, <4>2
    <3>. QED
      BY <3>1
  <2>. QED
    BY <2>2 DEF DescriptorsBacked, Refs
<1>13. OpenInv'
  <2>1. SUFFICES ASSUME NEW d \in Descs, f_desc_table'[d] # 0
                 PROVE  inode_table'[f_desc_table'[d]].i_mode # "none"
    BY DEF OpenInv
  <2>2. CASE f_desc_table'[d] = s
    BY <1>9, <2>2 DEF REGULAR
  <2>3. CASE f_desc_table'[d] # s
    BY <1>3, <1>9, <1>10, <2>1, <2>3 DEF TablesInv, OpenInv
  <2>. QED
    BY <2>2, <2>3
<1>. QED
  BY <1>3, <1>9, <1>10, <1>11, <1>12, <1>13 DEF TablesInv, TablesType

\* do_unlink() of a file: nobody but itself has the slot, which it empties.
LEMMA UnlinkTables ==
  ASSUME DirectoryInv, MapsInv, TablesInv, NEW p \in Users, NEW path \in Paths,
         Unlink(p, path)
  PROVE  /\ TablesInv' /\ MapsInv' /\ failed' = "no" /\ stop' \in {"no", "link.c:144"}
<1>1. PICK num, s : num = search_file(path) /\ s = SlotFor(num)
  OBVIOUS
<1>2. num \in Inodes
  BY <1>1, UnlinkWrites
<1>3. /\ pending = <<>> /\ failed = "no" /\ ~InodeTableFull(num)
      /\ get_inode(num)[s].i_mode = REGULAR /\ get_inode(num)[s].i_cnt <= 1
      /\ UNCHANGED <<f_desc_table, filp>>
  BY <1>1 DEF Unlink, Found, Unlinking, Request, Ready, Removable
<1>4. /\ s \in Slots
      /\ get_inode(num)[s].i_cnt = inode_table[s].i_cnt + 1
      /\ get_inode(num)[s].i_mode = disk.inodes[num].i_mode
      /\ \A t \in Slots : inode_table[t].i_cnt > 0 /\ inode_table[t].i_num = num => t = s
  BY <1>1, <1>2, <1>3, GotSlot DEF TablesInv
<1>5. inode_table \in [Slots -> [i_cnt : Nat, i_num : Numbers, i_mode : Modes]]
  BY DEF TablesInv, TablesType
<1>6. inode_table[s].i_cnt = 0 /\ disk.inodes[num].i_mode = REGULAR
  BY <1>3, <1>4, <1>5
<1>7. /\ MapsInv'
      /\ inode_table' = [inode_table EXCEPT ![s] = EmptySlot]
      /\ \A n \in Inodes : n # num => Target'.inodes[n] = Target.inodes[n]
      /\ failed' = "no" /\ stop' \in {"no", "link.c:144"}
  BY <1>1, <1>6, UnlinkWrites
<1>8. /\ Cardinality(Refs(f_desc_table, s)) = 0
      /\ \A d \in Descs : f_desc_table[d] # s
  BY <1>3, <1>4, <1>6, Idle
<1>9. /\ inode_table' \in [Slots -> [i_cnt : Nat, i_num : Numbers, i_mode : Modes]]
      /\ inode_table'[s].i_cnt = 0
      /\ \A t \in Slots : t # s => inode_table'[t] = inode_table[t]
  <2>1. EmptySlot \in [i_cnt : Nat, i_num : Numbers, i_mode : Modes] /\ EmptySlot.i_cnt = 0
    BY Bounds DEF Modes, EmptySlot, Numbers
  <2>. QED
    BY <1>4, <1>5, <1>7, <2>1
<1>10. \A t \in Slots : inode_table'[t].i_cnt > 0 =>
         t # s /\ inode_table'[t] = inode_table[t] /\ inode_table[t].i_num # num
  BY <1>4, <1>9
<1>11. CachedOnce'
  BY <1>7, <1>10 DEF TablesInv, CachedOnce
<1>12. DescriptorsBacked'
  <2>1. \A t \in Slots : Cardinality(Refs(f_desc_table, t)) <= inode_table[t].i_cnt
    BY DEF TablesInv, DescriptorsBacked, Refs
  <2>2. \A t \in Slots : Cardinality(Refs(f_desc_table, t)) <= inode_table'[t].i_cnt
    BY <1>8, <1>9, <2>1
  <2>. QED
    BY <1>3, <2>2 DEF DescriptorsBacked, Refs
<1>13. OpenInv'
  <2>1. \A d \in Descs : f_desc_table[d] # 0 => f_desc_table[d] \in Slots \ {s}
    BY <1>8 DEF TablesInv, TablesType
  <2>. QED
    BY <1>3, <1>9, <2>1 DEF TablesInv, OpenInv
<1>. QED
  BY <1>3, <1>7, <1>9, <1>11, <1>12, <1>13 DEF TablesInv, TablesType

\* init_fs(): empty tables but for the root directory.
Initialised ==
  /\ inode_table = InitInodes /\ f_desc_table = InitDescs /\ filp = InitFilp
  /\ MapsAgree(Target)

\* Tables like that are consistent if the disk has its root directory.
LEMMA InitTables == Initialised => TablesInv
<1>. SUFFICES ASSUME Initialised PROVE TablesInv
  OBVIOUS
<1>1. /\ inode_table = InitInodes /\ f_desc_table = InitDescs /\ filp = InitFilp
      /\ MapsAgree(Target)
  BY DEF Initialised
<1>. USE Bounds
<1>2. 1 \in Slots /\ 0 \notin Slots /\ ROOT_INODE \in Numbers
  BY DEF Slots
<1>3. \A s \in Slots :
        inode_table[s] = IF s = 1
                           THEN [i_cnt |-> 1, i_num |-> ROOT_INODE, i_mode |-> DIRECTORY]
                           ELSE EmptySlot
  BY <1>1 DEF InitInodes
<1>4. /\ EmptySlot \in [i_cnt : Nat, i_num : Numbers, i_mode : Modes] /\ EmptySlot.i_cnt = 0
      /\ [i_cnt |-> 1, i_num |-> ROOT_INODE, i_mode |-> DIRECTORY]
           \in [i_cnt : Nat, i_num : Numbers, i_mode : Modes]
  BY <1>2 DEF EmptySlot, Modes, Numbers
<1>5. TablesType
  <2>1. inode_table \in [Slots -> [i_cnt : Nat, i_num : Numbers, i_mode : Modes]]
    BY <1>1, <1>4 DEF InitInodes
  <2>2. f_desc_table \in [Descs -> Slots \union {0}]
    BY <1>1 DEF InitDescs
  <2>3. filp \in [Users -> [Fds -> Descs \union {0}]]
    BY <1>1 DEF InitFilp
  <2>. QED
    BY <2>1, <2>2, <2>3 DEF TablesType
<1>6. CachedOnce
  <2>1. \A s \in Slots : inode_table[s].i_cnt > 0 =>
          s = 1 /\ inode_table[s].i_num = ROOT_INODE /\ inode_table[s].i_mode = DIRECTORY
    BY <1>3, <1>4
  <2>. QED
    BY <1>1, <2>1 DEF CachedOnce, MapsAgree
<1>7. DescriptorsBacked
  <2>1. \A s \in Slots : Refs(f_desc_table, s) = {}
    BY <1>1, <1>2 DEF InitDescs, Refs
  <2>2. \A s \in Slots : Cardinality(Refs(f_desc_table, s)) = 0
    BY <2>1, FS_EmptySet
  <2>3. \A s \in Slots : inode_table[s].i_cnt \in Nat
    BY <1>5 DEF TablesType
  <2>4. \A s \in Slots : Cardinality(Refs(f_desc_table, s)) <= inode_table[s].i_cnt
    BY <2>2, <2>3
  <2>. QED
    BY <2>4 DEF DescriptorsBacked, Refs
<1>8. OpenInv
  BY <1>1 DEF OpenInv, InitDescs
<1>. QED
  BY <1>5, <1>6, <1>7, <1>8 DEF TablesInv

----------------------------------------------------------------------------
\* The disk, and the start.

\* Tail of a sequence that is not empty.
LEMMA TailIs ==
  ASSUME NEW D, NEW q \in Seq(D), q # <<>>
  PROVE  /\ Head(q) = q[1] /\ Head(q) \in D /\ Tail(q) \in Seq(D) /\ Len(q) \in Nat \ {0}
         /\ Len(Tail(q)) = Len(q) - 1
         /\ \A i \in 1 .. Len(q) - 1 : Tail(q)[i] = q[i + 1]
         /\ Tail(q) = <<>> <=> Len(q) = 1
         /\ Last(q) = q[Len(q)]
         /\ Tail(q) # <<>> => Last(Tail(q)) = q[Len(q)]
<1>1. Len(q) \in Nat \ {0} /\ Head(q) = q[1] /\ Head(q) \in D
  OBVIOUS
<1>2. /\ Tail(q) \in Seq(D) /\ Len(Tail(q)) = Len(q) - 1
      /\ \A i \in 1 .. Len(q) - 1 : Tail(q)[i] = q[i + 1]
  BY <1>1
<1>3. Tail(q) = <<>> <=> Len(q) = 1
  <2>1. PICK r \in Seq(D) : r = Tail(q) /\ Len(r) = Len(q) - 1
    BY <1>2
  <2>2. r = <<>> <=> Len(r) = 0
    OBVIOUS
  <2>. QED
    BY <1>1, <2>1, <2>2
<1>4. Last(q) = q[Len(q)]
  BY DEF Last
<1>5. ASSUME Tail(q) # <<>> PROVE Last(Tail(q)) = q[Len(q)]
  <2>1. Len(q) - 1 \in 1 .. Len(q) - 1
    BY <1>1, <1>3, <1>5
  <2>2. Last(Tail(q)) = Tail(q)[Len(q) - 1]
    BY <1>2 DEF Last
  <2>3. (Len(q) - 1) + 1 = Len(q)
    BY <1>1
  <2>4. Tail(q)[Len(q) - 1] = q[(Len(q) - 1) + 1]
    BY <1>2, <2>1
  <2>. QED
    BY <2>2, <2>3, <2>4, Zenon
<1>. QED
  BY <1>1, <1>2, <1>3, <1>4, <1>5

\* The disk takes the next state: it was one of those the request left.
LEMMA FlushDisk ==
  ASSUME DirectoryInv, Flush
  PROVE  /\ DirectoryInv' /\ Target' = Target
         /\ MapsInv => MapsInv'
<1>1. /\ pending # <<>> /\ disk' = Head(pending) /\ pending' = Tail(pending)
      /\ UNCHANGED root_size
      /\ Tail(pending) = <<>> \/ op' = op
  BY DEF Flush
<1>2. PICK q \in Seq(Disks) : q = pending /\ q # <<>>
  BY <1>1 DEF DirectoryInv
<1>3. /\ Head(q) = q[1] /\ Head(q) \in Disks /\ Tail(q) \in Seq(Disks)
      /\ Len(q) \in Nat \ {0} /\ Len(Tail(q)) = Len(q) - 1
      /\ \A i \in 1 .. Len(q) - 1 : Tail(q)[i] = q[i + 1]
      /\ Tail(q) = <<>> <=> Len(q) = 1
      /\ Last(q) = q[Len(q)]
      /\ Tail(q) # <<>> => Last(Tail(q)) = q[Len(q)]
  BY <1>2, TailIs
<1>4. Target = q[Len(q)]
  BY <1>1, <1>2, <1>3 DEF Target
<1>5. Target' = q[Len(q)]
  <2>1. CASE Tail(q) = <<>>
    BY <1>1, <1>2, <1>3, <2>1 DEF Target
  <2>2. CASE Tail(q) # <<>>
    BY <1>1, <1>2, <1>3, <2>2 DEF Target
  <2>. QED
    BY <2>1, <2>2
<1>6. /\ disk' = q[1] /\ pending' = Tail(q) /\ Len(pending') = Len(q) - 1
      /\ \A i \in 1 .. Len(q) - 1 : pending'[i] = q[i + 1] /\ i + 1 \in 1 .. Len(q)
      /\ 1 \in 1 .. Len(q)
  BY <1>1, <1>2, <1>3
<1>7. DirectoryInv'
  <2>1. \A i \in 1 .. Len(q) : OneName(q[i].entries, q[i].size)
    BY <1>2 DEF DirectoryInv
  <2>2. OneName(disk'.entries, disk'.size)
    BY <1>6, <2>1
  <2>3. \A i \in 1 .. Len(pending') : OneName(pending'[i].entries, pending'[i].size)
    BY <1>6, <2>1
  <2>4. root_size' = Target'.size
    BY <1>1, <1>4, <1>5 DEF DirectoryInv
  <2>. QED
    BY <1>3, <1>6, <2>2, <2>3, <2>4 DEF DirectoryInv
<1>8. ASSUME MapsInv PROVE MapsInv'
  <2>1. MapsAgree(Target')
    BY <1>4, <1>5, <1>8 DEF MapsInv
  <2>2. CASE Tail(q) = <<>>
    <3>1. disk' = q[Len(q)] /\ Len(pending') = 0
      BY <1>3, <1>6, <2>2
    <3>2. MapsAgree(disk')
      BY <1>5, <2>1, <3>1
    <3>. QED
      BY <2>1, <3>1, <3>2 DEF MapsInv
  <2>3. CASE Tail(q) # <<>>
    <3>1. op' = op
      BY <1>1, <1>2, <2>3
    <3>2. op.kind # "unlink" => \A i \in 1 .. Len(q) : MapsAgree(q[i])
      BY <1>2, <1>8 DEF MapsInv
    <3>3. op'.kind # "unlink" =>
            MapsAgree(disk') /\ \A i \in 1 .. Len(pending') : MapsAgree(pending'[i])
      BY <1>6, <3>1, <3>2
    <3>. QED
      BY <2>1, <3>3 DEF MapsInv
  <2>. QED
    BY <2>2, <2>3
<1>. QED
  BY <1>4, <1>5, <1>7, <1>8

\* mkfs() makes a sound disk.
LEMMA Mkfs ==
  /\ MkfsDisk \in Disks /\ OneName(MkfsDisk.entries, MkfsDisk.size)
  /\ MapsAgree(MkfsDisk)
<1>. USE Bounds
<1>1. ROOT_INODE = 1 /\ TTY_INODE = 2 /\ {0, 1, 2} \subseteq Numbers /\ 1 \in Inodes /\ 2 \in Inodes
  BY DEF ROOT_INODE, TTY_INODE, Numbers, Inodes
<1>. DEFINE inodes == [n \in Inodes |->
                         CASE n = ROOT_INODE -> [i_mode |-> DIRECTORY, ext |-> 0]
                           [] n = TTY_INODE -> [i_mode |-> CHAR_SPECIAL, ext |-> 0]
                           [] OTHER -> Unused]
            entries == [i \in 1 .. MaxEntries |->
                          CASE i = 1 -> [nr |-> ROOT_INODE, name |-> Dot, mark |-> Length(Dot)]
                            [] i = 2 -> [nr |-> TTY_INODE, name |-> Tty0, mark |-> Length(Tty0)]
                            [] OTHER -> Free]
<1>2. /\ inodes \in [Inodes -> [i_mode : Modes, ext : 0 .. NrExtents]]
      /\ inodes[1].i_mode = DIRECTORY /\ inodes[2].i_mode = CHAR_SPECIAL
      /\ \A n \in Inodes \ {1, 2} : inodes[n].i_mode = "none"
      /\ \A n \in Inodes : inodes[n].ext = 0
  <2>1. 0 \in 0 .. NrExtents
    OBVIOUS
  <2>2. \A n \in Inodes :
          /\ n = 1 => inodes[n] = [i_mode |-> DIRECTORY, ext |-> 0]
          /\ n = 2 => inodes[n] = [i_mode |-> CHAR_SPECIAL, ext |-> 0]
          /\ n # 1 /\ n # 2 => inodes[n] = [i_mode |-> "none", ext |-> 0]
    BY <1>1 DEF Unused
  <2>. HIDE DEF inodes
  <2>3. \A n \in Inodes : inodes[n] \in [i_mode : Modes, ext : 0 .. NrExtents]
    BY <2>1, <2>2 DEF Modes
  <2>4. inodes = [n \in Inodes |-> inodes[n]]
    BY DEF inodes
  <2>. QED
    BY <1>1, <2>2, <2>3, <2>4
<1>3. /\ entries \in [1 .. MaxEntries -> EntryType]
      /\ entries[1].name = Dot /\ entries[2].name = Tty0
      /\ entries[1].nr = 1 /\ entries[2].nr = 2
  <2>1. Free \in EntryType
    BY <1>1 DEF Free, EntryType, MAX_FILENAME_LEN
  <2>2. \A i \in 1 .. MaxEntries :
          /\ i = 1 => entries[i] = [nr |-> 1, name |-> Dot, mark |-> Length(Dot)]
          /\ i = 2 => entries[i] = [nr |-> 2, name |-> Tty0, mark |-> Length(Tty0)]
          /\ i # 1 /\ i # 2 => entries[i] = Free
    BY <1>1
  <2>6. Length(Dot) \in 0 .. MAX_FILENAME_LEN /\ Length(Tty0) \in 0 .. MAX_FILENAME_LEN
    BY LengthOf
  <2>. HIDE DEF entries
  <2>3. \A i \in 1 .. MaxEntries :
          entries[i] \in EntryType
    BY <1>1, <2>1, <2>2, <2>6 DEF EntryType
  <2>4. entries = [i \in 1 .. MaxEntries |-> entries[i]]
    BY DEF entries
  <2>5. 1 \in 1 .. MaxEntries /\ 2 \in 1 .. MaxEntries
    OBVIOUS
  <2>. QED
    BY <2>2, <2>3, <2>4, <2>5
<1>4. Dot # Tty0
  BY DEF Dot, Tty0
<1>5. /\ MkfsDisk.imap = {0, 1, 2} /\ MkfsDisk.smap = {} /\ MkfsDisk.inodes = inodes
      /\ MkfsDisk.entries = entries /\ MkfsDisk.size = 2
      /\ MkfsDisk = [imap |-> {0, 1, 2}, smap |-> {}, inodes |-> inodes,
                     entries |-> entries, size |-> 2]
  BY <1>1 DEF MkfsDisk
<1>. HIDE DEF inodes, entries
<1>6. MkfsDisk \in Disks
  <2>1. 2 \in 0 .. MaxEntries - 1 /\ {0, 1, 2} \in SUBSET Numbers
    BY <1>1
  <2>. QED
    BY <1>2, <1>3, <1>5, <2>1 DEF Disks
<1>7. OneName(entries, 2)
  <2>1. \A i \in 1 .. 2 : i = 1 \/ i = 2
    OBVIOUS
  <2>2. \A i \in 1 .. 2 : entries[i].name # NoName
    BY <1>3, <2>1
  <2>3. \A i, j \in 1 .. 2 : i < j => entries[i].name # entries[j].name
    BY <1>3, <1>4, <2>1
  <2>. QED
    BY <2>2, <2>3 DEF OneName
<1>8. MapsAgree(MkfsDisk)
  <2>1. \A n \in Inodes : inodes[n].i_mode # REGULAR
    BY <1>2 DEF DIRECTORY, CHAR_SPECIAL, REGULAR
  <2>2. \A n \in Inodes \ {0, 1, 2} : inodes[n].i_mode = "none"
    BY <1>2
  <2>3. Listing(MkfsDisk)
    <3>1. \A i \in 1 .. 2 : i = 1 \/ i = 2
      OBVIOUS
    <3>. QED
      BY <1>3, <1>5, <3>1 DEF Listing, Entries
  <2>. QED
    BY <1>1, <1>2, <1>5, <2>1, <2>2, <2>3 DEF MapsAgree
<1>. QED
  BY <1>5, <1>6, <1>7, <1>8

----------------------------------------------------------------------------
\* The invariant.

\* What the requests that write nothing leave to show.
LEMMA InMemoryStep ==
  ASSUME DirectoryInv, NEW p \in Users, NEW path \in Paths,
         \/ OpenFull(p) \/ OpenUnfit(p) \/ OpenOld(p, path)
         \/ OpenExists(p, path) \/ UnlinkRefused(p, path)
         \/ UnlinkTableFull(p, path) \/ UnlinkKept(p, path)
  PROVE  UNCHANGED <<disk, pending, op, root_size, stop>>
<1>1. CASE OpenFull(p)
  BY <1>1 DEF OpenFull, Fail, Nothing
<1>7. CASE OpenUnfit(p)
  BY <1>7 DEF OpenUnfit, Fail, Nothing
<1>2. CASE OpenOld(p, path)
  BY <1>2 DEF OpenOld, InMemory, Fail, Nothing
<1>3. CASE OpenExists(p, path)
  BY <1>3 DEF OpenExists, InMemory, Nothing
<1>4. CASE UnlinkRefused(p, path)
  BY <1>4 DEF UnlinkRefused, InMemory
<1>5. CASE UnlinkTableFull(p, path)
  BY <1>5 DEF UnlinkTableFull, Fail
<1>6. CASE UnlinkKept(p, path)
  BY <1>6 DEF UnlinkKept, InMemory
<1>. QED
  BY <1>1, <1>2, <1>3, <1>4, <1>5, <1>6, <1>7

\* The initial states.
LEMMA FsInit_FsInv == FsInit => FsInv
<1>. SUFFICES ASSUME FsInit PROVE FsInv
  OBVIOUS
<1>1. /\ disk = MkfsDisk /\ pending = <<>> /\ root_size = disk.size /\ Target = disk
      /\ inode_table = InitInodes /\ f_desc_table = InitDescs /\ filp = InitFilp
  BY DEF FsInit, Target
<1>2. DirectoryInv
  <2>1. pending \in Seq(Disks) /\ Len(pending) = 0
    BY <1>1
  <2>. QED
    BY <1>1, <2>1, Mkfs DEF DirectoryInv
<1>3. MapsInv
  <2>1. Len(pending) = 0
    BY <1>1
  <2>. QED
    BY <1>1, <2>1, Mkfs DEF MapsInv
<1>4. TablesInv
  BY <1>1, InitTables, Mkfs DEF Initialised
<1>5. FreedOnce
  BY Zenon DEF FreedOnce, FsInit
<1>. QED
  BY <1>2, <1>3, <1>4, <1>5 DEF FsInv

\* Actions that look at no path are joined with those that do.
LEMMA SlashIsPath == Slash \in Paths
  BY DEF Paths

\* Whatever happens to the power, the directory stays as it should be.
LEMMA DirectoryStep == DirectoryInv /\ [FsNext]_fsVars => DirectoryInv'
<1>. SUFFICES ASSUME DirectoryInv, [FsNext]_fsVars PROVE DirectoryInv'
  OBVIOUS
<1>1. ASSUME NEW p \in Users, NEW path \in Paths,
             \/ OpenFull(p) \/ OpenUnfit(p) \/ OpenOld(p, path)
             \/ OpenExists(p, path)
             \/ UnlinkRefused(p, path) \/ UnlinkTableFull(p, path) \/ UnlinkKept(p, path)
      PROVE  DirectoryInv'
  <2>1. UNCHANGED <<disk, pending, op, root_size, stop>>
    BY <1>1, InMemoryStep
  <2>. QED
    BY <2>1, WritesNothing
<1>2. ASSUME NEW p \in Users, NEW path \in Paths,
             \/ CreateNoRoom(p, path) \/ CreateTableFull(p, path)
             \/ CreateNoInode(p, path) \/ Create(p, path) \/ Unlink(p, path)
      PROVE  DirectoryInv'
  BY <1>2, CreateNoRoomWrites, CreateTableFullWrites, CreateNoInodeWrites, CreateWrites,
     UnlinkWrites
<1>3. ASSUME NEW p \in Users, NEW fd \in Fds, Close(p, fd) \/ Rdwt(p, fd)
      PROVE  DirectoryInv'
  <2>1. UNCHANGED <<disk, pending, op, root_size>>
    BY <1>3 DEF Close, Rdwt, InMemory, Fail, Nothing
  <2>. QED
    BY <2>1, WritesNothing
<1>4. ASSUME NEW p \in Users, NEW child \in Users, Fork(p, child) PROVE DirectoryInv'
  <2>1. UNCHANGED <<disk, pending, op, root_size>>
    BY <1>4 DEF Fork, InMemory
  <2>. QED
    BY <2>1, WritesNothing
<1>5. CASE Flush
  BY <1>5, FlushDisk
<1>6. CASE Reboot
  <2>1. disk' = disk /\ pending' = <<>> /\ root_size' = disk.size
    BY <1>6 DEF Reboot
  <2>2. Len(pending') = 0 /\ pending' \in Seq(Disks) /\ Target' = disk'
    BY <2>1 DEF Target
  <2>. QED
    BY <2>1, <2>2 DEF DirectoryInv
<1>7. CASE UNCHANGED fsVars
  <2>1. UNCHANGED <<disk, pending, op, root_size>>
    BY <1>7 DEF fsVars
  <2>. QED
    BY <2>1, WritesNothing
<1>8. ASSUME NEW p \in Users, OpenFull(p) \/ OpenUnfit(p) PROVE DirectoryInv'
  BY <1>1, <1>8, SlashIsPath
<1>. QED
  BY <1>1, <1>2, <1>3, <1>4, <1>5, <1>6, <1>7, <1>8 DEF FsNext

\* The requests that change no table and stop the system with none of the assertions
\* of do_unlink().
LEMMA KeptStep ==
  ASSUME FsInv, NEW p \in Users, NEW path \in Paths,
         \/ OpenFull(p) \/ OpenUnfit(p) \/ OpenExists(p, path)
         \/ UnlinkRefused(p, path) \/ UnlinkTableFull(p, path)
         \/ CreateNoRoom(p, path) \/ CreateTableFull(p, path) \/ CreateNoInode(p, path)
  PROVE  TablesInv' /\ FreedOnce'
<1>1. /\ failed = "no" /\ stop = "no" /\ DirectoryInv /\ TablesInv
      /\ UNCHANGED <<inode_table, f_desc_table, filp>>
  BY DEF OpenFull, OpenUnfit, OpenExists, UnlinkRefused, UnlinkTableFull, Found, Unlinking,
         CreateNoRoom, CreateTableFull, CreateNoInode, Creating, Request, Ready, Nothing,
         FsInv
<1>2. Target'.inodes = Target.inodes
  <2>1. CASE CreateNoRoom(p, path) \/ CreateTableFull(p, path) \/ CreateNoInode(p, path)
    BY <1>1, <2>1, CreateNoRoomWrites, CreateTableFullWrites, CreateNoInodeWrites
  <2>2. CASE \/ OpenFull(p) \/ OpenUnfit(p) \/ OpenExists(p, path)
             \/ UnlinkRefused(p, path) \/ UnlinkTableFull(p, path)
    <3>1. UNCHANGED <<disk, pending, op, root_size, stop>>
      BY <1>1, <2>2, InMemoryStep
    <3>. QED
      BY <1>1, <3>1, WritesNothing
  <2>. QED
    BY <2>1, <2>2
<1>3. TablesInv'
  BY <1>1, <1>2, TablesKept
<1>4. /\ failed' \in {"no", "table full", "open.c:61", "inode table full"}
      /\ stop' \in {"no", "open.c:175", "inode table full"}
  BY <1>1, Zenon DEF OpenFull, OpenUnfit, OpenExists, UnlinkRefused, UnlinkTableFull,
         CreateNoRoom, CreateTableFull, CreateNoInode, InMemory, Fail, ToDisk
<1>5. FreedOnce'
  BY <1>4, Zenon DEF FreedOnce
<1>. QED
  BY <1>3, <1>5

\* With no power lost in a removal, all is kept.
LEMMA FsStep ==
  ASSUME CrashIn \subseteq {"create"}, FsInv, [FsNext]_fsVars
  PROVE  FsInv'
<1>1. DirectoryInv /\ MapsInv /\ TablesInv /\ FreedOnce
  BY DEF FsInv
<1>2. DirectoryInv'
  BY <1>1, DirectoryStep
<1>3. ASSUME NEW p \in Users, NEW path \in Paths,
             \/ OpenFull(p) \/ OpenUnfit(p) \/ OpenExists(p, path)
             \/ UnlinkRefused(p, path) \/ UnlinkTableFull(p, path)
      PROVE  FsInv'
  <2>1. UNCHANGED <<disk, pending, op, root_size, stop>>
    BY <1>1, <1>3, InMemoryStep
  <2>2. MapsInv'
    BY <1>1, <2>1, WritesNothing
  <2>3. TablesInv' /\ FreedOnce'
    BY <1>3, KeptStep
  <2>. QED
    BY <1>2, <2>2, <2>3 DEF FsInv
<1>4. ASSUME NEW p \in Users, NEW path \in Paths,
             CreateNoRoom(p, path) \/ CreateTableFull(p, path) \/ CreateNoInode(p, path)
      PROVE  FsInv'
  <2>1. MapsInv'
    BY <1>1, <1>4, CreateNoRoomWrites, CreateTableFullWrites, CreateNoInodeWrites
  <2>2. TablesInv' /\ FreedOnce'
    BY <1>4, KeptStep
  <2>. QED
    BY <1>2, <2>1, <2>2 DEF FsInv
<1>5. ASSUME NEW p \in Users, NEW path \in Paths, OpenOld(p, path) PROVE FsInv'
  <2>1. UNCHANGED <<disk, pending, op, root_size, stop>>
    BY <1>1, <1>5, InMemoryStep
  <2>2. MapsInv'
    BY <1>1, <2>1, WritesNothing
  <2>3. TablesInv' /\ FreedOnce'
    BY <1>1, <1>5, OpenOldTables, Zenon DEF FreedOnce
  <2>. QED
    BY <1>2, <2>2, <2>3 DEF FsInv
<1>6. ASSUME NEW p \in Users, NEW path \in Paths, UnlinkKept(p, path) PROVE FsInv'
  <2>1. UNCHANGED <<disk, pending, op, root_size, stop>>
    BY <1>1, <1>6, InMemoryStep
  <2>2. MapsInv' /\ TablesInv'
    BY <1>1, <1>6, <2>1, WritesNothing, UnlinkKeptTables
  <2>3. FreedOnce'
    BY <1>1, <1>6, <2>1, Zenon DEF FreedOnce, UnlinkKept, InMemory
  <2>. QED
    BY <1>2, <2>2, <2>3 DEF FsInv
<1>7. ASSUME NEW p \in Users, NEW path \in Paths, Create(p, path) PROVE FsInv'
  <2>1. MapsInv' /\ TablesInv' /\ UNCHANGED failed /\ stop' = "no"
    BY <1>1, <1>7, CreateWrites, CreateTables
  <2>2. FreedOnce'
    BY <1>1, <2>1, Zenon DEF FreedOnce
  <2>. QED
    BY <1>2, <2>1, <2>2 DEF FsInv
<1>8. ASSUME NEW p \in Users, NEW path \in Paths, Unlink(p, path) PROVE FsInv'
  <2>1. MapsInv' /\ TablesInv' /\ failed' = "no" /\ stop' \in {"no", "link.c:144"}
    BY <1>1, <1>8, UnlinkTables
  <2>2. FreedOnce'
    BY <2>1, Zenon DEF FreedOnce
  <2>. QED
    BY <1>2, <2>1, <2>2 DEF FsInv
<1>9. ASSUME NEW p \in Users, NEW fd \in Fds, Close(p, fd) PROVE FsInv'
  <2>1. /\ TablesInv' /\ UNCHANGED <<disk, pending, op, root_size, stop>>
        /\ failed' \in {"no", "main.c:266"}
    BY <1>1, <1>9, CloseTables
  <2>2. MapsInv'
    BY <1>1, <2>1, WritesNothing
  <2>3. FreedOnce'
    BY <1>1, <2>1, Zenon DEF FreedOnce
  <2>. QED
    BY <1>2, <2>1, <2>2, <2>3 DEF FsInv
<1>10. ASSUME NEW p \in Users, NEW fd \in Fds, Rdwt(p, fd) PROVE FsInv'
  <2>1. /\ UNCHANGED <<disk, pending, op, root_size, stop, inode_table, f_desc_table, filp>>
        /\ failed = "no" /\ failed' \in {"no", "read_write.c:21", "read_write.c:33"}
    BY <1>10, Zenon DEF Rdwt, Request, Ready, Fail, InMemory, Nothing
  <2>2. MapsInv' /\ Target' = Target
    BY <1>1, <2>1, WritesNothing
  <2>3. TablesInv'
    BY <1>1, <2>1, <2>2, TablesKept
  <2>4. FreedOnce'
    BY <1>1, <2>1, Zenon DEF FreedOnce
  <2>. QED
    BY <1>2, <2>2, <2>3, <2>4 DEF FsInv
<1>11. ASSUME NEW p \in Users, NEW child \in Users, Fork(p, child) PROVE FsInv'
  <2>1. TablesInv' /\ UNCHANGED <<disk, pending, op, root_size, failed, stop>>
    BY <1>1, <1>11, ForkTables
  <2>2. MapsInv'
    BY <1>1, <2>1, WritesNothing
  <2>3. FreedOnce'
    BY <1>1, <2>1, Zenon DEF FreedOnce
  <2>. QED
    BY <1>2, <2>1, <2>2, <2>3 DEF FsInv
<1>12. CASE Flush
  <2>1. /\ UNCHANGED <<inode_table, f_desc_table, filp, stop>> /\ failed = "no"
        /\ failed' \in {failed, stop}
    BY <1>12 DEF Flush
  <2>2. MapsInv' /\ Target' = Target
    BY <1>1, <1>12, FlushDisk
  <2>3. TablesInv'
    BY <1>1, <2>1, <2>2, TablesKept
  <2>4. FreedOnce'
    BY <1>1, <2>1, Zenon DEF FreedOnce
  <2>. QED
    BY <1>2, <2>2, <2>3, <2>4 DEF FsInv
<1>13. CASE Reboot
  <2>1. /\ disk' = disk /\ pending' = <<>>
        /\ inode_table' = InitInodes /\ f_desc_table' = InitDescs /\ filp' = InitFilp
        /\ failed' = "no" /\ stop' = "no"
        /\ pending # <<>> => op.kind \in CrashIn
    BY <1>13 DEF Reboot
  <2>2. MapsAgree(disk)
    <3>1. CASE pending = <<>>
      BY <1>1, <3>1, Quiet
    <3>2. CASE pending # <<>>
      <4>1. op.kind = "create"
        BY <2>1, <3>2
      <4>. QED
        BY <1>1, <4>1 DEF MapsInv
    <3>. QED
      BY <3>1, <3>2
  <2>3. Target' = disk' /\ Len(pending') = 0
    BY <2>1 DEF Target
  <2>4. MapsInv' /\ MapsAgree(Target')
    BY <2>1, <2>2, <2>3 DEF MapsInv
  <2>5. TablesInv'
    <3>1. Initialised'
      BY <2>1, <2>4 DEF Initialised
    <3>. QED
      BY <3>1, InitTables, PTL
  <2>6. FreedOnce'
    BY <2>1, Zenon DEF FreedOnce
  <2>. QED
    BY <1>2, <2>4, <2>5, <2>6 DEF FsInv
<1>14. CASE UNCHANGED fsVars
  <2>1. UNCHANGED <<disk, pending, op, root_size, inode_table, f_desc_table, filp,
                    failed, stop>>
    BY <1>14 DEF fsVars
  <2>2. MapsInv' /\ Target' = Target
    BY <1>1, <2>1, WritesNothing
  <2>3. TablesInv'
    BY <1>1, <2>1, <2>2, TablesKept
  <2>4. FreedOnce'
    BY <1>1, <2>1, Zenon DEF FreedOnce
  <2>. QED
    BY <1>2, <2>2, <2>3, <2>4 DEF FsInv
<1>15. ASSUME NEW p \in Users, OpenFull(p) \/ OpenUnfit(p) PROVE FsInv'
  BY <1>3, <1>15, SlashIsPath
<1>. QED
  BY <1>3, <1>4, <1>5, <1>6, <1>7, <1>8, <1>9, <1>10, <1>11, <1>12, <1>13, <1>14, <1>15
     DEF FsNext

\* From the initial states on, if no power is lost in a removal.
LEMMA FsInvariant ==
  ASSUME CrashIn \subseteq {"create"}
  PROVE  FsSpec => []FsInv
<1>1. FsInv /\ [FsNext]_fsVars => FsInv'
  BY FsStep
<1>. QED
  BY <1>1, FsInit_FsInv, PTL DEF FsSpec

----------------------------------------------------------------------------
\* The theorems.

\* The names of the directory that lead to a file: those search_file() can find.
NamesUnique(d) ==
  \A i, j \in Entries(d) :
    /\ d.entries[i].name = d.entries[j].name
    /\ Clean(d.entries[i]) /\ Clean(d.entries[j])
    => i = j

\* Names are unique on a disk that may be there, or will be.
LEMMA DirectoryIs ==
  ASSUME DirectoryInv
  PROVE  /\ NamesUnique(disk) /\ NamesUnique(Target)
         /\ disk \in Disks /\ Target \in Disks
<1>1. ASSUME NEW d \in Disks, OneName(d.entries, d.size)
      PROVE  NamesUnique(d)
  <2>1. d.size \in 0 .. MaxEntries - 1
    BY DEF Disks
  <2>2. ASSUME NEW i \in Entries(d), NEW j \in Entries(d),
               d.entries[i].name = d.entries[j].name,
               Clean(d.entries[i]), Clean(d.entries[j])
        PROVE  i = j
    <3>1. /\ i \in 1 .. d.size /\ j \in 1 .. d.size
          /\ d.entries[i].nr # 0 /\ d.entries[j].nr # 0
      BY DEF Entries
    <3>2. ~(i < j) /\ ~(j < i)
      BY <1>1, <2>2, <3>1 DEF OneName
    <3>. QED
      BY <2>1, <3>1, <3>2
  <2>. QED
    BY <2>2 DEF NamesUnique
<1>2. NamesUnique(disk)
  BY <1>1 DEF DirectoryInv
<1>3. NamesUnique(Target) /\ Target \in Disks
  <2>1. CASE pending = <<>>
    BY <1>2, <2>1 DEF Target, DirectoryInv
  <2>2. CASE pending # <<>>
    <3>1. PICK q \in Seq(Disks) : q = pending /\ q # <<>>
      BY <2>2 DEF DirectoryInv
    <3>2. Len(q) \in 1 .. Len(q) /\ q[Len(q)] \in Disks
      BY <3>1
    <3>3. Target = q[Len(q)]
      BY <2>2, <3>1 DEF Target, Last
    <3>4. OneName(q[Len(q)].entries, q[Len(q)].size)
      BY <3>1, <3>2 DEF DirectoryInv
    <3>. QED
      BY <1>1, <3>2, <3>3, <3>4
  <2>. QED
    BY <2>1, <2>2
<1>. QED
  BY <1>2, <1>3 DEF DirectoryInv

\* search_file() and new_dir_entry() keep the directory a map from names to inodes, on
\* the disk as it is between any two sectors and as it will be, wherever the power
\* fails, whatever entries do_unlink() cuts off, and whatever longer names are written
\* over.
THEOREM DirectoryIsMap ==
  FsSpec => [](NamesUnique(disk) /\ NamesUnique(Target))
<1>1. FsInit => DirectoryInv
  BY FsInit_FsInv DEF FsInv
<1>2. DirectoryInv => NamesUnique(disk) /\ NamesUnique(Target)
  BY DirectoryIs
<1>. QED
  BY <1>1, <1>2, DirectoryStep, PTL DEF FsSpec

\* get_inode(), put_inode() and fs_fork() count the descriptors that lead to an inode, so
\* that do_unlink() refuses it and its slot is not given away (open.c, main.c, misc.c).
THEOREM DescriptorsStayBacked ==
  ASSUME CrashIn \subseteq {"create"}
  PROVE  FsSpec => []DescriptorsBacked
<1>1. FsInv => DescriptorsBacked
  BY DEF FsInv, TablesInv
<1>. QED
  BY <1>1, FsInvariant, PTL

\* get_inode() never reads an inode twice: it is in one slot at most, with the mode
\* the disk will have when the request in progress has written it.
THEOREM InodesCachedOnce ==
  ASSUME CrashIn \subseteq {"create"}
  PROVE  FsSpec => []CachedOnce
<1>1. FsInv => CachedOnce
  BY DEF FsInv, TablesInv
<1>. QED
  BY <1>1, FsInvariant, PTL

\* creat_file() and do_unlink() keep the maps and the inodes together: no two files
\* share an extent, what a file uses is taken, and free inodes are unused.
THEOREM MapsStayExact ==
  ASSUME CrashIn \subseteq {"create"}
  PROVE  FsSpec => []MapsAgree(Target)
<1>1. FsInv => MapsAgree(Target)
  BY DEF FsInv, MapsInv
<1>. QED
  BY <1>1, FsInvariant, PTL

\* DirectorySound() of a disk whose maps agree and whose names are unique.
LEMMA SoundIs ==
  ASSUME NEW d \in Disks, MapsAgree(d), NamesUnique(d)
  PROVE  DirectorySound(d, {})
<1>1. ASSUME NEW i \in Entries(d), NEW j \in Entries(d), i # j
      PROVE  /\ d.entries[j].nr # d.entries[i].nr
             /\ Clean(d.entries[i]) /\ Clean(d.entries[j])
                  => d.entries[j].name # d.entries[i].name
  BY <1>1 DEF MapsAgree, Listing, NamesUnique
<1>2. ASSUME NEW i \in Entries(d)
      PROVE  d.entries[i].nr \in d.imap /\ d.entries[i].nr \in Inodes
  <2>1. i \in 1 .. d.size /\ d.entries[i].nr # 0 /\ d.size \in 0 .. MaxEntries - 1
    BY DEF Entries, Disks
  <2>2. i \in 1 .. MaxEntries
    BY <2>1, Bounds
  <2>3. d.entries[i].nr \in Numbers \ {0}
    BY <2>1, <2>2 DEF Disks, EntryType
  <2>. QED
    BY <2>3, Bounds DEF MapsAgree, Listing, Numbers, Inodes
<1>3. ASSUME NEW i \in Entries(d), NEW j \in Entries(d), i # j,
             d.inodes[d.entries[i].nr].i_mode = REGULAR
      PROVE  /\ d.inodes[d.entries[i].nr].ext \in d.smap
             /\ d.inodes[d.entries[j].nr].ext # d.inodes[d.entries[i].nr].ext
  <2>1. /\ d.entries[i].nr \in Inodes /\ d.entries[j].nr \in Inodes
        /\ d.entries[i].nr # d.entries[j].nr
    BY <1>1, <1>2, <1>3
  <2>2. PICK n \in Inodes, m \in Inodes :
          n = d.entries[i].nr /\ m = d.entries[j].nr /\ n # m
    BY <2>1
  <2>3. d.inodes[n].i_mode = REGULAR /\ d.inodes[n].ext \in d.smap /\ d.inodes[n].ext # 0
    BY <1>3, <2>2 DEF MapsAgree, Disks
  <2>4. CASE d.inodes[m].i_mode = REGULAR
    BY <2>2, <2>3, <2>4 DEF MapsAgree
  <2>5. CASE d.inodes[m].i_mode # REGULAR
    BY <2>2, <2>3, <2>5 DEF MapsAgree
  <2>. QED
    BY <2>2, <2>3, <2>4, <2>5
<1>4. ASSUME NEW i \in Entries(d), d.inodes[d.entries[i].nr].i_mode = REGULAR
      PROVE  d.inodes[d.entries[i].nr].ext \in d.smap
  BY <1>2, <1>4 DEF MapsAgree
<1>. QED
  BY <1>1, <1>2, <1>3, <1>4 DEF DirectorySound

\* What a restart finds, but for the moments within a removal: every file has one name
\* at most, an inode and sectors of its own, all marked as taken (open.c, link.c).
THEOREM DirectoryStaysSound ==
  ASSUME CrashIn \subseteq {"create"}
  PROVE  FsSpec => [](/\ DirectorySound(Target, {})
                      /\ op.kind # "unlink" => DirectorySound(disk, {}))
<1>1. FsInv => /\ DirectorySound(Target, {})
               /\ op.kind # "unlink" => DirectorySound(disk, {})
  <2>. SUFFICES ASSUME FsInv
                PROVE  /\ DirectorySound(Target, {})
                       /\ op.kind # "unlink" => DirectorySound(disk, {})
    OBVIOUS
  <2>1. /\ NamesUnique(disk) /\ NamesUnique(Target)
        /\ disk \in Disks /\ Target \in Disks
    BY DirectoryIs DEF FsInv
  <2>2. MapsAgree(Target) /\ (op.kind # "unlink" => MapsAgree(disk))
    BY DEF FsInv, MapsInv
  <2>. QED
    BY <2>1, <2>2, SoundIs
<1>. QED
  BY <1>1, FsInvariant, PTL

\* The bound MaxEntries keeps no file from being created: each entry leads to an inode of
\* its own, and new_dir_entry() uses a cleared entry before it adds one.
THEOREM DirectoryFits ==
  ASSUME CrashIn \subseteq {"create"}
  PROVE  FsSpec => [](pending = <<>> => EntryFor < MaxEntries)
<1>1. FsInv => (pending = <<>> => EntryFor < MaxEntries)
  BY Quiet, Fits DEF FsInv, MapsAgree
<1>. QED
  BY <1>1, FsInvariant, PTL

\* do_unlink() frees only what is taken: its assertions at link.c:64 and link.c:79 hold.
THEOREM RemovalFreesTaken ==
  ASSUME CrashIn \subseteq {"create"}
  PROVE  FsSpec => [](failed \notin {"link.c:64", "link.c:79"})
<1>1. FsInv => failed \notin {"link.c:64", "link.c:79"}
  BY Zenon DEF FsInv, FreedOnce
<1>. QED
  BY <1>1, FsInvariant, PTL
=============================================================================
