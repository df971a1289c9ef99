--------------------------------- MODULE Fs ---------------------------------
(***************************************************************************)
(* The file system's tables and what it keeps on the disk: task_fs with    *)
(* do_open, do_close, do_unlink, fs_fork and the part of do_rdwt that      *)
(* looks at the tables (fs/main.c, fs/open.c, fs/link.c, fs/misc.c,        *)
(* fs/read_write.c).                                                       *)
(*                                                                         *)
(* FS serves one request at a time, so what a request does to the tables   *)
(* is one step.  What it does to the disk is one WR_SECT after another:    *)
(* the request leaves the states the disk goes through in pending, Flush   *)
(* takes them one by one, and the power may fail between two of them.      *)
(*                                                                         *)
(* All files have the size NR_DEFAULT_FILE_SECTS, so the sector map is a   *)
(* set of extents here; module Smap has its bits.  A path is a file name   *)
(* in the root directory, "/" itself, or one strip_path refuses.  A name   *)
(* has a length, and the field for it in an entry a mark: up to where it   *)
(* has bytes that are not 0, of this name or of one written there before.  *)
(***************************************************************************)
EXTENDS Naturals, Sequences, FiniteSetsExt, SequencesExt

CONSTANTS
  Users,         \* slots of proc_table for user processes
  Founder,       \* the one there is from the start; the others are forked
  Fds,           \* 0 .. NR_FILES - 1
  NR_FILE_DESC, NR_INODE,
  Names,         \* file names processes use
  NameLength,    \* how many characters each of them has
  NrInodes,      \* bits of the inode map
  NrExtents,     \* room for files in the sector map
  PerSector,     \* directory entries in a sector
  CrashIn,       \* kinds of request the power may fail in
  MaxCount,      \* bound: i_cnt
  MaxReboots     \* bound: restarts

ROOT_INODE == 1
TTY_INODE == 2                     \* dev_tty0; mkfs makes one per console
Dot == "."
Tty0 == "dev_tty0"
Slash == "/"
MAX_FILENAME_LEN == 12
Deep == "a/b"                      \* a path strip_path refuses
NoName == ""                       \* in a cleared directory entry
Paths == Names \union {Dot, Tty0, Slash, Deep}

ASSUME FsAssumption ==
  /\ Founder \in Users /\ NameLength \in [Names -> 1 .. MAX_FILENAME_LEN]
  /\ Names \intersect {Dot, Tty0, Slash, Deep, NoName} = {}
  /\ IsFiniteSet(Fds) /\ Fds = 0 .. Cardinality(Fds) - 1
  /\ NR_FILE_DESC \in Nat \ {0} /\ NR_INODE \in Nat \ {0}
  /\ NrInodes \in Nat /\ NrInodes > TTY_INODE
  /\ NrExtents \in Nat \ {0} /\ PerSector \in Nat \ {0}
  /\ CrashIn \subseteq {"create", "unlink"}
  /\ MaxCount \in Nat /\ MaxReboots \in Nat

Inodes == 1 .. NrInodes - 1
Slots == 1 .. NR_INODE
Descs == 1 .. NR_FILE_DESC
MaxEntries == NrInodes + 1         \* bound: entries there is room for
DIRECTORY == "directory"
CHAR_SPECIAL == "char_special"
REGULAR == "regular"

VARIABLES
  disk,          \* imap, smap, inodes, the root directory and its i_size
  pending,       \* the states of the disk the request in progress will make
  op,            \* the request pending belongs to: "create", "unlink" or "none"; its
                 \* path, and the inode the path shall lead to in the end, or 0
  inode_table,   \* per slot: i_cnt, i_num, i_mode
  root_size,     \* root_inode->i_size, in directory entries
  f_desc_table,  \* per descriptor: the slot of fd_inode, or 0
  filp,          \* per process and fd: the descriptor, or 0
  alive,         \* the processes there are
  failed,        \* the assertion or panic that stopped the system, or "no"
  stop,          \* the one that will when pending is empty
  reboots

fsVars == <<disk, pending, op, inode_table, root_size, f_desc_table, filp,
            alive, failed, stop, reboots>>

Free == [nr |-> 0, name |-> NoName, mark |-> 0]

Length(name) ==
  CASE name = NoName -> 0 [] name = Dot -> 1 [] name = Tty0 -> 8
    [] OTHER -> NameLength[name]

\* Nothing of an older name is left behind the name of the entry.
Clean(entry) == entry.mark = Length(entry.name)
Unused == [i_mode |-> "none", ext |-> 0]

\* mkfs(): the directory holds "." and the terminal.
MkfsDisk ==
  [imap    |-> {0, ROOT_INODE, TTY_INODE},
   smap    |-> {},
   inodes  |-> [n \in Inodes |->
                  CASE n = ROOT_INODE -> [i_mode |-> DIRECTORY, ext |-> 0]
                    [] n = TTY_INODE -> [i_mode |-> CHAR_SPECIAL, ext |-> 0]
                    [] OTHER -> Unused],
   entries |-> [i \in 1 .. MaxEntries |->
                  CASE i = 1 -> [nr |-> ROOT_INODE, name |-> Dot, mark |-> Length(Dot)]
                    [] i = 2 -> [nr |-> TTY_INODE, name |-> Tty0, mark |-> Length(Tty0)]
                    [] OTHER -> Free],
   size    |-> 2]

NoOp == [kind |-> "none", path |-> Slash, nr |-> 0]

EmptySlot == [i_cnt |-> 0, i_num |-> 0, i_mode |-> "none"]

\* init_fs(): the tables are empty but for the root directory.
InitInodes ==
  [s \in Slots |->
     IF s = 1 THEN [i_cnt |-> 1, i_num |-> ROOT_INODE, i_mode |-> DIRECTORY]
              ELSE EmptySlot]
InitDescs == [d \in Descs |-> 0]
InitFilp == [p \in Users |-> [fd \in Fds |-> 0]]

FsInit ==
  /\ disk = MkfsDisk /\ pending = <<>> /\ op = NoOp
  /\ inode_table = InitInodes /\ root_size = MkfsDisk.size
  /\ f_desc_table = InitDescs /\ filp = InitFilp
  /\ alive = {Founder}
  /\ failed = "no" /\ stop = "no"
  /\ reboots = 0

----------------------------------------------------------------------------
\* Helpers of the file system, on the disk d as the request sees it.

\* search_file(): the entries memcmp() sees, one beyond i_size if the last sector
\* has room for it; the first that bears the name, in all the bytes of its field.
Seen == 1 .. Min({root_size + 1,
                  PerSector * ((root_size + PerSector - 1) \div PerSector)})

search_file(path) ==
  IF path = Slash THEN ROOT_INODE
  ELSE LET at == {i \in Seen : disk.entries[i].name = path /\ Clean(disk.entries[i])} IN
       IF at = {} THEN 0 ELSE disk.entries[Min(at)].nr

strip_path_fails(path) == path = Deep

\* get_inode(): the slot that caches inode num, or the first free one.
Cached(num) == {s \in Slots : inode_table[s].i_cnt > 0 /\ inode_table[s].i_num = num}
FreeSlots == {s \in Slots : inode_table[s].i_cnt = 0}
InodeTableFull(num) == Cached(num) = {} /\ FreeSlots = {}
SlotFor(num) == Min(IF Cached(num) # {} THEN Cached(num) ELSE FreeSlots)

\* Variant with a fault: an inode that is in the table is not counted.
get_inode_uncounted(num) ==
  IF Cached(num) # {} THEN inode_table
  ELSE [inode_table EXCEPT ![SlotFor(num)] =
          [i_cnt |-> 1, i_num |-> num, i_mode |-> disk.inodes[num].i_mode]]

get_inode(num) ==
  LET s == SlotFor(num) IN
  [inode_table EXCEPT ![s] =
     IF Cached(num) # {} THEN [inode_table[s] EXCEPT !.i_cnt = @ + 1]
     ELSE [i_cnt |-> 1, i_num |-> num, i_mode |-> disk.inodes[num].i_mode]]

\* alloc_imap_bit() of a full map is 0, not the panic below its loop.
alloc_imap_bit ==
  LET free == (0 .. NrInodes - 1) \ disk.imap IN IF free = {} THEN 0 ELSE Min(free)

FreeExtents == (1 .. NrExtents) \ disk.smap

\* new_dir_entry(): the first free entry, or one more.
EntryFor ==
  LET free == {i \in 1 .. root_size : disk.entries[i].nr = 0} IN
  IF free = {} THEN root_size + 1 ELSE Min(free)

\* Variant with a fault: the sector of the directory is not written.
new_dir_entry_unwritten(entries, i, num, name) == entries

\* strcpy() writes the name and its NUL and leaves the bytes behind them; of a name
\* as long as the field it puts the NUL into the inode_nr of the next entry.
new_dir_entry(entries, i, num, name) ==
  [j \in DOMAIN entries |->
     CASE j = i -> [nr |-> num, name |-> name,
                    mark |-> IF entries[i].mark > Length(name) + 1
                             THEN entries[i].mark ELSE Length(name)]
       [] j = i + 1 /\ Length(name) = MAX_FILENAME_LEN /\ i % PerSector # 0 ->
            [entries[j] EXCEPT !.nr = 0]
       [] OTHER -> entries[j]]

FreeFds(p) == {fd \in Fds : filp[p][fd] = 0}
FreeDescs == {d \in Descs : f_desc_table[d] = 0}

----------------------------------------------------------------------------
\* Requests.
Ready == failed = "no" /\ stop = "no" /\ pending = <<>>

Request(p) == Ready /\ p \in alive

Fail(what) == failed' = what /\ UNCHANGED <<disk, pending, op, stop>>

\* The request ends without touching the disk.
InMemory == UNCHANGED <<disk, pending, op, failed, stop>>

\* The request makes these states of the disk, so that path leads to nr; then it is
\* answered, or what # "no" stops the system.
ToDisk(kind, path, nr, states, what) ==
  /\ op' = [kind |-> kind, path |-> path, nr |-> nr] /\ pending' = states /\ stop' = what
  /\ UNCHANGED <<disk, failed>>

Nothing == UNCHANGED <<inode_table, root_size, f_desc_table, filp>>

\* do_open(), lines 71-90, once pin is slot s.
Install(p, s) ==
  LET d == Min(FreeDescs) IN
  /\ f_desc_table' = [f_desc_table EXCEPT ![d] = s]
  /\ filp' = [filp EXCEPT ![p][Min(FreeFds(p))] = d]

TablesFull(p) == FreeFds(p) = {} \/ FreeDescs = {}

OpenFull(p) ==
  /\ Request(p) /\ TablesFull(p)
  /\ Fail("table full") /\ Nothing
  /\ UNCHANGED <<alive, reboots>>

\* do_open() with neither O_CREAT nor O_RDWR: assertion open.c:61.
OpenUnfit(p) ==
  /\ Request(p) /\ ~TablesFull(p)
  /\ Fail("open.c:61") /\ Nothing
  /\ UNCHANGED <<alive, reboots>>

\* do_open() without O_CREAT.
OpenOld(p, path) ==
  /\ Request(p) /\ ~TablesFull(p)
  /\ LET num == search_file(path) IN
     CASE strip_path_fails(path) \/ num = 0 -> InMemory /\ Nothing
       [] num # 0 /\ InodeTableFull(num) -> Fail("inode table full") /\ Nothing
       [] OTHER ->
            LET s == SlotFor(num) IN
            /\ inode_table[s].i_cnt < MaxCount
            /\ inode_table' = get_inode(num)
            /\ Install(p, s) /\ UNCHANGED root_size
            /\ CASE inode_table'[s].i_mode = DIRECTORY -> Fail("open.c:88")
                 [] inode_table'[s].i_mode = "none" -> Fail("open.c:90")
                 [] OTHER -> InMemory
  /\ UNCHANGED <<alive, reboots>>

\* do_open() with O_CREAT: the file is there already, or the path is refused, or
\* creat_file() writes the inode map, the sector map, the inode, the directory
\* entry and the directory's size.
OpenExists(p, path) ==
  /\ Request(p) /\ ~TablesFull(p)
  /\ search_file(path) # 0 \/ strip_path_fails(path)
  /\ InMemory /\ Nothing
  /\ UNCHANGED <<alive, reboots>>

Creating(p, path) ==
  /\ Request(p) /\ ~TablesFull(p)
  /\ search_file(path) = 0 /\ ~strip_path_fails(path) /\ EntryFor < MaxEntries
  /\ UNCHANGED <<alive, reboots>>

WithImap(num) == [disk EXCEPT !.imap = @ \union {num}]

\* Variant with a fault: the sector map is not written.
WithoutSmap(num, e) == WithImap(num)

WithSmap(num, e) == [WithImap(num) EXCEPT !.smap = @ \union {e}]

\* Assertion open.c:175: no room in the sector map.
CreateNoRoom(p, path) ==
  /\ Creating(p, path) /\ FreeExtents = {}
  /\ ToDisk("create", path, 0, <<WithImap(alloc_imap_bit)>>, "open.c:175")
  /\ Nothing

CreateTableFull(p, path) ==
  /\ Creating(p, path) /\ FreeExtents # {}
  /\ LET num == alloc_imap_bit IN
     /\ num # 0 /\ InodeTableFull(num)
     /\ ToDisk("create", path, 0, <<WithImap(num), WithSmap(num, Min(FreeExtents))>>,
               "inode table full")
  /\ Nothing

\* The inode map is full: new_inode() fills in the struct inode at address 0,
\* new_dir_entry() writes an entry for inode 0, and do_open() returns -1.
CreateNoInode(p, path) ==
  /\ Creating(p, path) /\ FreeExtents # {} /\ alloc_imap_bit = 0
  /\ LET d2 == [disk EXCEPT !.smap = @ \union {Min(FreeExtents)}]
         d3 == [d2 EXCEPT !.entries = new_dir_entry(@, EntryFor, 0, path)]
     IN /\ root_size' = Max({root_size, EntryFor})
        /\ ToDisk("create", path, 0, <<d2, d3, [d3 EXCEPT !.size = root_size']>>, "no")
  /\ UNCHANGED <<inode_table, f_desc_table, filp>>

Create(p, path) ==
  /\ Creating(p, path) /\ FreeExtents # {}
  /\ LET num == alloc_imap_bit
         e   == Min(FreeExtents)
         s   == SlotFor(num)
         d2  == WithSmap(num, e)
         d3  == [d2 EXCEPT !.inodes[num] = [i_mode |-> REGULAR, ext |-> e]]
         d4  == [d3 EXCEPT !.entries = new_dir_entry(@, EntryFor, num, path)]
     IN /\ num # 0 /\ ~InodeTableFull(num)
        /\ inode_table' = [inode_table EXCEPT ![s] =
                             [i_cnt |-> 1, i_num |-> num, i_mode |-> REGULAR]]
        /\ Install(p, s)
        /\ root_size' = Max({root_size, EntryFor})
        /\ ToDisk("create", path, num,
                  <<WithImap(num), d2, d3, d4, [d4 EXCEPT !.size = root_size']>>, "no")

\* do_close().  A descriptor shared through fork() may have lost its inode; then
\* put_inode() looks at i_cnt of the struct inode at address 0.  The close of an fd
\* that is not open goes through a null filp (line 231) and is left out.
Close(p, fd) ==
  /\ Request(p) /\ filp[p][fd] # 0
  /\ LET d == filp[p][fd]
         s == f_desc_table[d]
     IN /\ f_desc_table' = [f_desc_table EXCEPT ![d] = 0]
        /\ filp' = [filp EXCEPT ![p][fd] = 0]
        /\ IF s = 0
             THEN (Fail("main.c:266") \/ InMemory) /\ UNCHANGED inode_table
             ELSE /\ inode_table' = [inode_table EXCEPT ![s].i_cnt = @ - 1]
                  /\ InMemory
  /\ UNCHANGED <<root_size, alive, reboots>>

\* do_rdwt() asserts that the process has the descriptor (line 21) and that the
\* descriptor has an inode (line 33).  One that was opened without O_RDWR it refuses before
\* (line 24), which changes nothing either.
Rdwt(p, fd) ==
  /\ Request(p)
  /\ CASE filp[p][fd] = 0 -> Fail("read_write.c:21")
       [] filp[p][fd] # 0 /\ f_desc_table[filp[p][fd]] = 0 -> Fail("read_write.c:33")
       [] OTHER -> InMemory
  /\ Nothing /\ UNCHANGED <<alive, reboots>>

\* do_fork() of MM copies filp; fs_fork() counts.
Shared(p, s) == {fd \in Fds : filp[p][fd] # 0 /\ f_desc_table[filp[p][fd]] = s}

Fork(p, child) ==
  /\ Request(p) /\ child \in Users \ alive
  /\ alive' = alive \union {child}
  /\ filp' = [filp EXCEPT ![child] = filp[p]]
  /\ inode_table' = [s \in Slots |->
       [inode_table[s] EXCEPT !.i_cnt = @ + Cardinality(Shared(p, s))]]
  /\ \A s \in Slots : inode_table'[s].i_cnt <= MaxCount
  /\ InMemory
  /\ UNCHANGED <<root_size, f_desc_table, reboots>>

----------------------------------------------------------------------------
\* do_unlink().
Unlinking(p, path) ==
  /\ Request(p)
  /\ UNCHANGED <<f_desc_table, filp, alive, reboots>>

UnlinkRefused(p, path) ==
  /\ Unlinking(p, path)
  /\ path = Slash \/ strip_path_fails(path) \/ search_file(path) = 0
  /\ InMemory /\ UNCHANGED <<inode_table, root_size>>

Found(p, path) ==
  Unlinking(p, path) /\ path \notin {Slash, Deep} /\ search_file(path) # 0

UnlinkTableFull(p, path) ==
  /\ Found(p, path) /\ InodeTableFull(search_file(path))
  /\ Fail("inode table full") /\ UNCHANGED <<inode_table, root_size>>

\* Variant with a fault: a file in use can be removed.
RemovableInUse(slot) == slot.i_mode = REGULAR

Removable(slot) == slot.i_mode = REGULAR /\ slot.i_cnt <= 1

\* Not a file, or in use: the return forgets put_inode().
UnlinkKept(p, path) ==
  /\ Found(p, path)
  /\ LET num == search_file(path) IN
     /\ ~InodeTableFull(num)
     /\ inode_table[SlotFor(num)].i_cnt < MaxCount
     /\ inode_table' = get_inode(num)
     /\ ~Removable(inode_table'[SlotFor(num)])
  /\ InMemory /\ UNCHANGED root_size

\* The sector of the directory in which do_unlink() clears the entries of num, and
\* the size it gives the directory: the used entries up to the end of that sector,
\* but only if the directory ends there.
LastOf(num) ==
  LET at == {i \in 1 .. root_size : disk.entries[i].nr = num} IN
  PerSector * ((Min(at) + PerSector - 1) \div PerSector)

\* Variant with a fault: the entry behind the one found is cleared.
ClearedOneOn(num) ==
  [i \in DOMAIN disk.entries |->
     IF i \in 2 .. Min({root_size, LastOf(num)}) /\ disk.entries[i - 1].nr = num
     THEN Free ELSE disk.entries[i]]

Cleared(num) ==
  [i \in DOMAIN disk.entries |->
     IF /\ i <= Min({root_size, LastOf(num)}) /\ disk.entries[i].nr = num
     THEN Free ELSE disk.entries[i]]

Shrunk(num) ==
  IF LastOf(num) = root_size
  THEN Cardinality({i \in 1 .. root_size : Cleared(num)[i].nr # 0})
  ELSE root_size

Unlink(p, path) ==
  /\ Found(p, path)
  /\ LET num == search_file(path)
         s   == SlotFor(num)
         e   == disk.inodes[num].ext
         d1  == [disk EXCEPT !.imap = @ \ {num}]
         d2  == [d1 EXCEPT !.smap = @ \ {e}]
         d3  == [d2 EXCEPT !.inodes[num] = Unused]
         d4  == [d3 EXCEPT !.entries = Cleared(num)]
         listed == \E i \in 1 .. root_size : disk.entries[i].nr = num
     IN /\ ~InodeTableFull(num) /\ Removable(get_inode(num)[s])
        /\ CASE num \notin disk.imap ->
                  /\ inode_table' = get_inode(num)
                  /\ Fail("link.c:64") /\ UNCHANGED root_size
             [] num \in disk.imap /\ e \notin disk.smap ->
                  /\ inode_table' = get_inode(num)
                  /\ ToDisk("unlink", path, 0, <<d1>>, "link.c:79") /\ UNCHANGED root_size
             [] OTHER ->
                  /\ inode_table' = [inode_table EXCEPT ![s] = EmptySlot]
                  /\ IF ~listed
                       THEN ToDisk("unlink", path, 0, <<d1, d2, d3>>, "link.c:144")
                            /\ UNCHANGED root_size
                       ELSE /\ root_size' = Shrunk(num)
                            /\ ToDisk("unlink", path, 0, IF LastOf(num) = root_size
                                        THEN <<d1, d2, d3, d4,
                                               [d4 EXCEPT !.size = Shrunk(num)]>>
                                        ELSE <<d1, d2, d3, d4>>, "no")

----------------------------------------------------------------------------
\* The disk does what it was told, or the machine is started again.
Flush ==
  /\ failed = "no" /\ pending # <<>>
  /\ disk' = Head(pending) /\ pending' = Tail(pending)
  /\ failed' = IF Tail(pending) = <<>> THEN stop ELSE failed
  /\ op' = IF Tail(pending) = <<>> /\ stop = "no" THEN NoOp ELSE op
  /\ UNCHANGED <<inode_table, root_size, f_desc_table, filp, alive, stop, reboots>>

Reboot ==
  /\ reboots < MaxReboots /\ reboots' = reboots + 1
  /\ pending # <<>> => op.kind \in CrashIn
  /\ pending' = <<>> /\ op' = NoOp
  /\ inode_table' = InitInodes /\ root_size' = disk.size
  /\ f_desc_table' = InitDescs /\ filp' = InitFilp
  /\ alive' = {Founder}
  /\ failed' = "no" /\ stop' = "no"
  /\ UNCHANGED disk

FsNext ==
  \/ \E p \in Users : OpenFull(p) \/ OpenUnfit(p)
  \/ \E p \in Users, path \in Paths :
       \/ OpenOld(p, path) \/ OpenExists(p, path)
       \/ CreateNoRoom(p, path) \/ CreateTableFull(p, path)
       \/ CreateNoInode(p, path) \/ Create(p, path)
       \/ UnlinkRefused(p, path) \/ UnlinkTableFull(p, path)
       \/ UnlinkKept(p, path) \/ Unlink(p, path)
  \/ \E p \in Users, fd \in Fds : Close(p, fd) \/ Rdwt(p, fd)
  \/ \E p, child \in Users : Fork(p, child)
  \/ Flush \/ Reboot

FsSpec == FsInit /\ [][FsNext]_fsVars

----------------------------------------------------------------------------
\* Properties.

\* The disk as it will be when the request in progress has written it.
Target == IF pending = <<>> THEN disk ELSE Last(pending)

\* The entries of the directory that hold a file.
Entries(d) == {i \in 1 .. d.size : d.entries[i].nr # 0}
Listed(d) == {d.entries[i].nr : i \in Entries(d)}

\* Entries that hold a file but lie beyond the directory's size.
CutOff(d) == {i \in DOMAIN d.entries : i > d.size /\ d.entries[i].nr # 0}

\* No file is taken from under a descriptor: i_cnt of an inode in the table is at
\* least the number of descriptors that point at it, so do_unlink() refuses it
\* and get_inode() does not give its slot away.
DescriptorsBacked ==
  \A s \in Slots :
    Cardinality({d \in Descs : f_desc_table[d] = s}) <= inode_table[s].i_cnt

\* The inode table is a faithful cache: an inode is in it once, as it is on the
\* disk, and is allocated there; but an entry cut off from the directory may lead to a
\* freed one.
CacheCoherent ==
  \A s \in Slots :
    inode_table[s].i_cnt > 0 =>
      LET num == inode_table[s].i_num IN
      /\ num \in Target.imap \ {0} \/ CutOff(disk) # {}
      /\ Cached(num) = {s}
      /\ inode_table[s].i_mode = Target.inodes[num].i_mode

\* Every file has one name, an inode and sectors of its own, all marked as taken in the
\* maps; the entries in except are left out.
DirectorySound(d, except) ==
  \A i \in Entries(d) \ except :
    LET n == d.entries[i].nr
        others == Entries(d) \ (except \union {i})
    IN
    /\ \A j \in others :
         /\ d.entries[j].nr # n
         /\ Clean(d.entries[i]) /\ Clean(d.entries[j]) => d.entries[j].name # d.entries[i].name
    /\ n \in d.imap
    /\ d.inodes[n].i_mode = REGULAR =>
         /\ d.inodes[n].ext \in d.smap
         /\ \A j \in others : d.inodes[d.entries[j].nr].ext # d.inodes[n].ext

BeingRemoved ==
  IF op.kind # "unlink" THEN {}
  ELSE {i \in Entries(disk) : disk.entries[i].name = op.path /\ Clean(disk.entries[i])}

\* What a restart finds: the directory is sound not only between requests but before
\* and after every sector a request writes.  do_unlink() frees the inode and the
\* sectors before it clears the entry (link.c:66-137), so power lost in between
\* leaves one name that leads nowhere; no other file is touched.  And the assertions
\* that compare the directory with the maps and the inodes hold unless an entry lies beyond
\* the directory's size, where search_file() sees it and do_unlink() does not.
SoundOnDisk ==
  /\ DirectorySound(Target, {})
  /\ DirectorySound(disk, BeingRemoved)
  /\ failed \in {"link.c:64", "link.c:79", "link.c:144", "open.c:90"} => CutOff(disk) # {}

\* What is lost for good: inodes that are taken in the map but no entry of the
\* directory leads to.  A restart, a request the system stops in and a directory that
\* shrinks cost at most one each; nothing else costs any.
Lost(d) == d.imap \ (Listed(d) \union {0})

LeaksBounded ==
  [][Cardinality(Lost(Target)' \ Lost(Target)) <=
       IF reboots' # reboots \/ stop' # "no" \/ Target'.size < Target.size THEN 1 ELSE 0
    ]_<<disk, pending>>

\* The files of the directory that processes find by name.
UserFiles ==
  {i \in Entries(disk) : disk.entries[i].name \in Names /\ Clean(disk.entries[i])}

files ==
  [n \in {disk.entries[i].name : i \in UserFiles} |->
     disk.entries[CHOOSE i \in UserFiles : disk.entries[i].name = n].nr]

S == INSTANCE FileStore WITH
       Names <- Names,
       Ids   <- Inodes,
       inUse <- {inode_table[s].i_num : s \in ToSet(f_desc_table) \ {0}},
       asked <- IF op.path \in Names THEN {[name |-> op.path, id |-> op.nr]} ELSE {},
       boots <- reboots

\* A directory that ends with its sector shrinks to the number of its entries
\* (link.c:145-147), and the files behind that are cut off.
CutsOff ==
  /\ op.kind = "unlink" /\ disk.size % PerSector = 0
  /\ disk' = [disk EXCEPT !.size = disk'.size] /\ disk'.size < disk.size

\* do_open() answers a creation, but the name was copied over a longer one in an entry
\* nobody cleared (open.c:223): the file is there, and no name leads to it.
Hides ==
  /\ op.kind = "create" /\ op' = NoOp /\ UNCHANGED files
  /\ \E i \in Entries(disk') : disk'.entries[i].nr = op.nr /\ ~Clean(disk'.entries[i])

\* The file names processes see keep the promise of FileStore: whatever happens, names
\* come and go one at a time, only the name a request asks for, and an answered request
\* has done what it was asked for; but for the two faults above.
KeepsFiles == S!Init /\ [][S!Next \/ CutsOff \/ Hides]_(S!vars)

\* A descriptor a process has leads to an inode (assertion read_write.c:33).
RdwtLine33Holds == failed # "read_write.c:33"
=============================================================================
