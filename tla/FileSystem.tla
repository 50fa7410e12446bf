------------------------------ MODULE FileSystem ------------------------------
(***************************************************************************)
(* The file system of Lab 3 (filesys.c, directory.c, inode.c, file.c,      *)
(* free-map.c) with the open file table of syscall.c.                      *)
(*                                                                         *)
(* A process sleeps in process_execute() until its child has ended, so no  *)
(* two threads are ever inside the file system: an action is a whole call. *)
(* Nothing in the kernel creates a directory, so there is one, the root.   *)
(* A sector is SectorSize words; a word is a value of a file, an entry of  *)
(* the root directory (kept in `root') or, in an indirect block, a sector  *)
(* number, and an inode fills a sector.                                    *)
(***************************************************************************)
EXTENDS Integers, Sequences, FiniteSets, SequencesExt

CONSTANTS
  NSectors,     \* sectors of fs_device
  SectorSize,   \* words per sector, so also INDIRECT_BLOCKS_PER_SECTOR
  Direct,       \* DIRECT_BLOCKS_COUNT
  Names,        \* file names
  Words,        \* what programs write
  Sizes,        \* sizes of reads and writes
  InitialSizes, \* sizes files are created with
  RootSize,     \* entries of the root directory on a fresh file system
  TableSize,    \* entries of oft[], and the greatest descriptor that is accepted
  MaxRefs,      \* bound on the references to open inodes
  MaxChanges,   \* bound on the calls that create, write and remove
  StackByte     \* what the uninitialised in_use of dir_create()'s entry holds

ASSUME FileSystemAssumption ==
  /\ NSectors \in Nat /\ NSectors > 4
  /\ SectorSize \in Nat \ {0} /\ Direct \in Nat \ {0}
  /\ RootSize \in 1..SectorSize
  /\ TableSize \in Nat /\ MaxRefs \in Nat /\ StackByte \in BOOLEAN

FREE_MAP_SECTOR == 0
ROOT_DIR_SECTOR == 1
Sector == 0..NSectors - 1
FREE_MAP_DATA == 2
ROOT_DIR_DATA == 3
MaxLength == SectorSize * (Direct + SectorSize + SectorSize * SectorSize)
Zeros == [i \in 1..SectorSize |-> 0]
NoData == [length |-> 0, direct |-> [i \in 1..Direct |-> 0],
           indirect |-> 0, doubly |-> 0]
NoName == "none"
NULL == [id |-> 0, pos |-> 0]

VARIABLES
  used,      \* the free map: sectors that are taken
  disk,      \* words of each sector
  dinode,    \* inode in each sector, for those that hold one
  full,      \* (history) the free map has had no sector to give
  root,      \* entries of the root directory; entry 1 is the parent's
  inodes,    \* open_inodes: [open_cnt, removed, deny, data] of each open sector
  oft,       \* open file table of the running process
  max_fd,
  got,       \* what the last call returned, if it was a read
  halted,    \* "no", or how the kernel has come to an end
  changes    \* counts creations, writes and removals, for the bound

vars == <<used, disk, dinode, full, root, inodes, oft, max_fd, got, halted, changes>>
storage == <<used, disk, dinode, full>>

NoInode == [open_cnt |-> 0, removed |-> FALSE, deny |-> 0, data |-> NoData]

\* do_format(): what is on a fresh file system, and the first process
Init ==
  /\ used = {FREE_MAP_SECTOR, ROOT_DIR_SECTOR, FREE_MAP_DATA, ROOT_DIR_DATA}
  /\ full = FALSE
  /\ disk = [s \in Sector |-> Zeros]
  /\ dinode = [s \in Sector |->
       CASE s = FREE_MAP_SECTOR -> [NoData EXCEPT !.length = 1, !.direct[1] = FREE_MAP_DATA]
         [] s = ROOT_DIR_SECTOR -> [NoData EXCEPT !.length = RootSize, !.direct[1] = ROOT_DIR_DATA]
         [] OTHER -> NoData]
  /\ root = [i \in 1..RootSize |->
               [in_use |-> i = 1 /\ StackByte, name |-> NoName, sector |-> ROOT_DIR_SECTOR]]
  /\ inodes = [s \in Sector |-> NoInode]
  /\ oft = [i \in 0..TableSize - 1 |-> NULL]
  /\ max_fd = 3
  /\ got = <<>>
  /\ halted = "no"
  /\ changes = 0

-----------------------------------------------------------------------------
(* inode.c: the map from positions to sectors                               *)

Ceil(n, unit) == (n + unit - 1) \div unit
Min2(a, b) == IF a < b THEN a ELSE b

\* index_to_sector(), for the given words of the disk
SectorOf(d, data, index) ==
  LET i == index - Direct
      j == i - SectorSize
  IN IF i < 0 THEN data.direct[index + 1]
     ELSE IF j < 0 THEN d[data.indirect][i + 1]
     ELSE d[d[data.doubly][j \div SectorSize + 1]][(j % SectorSize) + 1]

\* the first n words of a file
Contents(d, data, n) ==
  [p \in 1..n |-> d[SectorOf(d, data, (p - 1) \div SectorSize)][((p - 1) % SectorSize) + 1]]

\* free_map_allocate(): the first free sector; a state of the storage is st, and
\* taken is 0 when every sector is used
Allocate(st) ==
  LET free == Sector \ st.used
      s == CHOOSE x \in free : \A y \in free : x <= y
  IN IF free = {} THEN [st |-> [st EXCEPT !.full = TRUE], taken |-> 0]
     ELSE [st |-> [st EXCEPT !.used = @ \cup {s}], taken |-> s]

\* variant: the sector keeps what it held
Unzeroed(a) == a

\* buffer_cache_write() of zeros to the sector
Zeroed(a) == [a EXCEPT !.st.disk[a.taken] = Zeros, !.st.dinode[a.taken] = NoData]

\* one entry of direct_blocks, or of an indirect block at level 1
SetEntry(r, i, a) ==
  IF a.taken = 0 THEN [r EXCEPT !.ok = FALSE]
  ELSE [r EXCEPT !.st = Zeroed(a).st, !.blocks[i] = a.taken]

ReserveEntry(r, i) ==
  IF ~r.ok \/ r.blocks[i] # 0 THEN r ELSE SetEntry(r, i, Allocate(r.st))

ReserveBlocks(st, blocks, n) ==
  FoldLeft(ReserveEntry, [st |-> st, ok |-> TRUE, blocks |-> blocks], [i \in 1..n |-> i])

\* the indirect block itself: the result of the allocation is not looked at, and
\* the zeros go to sector 0 when there is none
IndirectBlock(st, entry) ==
  IF entry # 0 THEN [st |-> st, taken |-> entry] ELSE Zeroed(Allocate(st))

\* the block, in sector s, is written when all went well
WriteBlock(s, r) ==
  [st |-> IF r.ok THEN [r.st EXCEPT !.disk[s] = r.blocks] ELSE r.st, ok |-> r.ok, entry |-> s]

\* inode_reserve_indirect() at level 1
FillBlock(b, n) == WriteBlock(b.taken, ReserveBlocks(b.st, b.st.disk[b.taken], n))
ReserveIndirect(st, entry, n) == FillBlock(IndirectBlock(st, entry), n)

SetSubBlock(r, i, n, sub) ==
  [st |-> sub.st, ok |-> sub.ok, left |-> r.left - n,
   blocks |-> [r.blocks EXCEPT ![i] = sub.entry]]

ReserveSubBlock(r, i) ==
  LET n == Min2(r.left, SectorSize) IN
  IF ~r.ok THEN r ELSE SetSubBlock(r, i, n, ReserveIndirect(r.st, r.blocks[i], n))

\* and at level 2
FillDoubly(b, n) ==
  WriteBlock(b.taken,
             FoldLeft(ReserveSubBlock,
                      [st |-> b.st, ok |-> TRUE, left |-> n, blocks |-> b.st.disk[b.taken]],
                      [i \in 1..Ceil(n, SectorSize) |-> i]))
ReserveDoubly(st, entry, n) == FillDoubly(IndirectBlock(st, entry), n)

\* inode_reserve(), from its end: n sectors are left to reserve, and the inode in
\* memory keeps what was allocated before a failure
AfterDoubly(data, r) == [st |-> r.st, ok |-> r.ok, data |-> [data EXCEPT !.doubly = r.entry]]

AfterIndirect(data, n, r) ==
  LET next == [data EXCEPT !.indirect = r.entry] IN
  IF ~r.ok \/ n <= 0 THEN [st |-> r.st, ok |-> r.ok, data |-> next]
  ELSE AfterDoubly(next, ReserveDoubly(r.st, data.doubly, Min2(n, SectorSize * SectorSize)))

AfterDirect(data, n, r) ==
  LET next == [data EXCEPT !.direct = r.blocks] IN
  IF ~r.ok \/ n <= 0 THEN [st |-> r.st, ok |-> r.ok, data |-> next]
  ELSE AfterIndirect(next, n - SectorSize,
                     ReserveIndirect(r.st, data.indirect, Min2(n, SectorSize)))

Reserve(st, data, length) ==
  LET n == Ceil(length, SectorSize) IN
  AfterDirect(data, n - Direct, ReserveBlocks(st, data.direct, Min2(n, Direct)))

\* its last assertion: every level is full and sectors are left to reserve
TooLong(r, length) == r.ok /\ length > MaxLength

\* inode_deallocate(): the sectors that a file of this length occupies
Occupied(d, data, length) ==
  LET n == Ceil(length, SectorSize)
      n2 == n - Direct - SectorSize
  IN {SectorOf(d, data, i) : i \in 0..n - 1}
       \cup (IF n > Direct THEN {data.indirect} ELSE {})
       \cup (IF n2 > 0 THEN {data.doubly} ELSE {})
       \cup {d[data.doubly][i] : i \in 1..Ceil(IF n2 > 0 THEN n2 ELSE 0, SectorSize)}

-----------------------------------------------------------------------------
(* inode.c: open inodes                                                     *)

St == [used |-> used, disk |-> disk, dinode |-> dinode, full |-> full]
Change == halted = "no" /\ changes < MaxChanges /\ changes' = changes + 1
SetStorage(st) ==
  used' = st.used /\ disk' = st.disk /\ dinode' = st.dinode /\ full' = st.full

\* inode_open(): the inode that is open already, or a copy of the one on disk
Opened(s) ==
  IF inodes[s].open_cnt > 0 THEN [inodes[s] EXCEPT !.open_cnt = @ + 1]
  ELSE [open_cnt |-> 1, removed |-> FALSE, deny |-> 0, data |-> dinode[s]]

Refs == FoldLeft(LAMBDA n, s : n + inodes[s - 1].open_cnt, 0, [i \in 1..NSectors |-> i])

\* lookup() starts after the parent's entry
Lookup(n) == {i \in DOMAIN root \ {1} : root[i].in_use /\ root[i].name = n}
Find(n) == root[CHOOSE i \in Lookup(n) : TRUE].sector

-----------------------------------------------------------------------------
(* filesys.c                                                                *)

\* dir_add() of the file with the inode in sector s: in the first entry that is
\* free or behind the last, where the directory grows as files do; filesys_create()
\* releases the inode's sector, and nothing else, when that fails
AddFile(n, s, st) ==
  LET slots == {i \in DOMAIN root : ~root[i].in_use}
      slot == CHOOSE i \in slots : \A j \in slots : i <= j
      entry == [in_use |-> TRUE, name |-> n, sector |-> s]
      length == Len(root) + 1
      r == Reserve(st, st.dinode[ROOT_DIR_SECTOR], length)
  IN \/ /\ Lookup(n) # {}
        /\ SetStorage([st EXCEPT !.used = @ \ {s}])
        /\ UNCHANGED root
     \/ /\ Lookup(n) = {} /\ slots # {}
        /\ root' = [root EXCEPT ![slot] = entry]
        /\ SetStorage(st)
     \/ /\ Lookup(n) = {} /\ slots = {} /\ r.ok
        /\ root' = Append(root, entry)
        /\ SetStorage([r.st EXCEPT !.dinode[ROOT_DIR_SECTOR] = [r.data EXCEPT !.length = length]])
     \/ /\ Lookup(n) = {} /\ slots = {} /\ ~r.ok
        /\ SetStorage([r.st EXCEPT !.used = @ \ {s}])
        /\ UNCHANGED root

\* inode_create() in sector s, and dir_add() when r, what inode_reserve() did, allows
CreateInode(n, size, s, r) ==
  \/ /\ ~r.ok \/ TooLong(r, size)
     /\ halted' = IF r.ok THEN "too long" ELSE "no"
     /\ SetStorage([r.st EXCEPT !.used = @ \ {s}])
     /\ UNCHANGED root
  \/ /\ r.ok /\ ~TooLong(r, size)
     /\ AddFile(n, s, [r.st EXCEPT !.dinode[s] = [r.data EXCEPT !.length = size]])
     /\ UNCHANGED halted

\* filesys_create(): the inode and its sectors come first, the name after
Create(n, size) ==
  LET a == Allocate(St) IN
  /\ Change
  /\ \/ /\ a.taken = 0
        /\ SetStorage(a.st)
        /\ UNCHANGED <<root, halted>>
     \/ a.taken # 0 /\ CreateInode(n, size, a.taken, Reserve(a.st, NoData, size))
  /\ got' = <<>>
  /\ UNCHANGED <<inodes, oft, max_fd>>

\* sys_open(): the descriptor is counted twice, and whether the table has an
\* entry for it is not checked
Open(n) ==
  LET found == Lookup(n) # {} IN
  /\ halted = "no"
  /\ Refs < MaxRefs /\ max_fd <= TableSize + 3
  /\ max_fd' = max_fd + 2
  /\ inodes' = IF found THEN [inodes EXCEPT ![Find(n)] = Opened(Find(n))] ELSE inodes
  /\ \/ /\ found /\ max_fd - 3 >= TableSize
        /\ halted' = "beyond the table"
        /\ UNCHANGED oft
     \/ /\ found /\ max_fd - 3 < TableSize
        /\ oft' = [oft EXCEPT ![max_fd - 3] = [id |-> Find(n), pos |-> 0]]
        /\ UNCHANGED halted
     \/ /\ ~found
        /\ UNCHANGED <<oft, halted>>
  /\ got' = <<>>
  /\ UNCHANGED <<storage, root, changes>>

\* elf_load() opens the executable, denies writes to it and never closes it
Execute(n) ==
  /\ halted = "no"
  /\ Lookup(n) # {}
  /\ Refs < MaxRefs
  /\ inodes' = [inodes EXCEPT ![Find(n)] = [Opened(Find(n)) EXCEPT !.deny = @ + 1]]
  /\ got' = <<>>
  /\ UNCHANGED <<storage, root, oft, max_fd, halted, changes>>

\* variant: the sectors are released although the file is open
RemoveNow(n) ==
  LET s == Find(n) IN
  /\ Change
  /\ Lookup(n) # {}
  /\ root' = [root EXCEPT ![CHOOSE i \in Lookup(n) : TRUE].in_use = FALSE]
  /\ used' = used \ ({s} \cup Occupied(disk, Opened(s).data, Opened(s).data.length))
  /\ got' = <<>>
  /\ UNCHANGED <<disk, dinode, full, inodes, oft, max_fd, halted>>

\* fsutil_rm(): filesys_remove(); the inode's sectors are released when nobody
\* has it open
RemoveFile(n) ==
  LET s == Find(n)
      i == CHOOSE i \in Lookup(n) : TRUE
      inode == Opened(s)
  IN /\ Change
     /\ Lookup(n) # {}
     /\ root' = [root EXCEPT ![i].in_use = FALSE]
     /\ IF inode.open_cnt = 1
        THEN LET freed == {s} \cup Occupied(disk, inode.data, inode.data.length) IN
             /\ halted' = IF freed \subseteq used THEN "no" ELSE "released twice"
             /\ used' = used \ freed
             /\ UNCHANGED inodes
        ELSE /\ inodes' = [inodes EXCEPT ![s].removed = TRUE]
             /\ UNCHANGED <<used, halted>>
     /\ got' = <<>>
     /\ UNCHANGED <<disk, dinode, full, oft, max_fd>>

-----------------------------------------------------------------------------
(* syscall.c and file.c                                                     *)

Valid(fd) == fd >= 3 /\ fd <= TableSize /\ oft[fd - 3] # NULL

\* an entry of the table that holds no file: sys_write() hands the null pointer to
\* file_write(), where page_fault() lets the kernel go on wherever eax points, and
\* sys_filesize() to file_length(), which asserts that there is a file
NullFile(fd) ==
  /\ halted = "no"
  /\ fd >= 3 /\ fd <= TableSize /\ oft[fd - 3] = NULL
  /\ halted' = "null file"
  /\ UNCHANGED <<storage, root, inodes, oft, max_fd, got, changes>>

\* sys_read(), file_read(), inode_read_at()
Read(fd, size) ==
  LET h == oft[fd - 3]
      data == inodes[h.id].data
      k == Min2(size, data.length - h.pos)
  IN /\ halted = "no"
     /\ Valid(fd)
     /\ got' = SubSeq(Contents(disk, data, data.length), h.pos + 1, h.pos + k)
     /\ oft' = [oft EXCEPT ![fd - 3].pos = @ + (IF k > 0 THEN k ELSE 0)]
     /\ UNCHANGED <<storage, root, inodes, max_fd, halted, changes>>

\* the sectors of a file after size words from pos on have been set to w
Overwrite(st, data, pos, size, w) ==
  LET at == {<<SectorOf(st.disk, data, p \div SectorSize), (p % SectorSize) + 1>> :
               p \in pos..pos + size - 1}
  IN [st EXCEPT !.disk = [s \in Sector |->
        [k \in 1..SectorSize |-> IF <<s, k>> \in at THEN w ELSE st.disk[s][k]]]]

\* the test of inode_write_at() for growing a file: its last byte is outside it
MustExtend(data, pos, size) == pos + size - 1 < 0 \/ pos + size - 1 >= data.length

\* variant: the longer inode stays in memory
KeepInode(st, s, data) == st

\* buffer_cache_write() of the extended inode
SaveInode(st, s, data) == [st EXCEPT !.dinode[s] = data]

\* inode_write_at() of a file that must grow; r is what inode_reserve() did
WriteLonger(fd, w, size, r) ==
  LET h == oft[fd - 3]
      longer == [r.data EXCEPT !.length = h.pos + size]
  IN \/ /\ ~r.ok \/ TooLong(r, h.pos + size)
        /\ halted' = IF r.ok THEN "too long" ELSE "no"
        /\ SetStorage(r.st)
        /\ inodes' = [inodes EXCEPT ![h.id].data = r.data]
        /\ UNCHANGED oft
     \/ /\ r.ok /\ ~TooLong(r, h.pos + size)
        /\ inodes' = [inodes EXCEPT ![h.id].data = longer]
        /\ SetStorage(Overwrite(SaveInode(r.st, h.id, longer), longer, h.pos, size, w))
        /\ oft' = [oft EXCEPT ![fd - 3].pos = @ + size]
        /\ UNCHANGED halted

\* sys_write(), file_write(), inode_write_at()
Write(fd, w, size) ==
  LET h == oft[fd - 3]
      inode == inodes[h.id]
      extend == MustExtend(inode.data, h.pos, size)
  IN /\ Change
     /\ Valid(fd)
     /\ inode.deny = 0
     /\ \/ /\ ~extend
           /\ SetStorage(Overwrite(St, inode.data, h.pos, size, w))
           /\ oft' = [oft EXCEPT ![fd - 3].pos = @ + size]
           /\ UNCHANGED <<inodes, halted>>
        \/ extend /\ WriteLonger(fd, w, size, Reserve(St, inode.data, h.pos + size))
     /\ got' = <<>>
     /\ UNCHANGED <<root, max_fd>>

\* sys_close() forgets the file without closing it
Close(fd) ==
  /\ halted = "no"
  /\ Valid(fd)
  /\ oft' = [oft EXCEPT ![fd - 3] = NULL]
  /\ got' = <<>>
  /\ UNCHANGED <<storage, root, inodes, max_fd, halted, changes>>

\* a process ends, closing nothing, and another one starts
NewProcess ==
  /\ halted = "no"
  /\ oft' = [i \in DOMAIN oft |-> NULL]
  /\ max_fd' = 3
  /\ got' = <<>>
  /\ UNCHANGED <<storage, root, inodes, halted, changes>>

\* filesys_done() and, after a restart, filesys_init() without formatting:
\* free_map_open() reads the free map through its inode
Reboot ==
  /\ halted = "no"
  /\ halted' = IF dinode[FREE_MAP_SECTOR].length > 0 THEN "no" ELSE "no free map"
  /\ inodes' = [s \in Sector |-> NoInode]
  /\ oft' = [i \in DOMAIN oft |-> NULL]
  /\ max_fd' = 3
  /\ got' = <<>>
  /\ UNCHANGED <<storage, root, changes>>

Next ==
  \/ \E n \in Names, size \in InitialSizes : Create(n, size)
  \/ \E n \in Names : Open(n) \/ Execute(n) \/ RemoveFile(n)
  \/ \E fd \in 3..TableSize, size \in Sizes :
       Read(fd, size) \/ \E w \in Words : Write(fd, w, size)
  \/ \E fd \in 3..TableSize : Close(fd) \/ NullFile(fd)
  \/ NewProcess
  \/ Reboot

Spec == Init /\ [][Next]_vars

-----------------------------------------------------------------------------
\* the inode a caller would get for a sector
Current(s) == IF inodes[s].open_cnt > 0 THEN inodes[s].data ELSE dinode[s]
Named == {root[i].sector : i \in {i \in DOMAIN root \ {1} : root[i].in_use}}
OpenSectors == {s \in Sector : inodes[s].open_cnt > 0}
Owners == Named \cup OpenSectors

\* The storage and the tables have their shape.
TypeOK ==
  /\ used \subseteq Sector
  /\ disk \in [Sector -> [1..SectorSize -> Nat]]
  /\ \A s \in Sector : inodes[s].open_cnt \in 0..MaxRefs /\ inodes[s].deny <= inodes[s].open_cnt
  /\ \A i \in DOMAIN oft : oft[i] # NULL => oft[i].id \in OpenSectors

\* the inodes and the data of the free map and of the root directory
System == {FREE_MAP_SECTOR, FREE_MAP_DATA, ROOT_DIR_SECTOR}
            \cup Occupied(disk, dinode[ROOT_DIR_SECTOR], Len(root))

\* No sector belongs to two files, or to a file and the file system itself, and
\* none that belongs to a file is free: what one file writes never shows in
\* another, whatever has been created, extended, removed or refused in between.
NoSharing ==
  LET occ(s) == Occupied(disk, Current(s), Current(s).length) IN
  /\ System \subseteq used
  /\ \A s \in Owners :
       /\ s \in used \ System
       /\ occ(s) \subseteq used \ (System \cup Owners)
       /\ Cardinality({SectorOf(disk, Current(s), i) :
                         i \in 0..Ceil(Current(s).length, SectorSize) - 1})
            = Ceil(Current(s).length, SectorSize)
  /\ \A s, t \in Owners : s # t => occ(s) \cap occ(t) = {}

\* An inode in memory and its copy on disk agree on everything that the length
\* covers: a restart that finds the free map finds the files as they were. It
\* finds the free map unless the device has been full (Boots).
SurvivesReboot ==
  /\ \A s \in OpenSectors :
       /\ dinode[s].length = inodes[s].data.length
       /\ Contents(disk, dinode[s], dinode[s].length)
            = Contents(disk, inodes[s].data, inodes[s].data.length)
  /\ dinode[ROOT_DIR_SECTOR].length = Len(root)
  /\ dinode[FREE_MAP_SECTOR].length = 0 => full

Handles == {[fd |-> i + 3, id |-> oft[i].id, pos |-> oft[i].pos] :
              i \in {i \in DOMAIN oft : oft[i] # NULL}}
Dir == [n \in Names |-> IF Lookup(n) = {} THEN 0 ELSE Find(n)]
Data == [s \in Sector |->
           IF s \in Named \/ \E h \in Handles : h.id = s
           THEN Contents(disk, Current(s), Current(s).length) ELSE <<>>]

\* The sectors, inodes and tables implement files as programs know them: a read
\* returns what was last written to that file, new space reads as zeros, and a
\* call that fails leaves every file as it was.
F == INSTANCE Files WITH Ids <- Sector, Fds <- 3..TableSize + 2,
        dir <- Dir, data <- Data, handles <- Handles
ImplementsFiles == F!Spec

\* "not yet allocated: allocate it, and fill with zero": what is filled with zeros is
\* the block, and the kernel finds its free map when it starts again.
Boots == halted # "no free map"

\* "which may be less than SIZE if end of file is reached or an error occurs": a write
\* and a create that ask for more than an inode can hold are refused.
LongRefused == halted # "too long"

\* "an invalid fd, which must either fail silently or terminate the process": no
\* descriptor makes the kernel read through a null pointer.
BadFdRefused == halted # "null file"

\* "Try a 0-byte write, which should return 0 without writing anything": no
\* write makes a file shorter.
ZeroWriteKeeps ==
  [][\A s \in Sector : inodes[s].open_cnt > 0 /\ inodes'[s].open_cnt > 0
       => inodes'[s].data.length >= inodes[s].data.length]_vars
=============================================================================
