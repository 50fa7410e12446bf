------------------------------- MODULE Fileman -------------------------------
(***************************************************************************)
(* Assignment6/fileman.c: read, write, append and copy files with the      *)
(* POSIX calls, and show a directory as an indented list or a tree.        *)
(*                                                                         *)
(* The operating system is external: files are sequences of bytes, every   *)
(* call may fail, and a full disk makes write() short (or fail, when not   *)
(* one byte fits).  A process has a limited number of file descriptors.    *)
(***************************************************************************)
EXTENDS Integers, Sequences, FiniteSets

CONSTANTS
    FName,         \* the file names used
    Data,          \* the byte sequences written and appended
    FOffsets,      \* the offsets given to fileman_write()
    BUF_SIZE,      \* the buffer of fileman_copy() (4096 in the program)
    MaxFd,         \* the descriptors the process may still open
    MaxCalls,      \* bound: the calls made
    Nodes,         \* the number of entries below the directory shown
    SpacerSize,    \* the bytes that fit a spacer (59, PATH_LEN - 1)
    MaxLevel       \* the calls of getdir(), one within another, the stack has room for

ASSUME FilemanAssumption ==
    /\ BUF_SIZE \in Nat \ {0} /\ MaxFd \in Nat /\ MaxCalls \in Nat
    /\ Nodes \in Nat /\ SpacerSize \in Nat /\ FOffsets \subseteq Nat
    /\ MaxLevel \in Nat /\ MaxLevel > Nodes
    /\ Data \subseteq Seq(Nat)

VARIABLES
    files,         \* the files: a sequence of bytes, or Absent
    leaked,        \* the descriptors that calls have left open
    called,        \* the last call, what it returned, and what it did not notice
    calls,         \* how many calls were made
    parent,        \* the directory shown: the parent of each entry
    opens,         \* the directory that scandir() finds under the path of each entry
    shown          \* what fileman_dir() or fileman_tree() wrote, and how it ended

filemanVars == <<files, leaked, called, calls, parent, opens, shown>>

Absent == <<-1>>
Exists(f) == files[f] # Absent

(* every tree whose entries are numbered in the order of their names *)
Trees == {p \in [1 .. Nodes -> 0 .. Nodes - 1] : \A n \in 1 .. Nodes : p[n] < n}

FilemanInit(tree, paths) ==
    /\ files = [f \in FName |-> Absent]
    /\ leaked = 0
    /\ called = [op |-> "none", mishap |-> "none"]
    /\ calls = 0
    /\ parent = tree
    /\ opens = paths
    /\ shown = [end |-> "no", lines |-> <<>>]

-----------------------------------------------------------------------------
(* open() and creat() fail when the process has no descriptor left *)
CanOpen == leaked < MaxFd

Prefix(s, k) == SubSeq(s, 1, k)
Least(a, b) == IF a < b THEN a ELSE b

(* the call ends: the files are fs, n more descriptors stay open *)
End(call, fs, n) ==
    /\ calls < MaxCalls
    /\ calls' = calls + 1
    /\ called' = call
    /\ files' = fs
    /\ leaked' = leaked + n
    /\ UNCHANGED <<parent, opens, shown>>

(* a call on file f returns r; mishap is the failure that it mistook for   *)
(* something else                                                          *)
Returned(op, f, r, mishap) == [op |-> op, file |-> f, ret |-> r, mishap |-> mishap]

(* The test for an existing file is an open().  It may fail although the   *)
(* file is there, and the creat() that follows succeed.                    *)
Untested(f) == IF Exists(f) THEN "open" ELSE "none"

(* fileman_read() of at most size bytes: a failed lseek() or read() leaves *)
(* the file open                                                           *)
fileman_read(f, foffset, size) ==
    \/ End(Returned("read", f, -1, "none"), files, 0)     \* open() or close() fails
    \/ /\ CanOpen /\ Exists(f)
       /\ LET rest == IF foffset < Len(files[f]) THEN Len(files[f]) - foffset ELSE 0
          IN \/ End(Returned("read", f, Least(size, rest), "none"), files, 0)
             \/ End(Returned("read", f, -1, "none"), files, 1)  \* lseek() or read() fails

(* the content of a new file after write() of data at foffset *)
Written(foffset, data) == [k \in 1 .. foffset |-> 0] \o data

(* variant: the test for an existing file is left out *)
WriteAnyway(f, foffset, data) ==
    /\ CanOpen
    /\ End(Returned("write", f, Len(data), "none"),
           [files EXCEPT ![f] = Written(foffset, data)], 0)

(* fileman_write(): the file must be new; it stays behind, and open, when  *)
(* one of the later calls fails                                            *)
fileman_write(f, foffset, data) ==
    \/ End(Returned("write", f, -1, "none"), files, 0)  \* the file exists, or creat() fails
    \/ /\ CanOpen
       /\ \/ End(Returned("write", f, -1, Untested(f)), [files EXCEPT ![f] = <<>>], 1)
                                                        \* lseek() or write() fails
          \/ \E k \in 1 .. Len(data) :                 \* k < Len(data): disk full
                LET fs == [files EXCEPT ![f] = Written(foffset, Prefix(data, k))]
                IN \/ End(Returned("write", f, k, Untested(f)), fs, 0)
                   \/ End(Returned("write", f, -1, Untested(f)), fs, 1)  \* fsync() fails
                   \/ End(Returned("write", f, -1, Untested(f)), fs, 0)  \* close() fails

(* write() of data over the first bytes of s *)
Overwritten(s, data) == data \o SubSeq(s, Len(data) + 1, Len(s))

(* fileman_append(): the file must exist; it is closed on every path.  A   *)
(* failed lseek() goes unnoticed, and the file is written from its start.  *)
fileman_append(f, data) ==
    \/ End(Returned("append", f, -1, "none"), files, 0)   \* open() or write() fails
    \/ /\ CanOpen /\ Exists(f)
       /\ \E k \in 1 .. Len(data) : \E r \in {k, -1} :   \* -1: fsync() or close() fails
             \/ End(Returned("append", f, r, "none"),
                    [files EXCEPT ![f] = @ \o Prefix(data, k)], 0)
             \/ End(Returned("append", f, r, "lseek"),
                    [files EXCEPT ![f] = Overwritten(@, Prefix(data, k))], 0)

(* the start of the last block of s that fileman_copy() writes *)
LastBlock(s) == BUF_SIZE * ((Len(s) - 1) \div BUF_SIZE)

CopyReturned(src, dest, r, full, mishap) ==
    [op |-> "copy", file |-> dest, src |-> src, ret |-> r, full |-> full, mishap |-> mishap]

(***************************************************************************)
(* fileman_copy(): block after block until one is short.  A write() that   *)
(* fails ends the copy with -1 and leaves what was written; so does a      *)
(* read() that fails, whose -1 is the count of the next write().  When the *)
(* disk fills up inside the last block, write() is short, and the call     *)
(* still returns the number of bytes read.  A destination that creat()     *)
(* empties may be the source itself.                                       *)
(***************************************************************************)
fileman_copy(src, dest) ==
    \/ End(CopyReturned(src, dest, -1, FALSE, "none"), files, 0)
                                   \* the destination exists, open() or creat() fails
    \/ /\ leaked + 1 < MaxFd /\ Exists(src)
       /\ LET s == IF src = dest THEN <<>> ELSE files[src]
              Left(k) == [files EXCEPT ![dest] = Prefix(s, k)]
          IN \/ End(CopyReturned(src, dest, Len(s), FALSE, Untested(dest)), Left(Len(s)), 0)
             \/ \E k \in 0 .. Len(s) - 1 :
                   \/ End(CopyReturned(src, dest, -1, TRUE, Untested(dest)), Left(k), 0)
                   \/ /\ k > LastBlock(s)
                      /\ End(CopyReturned(src, dest, Len(s), TRUE, Untested(dest)), Left(k), 0)

-----------------------------------------------------------------------------
(* external: scandir() with alphasort: the entries of a directory in order, *)
(* without the hidden ones (one())                                          *)
Entries(p, d) == {n \in 1 .. Nodes : p[n] = d}
IsLast(n) == \A m \in Entries(parent, parent[n]) : m <= n

NoDir == -1

(* the path of d leaves no room for a name: cut to PATH_LEN, the paths of  *)
(* the directories in it are d's own (an entry without entries may be a    *)
(* file, of which no path is made)                                         *)
CutTo(p, o, d) ==
    \A n \in Entries(p, d) : o[n] \in {d, NoDir} \/ (o[n] = n /\ Entries(p, n) = {})

(***************************************************************************)
(* What scandir() may find under the path of each entry: the entry, or     *)
(* nothing, as it fails or the path was cut; but a path that was cut may   *)
(* also name the directory the entry is in, or another entry of it, whose  *)
(* name is the first part of its own.                                      *)
(***************************************************************************)
Openings(p) ==
    {o \in [0 .. Nodes -> NoDir .. Nodes] :
       /\ o[0] \in {0, NoDir}
       /\ \A n \in 1 .. Nodes :
             \/ o[n] \in {n, NoDir}
             \/ \E d \in {p[n]} \cup {m \in Entries(p, p[n]) : m < n /\ o[m] = m} :
                   o[n] = d /\ CutTo(p, o, d)}

(* getdir() makes a path, and calls itself, for directories only *)
IsDir(n) == Entries(parent, n) # {} \/ opens[n] # n

(* where the process may end: a failed scandir() leaves the list that is   *)
(* freed uninitialized, and a path that names the directory itself is      *)
(* followed until the stack is used up                                     *)
BadFree  == [entry |-> -1]
Overflow == [entry |-> -2]

(* getdir() on entries m, m + 1, ... of directory d: the lines it writes, a *)
(* line being the level and the entry                                       *)
getdir[d \in NoDir .. Nodes, m \in 1 .. Nodes + 1, level \in 1 .. MaxLevel + 1] ==
    IF level > MaxLevel THEN <<Overflow>>
    ELSE IF d = NoDir THEN <<BadFree>>
    ELSE IF m > Nodes THEN <<>>
    ELSE IF parent[m] # d THEN getdir[d, m + 1, level]
    ELSE <<[entry |-> m, level |-> level]>>
           \o (IF IsDir(m) THEN getdir[opens[m], 1, level + 1] ELSE <<>>)
           \o getdir[d, m + 1, level]

(* variant: every entry is drawn as one that others follow *)
CornerNever(n, spacer) == [entry |-> n, prefix |-> spacer, corner |-> "TEE"]

(* what gettree() writes for an entry: the spacer of its directory, then   *)
(* the corner                                                              *)
Corner(n, spacer) ==
    [entry |-> n, prefix |-> spacer, corner |-> IF IsLast(n) THEN "ELB" ELSE "TEE"]

(* a spacer is a row of cells: a bar (VER, three bytes) and three spaces,  *)
(* or four spaces; "cut" is the rest of the buffer, less than a cell       *)
Column(n) == IF IsLast(n) THEN "blank" ELSE "bar"
Bytes(spacer) ==
    6 * Cardinality({c \in DOMAIN spacer : spacer[c] = "bar"})
      + 4 * Cardinality({c \in DOMAIN spacer : spacer[c] = "blank"})

(* snprintf() of the spacer and one more cell into spacer_new *)
spacer_new(spacer, cell) ==
    IF \E c \in DOMAIN spacer : spacer[c] = "cut" THEN spacer
    ELSE IF Bytes(Append(spacer, cell)) <= SpacerSize THEN Append(spacer, cell)
    ELSE Append(spacer, "cut")

Spacers == Seq({"bar", "blank", "cut"})

(* gettree() on entries m, m + 1, ... of directory d, below spacer *)
gettree[d \in NoDir .. Nodes, m \in 1 .. Nodes + 1, level \in Nat, spacer \in Spacers] ==
    IF level > MaxLevel THEN <<Overflow>>
    ELSE IF d = NoDir THEN <<BadFree>>
    ELSE IF m > Nodes THEN <<>>
    ELSE IF parent[m] # d THEN gettree[d, m + 1, level, spacer]
    ELSE <<Corner(m, spacer)>>
           \o (IF IsDir(m)
               THEN gettree[opens[m], 1, level + 1, spacer_new(spacer, Column(m))]
               ELSE <<>>)
           \o gettree[d, m + 1, level, spacer]

(* what arrives: all the lines, when the process comes to close the file;  *)
(* otherwise those that were flushed before it crashed                     *)
Output(items) ==
    LET Lines(k) == SelectSeq(Prefix(items, k), LAMBDA x : x.entry > 0)
        endless == {k \in DOMAIN items : items[k] = Overflow}
        crashes == {k \in DOMAIN items : items[k].entry < 0 /\ \A j \in endless : k <= j}
        Closed == [end |-> "closed", lines |-> Lines(Len(items))]
    IN {[end |-> "crashed", lines |-> Lines(k)] : k \in {i - 1 : i \in UNION {1 .. j : j \in crashes}}}
       \cup (IF endless = {} THEN {Closed} ELSE {})

(* fileman_dir() and fileman_tree() *)
fileman_dir ==
    /\ shown.end = "no"
    /\ shown' \in Output(getdir[opens[0], 1, 1])
    /\ UNCHANGED <<files, leaked, called, calls, parent, opens>>

fileman_tree ==
    /\ shown.end = "no"
    /\ shown' \in Output(gettree[opens[0], 1, 1, <<>>])
    /\ UNCHANGED <<files, leaked, called, calls, parent, opens>>

FileCall ==
    \/ \E f \in FName, n \in 0 .. 2 : fileman_read(f, 1, n)
    \/ \E f \in FName, o \in FOffsets, d \in Data : fileman_write(f, o, d)
    \/ \E f \in FName, d \in Data : fileman_append(f, d)
    \/ \E f, g \in FName : fileman_copy(f, g)

View == fileman_dir \/ fileman_tree

-----------------------------------------------------------------------------
(* a call on f did not notice that open() or lseek() had failed *)
Mishap(f) == called.mishap # "none" /\ called.file = f

(***************************************************************************)
(* No call destroys data, whatever fails and however many descriptors were *)
(* lost before: every file but the call's own stays as it is or, if it is  *)
(* new, is not touched; and the call's own is only extended, unless it     *)
(* existed and the open() that tests for it failed, or lseek() failed in   *)
(* fileman_append().  A copy that reports n bytes has n bytes of its       *)
(* source in a new file and they are all there are, with the same          *)
(* exception, and except when the disk filled up inside the last block:    *)
(* then it reports more than it wrote.                                     *)
(***************************************************************************)
FilesSafe ==
    [][/\ \A f \in FName : Exists(f) /\ ~Mishap(f)' =>
             /\ Len(files'[f]) >= Len(files[f])
             /\ Prefix(files'[f], Len(files[f])) = files[f]
       /\ calls' = calls + 1 =>
             /\ \A f \in FName : f # called'.file => files'[f] = files[f]
             /\ called'.op = "copy" /\ called'.ret >= 0 /\ called'.mishap = "none" =>
                   /\ ~Exists(called'.file)
                   /\ called'.ret = Len(files[called'.src])
                   /\ IF called'.full
                      THEN Len(files'[called'.file]) < called'.ret
                      ELSE files'[called'.file] = files[called'.src]]_filemanVars

(***************************************************************************)
(* fileman.c:90 and 161: fileman_write() and fileman_copy() return -1 if   *)
(* the file to be written already exists.  Violated: when the open() that  *)
(* tests for the file fails for another reason, creat() empties the file.  *)
(***************************************************************************)
ExistingRefused ==
    [][calls' = calls + 1 /\ called'.op \in {"write", "copy"} /\ Exists(called'.file) =>
          called'.ret = -1]_filemanVars

(***************************************************************************)
(* fileman.c:126: fileman_append() appends to an existing file.  Violated: *)
(* lseek() is not checked, and the bytes overwrite the first ones.         *)
(***************************************************************************)
AppendsAtEnd ==
    [][calls' = calls + 1 /\ called'.op = "append" /\ called'.ret >= 0 =>
          Len(files'[called'.file]) = Len(files[called'.file]) + called'.ret]_filemanVars

(* observation: depth of an entry, and its ancestor at depth k *)
Depth[n \in 0 .. Nodes] == IF n = 0 THEN 0 ELSE 1 + Depth[parent[n]]

Ancestors[n \in 0 .. Nodes] == IF n = 0 THEN {} ELSE {n} \cup Ancestors[parent[n]]

Ancestor(n, k) == CHOOSE a \in Ancestors[n] : Depth[a] = k

(* the bytes that the indentation of n takes in a tree *)
Indentation(n) == Bytes([k \in 1 .. Depth[n] - 1 |-> Column(Ancestor(n, k))])

(* scandir() finds every directory above n under its own path *)
Found(n) == \A d \in {0} \cup Ancestors[parent[n]] : opens[d] = d

(***************************************************************************)
(* The views show the directory as it is.  As long as no path is cut to    *)
(* the name of another directory: every entry is shown at most once, and   *)
(* in a view that was not interrupted exactly those are whose directories  *)
(* were found; an entry comes after its directory; its indentation is its  *)
(* depth; and in the tree column k carries a bar exactly when the entry's  *)
(* ancestor at depth k has later siblings, as far as the spacer reaches.   *)
(* And only a scandir() that does not find its directory ends the process. *)
(***************************************************************************)
ViewsFaithful ==
    LET Line(n) == {k \in DOMAIN shown.lines : shown.lines[k].entry = n} IN
    /\ shown.end = "crashed" => \E n \in 0 .. Nodes : opens[n] # n
    /\ shown.end # "no" /\ (\A n \in 0 .. Nodes : opens[n] \in {n, NoDir}) =>
         \A n \in 1 .. Nodes :
            /\ Cardinality(Line(n)) <= IF Found(n) THEN 1 ELSE 0
            /\ shown.end = "closed" /\ Found(n) => Line(n) # {}
            /\ \A k \in Line(n) :
                  LET l == shown.lines[k] IN
                  /\ parent[n] # 0 => \E j \in Line(parent[n]) : j < k
                  /\ IF "level" \in DOMAIN l
                     THEN l.level = Depth[n]
                     ELSE /\ l.corner = IF IsLast(n) THEN "ELB" ELSE "TEE"
                          /\ Indentation(n) <= SpacerSize => Len(l.prefix) = Depth[n] - 1
                          /\ Bytes(l.prefix) <= SpacerSize
                          /\ \A c \in DOMAIN l.prefix :
                                \/ l.prefix[c] = Column(Ancestor(n, c))
                                \/ l.prefix[c] = "cut" /\ Indentation(n) > SpacerSize

(***************************************************************************)
(* fileman.c:254: the view is a hierarchical view of DNAME, in which an    *)
(* entry has one place.  Violated: the path of a directory is cut to       *)
(* PATH_LEN and names another one, which is listed again in its stead.     *)
(***************************************************************************)
ShownOnce ==
    shown.end = "closed" =>
       \A i, j \in DOMAIN shown.lines :
          shown.lines[i].entry = shown.lines[j].entry => i = j
=============================================================================
