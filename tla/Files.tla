-------------------------------- MODULE Files --------------------------------
(***************************************************************************)
(* What user programs rely on: files are sequences of words, named in one  *)
(* directory; an open file has a position; a read returns what was last    *)
(* written; an operation that fails changes nothing.                       *)
(***************************************************************************)
EXTENDS Integers, Sequences

CONSTANTS Names, Ids, Words, MaxLength,
          Fds,            \* descriptors
          Sizes,          \* of reads and writes
          InitialSizes    \* of new files

VARIABLES
  dir,       \* the identity of the file of each name, or NoFile
  data,      \* the contents of each file; empty when the file is gone
  handles,   \* open files of the running process: a set of [fd, id, pos]
  got        \* what the last call returned, if it was a read

vars == <<dir, data, handles, got>>

NoFile == 0
Least(a, b) == IF a < b THEN a ELSE b
Zeros(n) == [i \in 1..n |-> 0]
Live(id) == (\E n \in Names : dir[n] = id) \/ (\E h \in handles : h.id = id)

Init ==
  /\ dir = [n \in Names |-> NoFile]
  /\ data = [id \in Ids |-> <<>>]
  /\ handles = {}
  /\ got = <<>>

Create(n, id, size) ==
  /\ dir' = [dir EXCEPT ![n] = id]
  /\ dir[n] = NoFile
  /\ ~Live(id)
  /\ data' = [data EXCEPT ![id] = Zeros(size)]
  /\ got' = <<>>
  /\ UNCHANGED handles

Open(n, fd) ==
  /\ dir[n] # NoFile
  /\ ~\E h \in handles : h.fd = fd
  /\ handles' = handles \cup {[fd |-> fd, id |-> dir[n], pos |-> 0]}
  /\ got' = <<>>
  /\ UNCHANGED <<dir, data>>

Move(h, k) == handles' = (handles \ {h}) \cup {[h EXCEPT !.pos = @ + k]}

Read(h, size) ==
  /\ got' = SubSeq(data[h.id], h.pos + 1, Least(h.pos + size, Len(data[h.id])))
  /\ Move(h, Len(got'))
  /\ UNCHANGED <<dir, data>>

\* overwrites, and extends the file where it ends too early
Write(h, w, size) ==
  LET end == h.pos + size
      old == data[h.id]
      length == IF Len(old) < end THEN end ELSE Len(old)
  IN /\ length <= MaxLength
     /\ data' = [data EXCEPT ![h.id] = [i \in 1..length |->
                    IF i > h.pos /\ i <= end THEN w
                    ELSE IF i <= Len(old) THEN old[i] ELSE 0]]
     /\ Move(h, size)
     /\ got' = <<>>
  /\ UNCHANGED dir

\* a file that is removed while open keeps its contents
Remove(n) ==
  LET id == dir[n] IN
  /\ id # NoFile
  /\ dir' = [dir EXCEPT ![n] = NoFile]
  /\ data' = IF \E h \in handles : h.id = id THEN data ELSE [data EXCEPT ![id] = <<>>]
  /\ got' = <<>>
  /\ UNCHANGED handles

\* closing files, one or all of them, frees the contents of removed ones
Close(hs) ==
  /\ hs # {}
  /\ handles' = handles \ hs
  /\ data' = [id \in Ids |->
                IF (\E n \in Names : dir[n] = id) \/ (\E h \in handles' : h.id = id)
                THEN data[id] ELSE <<>>]
  /\ got' = <<>>
  /\ UNCHANGED dir

\* any call may be refused, and closing nothing changes nothing
Refuse == got' = <<>> /\ UNCHANGED <<dir, data, handles>>

Next ==
  \/ Refuse
  \/ \E h \in handles, size \in Sizes : Read(h, size)
  \/ \E n \in Names, fd \in Fds : Open(n, fd)
  \/ \E hs \in {{h} : h \in handles} \cup {handles} : Close(hs)
  \/ \E h \in handles, w \in Words, size \in Sizes : Write(h, w, size)
  \/ \E n \in Names : Remove(n)
  \/ \E n \in Names, id \in Ids, size \in InitialSizes : Create(n, id, size)

Spec == Init /\ [][Next]_vars
=============================================================================
