------------------------------ MODULE MCMachine ------------------------------
(***************************************************************************)
(* Machine for TLC: the drives and partition tables of the disks, the size *)
(* classes of the allocator, the elements of the hash table and the        *)
(* executables that processes load.                                        *)
(***************************************************************************)
EXTENDS Machine, TLC

(* one disk; a disk next to one that fails or is too large *)
SomeDrives == {0 :> "ata" @@ 1 :> "other", 0 :> "failed" @@ 1 :> "ata",
               0 :> "huge" @@ 1 :> "ata"}

(* partitions inside the disk, across its end, and extended ones, of which *)
(* one begins in the sector that holds the table                           *)
Part(type, offset, size) == [type |-> type, offset |-> offset, size |-> size]
SomeTables ==
    0 :> {<<Part("swap", 1, 1)>>,
          <<Part("swap", 2, 7), Part("foreign", 3, 1)>>,
          <<Part("extended", 2, 2), Part("filesys", 1, 1)>>,
          <<Part("extended", 1, 2)>>}
    @@ 1 :> {<<>>}

SomeBlocksPerArena == <<3, 2>>

(* two of the elements have the same key *)
SomeElements == {<<k, 1>> : k \in 1 .. 4} \cup {<<4, 2>>}
SomeHashes == <<0, 1, 2, 5>>

(* segments: across a page border, in a writable page, in the page of the  *)
(* stack, and beyond the user's addresses                                  *)
Segment(offset, vaddr, filesz, memsz, w) ==
    [type |-> "PT_LOAD", offset |-> offset, vaddr |-> vaddr, filesz |-> filesz,
     memsz |-> memsz, w |-> w]
SomeImages ==
    {<<[Segment(0, 0, 0, 0, FALSE) EXCEPT !.type = "ignored"], Segment(1, 3, 2, 3, FALSE)>>,
     <<Segment(0, 4, 1, 2, TRUE)>>,
     <<Segment(0, 6, 1, 1, TRUE)>>,
     <<Segment(0, 4, 1, 14, TRUE)>>}

(* pages for two processes at once, and too few for two *)
SomePools == {[kernel |-> 4, user |-> 4], [kernel |-> 3, user |-> 2]}
=============================================================================
