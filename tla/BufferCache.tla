------------------------------ MODULE BufferCache ------------------------------
(***************************************************************************)
(* The buffer cache of Lab 3's file system (cache.c): CacheSize slots, one *)
(* lock, write-back, and the clock algorithm for replacement.  A step is a *)
(* statement that touches the disk, an iteration of the clock, or a        *)
(* stretch of code between two of them.                                    *)
(***************************************************************************)
EXTENDS Integers, FiniteSets

CONSTANTS
  Threads,     \* threads that use the cache
  Sectors,     \* sectors of fs_device
  Values,      \* contents of a sector
  CacheSize    \* BUFFER_CACHE_SIZE

NoThread == "nobody"

ASSUME CacheAssumption ==
  CacheSize \in Nat \ {0} /\ Sectors \subseteq Nat /\ Values \subseteq Nat
  /\ 0 \in Sectors \cap Values /\ NoThread \notin Threads

Slot == 0..CacheSize - 1
NoSlot == CacheSize

VARIABLES
  cache,       \* the entries
  clock,       \* the hand of buffer_cache_evict()
  disk,        \* the sectors on the device
  holder,      \* of buffer_cache_lock
  pc,          \* where each thread is in its operation
  op,          \* the operation: kind, sector and value
  slot,        \* the local variable slot, or i of buffer_cache_close()
  got,         \* what the last read copied out
  parity       \* history: of the number of completed operations

vars == <<cache, clock, disk, holder, pc, op, slot, got, parity>>

Entry == [occupied : BOOLEAN, disk_sector : Sectors, buffer : Values,
          dirty : BOOLEAN, access : BOOLEAN]

Ops == [kind : {"read", "close"}, sector : Sectors, value : {0}]
         \cup [kind : {"write"}, sector : Sectors, value : Values]

NoOp == [kind |-> "none", sector |-> 0, value |-> 0]

\* the cache is a zeroed static array, the device a fresh one
Init ==
  /\ cache = [i \in Slot |-> [occupied |-> FALSE, disk_sector |-> 0, buffer |-> 0,
                              dirty |-> FALSE, access |-> FALSE]]
  /\ clock = 0
  /\ disk = [s \in Sectors |-> 0]
  /\ holder = NoThread
  /\ pc = [t \in Threads |-> "idle"]
  /\ op = [t \in Threads |-> NoOp]
  /\ slot = [t \in Threads |-> NoSlot]
  /\ got = 0
  /\ parity = 0

Goto(t, l) == pc' = [pc EXCEPT ![t] = l]
SetSlot(t, i) == slot' = [slot EXCEPT ![t] = i]

-----------------------------------------------------------------------------
Call(t, o) ==
  /\ pc[t] = "idle"
  /\ op' = [op EXCEPT ![t] = o]
  /\ Goto(t, "acquire")
  /\ UNCHANGED <<cache, clock, disk, holder, slot, got, parity>>

Hits(s) == {i \in Slot : cache[i].occupied /\ cache[i].disk_sector = s}

\* variant: the last slot is not searched
LookupAllButLast(t) ==
  LET hits == Hits(op[t].sector) \ {CacheSize - 1} IN
  \/ /\ op[t].kind = "close"
     /\ SetSlot(t, 0)
     /\ Goto(t, "flushing")
  \/ /\ op[t].kind # "close" /\ hits = {}
     /\ Goto(t, "evict")
     /\ UNCHANGED slot
  \/ /\ op[t].kind # "close"
     /\ \E i \in hits : SetSlot(t, i)
     /\ Goto(t, "copy")

\* buffer_cache_lookup(): the first slot that holds the sector, or a miss
Lookup(t) ==
  LET hits == Hits(op[t].sector) IN
  \/ /\ op[t].kind = "close"
     /\ SetSlot(t, 0)
     /\ Goto(t, "flushing")
  \/ /\ op[t].kind # "close" /\ hits = {}
     /\ Goto(t, "evict")
     /\ UNCHANGED slot
  \/ /\ op[t].kind # "close"
     /\ \E i \in hits : (\A j \in hits : i <= j) /\ SetSlot(t, i)
     /\ Goto(t, "copy")

\* lock_acquire() and what follows up to the first access to the disk
Acquire(t) ==
  /\ pc[t] = "acquire"
  /\ holder = NoThread
  /\ holder' = t
  /\ Lookup(t)
  /\ UNCHANGED <<cache, clock, disk, op, got, parity>>

\* one iteration of the clock: an empty slot is taken, an accessed one gets a
\* second chance, any other is the victim
Evict(t) ==
  LET e == cache[clock] IN
  /\ pc[t] = "evict"
  /\ \/ /\ ~e.occupied
        /\ SetSlot(t, clock)
        /\ Goto(t, "claim")
        /\ UNCHANGED <<cache, clock>>
     \/ /\ e.occupied /\ e.access
        /\ cache' = [cache EXCEPT ![clock].access = FALSE]
        /\ clock' = (clock + 1) % CacheSize
        /\ UNCHANGED <<pc, slot>>
     \/ /\ e.occupied /\ ~e.access
        /\ SetSlot(t, clock)
        /\ Goto(t, "writeback")
        /\ UNCHANGED <<cache, clock>>
  /\ UNCHANGED <<disk, holder, op, got, parity>>

\* variant: a dirty victim is dropped
WriteBackNever(t) ==
  /\ pc[t] = "writeback"
  /\ cache' = [cache EXCEPT ![slot[t]].dirty = FALSE, ![slot[t]].occupied = FALSE]
  /\ Goto(t, "claim")
  /\ UNCHANGED <<clock, disk, holder, op, slot, got, parity>>

\* buffer_cache_flush() of the victim: the value reaches the disk
WriteBack(t) ==
  LET i == slot[t] IN
  /\ pc[t] = "writeback"
  /\ disk' = IF cache[i].dirty THEN [disk EXCEPT ![cache[i].disk_sector] = cache[i].buffer]
             ELSE disk
  /\ cache' = [cache EXCEPT ![i].dirty = FALSE, ![i].occupied = FALSE]
  /\ Goto(t, "claim")
  /\ UNCHANGED <<clock, holder, op, slot, got, parity>>

\* the entry names its new sector before block_read() has filled it
Claim(t) ==
  LET i == slot[t] IN
  /\ pc[t] = "claim"
  /\ cache' = [cache EXCEPT ![i].occupied = TRUE, ![i].disk_sector = op[t].sector,
                            ![i].dirty = FALSE]
  /\ Goto(t, "fill")
  /\ UNCHANGED <<clock, disk, holder, op, slot, got, parity>>

Fill(t) ==
  LET i == slot[t] IN
  /\ pc[t] = "fill"
  /\ cache' = [cache EXCEPT ![i].buffer = disk[op[t].sector]]
  /\ Goto(t, "copy")
  /\ UNCHANGED <<clock, disk, holder, op, slot, got, parity>>

\* the memcpy(), and lock_release()
Copy(t) ==
  LET i == slot[t] IN
  /\ pc[t] = "copy"
  /\ \/ /\ op[t].kind = "read"
        /\ cache' = [cache EXCEPT ![i].access = TRUE]
        /\ got' = cache[i].buffer
     \/ /\ op[t].kind = "write"
        /\ cache' = [cache EXCEPT ![i].access = TRUE, ![i].dirty = TRUE,
                                  ![i].buffer = op[t].value]
        /\ UNCHANGED got
  /\ parity' = 1 - parity
  /\ holder' = NoThread
  /\ SetSlot(t, NoSlot)
  /\ Goto(t, "idle")
  /\ op' = [op EXCEPT ![t] = NoOp]
  /\ UNCHANGED <<clock, disk>>

\* variant: the last slot is forgotten
FlushAllButLast(t) ==
  LET i == slot[t] IN
  /\ pc[t] = "flushing"
  /\ \/ /\ i = NoSlot
        /\ holder' = NoThread
        /\ Goto(t, "closed")
        /\ UNCHANGED <<cache, disk, slot>>
     \/ /\ i = CacheSize - 1
        /\ SetSlot(t, NoSlot)
        /\ UNCHANGED <<cache, disk, holder, pc>>
     \/ /\ i < CacheSize - 1
        /\ disk' = IF cache[i].occupied THEN [disk EXCEPT ![cache[i].disk_sector] = cache[i].buffer]
                   ELSE disk
        /\ cache' = [cache EXCEPT ![i].dirty = FALSE]
        /\ SetSlot(t, i + 1)
        /\ UNCHANGED <<holder, pc>>
  /\ UNCHANGED <<clock, op, got, parity>>

\* one iteration of buffer_cache_close(); past the last slot the lock is released
Flush(t) ==
  LET i == slot[t] IN
  /\ pc[t] = "flushing"
  /\ \/ /\ i = NoSlot
        /\ holder' = NoThread
        /\ Goto(t, "closed")
        /\ UNCHANGED <<cache, disk, slot>>
     \/ /\ i # NoSlot
        /\ LET flush == cache[i].occupied /\ cache[i].dirty IN
           /\ disk' = IF flush THEN [disk EXCEPT ![cache[i].disk_sector] = cache[i].buffer]
                      ELSE disk
           /\ cache' = [cache EXCEPT ![i].dirty = @ /\ ~cache[i].occupied]
        /\ SetSlot(t, i + 1)
        /\ UNCHANGED <<holder, pc>>
  /\ UNCHANGED <<clock, op, got, parity>>

Step(t) ==
  \/ Acquire(t) \/ Evict(t) \/ WriteBack(t)
  \/ Claim(t) \/ Fill(t) \/ Copy(t) \/ Flush(t)

\* after filesys_done() the machine is off
Off == \E t \in Threads : pc[t] = "closed"

Next == \E t \in Threads : Step(t) \/ (~Off /\ \E o \in Ops : Call(t, o))

Spec == Init /\ [][Next]_vars

-----------------------------------------------------------------------------
\* Type invariant.
TypeOK ==
  /\ cache \in [Slot -> Entry]
  /\ clock \in Slot
  /\ disk \in [Sectors -> Values]
  /\ holder \in Threads \cup {NoThread}
  /\ pc \in [Threads -> {"idle", "acquire", "evict", "writeback", "claim", "fill",
                         "copy", "flushing", "closed"}]
  /\ op \in [Threads -> Ops \cup {NoOp}]
  /\ slot \in [Threads -> 0..CacheSize]
  /\ got \in Values
  /\ parity \in {0, 1}

\* No sector is in two slots: a lookup of the first would miss the writes made
\* through the second, and the two would overwrite each other on the disk.
OneSlot ==
  \A i, j \in Slot : cache[i].occupied /\ cache[j].occupied
                     /\ cache[i].disk_sector = cache[j].disk_sector => i = j

Filling(i) == \E t \in Threads : pc[t] = "fill" /\ slot[t] = i

\* the value a sector has for the callers: in its slot once that is filled,
\* otherwise on the disk
Store ==
  [s \in Sectors |->
     LET filled == {i \in Hits(s) : ~Filling(i)} IN
     IF filled = {} THEN disk[s] ELSE cache[CHOOSE i \in filled : TRUE].buffer]

\* The cache is invisible: callers see a store in which every read returns what
\* was last written, whatever is evicted, written back or read in between.
BS == INSTANCE BlockStore WITH store <- Store
ImplementsBlockStore == BS!Spec

\* When the loop of buffer_cache_close() has passed the last slot, the disk holds
\* every value written so far: nothing is lost by switching the machine off.
ClosedClean ==
  (\E t \in Threads : pc[t] = "flushing" /\ slot[t] = NoSlot)
    => \A s \in Sectors : disk[s] = Store[s]
=============================================================================
