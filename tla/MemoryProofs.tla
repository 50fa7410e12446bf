---------------------------- MODULE MemoryProofs ----------------------------
(***************************************************************************)
(* Proofs about the two parts of Lab 3 that hand out pages of memory.      *)
(*                                                                         *)
(* First the buffer cache, for any number of threads, sectors, values and  *)
(* slots: no sector is in two slots, nothing is lost when the cache is     *)
(* closed, and the callers of buffer_cache_read() and                      *)
(* buffer_cache_write() see a store of sectors.                            *)
(*                                                                         *)
(* Then the address spaces, for any processes, executables, page size and  *)
(* number of pages: each process has its memory to itself, with its        *)
(* executable in it, whenever the processor switches and wherever a load   *)
(* fails.  The inductive invariant is SpaceInv.                            *)
(***************************************************************************)
EXTENDS BufferCache, AddressSpaces, FiniteSetTheorems, WellFoundedInduction, TLAPS

Inside == {"evict", "writeback", "claim", "fill", "copy", "flushing"}

(* only the holder of buffer_cache_lock is between its two calls *)
Mutex == \A t \in Threads : pc[t] \in Inside <=> holder = t

(* what the operation is, given where its thread is *)
OpOf(t) ==
  /\ pc[t] = "acquire" => op[t] \in Ops
  /\ pc[t] = "flushing" => op[t].kind = "close"
  /\ pc[t] \in Inside \ {"flushing"} => op[t] \in Ops /\ op[t].kind # "close"

(* what the local variable slot refers to, given where the thread is: the  *)
(* sector is in no slot until one is claimed, and the loop of              *)
(* buffer_cache_close() leaves clean slots behind it                       *)
SlotOf(t) ==
  /\ pc[t] \in {"evict", "writeback", "claim"} =>
       \A i \in Slot : cache[i].occupied => cache[i].disk_sector # op[t].sector
  /\ pc[t] \in {"writeback", "claim", "fill", "copy"} => slot[t] \in Slot
  /\ pc[t] = "writeback" => cache[slot[t]].occupied
  /\ pc[t] = "claim" => ~cache[slot[t]].occupied
  /\ pc[t] \in {"fill", "copy"} =>
       cache[slot[t]].occupied /\ cache[slot[t]].disk_sector = op[t].sector
  /\ pc[t] = "fill" => ~cache[slot[t]].dirty
  /\ pc[t] = "flushing" =>
       \A i \in Slot : i < slot[t] /\ cache[i].occupied => ~cache[i].dirty

(* a filled slot that is not dirty agrees with the disk *)
CleanInv ==
  \A i \in Slot :
    cache[i].occupied /\ ~cache[i].dirty /\ ~Filling(i)
      => cache[i].buffer = disk[cache[i].disk_sector]

IInv ==
  /\ TypeOK
  /\ Mutex
  /\ \A t \in Threads : OpOf(t) /\ SlotOf(t)
  /\ CleanInv
  /\ OneSlot

-----------------------------------------------------------------------------
(* What an operation consists of. *)
LEMMA OpParts ==
  ASSUME NEW o \in Ops
  PROVE  /\ o.kind \in {"read", "write", "close"}
         /\ o.sector \in Sectors
         /\ o.value \in Values
  BY CacheAssumption DEF Ops

(* What an update of an entry's fields gives is an entry. *)
LEMMA EntryUpdate ==
  ASSUME NEW e \in Entry, NEW s \in Sectors, NEW v \in Values, NEW d \in BOOLEAN
  PROVE  /\ [e EXCEPT !.access = FALSE] \in Entry
         /\ [e EXCEPT !.access = TRUE] \in Entry
         /\ [e EXCEPT !.dirty = d] \in Entry
         /\ [e EXCEPT !.dirty = FALSE, !.occupied = FALSE] \in Entry
         /\ [e EXCEPT !.occupied = TRUE, !.disk_sector = s, !.dirty = FALSE] \in Entry
         /\ [e EXCEPT !.buffer = v] \in Entry
         /\ [e EXCEPT !.access = TRUE, !.dirty = TRUE, !.buffer = v] \in Entry
  BY DEF Entry

(* The first state satisfies the inductive invariant. *)
LEMMA InitIInv == Init => IInv
<1> SUFFICES ASSUME Init PROVE IInv
  OBVIOUS
<1>1. TypeOK
  BY CacheAssumption DEF Init, TypeOK, Slot, Entry, Ops, NoOp, NoSlot, NoThread
<1>2. QED
  BY <1>1, CacheAssumption
  DEF Init, IInv, Mutex, OpOf, SlotOf, CleanInv, OneSlot, Inside

(* A thread is alone inside: the slot being filled, if any, is its own. *)
LEMMA Alone ==
  ASSUME IInv, NEW t \in Threads, holder \in {t, NoThread}
  PROVE  /\ \A u \in Threads \ {t} : pc[u] \notin Inside
         /\ \A i \in Slot : Filling(i) <=> pc[t] = "fill" /\ slot[t] = i
  BY CacheAssumption DEF IInv, Mutex, Inside, Filling

(* A step of the thread that has the lock, or takes it, leaves the others  *)
(* as they are: it has to keep only what concerns itself and the cache.    *)
LEMMA OwnStep ==
  ASSUME IInv, NEW t \in Threads, holder \in {t, NoThread},
         \A u \in Threads \ {t} : pc'[u] = pc[u] /\ op'[u] = op[u],
         holder' \in {t, NoThread}, pc'[t] \in Inside <=> holder' = t,
         TypeOK', OpOf(t)', SlotOf(t)', OneSlot',
         \A i \in Slot :
            cache'[i].occupied /\ ~cache'[i].dirty /\ ~(pc'[t] = "fill" /\ slot'[t] = i)
              => cache'[i].buffer = disk'[cache'[i].disk_sector]
  PROVE  IInv'
<1>1. \A u \in Threads \ {t} : pc'[u] \notin Inside
  BY Alone
<1>2. Mutex'
  BY <1>1, CacheAssumption DEF Mutex
<1>3. \A u \in Threads : OpOf(u)' /\ SlotOf(u)'
  BY <1>1 DEF OpOf, SlotOf, Inside, IInv
<1>4. CleanInv'
  BY DEF CleanInv, Filling
<1>5. QED
  BY <1>2, <1>3, <1>4 DEF IInv

-----------------------------------------------------------------------------
(* a thread enters the cache *)
LEMMA CallIInv ==
  ASSUME IInv, NEW t \in Threads, NEW o \in Ops, Call(t, o)
  PROVE  IInv'
<1>1. TypeOK'
  BY DEF IInv, TypeOK, Call, Goto
<1>2. /\ pc[t] = "idle" /\ pc'[t] = "acquire" /\ op'[t] = o
      /\ \A u \in Threads \ {t} : pc'[u] = pc[u] /\ op'[u] = op[u]
      /\ UNCHANGED <<cache, clock, disk, holder, slot>>
  BY DEF IInv, TypeOK, Call, Goto
<1>3. Mutex'
  BY <1>2 DEF IInv, Mutex, Inside
<1>4. \A u \in Threads : OpOf(u)' /\ SlotOf(u)'
  BY <1>2 DEF IInv, OpOf, SlotOf, Inside
<1>5. CleanInv' /\ OneSlot'
  BY <1>2 DEF IInv, CleanInv, OneSlot, Filling
<1>6. QED
  BY <1>1, <1>3, <1>4, <1>5 DEF IInv

(* it takes the lock and looks its sector up *)
LEMMA AcquireIInv ==
  ASSUME IInv, NEW t \in Threads, Acquire(t)
  PROVE  IInv'
<1>1. /\ pc[t] = "acquire" /\ holder = NoThread /\ holder' = t
      /\ op[t] \in Ops
      /\ UNCHANGED <<cache, clock, disk, op, got, parity>>
      /\ \A u \in Threads \ {t} : pc'[u] = pc[u]
  BY DEF IInv, TypeOK, OpOf, Acquire, Lookup, Goto
<1>2. \/ /\ op[t].kind = "close" /\ pc'[t] = "flushing" /\ slot'[t] = 0
      \/ /\ op[t].kind # "close" /\ pc'[t] = "evict"
         /\ \A i \in Slot : cache[i].occupied => cache[i].disk_sector # op[t].sector
      \/ /\ op[t].kind # "close" /\ pc'[t] = "copy"
         /\ slot'[t] \in Slot
         /\ cache[slot'[t]].occupied /\ cache[slot'[t]].disk_sector = op[t].sector
  BY DEF IInv, TypeOK, Acquire, Lookup, Hits, Goto, SetSlot
<1>3. TypeOK'
  BY <1>1, CacheAssumption DEF IInv, TypeOK, Acquire, Lookup, Hits, Goto, SetSlot, Slot
<1>4. OpOf(t)' /\ SlotOf(t)'
  BY <1>1, <1>2 DEF OpOf, SlotOf, Inside, Slot
<1>5. OneSlot'
  BY <1>1 DEF IInv, OneSlot
<1>6. \A i \in Slot : cache[i].occupied /\ ~cache[i].dirty
                       => cache[i].buffer = disk[cache[i].disk_sector]
  BY <1>1, Alone DEF IInv, CleanInv
<1>7. QED
  BY <1>1, <1>2, <1>3, <1>4, <1>5, <1>6, OwnStep DEF Inside

(* a turn of the clock hand *)
LEMMA EvictIInv ==
  ASSUME IInv, NEW t \in Threads, Evict(t)
  PROVE  IInv'
<1>1. /\ pc[t] = "evict" /\ holder = t /\ op[t] \in Ops /\ op[t].kind # "close"
      /\ UNCHANGED <<disk, holder, op, got, parity>>
      /\ \A u \in Threads \ {t} : pc'[u] = pc[u]
      /\ clock \in Slot
  BY DEF IInv, TypeOK, Mutex, OpOf, Inside, Evict, Goto
<1>2. \/ /\ pc'[t] = "claim" /\ slot'[t] = clock /\ ~cache[clock].occupied
      \/ /\ pc'[t] = "evict"
      \/ /\ pc'[t] = "writeback" /\ slot'[t] = clock /\ cache[clock].occupied
  BY <1>1 DEF IInv, TypeOK, Evict, Goto, SetSlot
<1>3. TypeOK'
  <2>1. (clock + 1) % CacheSize \in Slot
    BY <1>1, CacheAssumption DEF Slot
  <2>2. clock' \in Slot
    BY <1>1, <2>1 DEF Evict
  <2>3. cache' \in [Slot -> Entry]
    <3>1. cache \in [Slot -> Entry] /\ [cache[clock] EXCEPT !.access = FALSE] \in Entry
      BY <1>1, EntryUpdate, CacheAssumption DEF IInv, TypeOK
    <3>2. cache' = cache \/ cache' = [cache EXCEPT ![clock].access = FALSE]
      BY DEF Evict
    <3>3. QED
      BY <1>1, <3>1, <3>2
  <2>4. slot' \in [Threads -> 0..CacheSize]
    BY <1>1, CacheAssumption DEF IInv, TypeOK, Evict, SetSlot, Slot
  <2>5. QED
    BY <1>1, <2>2, <2>3, <2>4 DEF IInv, TypeOK, Evict, Goto
<1>4. \A i \in Slot : /\ cache'[i].occupied = cache[i].occupied
                      /\ cache'[i].disk_sector = cache[i].disk_sector
                      /\ cache'[i].buffer = cache[i].buffer
                      /\ cache'[i].dirty = cache[i].dirty
  BY <1>1 DEF IInv, TypeOK, Evict, Entry
<1>5. OpOf(t)' /\ SlotOf(t)'
  BY <1>1, <1>2, <1>4 DEF OpOf, SlotOf, IInv, Inside
<1>6. OneSlot'
  BY <1>4 DEF IInv, OneSlot
<1>7. \A i \in Slot : cache'[i].occupied /\ ~cache'[i].dirty
                       => cache'[i].buffer = disk[cache'[i].disk_sector]
  BY <1>1, <1>4, Alone DEF IInv, CleanInv
<1>8. QED
  BY <1>1, <1>2, <1>3, <1>5, <1>6, <1>7, OwnStep DEF Inside

(* a dirty victim is written to the disk *)
LEMMA WriteBackIInv ==
  ASSUME IInv, NEW t \in Threads, WriteBack(t)
  PROVE  IInv'
<1> DEFINE i == slot[t]
<1>1. /\ pc[t] = "writeback" /\ holder = t /\ op[t] \in Ops /\ op[t].kind # "close"
      /\ i \in Slot
      /\ UNCHANGED <<clock, holder, op, slot, got, parity>>
      /\ pc'[t] = "claim"
      /\ \A u \in Threads \ {t} : pc'[u] = pc[u]
  BY DEF IInv, TypeOK, Mutex, OpOf, SlotOf, Inside, WriteBack, Goto
<1>2. cache[i].disk_sector \in Sectors /\ cache[i].buffer \in Values
  BY <1>1 DEF IInv, TypeOK, Entry
<1>3. TypeOK'
  BY <1>1, <1>2, EntryUpdate DEF IInv, TypeOK, WriteBack, Goto
<1>4. /\ ~cache'[i].occupied /\ ~cache'[i].dirty
      /\ \A j \in Slot \ {i} : cache'[j] = cache[j]
  BY <1>1 DEF IInv, TypeOK, WriteBack, Entry
<1>5. OpOf(t)' /\ SlotOf(t)'
  BY <1>1, <1>4 DEF OpOf, SlotOf, IInv, Inside
<1>6. OneSlot'
  BY <1>4 DEF IInv, OneSlot
<1>7. \A j \in Slot \ {i} : cache[j].occupied
         => disk'[cache[j].disk_sector] = disk[cache[j].disk_sector]
  BY <1>1, <1>2 DEF IInv, TypeOK, SlotOf, OneSlot, WriteBack, Entry
<1>8. \A j \in Slot : cache'[j].occupied /\ ~cache'[j].dirty
                       => cache'[j].buffer = disk'[cache'[j].disk_sector]
  BY <1>1, <1>4, <1>7, Alone DEF IInv, CleanInv
<1>9. QED
  BY <1>1, <1>3, <1>5, <1>6, <1>8, OwnStep DEF Inside

(* the slot gets its new sector number *)
LEMMA ClaimIInv ==
  ASSUME IInv, NEW t \in Threads, Claim(t)
  PROVE  IInv'
<1> DEFINE i == slot[t]
<1>1. /\ pc[t] = "claim" /\ holder = t /\ op[t] \in Ops /\ op[t].kind # "close"
      /\ i \in Slot
      /\ UNCHANGED <<clock, disk, holder, op, slot, got, parity>>
      /\ pc'[t] = "fill"
      /\ \A u \in Threads \ {t} : pc'[u] = pc[u]
  BY DEF IInv, TypeOK, Mutex, OpOf, SlotOf, Inside, Claim, Goto
<1>2. TypeOK'
  BY <1>1, OpParts, EntryUpdate DEF IInv, TypeOK, Claim, Goto
<1>3. /\ cache'[i].occupied /\ ~cache'[i].dirty /\ cache'[i].disk_sector = op[t].sector
      /\ \A j \in Slot \ {i} : cache'[j] = cache[j]
  BY <1>1 DEF IInv, TypeOK, Claim, Entry
<1>4. OpOf(t)' /\ SlotOf(t)'
  BY <1>1, <1>3 DEF OpOf, SlotOf, IInv, Inside
<1>5. OneSlot'
  BY <1>1, <1>3 DEF IInv, OneSlot, SlotOf
<1>6. \A j \in Slot : cache'[j].occupied /\ ~cache'[j].dirty /\ ~(i = j)
                       => cache'[j].buffer = disk[cache'[j].disk_sector]
  BY <1>1, <1>3, Alone DEF IInv, CleanInv
<1>7. QED
  BY <1>1, <1>2, <1>4, <1>5, <1>6, OwnStep DEF Inside

(* the sector is read into the slot *)
LEMMA FillIInv ==
  ASSUME IInv, NEW t \in Threads, Fill(t)
  PROVE  IInv'
<1> DEFINE i == slot[t]
<1>1. /\ pc[t] = "fill" /\ holder = t /\ op[t] \in Ops /\ op[t].kind # "close"
      /\ i \in Slot
      /\ UNCHANGED <<clock, disk, holder, op, slot, got, parity>>
      /\ pc'[t] = "copy"
      /\ \A u \in Threads \ {t} : pc'[u] = pc[u]
  BY DEF IInv, TypeOK, Mutex, OpOf, SlotOf, Inside, Fill, Goto
<1>2. TypeOK'
  BY <1>1, OpParts DEF IInv, TypeOK, Fill, Goto, Entry
<1>3. /\ cache'[i].occupied = cache[i].occupied /\ cache'[i].dirty = cache[i].dirty
      /\ cache'[i].disk_sector = cache[i].disk_sector
      /\ cache'[i].buffer = disk[op[t].sector]
      /\ \A j \in Slot \ {i} : cache'[j] = cache[j]
  BY <1>1 DEF IInv, TypeOK, Fill, Entry
<1>4. OpOf(t)' /\ SlotOf(t)'
  BY <1>1, <1>3 DEF OpOf, SlotOf, IInv, Inside
<1>5. OneSlot'
  BY <1>1, <1>3 DEF IInv, OneSlot
<1>6. \A j \in Slot : cache'[j].occupied /\ ~cache'[j].dirty
                       => cache'[j].buffer = disk[cache'[j].disk_sector]
  BY <1>1, <1>3, Alone DEF IInv, CleanInv, SlotOf
<1>7. QED
  BY <1>1, <1>2, <1>4, <1>5, <1>6, OwnStep DEF Inside

(* the bytes are copied and the lock is released *)
LEMMA CopyIInv ==
  ASSUME IInv, NEW t \in Threads, Copy(t)
  PROVE  IInv'
<1> DEFINE i == slot[t]
<1>1. /\ pc[t] = "copy" /\ holder = t /\ op[t] \in Ops
      /\ i \in Slot
      /\ UNCHANGED <<clock, disk>>
      /\ holder' = NoThread /\ pc'[t] = "idle"
      /\ \A u \in Threads \ {t} : pc'[u] = pc[u] /\ op'[u] = op[u]
  BY DEF IInv, TypeOK, Mutex, OpOf, SlotOf, Inside, Copy, Goto
<1>2. TypeOK'
  <2>1. cache' \in [Slot -> Entry] /\ got' \in Values
    <3>1. cache \in [Slot -> Entry] /\ cache[i] \in Entry /\ got \in Values
      BY <1>1 DEF IInv, TypeOK
    <3>2. op[t].value \in Values /\ op[t].sector \in Sectors /\ cache[i].buffer \in Values
      BY <1>1, <3>1, OpParts DEF Entry
    <3>3. /\ [cache[i] EXCEPT !.access = TRUE] \in Entry
          /\ [cache[i] EXCEPT !.access = TRUE, !.dirty = TRUE, !.buffer = op[t].value] \in Entry
      BY <3>1, <3>2, EntryUpdate
    <3>4. \/ cache' = [cache EXCEPT ![i].access = TRUE] /\ got' = cache[i].buffer
          \/ /\ cache' = [cache EXCEPT ![i].access = TRUE, ![i].dirty = TRUE,
                                       ![i].buffer = op[t].value]
             /\ got' = got
      BY DEF Copy
    <3>5. CASE cache' = [cache EXCEPT ![i].access = TRUE] /\ got' = cache[i].buffer
      BY <1>1, <3>1, <3>2, <3>3, <3>5
    <3>6. CASE /\ cache' = [cache EXCEPT ![i].access = TRUE, ![i].dirty = TRUE,
                                         ![i].buffer = op[t].value]
               /\ got' = got
      BY <1>1, <3>1, <3>3, <3>6
    <3>7. QED
      BY <3>4, <3>5, <3>6
  <2>2. slot' \in [Threads -> 0..CacheSize]
    BY CacheAssumption DEF IInv, TypeOK, Copy, SetSlot, NoSlot
  <2>3. parity' \in {0, 1}
    BY DEF IInv, TypeOK, Copy
  <2>4. op' \in [Threads -> Ops \cup {NoOp}]
    BY DEF IInv, TypeOK, Copy
  <2>5. QED
    BY <1>1, <2>1, <2>2, <2>3, <2>4 DEF IInv, TypeOK, Copy, Goto
<1>3. /\ cache'[i].occupied = cache[i].occupied
      /\ cache'[i].disk_sector = cache[i].disk_sector
      /\ \/ cache'[i].dirty
         \/ cache'[i].dirty = cache[i].dirty /\ cache'[i].buffer = cache[i].buffer
      /\ \A j \in Slot \ {i} : cache'[j] = cache[j]
  BY <1>1 DEF IInv, TypeOK, Copy, Entry
<1>4. OpOf(t)' /\ SlotOf(t)'
  BY <1>1 DEF OpOf, SlotOf, Inside
<1>5. OneSlot'
  BY <1>1, <1>3 DEF IInv, OneSlot
<1>6. \A j \in Slot : cache'[j].occupied /\ ~cache'[j].dirty
                       => cache'[j].buffer = disk[cache'[j].disk_sector]
  BY <1>1, <1>3, Alone DEF IInv, CleanInv
<1>7. QED
  BY <1>1, <1>2, <1>4, <1>5, <1>6, OwnStep, CacheAssumption DEF Inside

(* buffer_cache_close() passes a slot *)
LEMMA FlushIInv ==
  ASSUME IInv, NEW t \in Threads, Flush(t)
  PROVE  IInv'
<1> DEFINE i == slot[t]
<1>1. /\ pc[t] = "flushing" /\ holder = t /\ op[t].kind = "close"
      /\ i \in 0..CacheSize
      /\ UNCHANGED <<clock, op, got, parity>>
      /\ \A u \in Threads \ {t} : pc'[u] = pc[u]
  BY DEF IInv, TypeOK, Mutex, OpOf, SlotOf, Inside, Flush, Goto
<1>2. CASE i = NoSlot
  <2>1. /\ pc'[t] = "closed" /\ holder' = NoThread
        /\ UNCHANGED <<cache, disk, slot>>
    BY <1>2 DEF IInv, TypeOK, Flush, Goto
  <2>2. TypeOK'
    BY <1>1, <1>2, <2>1 DEF IInv, TypeOK, Flush, Goto
  <2>3. OpOf(t)' /\ SlotOf(t)' /\ OneSlot'
    BY <2>1 DEF OpOf, SlotOf, Inside, IInv, OneSlot
  <2>4. \A j \in Slot : cache[j].occupied /\ ~cache[j].dirty
                         => cache[j].buffer = disk[cache[j].disk_sector]
    BY <1>1, Alone DEF IInv, CleanInv
  <2>5. QED
    BY <1>1, <2>1, <2>2, <2>3, <2>4, OwnStep, CacheAssumption DEF Inside
<1>3. CASE i # NoSlot
  <2>1. /\ i \in Slot /\ pc'[t] = "flushing" /\ holder' = holder
        /\ slot'[t] = i + 1
    BY <1>1, <1>3, CacheAssumption DEF IInv, TypeOK, Flush, SetSlot, Slot, NoSlot
  <2>2. cache[i].disk_sector \in Sectors /\ cache[i].buffer \in Values
    BY <2>1 DEF IInv, TypeOK, Entry
  <2>3. /\ disk' = IF cache[i].occupied /\ cache[i].dirty
                   THEN [disk EXCEPT ![cache[i].disk_sector] = cache[i].buffer] ELSE disk
        /\ cache' = [cache EXCEPT ![i].dirty = @ /\ ~cache[i].occupied]
    BY <1>3 DEF Flush
  <2>4. TypeOK'
    <3>1. cache' \in [Slot -> Entry] /\ disk' \in [Sectors -> Values]
      BY <2>1, <2>2, <2>3, EntryUpdate DEF IInv, TypeOK
    <3>2. slot' \in [Threads -> 0..CacheSize]
      <4>1. i + 1 \in 0..CacheSize
        BY <2>1, CacheAssumption DEF Slot
      <4>2. slot' = [slot EXCEPT ![t] = i + 1]
        BY <1>3 DEF Flush, SetSlot
      <4>3. QED
        BY <4>1, <4>2 DEF IInv, TypeOK
    <3>3. QED
      BY <1>1, <1>3, <2>1, <3>1, <3>2 DEF IInv, TypeOK, Flush
  <2>5. /\ cache'[i].occupied = cache[i].occupied
        /\ cache'[i].disk_sector = cache[i].disk_sector
        /\ cache'[i].buffer = cache[i].buffer
        /\ cache'[i].occupied => ~cache'[i].dirty
        /\ \A j \in Slot \ {i} : cache'[j] = cache[j]
    BY <2>1, <2>3 DEF IInv, TypeOK, Entry
  <2>6. OpOf(t)' /\ SlotOf(t)'
    BY <1>1, <2>1, <2>5, CacheAssumption DEF OpOf, SlotOf, IInv, Inside, Slot
  <2>7. OneSlot'
    BY <2>5 DEF IInv, OneSlot
  <2>8. \A j \in Slot \ {i} : cache[j].occupied
           => disk'[cache[j].disk_sector] = disk[cache[j].disk_sector]
    BY <2>1, <2>2, <2>3 DEF IInv, TypeOK, OneSlot, Entry
  <2>9. cache[i].occupied => cache[i].buffer = disk'[cache[i].disk_sector]
    BY <1>1, <2>1, <2>2, <2>3, Alone DEF IInv, TypeOK, CleanInv
  <2>10. \A j \in Slot : cache'[j].occupied /\ ~cache'[j].dirty
                          => cache'[j].buffer = disk'[cache'[j].disk_sector]
    BY <1>1, <2>5, <2>8, <2>9, Alone DEF IInv, CleanInv
  <2>11. QED
    BY <1>1, <2>1, <2>4, <2>6, <2>7, <2>10, OwnStep DEF Inside
<1>4. QED
  BY <1>2, <1>3

(* Every step keeps the inductive invariant. *)
LEMMA NextIInv == IInv /\ [Next]_vars => IInv'
<1> SUFFICES ASSUME IInv, [Next]_vars PROVE IInv'
  OBVIOUS
<1>1. CASE UNCHANGED vars
  BY <1>1 DEF vars, IInv, TypeOK, Mutex, OpOf, SlotOf, CleanInv, OneSlot, Filling
<1>2. CASE Next
  BY <1>2, CallIInv, AcquireIInv, EvictIInv, WriteBackIInv, ClaimIInv, FillIInv,
     CopyIInv, FlushIInv
  DEF Next, Step
<1>3. QED
  BY <1>1, <1>2

(* The inductive invariant holds throughout. *)
LEMMA SpecIInv == Spec => []IInv
  BY InitIInv, NextIInv, PTL DEF Spec

-----------------------------------------------------------------------------
(***************************************************************************)
(* OneSlot: whatever misses and evictions interleave, no sector of the     *)
(* disk is ever in two slots of buffer_cache[].                            *)
(***************************************************************************)
THEOREM CacheOneSlot == Spec => []OneSlot
<1>1. IInv => OneSlot
  BY DEF IInv
<1>2. QED
  BY <1>1, SpecIInv, PTL

(* slot i has the value that callers see of sector s *)
Supplies(i, s) == cache[i].occupied /\ cache[i].disk_sector = s /\ ~Filling(i)

(* Store is the value in the slot that supplies it, or the disk's *)
StoreIs ==
  \A s \in Sectors :
    /\ \A i \in Slot : Supplies(i, s) => Store[s] = cache[i].buffer
    /\ (\A i \in Slot : ~Supplies(i, s)) => Store[s] = disk[s]

(* what the abstract store holds, slot by slot *)
LEMMA StoreValue == IInv => StoreIs
<1> SUFFICES ASSUME IInv, NEW s \in Sectors
             PROVE  /\ \A i \in Slot : Supplies(i, s) => Store[s] = cache[i].buffer
                    /\ (\A i \in Slot : ~Supplies(i, s)) => Store[s] = disk[s]
  BY DEF StoreIs
<1> DEFINE filled == {i \in Hits(s) : ~Filling(i)}
<1>1. Store[s] = IF filled = {} THEN disk[s] ELSE cache[CHOOSE i \in filled : TRUE].buffer
  BY DEF Store
<1>2. \A i \in Slot : i \in filled <=> Supplies(i, s)
  BY DEF Supplies, Hits
<1>3. \A i \in filled : i \in Slot
  BY DEF Hits
<1>4. ASSUME NEW i \in Slot, Supplies(i, s)
      PROVE  Store[s] = cache[i].buffer
  <2>1. \A j \in filled : j = i
    BY <1>2, <1>3, <1>4 DEF IInv, OneSlot, Supplies
  <2>2. i \in filled
    BY <1>2, <1>4
  <2>3. (CHOOSE j \in filled : TRUE) \in filled
    BY <2>2
  <2>4. QED
    BY <1>1, <2>1, <2>2, <2>3
<1>5. (\A i \in Slot : ~Supplies(i, s)) => Store[s] = disk[s]
  BY <1>1, <1>2, <1>3
<1>6. QED
  BY <1>4, <1>5

(* the same after a step *)
LEMMA StoreValuePrime == IInv' => StoreIs'
  BY StoreValue, PTL

(***************************************************************************)
(* ClosedClean: when buffer_cache_close() has passed the last slot, the    *)
(* disk has every value that was written.                                  *)
(***************************************************************************)
THEOREM CacheClosedClean == Spec => []ClosedClean
<1>1. IInv => ClosedClean
  <2> SUFFICES ASSUME IInv, NEW t \in Threads, pc[t] = "flushing", slot[t] = NoSlot,
                      NEW s \in Sectors
               PROVE  disk[s] = Store[s]
    BY DEF ClosedClean
  <2>1. holder = t
    BY DEF IInv, Mutex, Inside
  <2>2. \A i \in Slot : ~Filling(i)
    BY <2>1, Alone
  <2>3. \A i \in Slot : cache[i].occupied => ~cache[i].dirty
    BY CacheAssumption DEF IInv, SlotOf, Slot, NoSlot
  <2>4. \A i \in Slot : Supplies(i, s) => cache[i].buffer = disk[s]
    BY <2>2, <2>3 DEF IInv, CleanInv, Supplies
  <2>5. QED
    BY <2>4, StoreValue DEF StoreIs
<1>2. QED
  BY <1>1, SpecIInv, PTL

-----------------------------------------------------------------------------
(* Store has a value of the right type for every sector. *)
LEMMA StoreType == IInv => Store \in [Sectors -> Values]
<1> SUFFICES ASSUME IInv, NEW s \in Sectors PROVE Store[s] \in Values
  BY DEF Store
<1>1. disk[s] \in Values /\ \A i \in Slot : cache[i].buffer \in Values
  BY DEF IInv, TypeOK, Entry
<1>2. QED
  BY <1>1, StoreValue DEF StoreIs

(* Two stores that agree on every sector are one. *)
LEMMA SameStore ==
  ASSUME \A s \in Sectors : Store'[s] = Store[s]
  PROVE  Store' = Store
  BY DEF Store

(* The step of a thread that is inside and changes no value for callers: a *)
(* sector keeps the slot that supplies it, with its value, or it is and    *)
(* stays, or becomes or ceases to be, supplied by the disk with that value *)
LEMMA StutterStep ==
  ASSUME IInv, IInv',
         \A s \in Sectors : \A i \in Slot : Supplies(i, s) =>
            \/ Supplies(i, s)' /\ cache'[i].buffer = cache[i].buffer
            \/ (\A j \in Slot : ~Supplies(j, s)') /\ disk'[s] = cache[i].buffer,
         \A s \in Sectors : (\A i \in Slot : ~Supplies(i, s)) =>
            \/ (\A i \in Slot : ~Supplies(i, s)') /\ disk'[s] = disk[s]
            \/ \E i \in Slot : Supplies(i, s)' /\ cache'[i].buffer = disk[s]
  PROVE  Store' = Store
<1> SUFFICES ASSUME NEW s \in Sectors PROVE Store'[s] = Store[s]
  BY SameStore
<1>1. StoreIs /\ StoreIs'
  BY StoreValue, StoreValuePrime
<1>2. CASE \E i \in Slot : Supplies(i, s)
  BY <1>1, <1>2 DEF StoreIs
<1>3. CASE \A i \in Slot : ~Supplies(i, s)
  BY <1>1, <1>3 DEF StoreIs
<1>4. QED
  BY <1>2, <1>3

(* after a step too, the one slot being filled is the lock holder's *)
LEMMA AlonePrime ==
  ASSUME IInv', NEW t \in Threads, holder' \in {t, NoThread}
  PROVE  \A i \in Slot : Filling(i)' <=> pc'[t] = "fill" /\ slot'[t] = i
  BY CacheAssumption DEF IInv, Mutex, Inside, Filling

(* Every step but the memcpy() leaves the callers' values as they are. *)
LEMMA QuietStep ==
  ASSUME IInv, IInv', NEW t \in Threads,
         \/ \E o \in Ops : Call(t, o)
         \/ Acquire(t) \/ Evict(t) \/ WriteBack(t) \/ Claim(t) \/ Fill(t) \/ Flush(t)
  PROVE  Store' = Store
<1> DEFINE i == slot[t]
<1>1. CASE \E o \in Ops : Call(t, o)
  <2>1. UNCHANGED <<cache, disk, slot>> /\ \A u \in Threads : pc[u] = "fill" <=> pc'[u] = "fill"
    BY <1>1 DEF Call, Goto, IInv, TypeOK
  <2>2. \A s \in Sectors, j \in Slot : Supplies(j, s)' <=> Supplies(j, s)
    BY <2>1 DEF Supplies, Filling
  <2>3. QED
    BY <2>1, <2>2, StutterStep
<1>2. CASE Acquire(t)
  <2>1. /\ UNCHANGED <<cache, disk>> /\ holder = NoThread /\ holder' = t
        /\ pc[t] = "acquire" /\ pc'[t] # "fill"
    BY <1>2 DEF Acquire, Lookup, Goto, IInv, TypeOK
  <2>2. \A s \in Sectors, j \in Slot : Supplies(j, s)' <=> Supplies(j, s)
    BY <2>1, Alone, AlonePrime DEF Supplies
  <2>3. QED
    BY <2>1, <2>2, StutterStep
<1>3. CASE Evict(t)
  <2>1. /\ UNCHANGED <<disk, holder>> /\ holder = t
        /\ pc[t] = "evict" /\ pc'[t] # "fill" /\ clock \in Slot
    BY <1>3 DEF Evict, Goto, IInv, TypeOK, Mutex, Inside
  <2>2. \A j \in Slot : /\ cache'[j].occupied = cache[j].occupied
                        /\ cache'[j].disk_sector = cache[j].disk_sector
                        /\ cache'[j].buffer = cache[j].buffer
    BY <1>3, <2>1 DEF Evict, IInv, TypeOK, Entry
  <2>3. \A s \in Sectors, j \in Slot : Supplies(j, s)' <=> Supplies(j, s)
    BY <2>1, <2>2, Alone, AlonePrime DEF Supplies
  <2>4. QED
    BY <2>1, <2>2, <2>3, StutterStep
<1>4. CASE WriteBack(t)
  <2>1. /\ holder' = holder /\ holder = t /\ i \in Slot /\ cache[i].occupied
        /\ pc[t] = "writeback" /\ pc'[t] # "fill"
    BY <1>4 DEF WriteBack, Goto, IInv, TypeOK, Mutex, Inside, SlotOf
  <2>2. /\ ~cache'[i].occupied
        /\ \A j \in Slot \ {i} : cache'[j] = cache[j]
    BY <1>4, <2>1 DEF WriteBack, IInv, TypeOK, Entry
  <2>3. \A j \in Slot : ~Filling(j) /\ ~Filling(j)'
    BY <2>1, Alone, AlonePrime
  <2>4. cache[i].disk_sector \in Sectors
    BY <2>1 DEF IInv, TypeOK, Entry
  <2>5. /\ disk'[cache[i].disk_sector] = cache[i].buffer
        /\ \A s \in Sectors \ {cache[i].disk_sector} : disk'[s] = disk[s]
    BY <1>4, <2>1, <2>3, <2>4 DEF WriteBack, IInv, TypeOK, CleanInv
  <2>6. \A j \in Slot \ {i} : cache[j].occupied => cache[j].disk_sector # cache[i].disk_sector
    BY <2>1 DEF IInv, OneSlot
  <2>7. QED
    BY <2>1, <2>2, <2>3, <2>5, <2>6, StutterStep DEF Supplies
<1>5. CASE Claim(t)
  <2>1. /\ UNCHANGED <<disk, slot, holder>> /\ holder = t /\ i \in Slot
        /\ ~cache[i].occupied /\ pc[t] = "claim" /\ pc'[t] = "fill"
    BY <1>5 DEF Claim, Goto, IInv, TypeOK, Mutex, Inside, SlotOf
  <2>2. \A j \in Slot \ {i} : cache'[j] = cache[j]
    BY <1>5, <2>1 DEF Claim, IInv, TypeOK
  <2>3. \A s \in Sectors, j \in Slot : Supplies(j, s)' <=> Supplies(j, s)
    BY <2>1, <2>2, Alone, AlonePrime DEF Supplies
  <2>4. \A s \in Sectors, j \in Slot : Supplies(j, s) => cache'[j] = cache[j]
    BY <2>1, <2>2 DEF Supplies
  <2>5. QED
    BY <2>1, <2>3, <2>4, StutterStep
<1>6. CASE Fill(t)
  <2>1. /\ UNCHANGED <<disk, slot, holder>> /\ holder = t /\ i \in Slot
        /\ cache[i].occupied /\ cache[i].disk_sector = op[t].sector
        /\ pc[t] = "fill" /\ pc'[t] = "copy"
    BY <1>6 DEF Fill, Goto, IInv, TypeOK, Mutex, Inside, SlotOf
  <2>2. /\ cache'[i].occupied = cache[i].occupied
        /\ cache'[i].disk_sector = cache[i].disk_sector
        /\ cache'[i].buffer = disk[cache[i].disk_sector]
        /\ \A j \in Slot \ {i} : cache'[j] = cache[j]
    BY <1>6, <2>1 DEF Fill, IInv, TypeOK, Entry
  <2>3. /\ \A j \in Slot : Filling(j) <=> j = i
        /\ \A j \in Slot : ~Filling(j)'
    BY <2>1, Alone, AlonePrime
  <2>4. QED
    BY <2>1, <2>2, <2>3, StutterStep DEF Supplies
<1>7. CASE Flush(t)
  <2>1. /\ holder = t /\ holder' \in {t, NoThread} /\ pc[t] = "flushing" /\ pc'[t] # "fill"
    BY <1>7 DEF Flush, Goto, IInv, TypeOK, Mutex, Inside
  <2>2. \A j \in Slot : ~Filling(j) /\ ~Filling(j)'
    BY <2>1, Alone, AlonePrime
  <2>3. CASE i = NoSlot
    <3>1. UNCHANGED <<cache, disk>>
      BY <1>7, <2>3 DEF Flush
    <3>2. QED
      BY <2>2, <3>1, StutterStep DEF Supplies
  <2>4. CASE i # NoSlot
    <3>1. i \in Slot
      BY <2>4, CacheAssumption DEF IInv, TypeOK, Slot, NoSlot
    <3>2. /\ disk' = IF cache[i].occupied /\ cache[i].dirty
                     THEN [disk EXCEPT ![cache[i].disk_sector] = cache[i].buffer] ELSE disk
          /\ cache' = [cache EXCEPT ![i].dirty = @ /\ ~cache[i].occupied]
      BY <1>7, <2>4 DEF Flush
    <3>3. \A j \in Slot : /\ cache'[j].occupied = cache[j].occupied
                          /\ cache'[j].disk_sector = cache[j].disk_sector
                          /\ cache'[j].buffer = cache[j].buffer
      BY <3>1, <3>2 DEF IInv, TypeOK, Entry
    <3>4. \A s \in Sectors, j \in Slot : Supplies(j, s)' <=> Supplies(j, s)
      BY <2>2, <3>3 DEF Supplies
    <3>5. \A s \in Sectors : (\A j \in Slot : ~Supplies(j, s)) => disk'[s] = disk[s]
      BY <2>2, <3>1, <3>2 DEF Supplies, IInv, TypeOK
    <3>6. QED
      BY <3>3, <3>4, <3>5, StutterStep
  <2>5. QED
    BY <2>3, <2>4
<1>8. QED
  BY <1>1, <1>2, <1>3, <1>4, <1>5, <1>6, <1>7

(* The memcpy() is a read or a write of the store. *)
LEMMA CopyStep ==
  ASSUME IInv, IInv', NEW t \in Threads, Copy(t)
  PROVE  BS!Next
<1> DEFINE i == slot[t]
           sec == op[t].sector
<1>1. /\ holder = t /\ holder' = NoThread /\ i \in Slot /\ disk' = disk
      /\ cache[i].occupied /\ cache[i].disk_sector = sec
      /\ pc[t] = "copy" /\ pc'[t] = "idle" /\ op[t] \in Ops
  BY DEF Copy, Goto, IInv, TypeOK, Mutex, Inside, SlotOf, OpOf
<1>2. sec \in Sectors /\ op[t].value \in Values
  BY <1>1, OpParts
<1>3. \A j \in Slot : ~Filling(j) /\ ~Filling(j)'
  BY <1>1, Alone, AlonePrime
<1>4. /\ cache'[i].occupied = cache[i].occupied
      /\ cache'[i].disk_sector = cache[i].disk_sector
      /\ \A j \in Slot \ {i} : cache'[j] = cache[j]
  <2>1. cache \in [Slot -> Entry] /\ cache[i] \in Entry
    BY <1>1 DEF IInv, TypeOK
  <2>2. \/ cache' = [cache EXCEPT ![i].access = TRUE]
        \/ cache' = [cache EXCEPT ![i].access = TRUE, ![i].dirty = TRUE,
                                  ![i].buffer = op[t].value]
    BY DEF Copy
  <2>3. CASE cache' = [cache EXCEPT ![i].access = TRUE]
    BY <1>1, <2>1, <2>3 DEF Entry
  <2>4. CASE cache' = [cache EXCEPT ![i].access = TRUE, ![i].dirty = TRUE,
                                    ![i].buffer = op[t].value]
    BY <1>1, <2>1, <2>4 DEF Entry
  <2>5. QED
    BY <2>2, <2>3, <2>4
<1>5. \A s \in Sectors, j \in Slot : Supplies(j, s)' <=> Supplies(j, s)
  BY <1>3, <1>4 DEF Supplies
<1>6. StoreIs /\ StoreIs'
  BY StoreValue, StoreValuePrime
<1>7. Store[sec] = cache[i].buffer /\ Store'[sec] = cache'[i].buffer
  BY <1>1, <1>2, <1>3, <1>5, <1>6 DEF StoreIs, Supplies
<1>8. \A s \in Sectors \ {sec} : Store'[s] = Store[s]
  <2> SUFFICES ASSUME NEW s \in Sectors \ {sec} PROVE Store'[s] = Store[s]
    OBVIOUS
  <2>1. \A j \in Slot : Supplies(j, s) => cache'[j] = cache[j]
    BY <1>1, <1>4 DEF Supplies
  <2>2. QED
    BY <1>1, <1>5, <1>6, <2>1 DEF StoreIs
<1>9. CASE op[t].kind = "read"
  <2>1. cache'[i].buffer = cache[i].buffer /\ got' = cache[i].buffer
    BY <1>1, <1>9 DEF Copy, IInv, TypeOK, Entry
  <2>2. Store' = Store
    BY <1>7, <1>8, <2>1, SameStore
  <2>3. QED
    BY <1>2, <1>7, <2>1, <2>2 DEF BS!Next, BS!Read, Copy
<1>10. CASE op[t].kind # "read"
  <2>1. cache'[i].buffer = op[t].value /\ got' = got
    BY <1>1, <1>10 DEF Copy, IInv, TypeOK, Entry
  <2>2. Store' = [Store EXCEPT ![sec] = op[t].value]
    <3>1. \A s \in Sectors : Store'[s] = IF s = sec THEN op[t].value ELSE Store[s]
      BY <1>7, <1>8, <2>1
    <3>2. QED
      BY <3>1 DEF Store
  <2>3. QED
    BY <1>2, <2>1, <2>2 DEF BS!Next, BS!Write, Copy
<1>11. QED
  BY <1>9, <1>10

(***************************************************************************)
(* ImplementsBlockStore: the cache is invisible.  For the callers of       *)
(* buffer_cache_read() and buffer_cache_write() the device is a store in   *)
(* which a read returns what was last written, whatever is evicted,        *)
(* written back, read in or flushed between.                               *)
(***************************************************************************)
THEOREM CacheImplementsBlockStore == Spec => ImplementsBlockStore
<1>1. Init => BS!Init
  <2> SUFFICES ASSUME Init PROVE BS!Init
    OBVIOUS
  <2>1. IInv
    BY InitIInv
  <2>2. QED
    BY <2>1, StoreType, CacheAssumption DEF Init, BS!Init
<1>2. IInv /\ IInv' /\ [Next]_vars => [BS!Next]_<<Store, got, parity>>
  <2> SUFFICES ASSUME IInv, IInv', [Next]_vars PROVE [BS!Next]_<<Store, got, parity>>
    OBVIOUS
  <2>1. CASE UNCHANGED vars
    BY <2>1 DEF vars, Store, Hits, Filling
  <2>2. ASSUME NEW t \in Threads, Copy(t) PROVE BS!Next
    BY <2>2, CopyStep
  <2>3. ASSUME NEW t \in Threads,
               \/ \E o \in Ops : Call(t, o)
               \/ Acquire(t) \/ Evict(t) \/ WriteBack(t) \/ Claim(t) \/ Fill(t) \/ Flush(t)
        PROVE  UNCHANGED <<Store, got, parity>>
    <3>1. Store' = Store
      BY <2>3, QuietStep
    <3>2. got' = got /\ parity' = parity
      BY <2>3 DEF Call, Acquire, Evict, WriteBack, Claim, Fill, Flush
    <3>3. QED
      BY <3>1, <3>2
  <2>4. QED
    BY <2>1, <2>2, <2>3 DEF Next, Step
<1>3. QED
  BY <1>1, <1>2, SpecIInv, PTL DEF Spec, ImplementsBlockStore, BS!Spec

-----------------------------------------------------------------------------
(***************************************************************************)
(* The address spaces, by themselves, as Machine runs them.  SpacesApart   *)
(* compares sets of pages; what the steps keep is a map of who has which   *)
(* page.  Every page in use is in exactly one place: a page directory and  *)
(* its page tables (KMap), and a page table entry or the variable kpage of *)
(* a load (FMap).  A step then changes that map at one place, and the rest *)
(* of the invariant says how far each process is.                          *)
(***************************************************************************)
SpaceSpec == SpaceInit /\ [][SpaceNext]_spaceVars

(* the page directory of a process, also while process_exit() takes it down *)
DirOf(a, pd, dy) == IF a \in {"base", "destroy"} THEN dy ELSE pd
Dirs == [p \in Process |-> DirOf(at[p], pagedir[p], dying[p])]

(* the page that a load has taken and not yet mapped *)
HeldBy(a, l) == IF a \in {"fill", "install", "install stack"} THEN l.kpage ELSE 0
Helds == [p \in Process |-> HeldBy(at[p], ld[p])]

(* the kernel pages of a process: its page directory (Itself), page tables *)
Itself == -1
DirSlots == 0 .. DirSize - 1
KSlots == Process \X (DirSlots \cup {Itself})
KPage(ts, d, i) == IF d = 0 THEN 0 ELSE IF i = Itself THEN d ELSE ts[d][i]
KMap(ts, dir) == [x \in KSlots |-> KPage(ts, dir[x[1]], x[2])]

(* its user pages: those in its page tables, and the one it holds (Itself, 0) *)
FSlots == Process \X (DirSlots \cup {Itself}) \X Slots
Leaf(ts, k, s) == IF k = 0 THEN 0 ELSE ts[k][s].frame
FPage(ts, d, h, i, s) ==
    IF i = Itself THEN IF s = 0 THEN h ELSE 0 ELSE Leaf(ts, KPage(ts, d, i), s)
FMap(ts, dir, held) ==
    [y \in FSlots |-> FPage(ts, dir[y[1]], held[y[1]], y[2], y[3])]

(* the pages D in use are the ones in m, each in one place; 0 is no page *)
Occupied(m, X, D) ==
    /\ m \in [X -> Nat]
    /\ \A x \in X : m[x] # 0 => m[x] \in D
    /\ \A x, y \in X : m[x] # 0 /\ m[x] = m[y] => x = y
    /\ \A k \in D : k # 0 /\ \E x \in X : m[x] = k

(* what a page directory and a page table look like *)
PageEntry == {e \in [frame : Nat, w : BOOLEAN] : e.frame = 0 => e = NotPresent}

Shapes(ts, dir) ==
    /\ \A p \in Process : dir[p] # 0 => ts[dir[p]] \in [DirSlots -> Nat]
    /\ \A p \in Process, i \in DirSlots :
          KPage(ts, dir[p], i) # 0 => ts[KPage(ts, dir[p], i)] \in [Slots -> PageEntry]

(* the map of the memory: dir and held are the roots of it *)
Memory(ts, dir, held, fr) ==
    /\ dir \in [Process -> Nat] /\ held \in [Process -> Nat]
    /\ Shapes(ts, dir)
    /\ Occupied(KMap(ts, dir), KSlots, DOMAIN ts)
    /\ Occupied(FMap(ts, dir, held), FSlots, DOMAIN fr)

(* the pages of user addresses *)
Pages == 0 .. UserPages - 1

(* what the processor has cached *)
Mapped(ts, d, c) ==
    \E u \in Pages : LookupPage(ts, d, u).frame # 0 /\ c = [upage |-> u, entry |-> LookupPage(ts, d, u)]

CpuOK ==
    /\ cr3 # 0 => cr3 = Dirs[curr] /\ at[curr] # "destroy"
    /\ \A c \in tlb : cr3 # 0 /\ Mapped(tables, cr3, c)

(* a process and its page directory *)
Before == {"new", "dead"}
After == {"base", "destroy"}
Loading == {"headers", "segment", "fill", "install", "stack", "install stack", "push"}
Stages == Before \cup After \cup Loading \cup {"activate", "open", "user", "exit"}
Life(a, pd, dy) ==
    /\ a \in Stages
    /\ a \in Before => pd = 0
    /\ a \in After => pd = 0 /\ dy # 0
    /\ a \notin Before \cup After \cup {"exit"} => pd # 0

(* the bytes of a segment that are on the pages before upto are in place *)
Expected(ph, a) == IF a < ph.vaddr + ph.filesz THEN <<"file", ph.offset + a - ph.vaddr>> ELSE 0
ByteAt(ts, fr, d, a) == fr[LookupPage(ts, d, a \div PGSIZE).frame][a % PGSIZE]
Loaded(ts, fr, d, ph, upto) ==
    \A a \in ph.vaddr .. ph.vaddr + ph.memsz - 1 :
       a \div PGSIZE < upto =>
          /\ a \div PGSIZE \in Pages /\ LookupPage(ts, d, a \div PGSIZE).frame # 0
          /\ ByteAt(ts, fr, d, a) = Expected(ph, a)

(* load_segment(): how far it is *)
EndPage(ph) == (ph.vaddr + ph.memsz + PGSIZE - 1) \div PGSIZE
SegmentAt(l, ph) ==
    LET here == l.upage * PGSIZE
        end == ph.vaddr + ph.filesz
    IN /\ l.upage <= EndPage(ph)
       /\ l.read = IF ph.filesz > 0 /\ end > here THEN end - here ELSE 0
       /\ l.read + l.zero = EndPage(ph) * PGSIZE - here
       /\ l.read > 0 => l.pos = ph.offset + here - ph.vaddr
       /\ l.w = ph.w

(* the page that file_read() and memset() filled *)
Filled(fr, l) ==
    fr[l.kpage] = [i \in 0 .. PGSIZE - 1 |-> IF i < PageRead(l) THEN <<"file", l.pos + i>> ELSE 0]

(* a load: the segments before this one are in place, this one so far *)
LoadOK(ts, fr, d, a, l) ==
    /\ a \in Loading =>
          /\ l.image \in Images /\ l.hdr \in 1 .. Len(l.image) + 1
          /\ \A j \in DOMAIN l.image :
                j < l.hdr /\ l.image[j].type = "PT_LOAD" =>
                   Loaded(ts, fr, d, l.image[j], UserPages) /\ validate_segment(l.image[j])
    /\ a \in {"stack", "install stack", "push"} => l.hdr = Len(l.image) + 1
    /\ a \in {"segment", "fill", "install"} =>
          /\ l.hdr <= Len(l.image) /\ validate_segment(l.image[l.hdr])
          /\ SegmentAt(l, l.image[l.hdr]) /\ Loaded(ts, fr, d, l.image[l.hdr], l.upage)
    /\ a \in {"fill", "install"} => l.upage < EndPage(l.image[l.hdr])
    /\ a \in {"fill", "install", "install stack"} => l.kpage # 0
    /\ a = "install" => Filled(fr, l)

LoadState == [image : Images \cup {<<>>}, hdr : Nat, upage : Nat, read : Nat, zero : Nat,
              pos : Nat, kpage : Nat, w : BOOLEAN]

SpaceType ==
    /\ pools \in [kernel : Nat, user : Nat] /\ curr \in Process
    /\ at \in [Process -> Stages]
    /\ pagedir \in [Process -> Nat] /\ dying \in [Process -> Nat]
    /\ cr3 \in Nat /\ ld \in [Process -> LoadState]

(* the inductive invariant *)
SpaceInv ==
    /\ SpaceType /\ CpuOK
    /\ Memory(tables, Dirs, Helds, frames)
    /\ \A p \in Process : Life(at[p], pagedir[p], dying[p])
    /\ \A p \in Process : LoadOK(tables, frames, Dirs[p], at[p], ld[p])

-----------------------------------------------------------------------------
LessNat == OpToRel(<, Nat)
(* the order that the least-element lemma uses is the usual one *)
LEMMA LessNatIs ==
    ASSUME NEW m \in Nat, NEW n \in Nat, m < n
    PROVE  <<m, n>> \in LessNat
<1>1. /\ <<m, n>> \in Nat \X Nat
      /\ <<m, n>>[1] = m /\ <<m, n>>[2] = n
  OBVIOUS
<1>2. <<m, n>>[1] < <<m, n>>[2]
  BY <1>1
<1> QED
  BY <1>1, <1>2, Zenon DEF LessNat, OpToRel

(* A set of natural numbers has a least element. *)
LEMMA LeastNat ==
    ASSUME NEW S, S \subseteq Nat, S # {}
    PROVE  \E m \in S : \A n \in S : m <= n
<1>1. IsWellFoundedOn(LessNat, Nat)
  BY NatLessThanWellFounded, Zenon DEF LessNat
<1>2. PICK m \in S : \A n \in S : ~(<<n, m>> \in LessNat)
  BY <1>1, WFMin
<1>3. ASSUME NEW n \in S
      PROVE  m <= n
  <2>1. ~(n < m)
    BY <1>2, LessNatIs
  <2> QED
    BY <2>1
<1> QED
  BY <1>3

(* palloc_get_page() returns NULL or a page that is not in use *)
LEMMA GetsPage ==
    ASSUME NEW used, NEW n \in Nat
    PROVE  LET k == GetPage(used, n) IN k \in Nat /\ (k # 0 => k \notin used)
<1> DEFINE unused == (1 .. n) \ used
<1>1. CASE unused = {}
  BY <1>1 DEF GetPage
<1>2. CASE unused # {}
  <2>1. \E k \in unused : \A j \in unused : k <= j
    <3>1. unused \subseteq Nat
      OBVIOUS
    <3> HIDE DEF unused
    <3> QED  BY <1>2, <3>1, LeastNat
  <2>2. GetPage(used, n) = CHOOSE k \in unused : \A j \in unused : k <= j
    BY <1>2 DEF GetPage
  <2>3. GetPage(used, n) \in unused
    BY <2>1, <2>2
  <2> QED  BY <2>3
<1> QED  BY <1>1, <1>2

(* a page that is free is put into a place that has none *)
LEMMA OccupyMore ==
    ASSUME NEW X, NEW D, NEW m, Occupied(m, X, D), NEW x \in X, m[x] = 0,
           NEW k \in Nat, k # 0, k \notin D,
           NEW m2, m2 = [m EXCEPT ![x] = k], NEW D2, D2 = D \cup {k}
    PROVE  Occupied(m2, X, D2)
<1>1. m2 \in [X -> Nat] /\ \A y \in X : m2[y] = IF y = x THEN k ELSE m[y]
  BY DEF Occupied
<1>2. \A y \in X : m[y] # k
  BY DEF Occupied
<1>3. \A j \in D2 : j # 0 /\ \E y \in X : m2[y] = j
  <2> SUFFICES ASSUME NEW j \in D2 PROVE j # 0 /\ \E y \in X : m2[y] = j
    OBVIOUS
  <2>1. CASE j = k
    BY <1>1, <2>1
  <2>2. CASE j # k
    <3>1. PICK y \in X : m[y] = j /\ j # 0
      BY <2>2 DEF Occupied
    <3> QED  BY <1>1, <3>1
  <2> QED  BY <2>1, <2>2
<1>4. \A y \in X : m2[y] # 0 => m2[y] \in D2
  BY <1>1 DEF Occupied
<1>5. \A y, z \in X : m2[y] # 0 /\ m2[y] = m2[z] => y = z
  BY <1>1, <1>2 DEF Occupied
<1> QED  BY <1>1, <1>3, <1>4, <1>5 DEF Occupied

(* the pages in the places Y are given back *)
LEMMA OccupyLess ==
    ASSUME NEW X, NEW D, NEW m, Occupied(m, X, D), NEW Y \in SUBSET X,
           NEW m2, m2 = [x \in X |-> IF x \in Y THEN 0 ELSE m[x]],
           NEW D2, D2 = D \ {m[x] : x \in Y}
    PROVE  Occupied(m2, X, D2)
<1>1. m2 \in [X -> Nat] /\ \A y \in X : m2[y] = IF y \in Y THEN 0 ELSE m[y]
  BY DEF Occupied
<1>2. \A y \in X : m2[y] # 0 => m2[y] \in D2
  BY <1>1 DEF Occupied
<1>3. \A j \in D2 : j # 0 /\ \E y \in X : m2[y] = j
  <2> SUFFICES ASSUME NEW j \in D2 PROVE j # 0 /\ \E y \in X : m2[y] = j
    OBVIOUS
  <2>1. PICK y \in X : m[y] = j /\ j # 0
    BY DEF Occupied
  <2>2. y \notin Y
    BY <2>1
  <2> QED  BY <1>1, <2>1, <2>2
<1>4. \A y, z \in X : m2[y] # 0 /\ m2[y] = m2[z] => y = z
  BY <1>1 DEF Occupied
<1> QED  BY <1>1, <1>2, <1>3, <1>4 DEF Occupied

(* the page in one place is moved to another one *)
LEMMA OccupyMoved ==
    ASSUME NEW X, NEW D, NEW m, Occupied(m, X, D), NEW x \in X, NEW y \in X,
           m[y] = 0, x # y,
           NEW m2, m2 = [m EXCEPT ![x] = 0, ![y] = m[x]]
    PROVE  Occupied(m2, X, D)
<1>1. m2 \in [X -> Nat]
      /\ \A z \in X : m2[z] = IF z = y THEN m[x] ELSE IF z = x THEN 0 ELSE m[z]
  BY DEF Occupied
<1>2. \A z \in X : m2[z] # 0 => m2[z] \in D
  BY <1>1 DEF Occupied
<1>3. \A j \in D : j # 0 /\ \E z \in X : m2[z] = j
  <2> SUFFICES ASSUME NEW j \in D PROVE j # 0 /\ \E z \in X : m2[z] = j
    OBVIOUS
  <2>1. PICK z \in X : m[z] = j /\ j # 0
    BY DEF Occupied
  <2> QED  BY <1>1, <2>1
<1>4. \A w, z \in X : m2[w] # 0 /\ m2[w] = m2[z] => w = z
  BY <1>1 DEF Occupied
<1> QED  BY <1>1, <1>2, <1>3, <1>4 DEF Occupied

-----------------------------------------------------------------------------
(* the machine's numbers *)
LEMMA Sizes ==
    /\ PGSIZE \in Nat /\ PGSIZE > 0 /\ TableSize \in Nat /\ TableSize > 0
    /\ UserPages \in Nat /\ UserPages > 0 /\ PHYS_BASE \in Nat /\ AddrModulus \in Nat
    /\ PHYS_BASE < AddrModulus /\ FileLength \in Nat /\ PHYS_BASE = UserPages * PGSIZE
<1>1. /\ PGSIZE \in Nat /\ PGSIZE > 0 /\ TableSize \in Nat /\ TableSize > 0
      /\ UserPages \in Nat /\ UserPages > 0 /\ AddrModulus \in Nat /\ FileLength \in Nat
      /\ UserPages * PGSIZE < AddrModulus
  BY SpacesAssumption
<1>2. UserPages * PGSIZE \in Nat
  BY <1>1
<1> QED  BY <1>1, <1>2 DEF PHYS_BASE

(* quotient and remainder *)
LEMMA Quotient ==
    ASSUME NEW a \in Nat, NEW n \in Nat, n > 0
    PROVE  /\ a \div n \in Nat /\ a % n \in 0 .. n - 1 /\ a = n * (a \div n) + (a % n)
OBVIOUS

(* division is determined by quotient and remainder *)
LEMMA QuotientIs ==
    ASSUME NEW a \in Nat, NEW n \in Nat, n > 0, NEW q \in Nat, NEW r \in 0 .. n - 1,
           a = n * q + r
    PROVE  a \div n = q /\ a % n = r
OBVIOUS

(* a product that is less has a factor that is less *)
LEMMA TimesLess ==
    ASSUME NEW n \in Nat, n > 0, NEW q \in Nat, NEW r \in Nat, n * q < n * r
    PROVE  q < r
OBVIOUS

(* a product grows with its factor *)
LEMMA TimesUp ==
    ASSUME NEW n \in Nat, NEW q \in Nat, NEW r \in Nat, q <= r
    PROVE  n * q <= n * r
OBVIOUS

(* what page and which entry of which page table an address belongs to *)
LEMMA PageParts ==
    ASSUME NEW u \in Pages
    PROVE  u \in Nat /\ u \div TableSize \in DirSlots /\ u % TableSize \in Slots
<1>1. u \in Nat /\ u <= UserPages - 1 /\ TableSize \in Nat /\ TableSize > 0 /\ UserPages \in Nat
  BY Sizes DEF Pages
<1> DEFINE n == TableSize
           q == u \div n
           top == UserPages + n - 1
<1>2. q \in Nat /\ u % n \in 0 .. n - 1 /\ u = n * q + (u % n)
  BY <1>1, Quotient
<1>3. top \in Nat /\ top \div n \in Nat /\ top % n \in 0 .. n - 1
      /\ top = n * (top \div n) + (top % n)
  BY <1>1, Quotient
<1> DEFINE d == top \div n
<1>4. n * q < n * d
  <2>1. n * q \in Int /\ n * d \in Int
    BY <1>1, <1>2, <1>3
  <2> HIDE DEF q, d
  <2>2. top % n \in 0 .. n - 1 /\ u % n \in 0 .. n - 1 /\ u = n * q + (u % n)
        /\ top = n * d + (top % n)
    BY <1>2, <1>3 DEF q, d
  <2> DEFINE r == u % n
             z == top % n
  <2>3. r \in 0 .. n - 1 /\ z \in 0 .. n - 1 /\ u = n * q + r /\ UserPages + n - 1 = n * d + z
    BY <2>2
  <2> HIDE DEF r, z
  <2> QED  BY <1>1, <2>1, <2>3
<1>5. q < d
  <2> HIDE DEF q, d
  <2> QED  BY <1>1, <1>2, <1>3, <1>4, TimesLess DEF q, d
<1>6. q \in DirSlots
  BY <1>2, <1>3, <1>5 DEF DirSlots, DirSize
<1> QED  BY <1>1, <1>2, <1>6 DEF Slots

(* two pages have the same table and the same entry only if they are one *)
LEMMA PagePartsApart ==
    ASSUME NEW u \in Pages, NEW v \in Pages, u \div TableSize = v \div TableSize,
           u % TableSize = v % TableSize
    PROVE  u = v
<1>1. u \in Nat /\ v \in Nat /\ TableSize \in Nat /\ TableSize > 0
  BY Sizes, PageParts
<1> QED  BY <1>1, Quotient

(* a page directory has a number of entries *)
LEMMA DirSizeIs == DirSize \in Nat
<1>1. UserPages + TableSize - 1 \in Nat /\ TableSize \in Nat /\ TableSize > 0
  BY Sizes
<1> QED  BY <1>1, Quotient DEF DirSize

-----------------------------------------------------------------------------
(* the place of the directory is none of the places of its tables *)
LEMMA PlacesApart == Itself \notin DirSlots /\ 0 \in Slots /\ DirSlots \subseteq Nat
BY Sizes, DirSizeIs DEF DirSlots, Slots, Itself

(* What Memory says of the places of kernel pages ... *)
LEMMA KernelPages ==
    ASSUME NEW ts, NEW dir, NEW held, NEW fr, Memory(ts, dir, held, fr)
    PROVE  /\ 0 \notin DOMAIN ts
           /\ \A p \in Process : dir[p] \in Nat
           /\ \A p \in Process : dir[p] # 0 => dir[p] \in DOMAIN ts
           /\ \A p \in Process : dir[p] # 0 => ts[dir[p]] \in [DirSlots -> Nat]
           /\ \A p \in Process, i \in DirSlots : KPage(ts, dir[p], i) \in Nat
           /\ \A p \in Process, i \in DirSlots : KPage(ts, dir[p], i) # 0 =>
                 KPage(ts, dir[p], i) \in DOMAIN ts
           /\ \A p \in Process, i \in DirSlots : KPage(ts, dir[p], i) # 0 =>
                 ts[KPage(ts, dir[p], i)] \in [Slots -> PageEntry]
           /\ \A p, q \in Process : dir[p] # 0 /\ dir[p] = dir[q] => p = q
           /\ \A p, q \in Process, j \in DirSlots :
                 dir[p] # 0 => dir[p] # KPage(ts, dir[q], j)
           /\ \A p, q \in Process, i, j \in DirSlots :
                 KPage(ts, dir[p], i) # 0 /\ KPage(ts, dir[p], i) = KPage(ts, dir[q], j) =>
                    p = q /\ i = j
<1> DEFINE m == KMap(ts, dir)
           All == DirSlots \cup {Itself}
           k(p, i) == KPage(ts, dir[p], i)
<1>1. \A p \in Process, i \in All : <<p, i>> \in KSlots /\ m[<<p, i>>] = k(p, i)
  BY DEF KMap, KSlots
<1>2. Occupied(m, KSlots, DOMAIN ts)
  BY DEF Memory
<1>3. /\ 0 \notin DOMAIN ts
      /\ \A p \in Process, i \in All : k(p, i) \in Nat /\ (k(p, i) # 0 => k(p, i) \in DOMAIN ts)
  <2> HIDE DEF m, k
  <2>1. 0 \notin DOMAIN ts /\ \A x \in KSlots : m[x] \in Nat /\ (m[x] # 0 => m[x] \in DOMAIN ts)
    BY <1>2 DEF Occupied
  <2> QED  BY <1>1, <2>1
<1>4. ASSUME NEW p \in Process, NEW q \in Process, NEW i \in All, NEW j \in All,
             k(p, i) # 0, k(p, i) = k(q, j)
      PROVE  p = q /\ i = j
  <2> HIDE DEF m, k
  <2>1. <<p, i>> \in KSlots /\ <<q, j>> \in KSlots /\ m[<<p, i>>] = k(p, i) /\ m[<<q, j>>] = k(q, j)
    BY <1>1
  <2>2. <<p, i>> = <<q, j>>
    BY <1>2, <1>4, <2>1 DEF Occupied
  <2> QED  BY <2>2
<1>5. \A p \in Process : k(p, Itself) = dir[p]
  BY DEF KPage
<1>6. Itself \in All /\ \A i \in DirSlots : i \in All /\ i # Itself
  BY PlacesApart
<1>7. /\ \A p \in Process : dir[p] # 0 => ts[dir[p]] \in [DirSlots -> Nat]
      /\ \A p \in Process, i \in DirSlots : k(p, i) # 0 => ts[k(p, i)] \in [Slots -> PageEntry]
  BY DEF Memory, Shapes
<1> HIDE DEF k, All
<1>8. \A p \in Process : dir[p] \in Nat /\ (dir[p] # 0 => dir[p] \in DOMAIN ts)
  BY <1>3, <1>5, <1>6
<1>9. \A p, q \in Process : dir[p] # 0 /\ dir[p] = dir[q] => p = q
  BY <1>4, <1>5, <1>6
<1>10. \A p, q \in Process, j \in DirSlots : dir[p] # 0 => dir[p] # k(q, j)
  BY <1>4, <1>5, <1>6
<1>11. \A p \in Process, i \in DirSlots : k(p, i) \in Nat /\ (k(p, i) # 0 => k(p, i) \in DOMAIN ts)
  BY <1>3, <1>6
<1>12. \A p, q \in Process, i, j \in DirSlots : k(p, i) # 0 /\ k(p, i) = k(q, j) => p = q /\ i = j
  BY <1>4, <1>6
<1> QED  BY <1>3, <1>7, <1>8, <1>9, <1>10, <1>11, <1>12 DEF k

(* ... and of those of user pages *)
LEMMA UserPlaces ==
    ASSUME NEW ts, NEW dir, NEW held, NEW fr, Memory(ts, dir, held, fr)
    PROVE  /\ 0 \notin DOMAIN fr
           /\ \A p \in Process : held[p] \in Nat
           /\ \A p \in Process : held[p] # 0 => held[p] \in DOMAIN fr
           /\ \A p \in Process, i \in DirSlots, s \in Slots :
                 Leaf(ts, KPage(ts, dir[p], i), s) # 0 =>
                    Leaf(ts, KPage(ts, dir[p], i), s) \in DOMAIN fr
           /\ \A p, q \in Process : held[p] # 0 /\ held[p] = held[q] => p = q
           /\ \A p, q \in Process, i \in DirSlots, s \in Slots :
                 held[p] # 0 => held[p] # Leaf(ts, KPage(ts, dir[q], i), s)
           /\ \A p, q \in Process, i, j \in DirSlots, s, t \in Slots :
                 /\ Leaf(ts, KPage(ts, dir[p], i), s) # 0
                 /\ Leaf(ts, KPage(ts, dir[p], i), s) = Leaf(ts, KPage(ts, dir[q], j), t)
                 => p = q /\ i = j /\ s = t
<1> DEFINE m == FMap(ts, dir, held)
           All == DirSlots \cup {Itself}
           f(p, i, s) == FPage(ts, dir[p], held[p], i, s)
           leaf(p, i, s) == Leaf(ts, KPage(ts, dir[p], i), s)
<1>1. \A p \in Process, i \in All, s \in Slots :
         <<p, i, s>> \in FSlots /\ m[<<p, i, s>>] = f(p, i, s)
  BY DEF FMap, FSlots
<1>2. Occupied(m, FSlots, DOMAIN fr)
  BY DEF Memory
<1>3. /\ 0 \notin DOMAIN fr
      /\ \A p \in Process, i \in All, s \in Slots :
            f(p, i, s) \in Nat /\ (f(p, i, s) # 0 => f(p, i, s) \in DOMAIN fr)
  <2> HIDE DEF m, f
  <2>1. 0 \notin DOMAIN fr /\ \A x \in FSlots : m[x] \in Nat /\ (m[x] # 0 => m[x] \in DOMAIN fr)
    BY <1>2 DEF Occupied
  <2> QED  BY <1>1, <2>1
<1>4. ASSUME NEW p \in Process, NEW q \in Process, NEW i \in All, NEW j \in All,
             NEW s \in Slots, NEW t \in Slots, f(p, i, s) # 0, f(p, i, s) = f(q, j, t)
      PROVE  p = q /\ i = j /\ s = t
  <2> HIDE DEF m, f
  <2>1. /\ <<p, i, s>> \in FSlots /\ <<q, j, t>> \in FSlots
        /\ m[<<p, i, s>>] = f(p, i, s) /\ m[<<q, j, t>>] = f(q, j, t)
    BY <1>1
  <2>2. <<p, i, s>> = <<q, j, t>>
    BY <1>2, <1>4, <2>1 DEF Occupied
  <2> QED  BY <2>2
<1>5. \A p \in Process : f(p, Itself, 0) = held[p]
  BY DEF FPage
<1>6. Itself \in All /\ 0 \in Slots /\ \A i \in DirSlots : i \in All /\ i # Itself
  BY PlacesApart
<1>7. \A p \in Process, i \in DirSlots, s \in Slots : f(p, i, s) = leaf(p, i, s)
  BY <1>6 DEF FPage
<1> HIDE DEF f, All, leaf
<1>8. \A p \in Process : held[p] \in Nat /\ (held[p] # 0 => held[p] \in DOMAIN fr)
  BY <1>3, <1>5, <1>6
<1>9. \A p, q \in Process : held[p] # 0 /\ held[p] = held[q] => p = q
  BY <1>4, <1>5, <1>6
<1>10. \A p, q \in Process, i \in DirSlots, s \in Slots : held[p] # 0 => held[p] # leaf(q, i, s)
  BY <1>4, <1>5, <1>6, <1>7
<1>11. \A p \in Process, i \in DirSlots, s \in Slots :
          leaf(p, i, s) # 0 => leaf(p, i, s) \in DOMAIN fr
  BY <1>3, <1>6, <1>7
<1>12. \A p, q \in Process, i, j \in DirSlots, s, t \in Slots :
          leaf(p, i, s) # 0 /\ leaf(p, i, s) = leaf(q, j, t) => p = q /\ i = j /\ s = t
  BY <1>4, <1>6, <1>7
<1> QED  BY <1>3, <1>8, <1>9, <1>10, <1>11, <1>12 DEF leaf

(* How the places of a process change: place i, or what it holds, becomes v, *)
(* entry t of page table i becomes v, all entries of page table i go.        *)
KernelBecomes(ts, dir, ts2, dir2, p, i, v) ==
    \A q \in Process, j \in DirSlots \cup {Itself} :
       KPage(ts2, dir2[q], j) = IF q = p /\ j = i THEN v ELSE KPage(ts, dir[q], j)
HeldBecomes(held, held2, p, v) ==
    \A q \in Process : held2[q] = IF q = p THEN v ELSE held[q]
LeafBecomes(ts, dir, ts2, dir2, p, i, t, v) ==
    \A q \in Process, j \in DirSlots, s \in Slots :
       Leaf(ts2, KPage(ts2, dir2[q], j), s) =
          IF q = p /\ j = i /\ s = t THEN v ELSE Leaf(ts, KPage(ts, dir[q], j), s)
LeavesGo(ts, dir, ts2, dir2, p, i) ==
    \A q \in Process, j \in DirSlots, s \in Slots :
       Leaf(ts2, KPage(ts2, dir2[q], j), s) =
          IF q = p /\ j = i THEN 0 ELSE Leaf(ts, KPage(ts, dir[q], j), s)
LeavesStay(ts, dir, ts2, dir2) ==
    \A q \in Process, j \in DirSlots, s \in Slots :
       Leaf(ts2, KPage(ts2, dir2[q], j), s) = Leaf(ts, KPage(ts, dir[q], j), s)

(* The entries of the processes in P stay; the bytes of all but p and of the *)
(* pages that are held stay; the entry of u of p becomes e.                  *)
EntriesStay(ts, dir, ts2, dir2, P) ==
    \A q \in P, u \in Pages : dir[q] # 0 =>
       dir2[q] = dir[q] /\ LookupPage(ts2, dir[q], u) = LookupPage(ts, dir[q], u)
BytesStay(ts, dir, held, fr, fr2, p) ==
    /\ \A q \in Process : held[q] # 0 => fr2[held[q]] = fr[held[q]]
    /\ \A q \in Process \ {p}, v \in Pages :
          dir[q] # 0 /\ LookupPage(ts, dir[q], v).frame # 0 =>
             fr2[LookupPage(ts, dir[q], v).frame] = fr[LookupPage(ts, dir[q], v).frame]
EntryBecomes(ts, dir, ts2, p, u, e) ==
    \A q \in Process, v \in Pages : dir[q] # 0 =>
       LookupPage(ts2, dir[q], v) = IF q = p /\ v = u THEN e ELSE LookupPage(ts, dir[q], v)

(* a kernel page more or less *)
LEMMA KernelMore ==
    ASSUME NEW ts, NEW dir, NEW ts2, NEW dir2, NEW D, Occupied(KMap(ts, dir), KSlots, D),
           NEW p \in Process, NEW i \in DirSlots \cup {Itself}, KPage(ts, dir[p], i) = 0,
           NEW k \in Nat, k # 0, k \notin D,
           KernelBecomes(ts, dir, ts2, dir2, p, i, k)
    PROVE  Occupied(KMap(ts2, dir2), KSlots, D \cup {k})
<1> DEFINE m == KMap(ts, dir)
           x == <<p, i>>
<1>1. x \in KSlots /\ m[x] = 0
  BY DEF KMap, KSlots, KernelBecomes
<1>2. KMap(ts2, dir2) = [m EXCEPT ![x] = k]
  <2>1. \A y \in KSlots : KMap(ts2, dir2)[y] = IF y = x THEN k ELSE m[y]
    BY DEF KMap, KSlots, KernelBecomes
  <2>2. m = [y \in KSlots |-> m[y]] /\ KMap(ts2, dir2) = [y \in KSlots |-> KMap(ts2, dir2)[y]]
    BY DEF KMap
  <2> HIDE DEF m, x
  <2> QED  BY <1>1, <2>1, <2>2
<1> HIDE DEF m, x
<1> QED  BY <1>1, <1>2, OccupyMore DEF m

(* a page directory or page table is given back to the kernel pool *)
LEMMA KernelLess ==
    ASSUME NEW ts, NEW dir, NEW ts2, NEW dir2, NEW D, Occupied(KMap(ts, dir), KSlots, D),
           NEW p \in Process, NEW i \in DirSlots \cup {Itself},
           KernelBecomes(ts, dir, ts2, dir2, p, i, 0)
    PROVE  Occupied(KMap(ts2, dir2), KSlots, D \ {KPage(ts, dir[p], i)})
<1> DEFINE m == KMap(ts, dir)
           x == <<p, i>>
<1>1. x \in KSlots /\ m[x] = KPage(ts, dir[p], i)
  BY DEF KMap, KSlots, KernelBecomes
<1>2. KMap(ts2, dir2) = [y \in KSlots |-> IF y \in {x} THEN 0 ELSE m[y]]
  <2>1. \A y \in KSlots : KMap(ts2, dir2)[y] = IF y \in {x} THEN 0 ELSE m[y]
    BY DEF KMap, KSlots, KernelBecomes
  <2>2. KMap(ts2, dir2) = [y \in KSlots |-> KMap(ts2, dir2)[y]]
    BY DEF KMap
  <2> HIDE DEF m, x
  <2> QED  BY <2>1, <2>2
<1>3. {m[y] : y \in {x}} = {m[x]}
  OBVIOUS
<1>4. Occupied(m, KSlots, D) /\ {x} \in SUBSET KSlots
  BY <1>1
<1> HIDE DEF m, x
<1> DEFINE Y == {x}
<1>5. Y \in SUBSET KSlots /\ KMap(ts2, dir2) = [y \in KSlots |-> IF y \in Y THEN 0 ELSE m[y]]
  BY <1>2, <1>4
<1> HIDE DEF Y
<1>6. Occupied(KMap(ts2, dir2), KSlots, D \ {m[y] : y \in Y})
  BY <1>4, <1>5, OccupyLess
<1> QED  BY <1>1, <1>3, <1>6 DEF Y

(* a user page more in someone's hands; the pages Y of p less, where Y has *)
(* pairs of page table and entry; and one moved to a page table            *)
LEMMA HeldMore ==
    ASSUME NEW ts, NEW dir, NEW held, NEW ts2, NEW dir2, NEW held2, NEW D,
           Occupied(FMap(ts, dir, held), FSlots, D),
           NEW p \in Process, held[p] = 0, NEW f \in Nat, f # 0, f \notin D,
           HeldBecomes(held, held2, p, f),
           LeavesStay(ts, dir, ts2, dir2)
    PROVE  Occupied(FMap(ts2, dir2, held2), FSlots, D \cup {f})
<1> DEFINE m == FMap(ts, dir, held)
           x == <<p, Itself, 0>>
<1>1. x \in FSlots /\ m[x] = 0
  BY PlacesApart DEF FMap, FSlots, FPage
<1>2. FMap(ts2, dir2, held2) = [m EXCEPT ![x] = f]
  <2>1. ASSUME NEW y \in FSlots PROVE FMap(ts2, dir2, held2)[y] = IF y = x THEN f ELSE m[y]
    <3>1. PICK q \in Process, j \in DirSlots \cup {Itself}, s \in Slots : y = <<q, j, s>>
      BY DEF FSlots
    <3>2. /\ FMap(ts2, dir2, held2)[y] = FPage(ts2, dir2[q], held2[q], j, s)
          /\ m[y] = FPage(ts, dir[q], held[q], j, s)
      BY <3>1 DEF FMap
    <3>3. y = x <=> q = p /\ j = Itself /\ s = 0
      BY <3>1
    <3>4. CASE j = Itself
      BY <3>2, <3>3, <3>4 DEF FPage, HeldBecomes, LeafBecomes, LeavesGo, LeavesStay
    <3>5. CASE j # Itself
      BY <3>2, <3>3, <3>5 DEF FPage, HeldBecomes, LeafBecomes, LeavesGo, LeavesStay
    <3> QED  BY <3>4, <3>5
  <2>2. m = [y \in FSlots |-> m[y]]
        /\ FMap(ts2, dir2, held2) = [y \in FSlots |-> FMap(ts2, dir2, held2)[y]]
    BY DEF FMap
  <2> HIDE DEF m, x
  <2> QED  BY <1>1, <2>1, <2>2
<1> HIDE DEF m, x
<1> QED  BY <1>1, <1>2, OccupyMore DEF m

(* a load gives back the page that it holds *)
LEMMA HeldLess ==
    ASSUME NEW ts, NEW dir, NEW held, NEW ts2, NEW dir2, NEW held2, NEW D,
           Occupied(FMap(ts, dir, held), FSlots, D),
           NEW p \in Process,
           HeldBecomes(held, held2, p, 0),
           LeavesStay(ts, dir, ts2, dir2)
    PROVE  Occupied(FMap(ts2, dir2, held2), FSlots, D \ {held[p]})
<1> DEFINE m == FMap(ts, dir, held)
           x == <<p, Itself, 0>>
<1>1. x \in FSlots /\ m[x] = held[p]
  BY PlacesApart DEF FMap, FSlots, FPage
<1>2. FMap(ts2, dir2, held2) = [y \in FSlots |-> IF y \in {x} THEN 0 ELSE m[y]]
  <2>1. ASSUME NEW y \in FSlots PROVE FMap(ts2, dir2, held2)[y] = IF y \in {x} THEN 0 ELSE m[y]
    <3>1. PICK q \in Process, j \in DirSlots \cup {Itself}, s \in Slots : y = <<q, j, s>>
      BY DEF FSlots
    <3>2. /\ FMap(ts2, dir2, held2)[y] = FPage(ts2, dir2[q], held2[q], j, s)
          /\ m[y] = FPage(ts, dir[q], held[q], j, s)
      BY <3>1 DEF FMap
    <3>3. y \in {x} <=> q = p /\ j = Itself /\ s = 0
      BY <3>1
    <3>4. CASE j = Itself
      BY <3>2, <3>3, <3>4 DEF FPage, HeldBecomes, LeafBecomes, LeavesGo, LeavesStay
    <3>5. CASE j # Itself
      BY <3>2, <3>3, <3>5 DEF FPage, HeldBecomes, LeafBecomes, LeavesGo, LeavesStay
    <3> QED  BY <3>4, <3>5
  <2>2. FMap(ts2, dir2, held2) = [y \in FSlots |-> FMap(ts2, dir2, held2)[y]]
    BY DEF FMap
  <2> HIDE DEF m, x
  <2> QED  BY <2>1, <2>2
<1>3. {m[y] : y \in {x}} = {m[x]}
  OBVIOUS
<1>4. Occupied(m, FSlots, D) /\ {x} \in SUBSET FSlots
  BY <1>1
<1> HIDE DEF m, x
<1> DEFINE Y == {x}
<1>5. Y \in SUBSET FSlots /\ FMap(ts2, dir2, held2) = [y \in FSlots |-> IF y \in Y THEN 0 ELSE m[y]]
  BY <1>2, <1>4
<1> HIDE DEF Y
<1>6. Occupied(FMap(ts2, dir2, held2), FSlots, D \ {m[y] : y \in Y})
  BY <1>4, <1>5, OccupyLess
<1> QED  BY <1>1, <1>3, <1>6 DEF Y

(* the page that a load holds is put into a page table entry *)
LEMMA HeldMoved ==
    ASSUME NEW ts, NEW dir, NEW held, NEW ts2, NEW dir2, NEW held2, NEW D,
           Occupied(FMap(ts, dir, held), FSlots, D),
           NEW p \in Process, NEW i \in DirSlots, NEW t \in Slots,
           Leaf(ts, KPage(ts, dir[p], i), t) = 0,
           HeldBecomes(held, held2, p, 0),
           LeafBecomes(ts, dir, ts2, dir2, p, i, t, held[p])
    PROVE  Occupied(FMap(ts2, dir2, held2), FSlots, D)
<1> DEFINE m == FMap(ts, dir, held)
           x == <<p, Itself, 0>>
           z == <<p, i, t>>
<1>1. x \in FSlots /\ m[x] = held[p] /\ z \in FSlots /\ m[z] = 0 /\ x # z
  <2>1. i # Itself /\ i \in DirSlots \cup {Itself}
    BY PlacesApart
  <2> QED  BY <2>1, PlacesApart DEF FMap, FSlots, FPage
<1>2. FMap(ts2, dir2, held2) = [m EXCEPT ![x] = 0, ![z] = m[x]]
  <2>1. ASSUME NEW y \in FSlots
        PROVE  FMap(ts2, dir2, held2)[y] = IF y = z THEN m[x] ELSE IF y = x THEN 0 ELSE m[y]
    <3>1. PICK q \in Process, j \in DirSlots \cup {Itself}, s \in Slots : y = <<q, j, s>>
      BY DEF FSlots
    <3>2. /\ FMap(ts2, dir2, held2)[y] = FPage(ts2, dir2[q], held2[q], j, s)
          /\ m[y] = FPage(ts, dir[q], held[q], j, s)
      BY <3>1 DEF FMap
    <3>3. /\ y = x <=> q = p /\ j = Itself /\ s = 0
          /\ y = z <=> q = p /\ j = i /\ s = t
      BY <3>1
    <3>4. CASE j = Itself
      BY <1>1, <3>2, <3>3, <3>4, PlacesApart DEF FPage, HeldBecomes, LeafBecomes, LeavesGo, LeavesStay
    <3>5. CASE j # Itself
      BY <1>1, <3>2, <3>3, <3>5 DEF FPage, HeldBecomes, LeafBecomes, LeavesGo, LeavesStay
    <3> QED  BY <3>4, <3>5
  <2>2. m = [y \in FSlots |-> m[y]]
        /\ FMap(ts2, dir2, held2) = [y \in FSlots |-> FMap(ts2, dir2, held2)[y]]
    BY DEF FMap
  <2> HIDE DEF m, x, z
  <2> QED  BY <1>1, <2>1, <2>2
<1>3. Occupied(m, FSlots, D)
  OBVIOUS
<1> HIDE DEF m, x, z
<1> QED  BY <1>1, <1>2, <1>3, OccupyMoved

(* all pages of one page table are given back *)
LEMMA TableLess ==
    ASSUME NEW ts, NEW dir, NEW held, NEW ts2, NEW dir2, NEW D,
           Occupied(FMap(ts, dir, held), FSlots, D),
           NEW p \in Process, NEW i \in DirSlots,
           LeavesGo(ts, dir, ts2, dir2, p, i)
    PROVE  Occupied(FMap(ts2, dir2, held), FSlots,
                    D \ {Leaf(ts, KPage(ts, dir[p], i), s) : s \in Slots})
<1> DEFINE m == FMap(ts, dir, held)
           Y == {<<p, i, s>> : s \in Slots}
<1>0. i # Itself /\ i \in DirSlots \cup {Itself}
  BY PlacesApart
<1>1. \A s \in Slots : <<p, i, s>> \in FSlots /\ m[<<p, i, s>>] = Leaf(ts, KPage(ts, dir[p], i), s)
  BY <1>0 DEF FMap, FSlots, FPage
<1>2. Y \in SUBSET FSlots
  BY <1>1
<1>3. FMap(ts2, dir2, held) = [y \in FSlots |-> IF y \in Y THEN 0 ELSE m[y]]
  <2>1. ASSUME NEW y \in FSlots PROVE FMap(ts2, dir2, held)[y] = IF y \in Y THEN 0 ELSE m[y]
    <3>1. PICK q \in Process, j \in DirSlots \cup {Itself}, s \in Slots : y = <<q, j, s>>
      BY DEF FSlots
    <3>2. /\ FMap(ts2, dir2, held)[y] = FPage(ts2, dir2[q], held[q], j, s)
          /\ m[y] = FPage(ts, dir[q], held[q], j, s)
      BY <3>1 DEF FMap
    <3>3. y \in Y <=> q = p /\ j = i
      BY <3>1
    <3>4. CASE j = Itself
      BY <1>0, <3>2, <3>3, <3>4 DEF FPage, HeldBecomes, LeafBecomes, LeavesGo, LeavesStay
    <3>5. CASE j # Itself
      BY <3>2, <3>3, <3>5 DEF FPage, HeldBecomes, LeafBecomes, LeavesGo, LeavesStay
    <3> QED  BY <3>4, <3>5
  <2>2. FMap(ts2, dir2, held) = [y \in FSlots |-> FMap(ts2, dir2, held)[y]]
    BY DEF FMap
  <2> HIDE DEF m, Y
  <2> QED  BY <2>1, <2>2
<1>4. {m[y] : y \in Y} = {Leaf(ts, KPage(ts, dir[p], i), s) : s \in Slots}
  <2> DEFINE leaf(s) == Leaf(ts, KPage(ts, dir[p], i), s)
  <2>1. \A s \in Slots : m[<<p, i, s>>] = leaf(s)
    BY <1>1
  <2> HIDE DEF m, leaf
  <2>2. {m[y] : y \in Y} = {leaf(s) : s \in Slots}
    BY <2>1
  <2> QED  BY <2>2 DEF leaf
<1>5. Occupied(m, FSlots, D)
  OBVIOUS
<1> HIDE DEF m, Y
<1>6. Occupied(FMap(ts2, dir2, held), FSlots, D \ {m[y] : y \in Y})
  BY <1>2, <1>3, <1>5, OccupyLess
<1> QED  BY <1>4, <1>6

(* a step that changes no entry leaves every user page in its place *)
LEMMA LeavesSame ==
    ASSUME NEW ts, NEW dir, NEW held, NEW ts2, NEW dir2, NEW D,
           Occupied(FMap(ts, dir, held), FSlots, D),
           LeavesStay(ts, dir, ts2, dir2)
    PROVE  Occupied(FMap(ts2, dir2, held), FSlots, D)
<1>1. ASSUME NEW y \in FSlots PROVE FMap(ts2, dir2, held)[y] = FMap(ts, dir, held)[y]
  <2>1. PICK q \in Process, j \in DirSlots \cup {Itself}, s \in Slots : y = <<q, j, s>>
    BY DEF FSlots
  <2>2. /\ FMap(ts2, dir2, held)[y] = FPage(ts2, dir2[q], held[q], j, s)
        /\ FMap(ts, dir, held)[y] = FPage(ts, dir[q], held[q], j, s)
    BY <2>1 DEF FMap
  <2>3. CASE j = Itself
    BY <2>2, <2>3 DEF FPage, HeldBecomes, LeafBecomes, LeavesGo, LeavesStay
  <2>4. CASE j # Itself
    BY <2>2, <2>4 DEF FPage, HeldBecomes, LeafBecomes, LeavesGo, LeavesStay
  <2> QED  BY <2>3, <2>4
<1>2. FMap(ts, dir, held) = [y \in FSlots |-> FMap(ts, dir, held)[y]]
      /\ FMap(ts2, dir2, held) = [y \in FSlots |-> FMap(ts2, dir2, held)[y]]
  BY DEF FMap
<1>3. FMap(ts2, dir2, held) = FMap(ts, dir, held)
  BY <1>1, <1>2
<1> QED  BY <1>3

-----------------------------------------------------------------------------
(* the entry of a page, by the page table and its place there *)
LEMMA EntryIs ==
    ASSUME NEW ts, NEW d, d # 0, NEW u \in Pages
    PROVE  LET k == KPage(ts, d, u \div TableSize) IN
           /\ LookupPage(ts, d, u) = IF k = 0 THEN NotPresent ELSE ts[k][u % TableSize]
           /\ LookupPage(ts, d, u).frame = Leaf(ts, k, u % TableSize)
<1>1. u \div TableSize \in DirSlots /\ u \div TableSize # Itself
  BY PageParts, PlacesApart
<1>2. KPage(ts, d, u \div TableSize) = ts[d][u \div TableSize]
  BY <1>1 DEF KPage
<1>3. NotPresent.frame = 0
  BY DEF NotPresent
<1> QED  BY <1>2, <1>3 DEF LookupPage, Leaf

(* an entry stays if its page table does, or if an empty one came *)
LEMMA EntryStays ==
    ASSUME NEW ts, NEW ts2, NEW d, d # 0, NEW u \in Pages,
           NEW k, k = KPage(ts, d, u \div TableSize), NEW k2, k2 = KPage(ts2, d, u \div TableSize),
           k # 0 => k2 = k /\ ts2[k] = ts[k],
           k = 0 /\ k2 # 0 => ts2[k2][u % TableSize] = NotPresent
    PROVE  LookupPage(ts2, d, u) = LookupPage(ts, d, u)
<1>1. LookupPage(ts, d, u) = IF k = 0 THEN NotPresent ELSE ts[k][u % TableSize]
  BY EntryIs
<1>2. LookupPage(ts2, d, u) = IF k2 = 0 THEN NotPresent ELSE ts2[k2][u % TableSize]
  BY EntryIs
<1> QED  BY <1>1, <1>2

(* a page directory more *)
LEMMA DirectoryMore ==
    ASSUME NEW ts, NEW dir, NEW held, NEW fr, Memory(ts, dir, held, fr),
           NEW p \in Process, dir[p] = 0, NEW k \in Nat, k # 0, k \notin DOMAIN ts,
           NEW ts2, ts2 = Put(ts, k, [i \in 0 .. DirSize - 1 |-> 0]),
           NEW dir2, dir2 = [dir EXCEPT ![p] = k]
    PROVE  /\ Memory(ts2, dir2, held, fr)
           /\ EntriesStay(ts, dir, ts2, dir2, Process)
<1> DEFINE All == DirSlots \cup {Itself}
<1>1. /\ DOMAIN ts2 = DOMAIN ts \cup {k} /\ ts2[k] = [i \in DirSlots |-> 0]
      /\ \A j \in DOMAIN ts : ts2[j] = ts[j]
  BY DEF Put, DirSlots
<1>2. /\ dir2 \in [Process -> Nat]
      /\ \A q \in Process : dir2[q] = IF q = p THEN k ELSE dir[q]
  BY DEF Memory
<1>3. /\ \A q \in Process : dir[q] # 0 => dir[q] \in DOMAIN ts
      /\ \A q \in Process, j \in DirSlots : KPage(ts, dir[q], j) # 0 =>
            KPage(ts, dir[q], j) \in DOMAIN ts /\ ts[KPage(ts, dir[q], j)] \in [Slots -> PageEntry]
      /\ \A q \in Process : dir[q] # 0 => ts[dir[q]] \in [DirSlots -> Nat]
  BY KernelPages
<1>4. ASSUME NEW q \in Process, NEW j \in DirSlots
      PROVE  KPage(ts2, dir2[q], j) = KPage(ts, dir[q], j)
  <2>1. CASE q = p
    BY <1>1, <1>2, <2>1, PlacesApart DEF KPage
  <2>2. CASE q # p
    BY <1>1, <1>2, <1>3, <2>2, PlacesApart DEF KPage
  <2> QED  BY <2>1, <2>2
<1>5. KernelBecomes(ts, dir, ts2, dir2, p, Itself, k)
  <2>1. \A q \in Process : KPage(ts2, dir2[q], Itself) = dir2[q] /\ KPage(ts, dir[q], Itself) = dir[q]
    BY DEF KPage
  <2> QED  BY <1>2, <1>4, <2>1, PlacesApart DEF KernelBecomes
<1>6. Occupied(KMap(ts2, dir2), KSlots, DOMAIN ts2)
  <2>1. KPage(ts, dir[p], Itself) = 0 /\ Occupied(KMap(ts, dir), KSlots, DOMAIN ts)
    BY DEF KPage, Memory
  <2>2. Itself \in DirSlots \cup {Itself}
    OBVIOUS
  <2>3. Occupied(KMap(ts2, dir2), KSlots, DOMAIN ts \cup {k})
    BY <1>5, <2>1, <2>2, KernelMore
  <2> QED  BY <1>1, <2>3
<1>7. LeavesStay(ts, dir, ts2, dir2)
  <2> SUFFICES ASSUME NEW q \in Process, NEW j \in DirSlots, NEW s \in Slots
               PROVE  Leaf(ts2, KPage(ts2, dir2[q], j), s) = Leaf(ts, KPage(ts, dir[q], j), s)
    BY DEF LeavesStay
  <2>1. KPage(ts2, dir2[q], j) = KPage(ts, dir[q], j)
    BY <1>4
  <2>2. KPage(ts, dir[q], j) # 0 => ts2[KPage(ts, dir[q], j)] = ts[KPage(ts, dir[q], j)]
    BY <1>1, <1>3
  <2> QED  BY <2>1, <2>2 DEF Leaf
<1>8. Occupied(FMap(ts2, dir2, held), FSlots, DOMAIN fr)
  <2>1. Occupied(FMap(ts, dir, held), FSlots, DOMAIN fr)
    BY DEF Memory
  <2> QED  BY <1>7, <2>1, LeavesSame
<1>9. Shapes(ts2, dir2)
  <2>1. ASSUME NEW q \in Process, dir2[q] # 0 PROVE ts2[dir2[q]] \in [DirSlots -> Nat]
    <3>1. CASE q = p
      <4>1. dir2[q] = k /\ [i \in DirSlots |-> 0] \in [DirSlots -> Nat]
        BY <1>2, <3>1
      <4> QED  BY <1>1, <4>1
    <3>2. CASE q # p
      BY <1>1, <1>2, <1>3, <2>1, <3>2
    <3> QED  BY <3>1, <3>2
  <2>2. ASSUME NEW q \in Process, NEW j \in DirSlots, KPage(ts2, dir2[q], j) # 0
        PROVE  ts2[KPage(ts2, dir2[q], j)] \in [Slots -> PageEntry]
    <3>1. KPage(ts2, dir2[q], j) = KPage(ts, dir[q], j)
      BY <1>4
    <3> DEFINE j2 == KPage(ts, dir[q], j)
    <3>2. j2 # 0 /\ j2 \in DOMAIN ts /\ ts[j2] \in [Slots -> PageEntry]
      BY <1>3, <2>2, <3>1
    <3> HIDE DEF j2
    <3>3. ts2[j2] \in [Slots -> PageEntry]
      BY <1>1, <3>2
    <3> QED  BY <3>1, <3>3 DEF j2
  <2> QED  BY <2>1, <2>2 DEF Shapes
<1>10. ASSUME NEW q \in Process, NEW u \in Pages, dir[q] # 0
       PROVE  dir2[q] = dir[q] /\ LookupPage(ts2, dir[q], u) = LookupPage(ts, dir[q], u)
  <2>1. q # p /\ dir2[q] = dir[q]
    BY <1>2, <1>10
  <2>2. u \div TableSize \in DirSlots
    BY PageParts
  <2>3. KPage(ts2, dir[q], u \div TableSize) = KPage(ts, dir[q], u \div TableSize)
    BY <1>4, <2>1, <2>2
  <2>4. KPage(ts, dir[q], u \div TableSize) # 0 =>
           ts2[KPage(ts, dir[q], u \div TableSize)] = ts[KPage(ts, dir[q], u \div TableSize)]
    BY <1>1, <1>3, <2>2
  <2> QED  BY <1>10, <2>1, <2>3, <2>4, EntryIs
<1>11. EntriesStay(ts, dir, ts2, dir2, Process)
  BY <1>10 DEF EntriesStay
<1> QED  BY <1>2, <1>6, <1>8, <1>9, <1>11 DEF Memory

(* a user page in someone's hands, or given back by the one who has it *)
LEMMA PageTaken ==
    ASSUME NEW ts, NEW dir, NEW held, NEW fr, Memory(ts, dir, held, fr),
           NEW p \in Process, held[p] = 0, NEW f \in Nat, f # 0, f \notin DOMAIN fr, NEW v,
           NEW fr2, fr2 = Put(fr, f, v), NEW held2, held2 = [held EXCEPT ![p] = f]
    PROVE  /\ Memory(ts, dir, held2, fr2)
           /\ DOMAIN fr2 = DOMAIN fr \cup {f} /\ \A g \in DOMAIN fr : fr2[g] = fr[g]
<1>1. DOMAIN fr2 = DOMAIN fr \cup {f} /\ \A g \in DOMAIN fr : fr2[g] = fr[g]
  BY DEF Put
<1>2. held2 \in [Process -> Nat] /\ HeldBecomes(held, held2, p, f)
  BY DEF Memory, HeldBecomes
<1>3. LeavesStay(ts, dir, ts, dir)
  BY DEF LeavesStay
<1>4. Occupied(FMap(ts, dir, held), FSlots, DOMAIN fr)
  BY DEF Memory
<1>5. Occupied(FMap(ts, dir, held2), FSlots, DOMAIN fr \cup {f})
  BY <1>2, <1>3, <1>4, HeldMore
<1> QED  BY <1>1, <1>2, <1>5 DEF Memory

(* a load that fails frees the page it holds: nothing else changes *)
LEMMA PageGiven ==
    ASSUME NEW ts, NEW dir, NEW held, NEW fr, Memory(ts, dir, held, fr),
           NEW p \in Process, NEW fr2, fr2 = Drop(fr, {held[p]}),
           NEW held2, held2 = [held EXCEPT ![p] = 0]
    PROVE  Memory(ts, dir, held2, fr2)
<1>1. /\ DOMAIN fr2 = DOMAIN fr \ {held[p]}
      /\ \A g \in DOMAIN fr : g # held[p] => g \in DOMAIN fr2 /\ fr2[g] = fr[g]
  BY DEF Drop
<1>2. held2 \in [Process -> Nat] /\ HeldBecomes(held, held2, p, 0)
  BY DEF Memory, HeldBecomes
<1>3. LeavesStay(ts, dir, ts, dir)
  BY DEF LeavesStay
<1>4. Occupied(FMap(ts, dir, held), FSlots, DOMAIN fr)
  BY DEF Memory
<1>5. Occupied(FMap(ts, dir, held2), FSlots, DOMAIN fr \ {held[p]})
  BY <1>2, <1>3, <1>4, HeldLess
<1> QED  BY <1>1, <1>2, <1>5 DEF Memory

(* the page that p holds is mapped at u: page table j there already ... *)
EntrySet(ts, k, t, e) == [ts EXCEPT ![k][t] = e]
NewTable == [s \in Slots |-> NotPresent]
TableAdded(ts, d, i, k) == Put([ts EXCEPT ![d][i] = k], k, NewTable)

(* pagedir_set_page() when the page table exists: one entry changes *)
LEMMA PageMapped ==
    ASSUME NEW ts, NEW dir, NEW held, NEW fr, Memory(ts, dir, held, fr),
           NEW p \in Process, dir[p] # 0, NEW u \in Pages, LookupPage(ts, dir[p], u).frame = 0,
           NEW e \in [frame : Nat, w : BOOLEAN], e.frame = held[p], held[p] # 0,
           NEW k, k = ts[dir[p]][u \div TableSize], k # 0,
           NEW ts2, ts2 = EntrySet(ts, k, u % TableSize, e),
           NEW held2, held2 = [held EXCEPT ![p] = 0]
    PROVE  /\ Memory(ts2, dir, held2, fr)
           /\ EntryBecomes(ts, dir, ts2, p, u, e)
<1> DEFINE i == u \div TableSize
           t == u % TableSize
<1>1. i \in DirSlots /\ t \in Slots /\ i # Itself
  BY PageParts, PlacesApart
<1>2. k = KPage(ts, dir[p], i)
  BY <1>1 DEF KPage
<1>3. k \in DOMAIN ts /\ ts[k] \in [Slots -> PageEntry]
  BY <1>1, <1>2, KernelPages
<1>4. Leaf(ts, k, t) = 0
  BY <1>2, EntryIs
<1> HIDE DEF i, t
<1>5. /\ DOMAIN ts2 = DOMAIN ts /\ \A j \in DOMAIN ts : j # k => ts2[j] = ts[j]
      /\ ts2[k] = [ts[k] EXCEPT ![t] = e]
  BY <1>3 DEF t, EntrySet
<1>6. \A s \in Slots : ts2[k][s] = IF s = t THEN e ELSE ts[k][s]
  BY <1>3, <1>5
<1>7. ts2[k] \in [Slots -> PageEntry]
  <2>1. e \in PageEntry
    BY DEF PageEntry
  <2> QED  BY <1>3, <1>5, <2>1
<1>8. \A q \in Process : dir[q] # 0 => dir[q] \in DOMAIN ts /\ dir[q] # k /\ ts2[dir[q]] = ts[dir[q]]
  BY <1>1, <1>2, <1>5, KernelPages
<1>9. \A q \in Process, j \in DirSlots \cup {Itself} : KPage(ts2, dir[q], j) = KPage(ts, dir[q], j)
  BY <1>8 DEF KPage
<1>10. \A q \in Process, j \in DirSlots : KPage(ts, dir[q], j) = k => q = p /\ j = i
  BY <1>1, <1>2, KernelPages
<1>11. ASSUME NEW q \in Process, NEW j \in DirSlots, KPage(ts, dir[q], j) # 0, ~(q = p /\ j = i)
       PROVE  /\ KPage(ts, dir[q], j) \in DOMAIN ts
              /\ ts2[KPage(ts, dir[q], j)] = ts[KPage(ts, dir[q], j)]
  <2>1. KPage(ts, dir[q], j) \in DOMAIN ts
    BY <1>11, KernelPages
  <2>2. KPage(ts, dir[q], j) # k
    BY <1>10, <1>11
  <2> QED  BY <1>5, <2>1, <2>2
<1>12. LeafBecomes(ts, dir, ts2, dir, p, i, t, held[p])
  <2> SUFFICES ASSUME NEW q \in Process, NEW j \in DirSlots, NEW s \in Slots
               PROVE  Leaf(ts2, KPage(ts2, dir[q], j), s) =
                         IF q = p /\ j = i /\ s = t THEN held[p] ELSE Leaf(ts, KPage(ts, dir[q], j), s)
    BY DEF LeafBecomes
  <2>1. KPage(ts2, dir[q], j) = KPage(ts, dir[q], j)
    BY <1>9
  <2>2. CASE q = p /\ j = i
    BY <1>2, <1>6, <2>1, <2>2 DEF Leaf
  <2>3. CASE ~(q = p /\ j = i)
    <3> DEFINE z == KPage(ts, dir[q], j)
    <3>1. z # 0 => ts2[z] = ts[z]
      BY <1>11, <2>3
    <3>2. Leaf(ts2, z, s) = Leaf(ts, z, s)
      BY <3>1 DEF Leaf
    <3> QED  BY <2>1, <2>3, <3>2
  <2> QED  BY <2>2, <2>3
<1>13. held2 \in [Process -> Nat] /\ HeldBecomes(held, held2, p, 0)
  BY DEF Memory, HeldBecomes
<1>14. Occupied(FMap(ts2, dir, held2), FSlots, DOMAIN fr)
  <2>1. Occupied(FMap(ts, dir, held), FSlots, DOMAIN fr) /\ Leaf(ts, KPage(ts, dir[p], i), t) = 0
    BY <1>2, <1>4 DEF Memory
  <2> QED  BY <1>1, <1>12, <1>13, <2>1, HeldMoved DEF i, t
<1>15. Occupied(KMap(ts2, dir), KSlots, DOMAIN ts2)
  <2>1. KMap(ts2, dir) = KMap(ts, dir)
    BY <1>9 DEF KMap, KSlots
  <2> QED  BY <1>5, <2>1 DEF Memory
<1>16. Shapes(ts2, dir)
  <2>1. ASSUME NEW q \in Process, dir[q] # 0 PROVE ts2[dir[q]] \in [DirSlots -> Nat]
    BY <1>8, <2>1, KernelPages
  <2>2. ASSUME NEW q \in Process, NEW j \in DirSlots, KPage(ts2, dir[q], j) # 0
        PROVE  ts2[KPage(ts2, dir[q], j)] \in [Slots -> PageEntry]
    <3>1. KPage(ts2, dir[q], j) = KPage(ts, dir[q], j)
      BY <1>9
    <3>2. CASE q = p /\ j = i
      BY <1>2, <1>7, <3>1, <3>2
    <3>3. CASE ~(q = p /\ j = i)
      <4>1. ts2[KPage(ts, dir[q], j)] = ts[KPage(ts, dir[q], j)] /\ KPage(ts, dir[q], j) # 0
        BY <1>11, <2>2, <3>1, <3>3
      <4>2. ts[KPage(ts, dir[q], j)] \in [Slots -> PageEntry]
        BY <4>1, KernelPages
      <4> QED  BY <3>1, <4>1, <4>2
    <3> QED  BY <3>2, <3>3
  <2> QED  BY <2>1, <2>2 DEF Shapes
<1>17. ASSUME NEW q \in Process, NEW v \in Pages, dir[q] # 0
       PROVE  LookupPage(ts2, dir[q], v) = IF q = p /\ v = u THEN e ELSE LookupPage(ts, dir[q], v)
  <2> DEFINE j == v \div TableSize
             s == v % TableSize
  <2>1. j \in DirSlots /\ s \in Slots /\ (v = u <=> j = i /\ s = t)
    BY PageParts, PagePartsApart DEF i, t
  <2>2. /\ LookupPage(ts2, dir[q], v) = IF KPage(ts2, dir[q], j) = 0 THEN NotPresent
                                   ELSE ts2[KPage(ts2, dir[q], j)][s]
        /\ LookupPage(ts, dir[q], v) = IF KPage(ts, dir[q], j) = 0 THEN NotPresent
                                  ELSE ts[KPage(ts, dir[q], j)][s]
    <3> DEFINE d == dir[q]
    <3>1. d # 0
      BY <1>17
    <3> HIDE DEF d
    <3>2. ASSUME NEW x
          PROVE  LookupPage(x, d, v) = IF KPage(x, d, j) = 0 THEN NotPresent ELSE x[KPage(x, d, j)][s]
      BY <3>1, EntryIs
    <3> QED  BY <3>2 DEF d
  <2>3. KPage(ts2, dir[q], j) = KPage(ts, dir[q], j)
    BY <1>9, <2>1
  <2> HIDE DEF j, s
  <2>4. CASE q = p /\ j = i
    BY <1>2, <1>6, <2>1, <2>2, <2>3, <2>4
  <2>5. CASE ~(q = p /\ j = i)
    BY <1>11, <2>1, <2>2, <2>3, <2>5
  <2> QED  BY <2>4, <2>5
<1>18. EntryBecomes(ts, dir, ts2, p, u, e)
  BY <1>17 DEF EntryBecomes
<1> QED  BY <1>13, <1>14, <1>15, <1>16, <1>18 DEF Memory

(* ... or an empty page table more *)
LEMMA TableMore ==
    ASSUME NEW ts, NEW dir, NEW held, NEW fr, Memory(ts, dir, held, fr),
           NEW p \in Process, dir[p] # 0, NEW i \in DirSlots, ts[dir[p]][i] = 0,
           NEW k \in Nat, k # 0, k \notin DOMAIN ts,
           NEW ts2, ts2 = TableAdded(ts, dir[p], i, k)
    PROVE  /\ Memory(ts2, dir, held, fr)
           /\ ts2[dir[p]][i] = k /\ k \in DOMAIN ts2 /\ ts2[k] = NewTable
           /\ EntriesStay(ts, dir, ts2, dir, Process)
<1> DEFINE d == dir[p]
           All == DirSlots \cup {Itself}
<1>1. d \in DOMAIN ts /\ d # k /\ ts[d] \in [DirSlots -> Nat]
  BY KernelPages
<1>2. /\ DOMAIN ts2 = DOMAIN ts \cup {k} /\ ts2[k] = [s \in Slots |-> NotPresent]
      /\ \A j \in DOMAIN ts : j # d => ts2[j] = ts[j]
      /\ ts2[d] = [ts[d] EXCEPT ![i] = k]
  <2> DEFINE m == [ts EXCEPT ![d][i] = k]
  <2>1. /\ DOMAIN m = DOMAIN ts /\ \A j \in DOMAIN ts : j # d => m[j] = ts[j]
        /\ m[d] = [ts[d] EXCEPT ![i] = k]
    BY <1>1
  <2>2. ts2 = Put(m, k, [s \in Slots |-> NotPresent])
    BY DEF TableAdded, NewTable
  <2> HIDE DEF m
  <2> QED  BY <1>1, <2>1, <2>2 DEF Put
<1>3. ts2[d] \in [DirSlots -> Nat] /\ \A j \in DirSlots : ts2[d][j] = IF j = i THEN k ELSE ts[d][j]
  BY <1>1, <1>2
<1>4. \A q \in Process : dir[q] # 0 =>
         dir[q] \in DOMAIN ts /\ (dir[q] = d => q = p) /\ ts[dir[q]] \in [DirSlots -> Nat]
  BY KernelPages
<1>5. ASSUME NEW q \in Process, NEW j \in All
      PROVE  KPage(ts2, dir[q], j) = IF q = p /\ j = i THEN k ELSE KPage(ts, dir[q], j)
  <2>1. CASE j = Itself
    BY <2>1, PlacesApart DEF KPage
  <2>2. CASE j # Itself /\ q = p
    BY <1>3, <2>2 DEF KPage
  <2>3. CASE j # Itself /\ q # p
    BY <1>2, <1>4, <2>3 DEF KPage
  <2> QED  BY <2>1, <2>2, <2>3
<1>6. KernelBecomes(ts, dir, ts2, dir, p, i, k)
  BY <1>5 DEF KernelBecomes
<1>7. KPage(ts, d, i) = 0
  BY PlacesApart DEF KPage
<1>8. Occupied(KMap(ts2, dir), KSlots, DOMAIN ts2)
  <2>1. Occupied(KMap(ts, dir), KSlots, DOMAIN ts) /\ i \in All
    BY DEF Memory
  <2>2. Occupied(KMap(ts2, dir), KSlots, DOMAIN ts \cup {k})
    BY <1>6, <1>7, <2>1, KernelMore
  <2> QED  BY <1>2, <2>2
<1>9. ASSUME NEW q \in Process, NEW j \in DirSlots, KPage(ts, dir[q], j) # 0
      PROVE  /\ KPage(ts, dir[q], j) \in DOMAIN ts /\ KPage(ts, dir[q], j) # d
             /\ ts[KPage(ts, dir[q], j)] \in [Slots -> PageEntry]
             /\ KPage(ts2, dir[q], j) = KPage(ts, dir[q], j)
             /\ ts2[KPage(ts, dir[q], j)] = ts[KPage(ts, dir[q], j)]
  <2> DEFINE z == KPage(ts, dir[q], j)
  <2>1. z \in DOMAIN ts /\ z # d /\ ts[z] \in [Slots -> PageEntry]
    BY <1>9, KernelPages
  <2>2. KPage(ts2, dir[q], j) = z
    BY <1>5, <1>7, <1>9
  <2> HIDE DEF z
  <2>3. ts2[z] = ts[z]
    BY <1>2, <2>1
  <2> QED  BY <2>1, <2>2, <2>3 DEF z
<1>10. ASSUME NEW q \in Process, NEW j \in DirSlots, NEW s \in Slots
       PROVE  Leaf(ts2, KPage(ts2, dir[q], j), s) = Leaf(ts, KPage(ts, dir[q], j), s)
  <2>1. CASE KPage(ts, dir[q], j) # 0
    BY <1>9, <2>1 DEF Leaf
  <2>2. CASE KPage(ts, dir[q], j) = 0 /\ q = p /\ j = i
    <3>1. KPage(ts2, dir[q], j) = k
      BY <1>5, <2>2
    <3>2. ts2[k][s] = NotPresent /\ NotPresent.frame = 0
      BY <1>2 DEF NotPresent
    <3>3. Leaf(ts2, k, s) = 0 /\ Leaf(ts, 0, s) = 0
      BY <3>2 DEF Leaf
    <3> QED  BY <2>2, <3>1, <3>3
  <2>3. CASE KPage(ts, dir[q], j) = 0 /\ ~(q = p /\ j = i)
    BY <1>5, <2>3 DEF Leaf
  <2> QED  BY <2>1, <2>2, <2>3
<1>11. Occupied(FMap(ts2, dir, held), FSlots, DOMAIN fr)
  <2>1. Occupied(FMap(ts, dir, held), FSlots, DOMAIN fr) /\ LeavesStay(ts, dir, ts2, dir)
    BY <1>10 DEF Memory, LeavesStay
  <2> QED  BY <2>1, LeavesSame
<1>12. Shapes(ts2, dir)
  <2>1. ASSUME NEW q \in Process, dir[q] # 0 PROVE ts2[dir[q]] \in [DirSlots -> Nat]
    BY <1>2, <1>3, <1>4, <2>1
  <2>2. ASSUME NEW q \in Process, NEW j \in DirSlots, KPage(ts2, dir[q], j) # 0
        PROVE  ts2[KPage(ts2, dir[q], j)] \in [Slots -> PageEntry]
    <3>1. CASE KPage(ts, dir[q], j) # 0
      BY <1>9, <3>1
    <3>2. CASE KPage(ts, dir[q], j) = 0
      <4>1. KPage(ts2, dir[q], j) = k
        BY <1>5, <2>2, <3>2
      <4>2. [s \in Slots |-> NotPresent] \in [Slots -> PageEntry]
        BY DEF NotPresent, PageEntry
      <4> QED  BY <1>2, <4>1, <4>2
    <3> QED  BY <3>1, <3>2
  <2> QED  BY <2>1, <2>2 DEF Shapes
<1>13. ASSUME NEW q \in Process, NEW v \in Pages, dir[q] # 0
       PROVE  LookupPage(ts2, dir[q], v) = LookupPage(ts, dir[q], v)
  <2> DEFINE j == v \div TableSize
             s == v % TableSize
             z == dir[q]
  <2>1. j \in DirSlots /\ s \in Slots /\ z # 0
    BY <1>13, PageParts
  <2> HIDE DEF z
  <2> DEFINE n == KPage(ts, z, j)
             n2 == KPage(ts2, z, j)
  <2>3. n # 0 => n2 = n /\ ts2[n] = ts[n]
    BY <1>9, <2>1 DEF z
  <2>4. n = 0 /\ n2 # 0 => ts2[n2][s] = NotPresent
    <3>1. n = 0 /\ n2 # 0 => n2 = k
      BY <1>5, <2>1 DEF z
    <3>2. ts2[k][s] = NotPresent
      BY <1>2, <2>1
    <3> QED  BY <3>1, <3>2
  <2> HIDE DEF n, n2
  <2>5. n = KPage(ts, z, v \div TableSize) /\ n2 = KPage(ts2, z, v \div TableSize)
    BY DEF n, n2
  <2> QED  BY <2>1, <2>3, <2>4, <2>5, EntryStays DEF z
<1>14. ts2[d][i] = k
  BY <1>3
<1>15. EntriesStay(ts, dir, ts2, dir, Process)
  BY <1>13 DEF EntriesStay
<1> QED  BY <1>2, <1>8, <1>11, <1>12, <1>14, <1>15 DEF Memory, NewTable

(* pagedir_destroy(): a page table less, with the pages that are in it *)
PagesIn(ts, k) == {ts[k][s].frame : s \in Slots}
TableCleared(ts, d, i, k) == Drop([ts EXCEPT ![d][i] = 0], {k})

(* one round of the loop of pagedir_destroy(): a page table and its pages go,
   and no other process sees it *)
LEMMA TableFreed ==
    ASSUME NEW ts, NEW dir, NEW held, NEW fr, Memory(ts, dir, held, fr),
           NEW p \in Process, dir[p] # 0, NEW i \in DirSlots,
           NEW k, k = ts[dir[p]][i], k # 0,
           NEW fr2, fr2 = Drop(fr, PagesIn(ts, k)),
           NEW ts2, ts2 = TableCleared(ts, dir[p], i, k)
    PROVE  /\ Memory(ts2, dir, held, fr2)
           /\ EntriesStay(ts, dir, ts2, dir, Process \ {p})
           /\ BytesStay(ts, dir, held, fr, fr2, p)
<1> DEFINE d == dir[p]
           All == DirSlots \cup {Itself}
<1>0. KPage(ts, d, i) = k
  BY PlacesApart DEF KPage
<1>1. d \in DOMAIN ts /\ d # k /\ ts[d] \in [DirSlots -> Nat] /\ k \in DOMAIN ts
  BY <1>0, KernelPages
<1>2. /\ DOMAIN ts2 = DOMAIN ts \ {k}
      /\ \A j \in DOMAIN ts : j # d /\ j # k => ts2[j] = ts[j]
      /\ ts2[d] = [ts[d] EXCEPT ![i] = 0]
  <2> DEFINE m == [ts EXCEPT ![d][i] = 0]
  <2>1. /\ DOMAIN m = DOMAIN ts /\ \A j \in DOMAIN ts : j # d => m[j] = ts[j]
        /\ m[d] = [ts[d] EXCEPT ![i] = 0]
    BY <1>1
  <2>2. ts2 = Drop(m, {k})
    BY DEF TableCleared
  <2> HIDE DEF m
  <2> QED  BY <1>1, <2>1, <2>2 DEF Drop
<1>3. ts2[d] \in [DirSlots -> Nat] /\ \A j \in DirSlots : ts2[d][j] = IF j = i THEN 0 ELSE ts[d][j]
  <2> DEFINE g == ts[d]
  <2>1. g \in [DirSlots -> Nat] /\ ts2[d] = [g EXCEPT ![i] = 0]
    BY <1>1, <1>2
  <2> HIDE DEF g
  <2>2. [g EXCEPT ![i] = 0] \in [DirSlots -> Nat]
        /\ \A j \in DirSlots : [g EXCEPT ![i] = 0][j] = IF j = i THEN 0 ELSE g[j]
    BY <2>1
  <2> QED  BY <2>1, <2>2 DEF g
<1>4. \A q \in Process : dir[q] # 0 =>
         /\ dir[q] \in DOMAIN ts /\ (dir[q] = d => q = p) /\ ts[dir[q]] \in [DirSlots -> Nat]
         /\ dir[q] # k
  BY <1>0, KernelPages
<1>5. ASSUME NEW q \in Process, NEW j \in All
      PROVE  KPage(ts2, dir[q], j) = IF q = p /\ j = i THEN 0 ELSE KPage(ts, dir[q], j)
  <2>1. CASE j = Itself
    BY <2>1, PlacesApart DEF KPage
  <2>2. CASE j # Itself /\ q = p
    BY <1>3, <2>2 DEF KPage
  <2>3. CASE j # Itself /\ q # p
    BY <1>2, <1>4, <2>3 DEF KPage
  <2> QED  BY <2>1, <2>2, <2>3
<1>6. KernelBecomes(ts, dir, ts2, dir, p, i, 0)
  BY <1>5 DEF KernelBecomes
<1>8. Occupied(KMap(ts2, dir), KSlots, DOMAIN ts2)
  <2>1. Occupied(KMap(ts, dir), KSlots, DOMAIN ts) /\ i \in All
    BY DEF Memory
  <2>2. Occupied(KMap(ts2, dir), KSlots, DOMAIN ts \ {KPage(ts, d, i)})
    BY <1>6, <2>1, KernelLess
  <2> QED  BY <1>0, <1>2, <2>2
<1>9. ASSUME NEW q \in Process, NEW j \in DirSlots, KPage(ts, dir[q], j) # 0, ~(q = p /\ j = i)
      PROVE  /\ KPage(ts, dir[q], j) \in DOMAIN ts
             /\ ts[KPage(ts, dir[q], j)] \in [Slots -> PageEntry]
             /\ KPage(ts2, dir[q], j) = KPage(ts, dir[q], j)
             /\ ts2[KPage(ts, dir[q], j)] = ts[KPage(ts, dir[q], j)]
  <2> DEFINE z == KPage(ts, dir[q], j)
  <2>1. z \in DOMAIN ts /\ z # d /\ ts[z] \in [Slots -> PageEntry]
    BY <1>9, KernelPages
  <2>2. KPage(ts2, dir[q], j) = z
    BY <1>5, <1>9
  <2>3. z # k
    BY <1>0, <1>9, KernelPages
  <2> HIDE DEF z
  <2>4. ts2[z] = ts[z]
    BY <1>2, <2>1, <2>3
  <2> QED  BY <2>1, <2>2, <2>4 DEF z
<1>10. ASSUME NEW q \in Process, NEW j \in DirSlots, NEW s \in Slots
       PROVE  Leaf(ts2, KPage(ts2, dir[q], j), s) =
                 IF q = p /\ j = i THEN 0 ELSE Leaf(ts, KPage(ts, dir[q], j), s)
  <2>1. CASE q = p /\ j = i
    BY <1>5, <2>1 DEF Leaf
  <2>2. CASE KPage(ts, dir[q], j) # 0 /\ ~(q = p /\ j = i)
    BY <1>9, <2>2 DEF Leaf
  <2>3. CASE KPage(ts, dir[q], j) = 0 /\ ~(q = p /\ j = i)
    BY <1>5, <2>3 DEF Leaf
  <2> QED  BY <2>1, <2>2, <2>3
<1>11. DOMAIN fr2 = DOMAIN fr \ {Leaf(ts, k, s) : s \in Slots} /\ \A g \in DOMAIN fr2 : fr2[g] = fr[g]
  <2>1. \A s \in Slots : ts[k][s].frame = Leaf(ts, k, s)
    BY DEF Leaf
  <2>2. {ts[k][s].frame : s \in Slots} = {Leaf(ts, k, s) : s \in Slots}
    BY <2>1
  <2> QED  BY <2>2 DEF Drop, PagesIn
<1>12. Occupied(FMap(ts2, dir, held), FSlots, DOMAIN fr2)
  <2>1. Occupied(FMap(ts, dir, held), FSlots, DOMAIN fr) /\ LeavesGo(ts, dir, ts2, dir, p, i)
    BY <1>10 DEF Memory, LeavesGo
  <2>2. Occupied(FMap(ts2, dir, held), FSlots,
                 DOMAIN fr \ {Leaf(ts, KPage(ts, dir[p], i), s) : s \in Slots})
    BY <2>1, TableLess
  <2> QED  BY <1>0, <1>11, <2>2
<1>13. Shapes(ts2, dir)
  <2>1. ASSUME NEW q \in Process, dir[q] # 0 PROVE ts2[dir[q]] \in [DirSlots -> Nat]
    BY <1>2, <1>3, <1>4, <2>1
  <2>2. ASSUME NEW q \in Process, NEW j \in DirSlots, KPage(ts2, dir[q], j) # 0
        PROVE  ts2[KPage(ts2, dir[q], j)] \in [Slots -> PageEntry]
    <3>1. ~(q = p /\ j = i) /\ KPage(ts2, dir[q], j) = KPage(ts, dir[q], j)
      BY <1>5, <2>2
    <3> QED  BY <1>9, <2>2, <3>1
  <2> QED  BY <2>1, <2>2 DEF Shapes
<1>14. Memory(ts2, dir, held, fr2)
  BY <1>8, <1>12, <1>13 DEF Memory
<1>15. ASSUME NEW q \in Process, NEW v \in Pages, dir[q] # 0, q # p
       PROVE  /\ LookupPage(ts2, dir[q], v) = LookupPage(ts, dir[q], v)
              /\ LookupPage(ts, dir[q], v).frame # 0 => LookupPage(ts, dir[q], v).frame \in DOMAIN fr2
  <2> DEFINE j == v \div TableSize
             s == v % TableSize
             z == dir[q]
  <2>1. j \in DirSlots /\ s \in Slots /\ z # 0
    BY <1>15, PageParts
  <2> HIDE DEF z
  <2>2. ASSUME NEW x
        PROVE  /\ LookupPage(x, z, v) = IF KPage(x, z, j) = 0 THEN NotPresent ELSE x[KPage(x, z, j)][s]
               /\ LookupPage(x, z, v).frame = Leaf(x, KPage(x, z, j), s)
    BY <2>1, EntryIs
  <2> HIDE DEF j, s
  <2>3. LookupPage(ts2, z, v) = LookupPage(ts, z, v)
    <3>1. CASE KPage(ts, z, j) # 0
      <4> DEFINE n == KPage(ts, z, j)
      <4>1. n # 0 /\ KPage(ts2, z, j) = n /\ ts2[n] = ts[n]
        BY <1>9, <1>15, <2>1, <3>1 DEF z
      <4>2. LookupPage(ts, z, v) = ts[n][s]
        BY <2>2, <3>1
      <4>3. LookupPage(ts2, z, v) = ts2[n][s]
        BY <2>2, <4>1
      <4> QED  BY <4>1, <4>2, <4>3
    <3>2. CASE KPage(ts, z, j) = 0
      <4>1. KPage(ts2, z, j) = 0
        BY <1>5, <1>15, <2>1, <3>2 DEF z
      <4>2. LookupPage(ts, z, v) = NotPresent
        BY <2>2, <3>2
      <4> QED  BY <2>2, <4>1, <4>2
    <3> QED  BY <3>1, <3>2
  <2>4. ASSUME LookupPage(ts2, z, v).frame # 0 PROVE LookupPage(ts2, z, v).frame \in DOMAIN fr2
    <3>1. Leaf(ts2, KPage(ts2, z, j), s) # 0
      BY <2>2, <2>4
    <3>2. Leaf(ts2, KPage(ts2, z, j), s) \in DOMAIN fr2
      BY <1>14, <2>1, <3>1, UserPlaces DEF z
    <3> QED  BY <2>2, <3>2
  <2> QED  BY <2>3, <2>4 DEF z
<1>16. \A q \in Process : held[q] # 0 => held[q] \in DOMAIN fr2
  BY <1>14, UserPlaces
<1>17. EntriesStay(ts, dir, ts2, dir, Process \ {p})
  BY <1>15 DEF EntriesStay
<1>18. BytesStay(ts, dir, held, fr, fr2, p)
  BY <1>11, <1>15, <1>16 DEF BytesStay
<1> QED  BY <1>14, <1>17, <1>18

(* ... and in the end the page directory *)
LEMMA DirectoryFreed ==
    ASSUME NEW ts, NEW dir, NEW held, NEW fr, Memory(ts, dir, held, fr),
           NEW p \in Process, dir[p] # 0, \A i \in DirSlots : ts[dir[p]][i] = 0,
           NEW ts2, ts2 = Drop(ts, {dir[p]}), NEW dir2, dir2 = [dir EXCEPT ![p] = 0]
    PROVE  /\ Memory(ts2, dir2, held, fr)
           /\ EntriesStay(ts, dir, ts2, dir2, Process \ {p})
<1> DEFINE d == dir[p]
           All == DirSlots \cup {Itself}
<1>1. /\ DOMAIN ts2 = DOMAIN ts \ {d}
      /\ \A j \in DOMAIN ts : j # d => ts2[j] = ts[j]
  BY DEF Drop
<1>2. /\ dir2 \in [Process -> Nat]
      /\ \A q \in Process : dir2[q] = IF q = p THEN 0 ELSE dir[q]
  BY DEF Memory
<1>3. \A q \in Process : dir[q] # 0 /\ q # p =>
         dir[q] \in DOMAIN ts /\ dir[q] # d /\ ts[dir[q]] \in [DirSlots -> Nat]
  BY KernelPages
<1>4. ASSUME NEW q \in Process, NEW j \in DirSlots
      PROVE  KPage(ts2, dir2[q], j) = KPage(ts, dir[q], j)
  <2>1. CASE q = p
    BY <1>2, <2>1, PlacesApart DEF KPage
  <2>2. CASE q # p
    BY <1>1, <1>2, <1>3, <2>2, PlacesApart DEF KPage
  <2> QED  BY <2>1, <2>2
<1>5. KernelBecomes(ts, dir, ts2, dir2, p, Itself, 0)
  <2>1. \A q \in Process : KPage(ts2, dir2[q], Itself) = dir2[q] /\ KPage(ts, dir[q], Itself) = dir[q]
    BY DEF KPage
  <2> QED  BY <1>2, <1>4, <2>1, PlacesApart DEF KernelBecomes
<1>6. Occupied(KMap(ts2, dir2), KSlots, DOMAIN ts2)
  <2>1. KPage(ts, d, Itself) = d /\ Occupied(KMap(ts, dir), KSlots, DOMAIN ts)
    BY DEF KPage, Memory
  <2>2. Itself \in DirSlots \cup {Itself}
    OBVIOUS
  <2>3. Occupied(KMap(ts2, dir2), KSlots, DOMAIN ts \ {KPage(ts, d, Itself)})
    BY <1>5, <2>1, <2>2, KernelLess
  <2> QED  BY <1>1, <2>1, <2>3
<1>7. ASSUME NEW q \in Process, NEW j \in DirSlots, KPage(ts, dir[q], j) # 0
      PROVE  /\ KPage(ts, dir[q], j) \in DOMAIN ts /\ q # p
             /\ ts[KPage(ts, dir[q], j)] \in [Slots -> PageEntry]
             /\ ts2[KPage(ts, dir[q], j)] = ts[KPage(ts, dir[q], j)]
  <2> DEFINE z == KPage(ts, dir[q], j)
  <2>1. z \in DOMAIN ts /\ z # d /\ ts[z] \in [Slots -> PageEntry]
    BY <1>7, KernelPages
  <2>2. q # p
    BY <1>7, PlacesApart DEF KPage
  <2> HIDE DEF z
  <2>3. ts2[z] = ts[z]
    BY <1>1, <2>1
  <2> QED  BY <2>1, <2>2, <2>3 DEF z
<1>8. ASSUME NEW q \in Process, NEW j \in DirSlots, NEW s \in Slots
      PROVE  Leaf(ts2, KPage(ts2, dir2[q], j), s) = Leaf(ts, KPage(ts, dir[q], j), s)
  <2> DEFINE n == KPage(ts, dir[q], j)
  <2>1. KPage(ts2, dir2[q], j) = n /\ (n # 0 => ts2[n] = ts[n])
    BY <1>4, <1>7
  <2> HIDE DEF n
  <2>2. Leaf(ts2, n, s) = Leaf(ts, n, s)
    BY <2>1 DEF Leaf
  <2> QED  BY <2>1, <2>2 DEF n
<1>9. Occupied(FMap(ts2, dir2, held), FSlots, DOMAIN fr)
  <2>1. Occupied(FMap(ts, dir, held), FSlots, DOMAIN fr) /\ LeavesStay(ts, dir, ts2, dir2)
    BY <1>8 DEF Memory, LeavesStay
  <2> QED  BY <2>1, LeavesSame
<1>10. Shapes(ts2, dir2)
  <2>1. ASSUME NEW q \in Process, dir2[q] # 0 PROVE ts2[dir2[q]] \in [DirSlots -> Nat]
    <3>1. q # p /\ dir2[q] = dir[q] /\ dir[q] # 0
      BY <1>2, <2>1
    <3> QED  BY <1>1, <1>3, <3>1
  <2>2. ASSUME NEW q \in Process, NEW j \in DirSlots, KPage(ts2, dir2[q], j) # 0
        PROVE  ts2[KPage(ts2, dir2[q], j)] \in [Slots -> PageEntry]
    <3>1. KPage(ts2, dir2[q], j) = KPage(ts, dir[q], j)
      BY <1>4
    <3> QED  BY <1>7, <2>2, <3>1
  <2> QED  BY <2>1, <2>2 DEF Shapes
<1>11. ASSUME NEW q \in Process, NEW v \in Pages, dir[q] # 0, q # p
       PROVE  dir2[q] = dir[q] /\ LookupPage(ts2, dir[q], v) = LookupPage(ts, dir[q], v)
  <2> DEFINE j == v \div TableSize
             n == KPage(ts, dir[q], j)
             n2 == KPage(ts2, dir[q], j)
  <2>1. dir2[q] = dir[q] /\ j \in DirSlots
    BY <1>2, <1>11, PageParts
  <2>2. n2 = n /\ (n # 0 => ts2[n] = ts[n])
    BY <1>4, <1>7, <2>1
  <2> HIDE DEF n, n2
  <2>3. n = KPage(ts, dir[q], v \div TableSize) /\ n2 = KPage(ts2, dir[q], v \div TableSize)
    BY DEF n, n2
  <2> QED  BY <1>11, <2>1, <2>2, <2>3, EntryStays
<1>12. EntriesStay(ts, dir, ts2, dir2, Process \ {p})
  BY <1>11 DEF EntriesStay
<1> QED  BY <1>2, <1>6, <1>9, <1>10, <1>12 DEF Memory

-----------------------------------------------------------------------------
(* the pages that are mapped below directory d stay, with their bytes *)
PagesStay(ts, fr, ts2, fr2, d) ==
    \A u \in Pages : LookupPage(ts, d, u).frame # 0 =>
       /\ LookupPage(ts2, d, u) = LookupPage(ts, d, u)
       /\ fr2[LookupPage(ts, d, u).frame] = fr[LookupPage(ts, d, u).frame]

(* what is loaded stays while its pages and its entries do *)
LEMMA LoadedKept ==
    ASSUME NEW ts, NEW fr, NEW ts2, NEW fr2, NEW d, PagesStay(ts, fr, ts2, fr2, d),
           NEW ph, NEW upto, Loaded(ts, fr, d, ph, upto)
    PROVE  Loaded(ts2, fr2, d, ph, upto)
<1> SUFFICES ASSUME NEW a \in ph.vaddr .. ph.vaddr + ph.memsz - 1, a \div PGSIZE < upto
             PROVE  /\ a \div PGSIZE \in Pages /\ LookupPage(ts2, d, a \div PGSIZE).frame # 0
                    /\ ByteAt(ts2, fr2, d, a) = Expected(ph, a)
  BY DEF Loaded
<1>1. /\ a \div PGSIZE \in Pages /\ LookupPage(ts, d, a \div PGSIZE).frame # 0
      /\ ByteAt(ts, fr, d, a) = Expected(ph, a)
  BY DEF Loaded
<1> DEFINE u == a \div PGSIZE
<1>2. LookupPage(ts2, d, u) = LookupPage(ts, d, u) /\ fr2[LookupPage(ts, d, u).frame] = fr[LookupPage(ts, d, u).frame]
  BY <1>1 DEF PagesStay
<1> QED  BY <1>1, <1>2 DEF ByteAt

(* the progress of a load stays true while its pages and its entries do *)
LEMMA LoadKept ==
    ASSUME NEW ts, NEW fr, NEW ts2, NEW fr2, NEW d, NEW a, NEW l, LoadOK(ts, fr, d, a, l),
           a \in Loading => PagesStay(ts, fr, ts2, fr2, d),
           a = "install" => fr2[l.kpage] = fr[l.kpage]
    PROVE  LoadOK(ts2, fr2, d, a, l)
<1>1. ASSUME NEW ph, NEW upto, a \in Loading, Loaded(ts, fr, d, ph, upto)
      PROVE  Loaded(ts2, fr2, d, ph, upto)
  BY <1>1, LoadedKept
<1>2. a = "install" => Filled(fr2, l)
  BY DEF LoadOK, Filled
<1>3. a \in Loading => \A j \in DOMAIN l.image :
         j < l.hdr /\ l.image[j].type = "PT_LOAD" =>
            Loaded(ts2, fr2, d, l.image[j], UserPages) /\ validate_segment(l.image[j])
  BY <1>1 DEF LoadOK
<1>4. a \in {"segment", "fill", "install"} => Loaded(ts2, fr2, d, l.image[l.hdr], l.upage)
  <2> SUFFICES ASSUME a \in {"segment", "fill", "install"}
               PROVE  Loaded(ts2, fr2, d, l.image[l.hdr], l.upage)
    OBVIOUS
  <2>1. a \in Loading
    BY DEF Loading
  <2>2. Loaded(ts, fr, d, l.image[l.hdr], l.upage)
    BY DEF LoadOK
  <2> QED  BY <1>1, <2>1, <2>2
<1> QED  BY <1>2, <1>3, <1>4 DEF LoadOK

-----------------------------------------------------------------------------
(* A step of process p: its place, pointers and load variables afterwards.  *)
StepOf(p, a2, pd2, dy2, l2) ==
    /\ at' = [at EXCEPT ![p] = a2] /\ pagedir' = [pagedir EXCEPT ![p] = pd2]
    /\ dying' = [dying EXCEPT ![p] = dy2] /\ ld' = [ld EXCEPT ![p] = l2]
    /\ a2 \in Stages /\ pd2 \in Nat /\ dy2 \in Nat /\ l2 \in LoadState
    /\ pools' = pools

(* What such a step must leave to the other processes. *)
OthersStay(p) ==
    \A q \in Process : q # p =>
       /\ Dirs[q] # 0 => PagesStay(tables, frames, tables', frames', Dirs[q])
       /\ Helds[q] # 0 => frames'[Helds[q]] = frames[Helds[q]]

(* a process that is loading has a page directory *)
LEMMA LoadingDir ==
    ASSUME SpaceInv, NEW p \in Process
    PROVE  /\ Dirs[p] = DirOf(at[p], pagedir[p], dying[p]) /\ Helds[p] = HeldBy(at[p], ld[p])
           /\ Life(at[p], pagedir[p], dying[p]) /\ Dirs[p] \in Nat
           /\ at[p] \in Loading \cup {"activate", "open", "user"} =>
                 Dirs[p] # 0 /\ Dirs[p] = pagedir[p]
<1>1. Life(at[p], pagedir[p], dying[p]) /\ pagedir[p] \in Nat /\ dying[p] \in Nat
  BY DEF SpaceInv, SpaceType
<1> QED  BY <1>1 DEF Dirs, Helds, DirOf, Life, Loading, Before, After

(* a step of one process keeps the invariant if it keeps the memory map and
   its own part, and leaves the entries and bytes of the others alone *)
LEMMA StepKeeps ==
    ASSUME SpaceInv, NEW p \in Process, NEW a2, NEW pd2, NEW dy2, NEW l2,
           StepOf(p, a2, pd2, dy2, l2), Life(a2, pd2, dy2),
           Memory(tables', [Dirs EXCEPT ![p] = DirOf(a2, pd2, dy2)],
                  [Helds EXCEPT ![p] = HeldBy(a2, l2)], frames'),
           LoadOK(tables', frames', DirOf(a2, pd2, dy2), a2, l2),
           OthersStay(p),
           curr' \in Process, cr3' \in Nat, CpuOK'
    PROVE  SpaceInv'
<1>1. SpaceType'
  BY DEF SpaceInv, SpaceType, StepOf
<1>2. \A q \in Process :
         /\ at'[q] = IF q = p THEN a2 ELSE at[q]
         /\ pagedir'[q] = IF q = p THEN pd2 ELSE pagedir[q]
         /\ dying'[q] = IF q = p THEN dy2 ELSE dying[q]
         /\ ld'[q] = IF q = p THEN l2 ELSE ld[q]
  BY DEF SpaceInv, SpaceType, StepOf
<1>3. Dirs' = [Dirs EXCEPT ![p] = DirOf(a2, pd2, dy2)]
  BY <1>2 DEF Dirs
<1>4. Helds' = [Helds EXCEPT ![p] = HeldBy(a2, l2)]
  BY <1>2 DEF Helds
<1>5. ASSUME NEW q \in Process PROVE Life(at'[q], pagedir'[q], dying'[q])
  BY <1>2 DEF SpaceInv
<1>6. ASSUME NEW q \in Process PROVE LoadOK(tables', frames', Dirs'[q], at'[q], ld'[q])
  <2>1. CASE q = p
    <3>1. Dirs'[q] = DirOf(a2, pd2, dy2)
      BY <1>3, <2>1 DEF Dirs
    <3> QED  BY <1>2, <2>1, <3>1
  <2>2. CASE q # p
    <3>1. Dirs'[q] = Dirs[q] /\ at'[q] = at[q] /\ ld'[q] = ld[q]
      BY <1>2, <1>3, <2>2 DEF Dirs
    <3>2. LoadOK(tables, frames, Dirs[q], at[q], ld[q])
      BY DEF SpaceInv
    <3>3. at[q] \in Loading => PagesStay(tables, frames, tables', frames', Dirs[q])
      BY <2>2, LoadingDir DEF OthersStay
    <3>4. at[q] = "install" => frames'[ld[q].kpage] = frames[ld[q].kpage]
      <4>1. at[q] = "install" => Helds[q] = ld[q].kpage /\ ld[q].kpage # 0
        BY <3>2, LoadingDir DEF HeldBy, LoadOK
      <4> QED  BY <2>2, <4>1 DEF OthersStay
    <3> QED  BY <3>1, <3>2, <3>3, <3>4, LoadKept
  <2> QED  BY <2>1, <2>2
<1>7. Memory(tables', Dirs', Helds', frames')
  BY <1>3, <1>4
<1> QED  BY <1>1, <1>5, <1>6, <1>7 DEF SpaceInv

(* The processor is left alone, or told another page directory. *)
LEMMA CpuKept ==
    ASSUME SpaceInv, NEW p \in Process, NEW a2, NEW pd2, NEW dy2, NEW l2,
           StepOf(p, a2, pd2, dy2, l2), curr = p, curr' = curr, cr3' = cr3, tlb' = tlb,
           cr3 # 0 => DirOf(a2, pd2, dy2) = Dirs[p] /\ a2 # "destroy",
           cr3 # 0 => \A u \in Pages : LookupPage(tables, cr3, u).frame # 0 =>
                         LookupPage(tables', cr3, u) = LookupPage(tables, cr3, u)
    PROVE  CpuOK' /\ curr' \in Process /\ cr3' \in Nat
<1>1. cr3 \in Nat
  BY DEF SpaceInv, SpaceType
<1>2. at'[p] = a2 /\ pagedir'[p] = pd2 /\ dying'[p] = dy2
  BY DEF StepOf, SpaceInv, SpaceType
<1>3. Dirs'[p] = DirOf(a2, pd2, dy2)
  BY <1>2 DEF Dirs
<1>4. cr3 # 0 => cr3 = Dirs[p]
  BY DEF SpaceInv, CpuOK
<1>5. ASSUME NEW c \in tlb PROVE cr3 # 0 /\ Mapped(tables', cr3, c)
  <2>1. cr3 # 0 /\ Mapped(tables, cr3, c)
    BY DEF SpaceInv, CpuOK
  <2>2. PICK u \in Pages : /\ LookupPage(tables, cr3, u).frame # 0
                           /\ c = [upage |-> u, entry |-> LookupPage(tables, cr3, u)]
    BY <2>1 DEF Mapped
  <2>3. LookupPage(tables', cr3, u) = LookupPage(tables, cr3, u)
    BY <2>1, <2>2
  <2> QED  BY <2>1, <2>2, <2>3 DEF Mapped
<1> QED  BY <1>1, <1>2, <1>3, <1>4, <1>5 DEF CpuOK

(* a step that activates the directory of the running process, or that of
   the kernel, leaves the processor with a directory in use and nothing cached *)
LEMMA CpuTold ==
    ASSUME SpaceInv, NEW p \in Process, NEW a2, NEW pd2, NEW dy2, NEW l2,
           StepOf(p, a2, pd2, dy2, l2), curr = p, curr' = curr, tlb' = {},
           cr3' = 0 \/ (cr3' = DirOf(a2, pd2, dy2) /\ a2 # "destroy")
    PROVE  CpuOK' /\ curr' \in Process /\ cr3' \in Nat
<1>2. at'[p] = a2 /\ pagedir'[p] = pd2 /\ dying'[p] = dy2
  BY DEF StepOf, SpaceInv, SpaceType
<1>3. Dirs'[p] = DirOf(a2, pd2, dy2)
  BY <1>2 DEF Dirs
<1>4. DirOf(a2, pd2, dy2) \in Nat
  BY DEF DirOf, StepOf
<1> QED  BY <1>2, <1>3, <1>4 DEF CpuOK

(* When only the place of p changes, not its memory: any place that the     *)
(* load allows.                                                             *)
LEMMA PlaceStep ==
    ASSUME SpaceInv, NEW p \in Process, NEW a2, NEW l2,
           StepOf(p, a2, pagedir[p], dying[p], l2), curr = p, curr' = curr, cr3' = cr3, tlb' = tlb,
           tables' = tables, frames' = frames,
           Life(a2, pagedir[p], dying[p]), a2 \notin After, at[p] \notin After,
           HeldBy(a2, l2) = HeldBy(at[p], ld[p]),
           LoadOK(tables, frames, Dirs[p], a2, l2)
    PROVE  SpaceInv'
<1>1. /\ Dirs[p] = pagedir[p] /\ DirOf(a2, pagedir[p], dying[p]) = pagedir[p]
      /\ Helds[p] = HeldBy(a2, l2)
  BY LoadingDir DEF DirOf, After
<1>2. /\ Memory(tables, Dirs, Helds, frames)
      /\ [Dirs EXCEPT ![p] = DirOf(a2, pagedir[p], dying[p])] = Dirs
      /\ [Helds EXCEPT ![p] = HeldBy(a2, l2)] = Helds
  BY <1>1 DEF SpaceInv, Dirs, Helds
<1>3. OthersStay(p)
  BY DEF OthersStay, PagesStay
<1>4. a2 # "destroy"
  BY DEF After
<1>5. CpuOK' /\ curr' \in Process /\ cr3' \in Nat
  BY <1>1, <1>4, CpuKept
<1>6. /\ Memory(tables', [Dirs EXCEPT ![p] = DirOf(a2, pagedir[p], dying[p])],
                [Helds EXCEPT ![p] = HeldBy(a2, l2)], frames')
      /\ LoadOK(tables', frames', DirOf(a2, pagedir[p], dying[p]), a2, l2)
  BY <1>1, <1>2
<1> QED  BY <1>3, <1>5, <1>6, StepKeeps

(* steps that only change the place of p *)
LEMMA GotoIs ==
    ASSUME SpaceInv, NEW p \in Process, NEW a2 \in Stages, MoveTo(p, a2),
           pagedir' = pagedir, dying' = dying, ld' = ld, pools' = pools
    PROVE  StepOf(p, a2, pagedir[p], dying[p], ld[p])
BY DEF MoveTo, StepOf, SpaceInv, SpaceType

(* a process that gives up, holding no page, only goes to process_exit() *)
LEMMA LeaveStep ==
    ASSUME SpaceInv, NEW p \in Process, AtPlace(p, at[p]), MoveTo(p, "exit"), pools' = pools,
           UNCHANGED <<curr, pagedir, dying, tables, frames, cr3, tlb, ld>>,
           at[p] \notin After, HeldBy(at[p], ld[p]) = 0
    PROVE  SpaceInv'
<1>1. StepOf(p, "exit", pagedir[p], dying[p], ld[p])
  <2>1. "exit" \in Stages /\ pagedir' = pagedir /\ dying' = dying /\ ld' = ld
    BY DEF Stages
  <2> QED  BY <2>1, GotoIs
<1>2. Life("exit", pagedir[p], dying[p]) /\ "exit" \notin After /\ HeldBy("exit", ld[p]) = 0
  BY DEF Life, Stages, Before, After, Loading, HeldBy
<1>3. LoadOK(tables, frames, Dirs[p], "exit", ld[p])
  BY DEF LoadOK, Loading
<1> QED  BY <1>1, <1>2, <1>3, PlaceStep DEF AtPlace

-----------------------------------------------------------------------------
(* One lemma for each step of the kernel and of user code. *)
LEMMA CreateStep ==
    ASSUME SpaceInv, NEW p \in Process, pagedir_create(p), pools' = pools PROVE SpaceInv'
<1> USE DEF AtPlace
<1> DEFINE k == GetPage(DOMAIN tables, pools.kernel)
<1>1. /\ curr = p /\ at[p] = "new" /\ pagedir[p] = 0 /\ Dirs[p] = 0 /\ Helds[p] = 0
      /\ dying[p] \in Nat /\ ld[p] \in LoadState /\ Dirs[p] = DirOf(at[p], pagedir[p], dying[p])
  <2>1. curr = p /\ at[p] = "new" /\ dying[p] \in Nat /\ ld[p] \in LoadState
    BY DEF pagedir_create, SpaceInv, SpaceType
  <2>2. pagedir[p] = 0
    BY <2>1, LoadingDir DEF Life, Before
  <2> QED  BY <2>1, <2>2, LoadingDir DEF DirOf, HeldBy
<1>2. k \in Nat /\ (k # 0 => k \notin DOMAIN tables)
  BY GetsPage DEF SpaceInv, SpaceType
<1>3. CASE k = 0
  <2>1. /\ MoveTo(p, "exit") /\ AtPlace(p, at[p])
        /\ UNCHANGED <<curr, pagedir, dying, tables, frames, cr3, tlb, ld>>
    BY <1>3 DEF pagedir_create
  <2>2. at[p] \notin After /\ HeldBy(at[p], ld[p]) = 0
    BY <1>1 DEF After, HeldBy
  <2> QED  BY <2>1, <2>2, LeaveStep
<1>4. CASE k # 0
  <2> DEFINE a2 == "activate"
  <2>1. /\ tables' = Put(tables, k, [i \in 0 .. DirSize - 1 |-> 0])
        /\ pagedir' = [pagedir EXCEPT ![p] = k] /\ at' = [at EXCEPT ![p] = a2]
        /\ UNCHANGED <<curr, dying, frames, cr3, tlb, ld>>
    BY <1>4 DEF pagedir_create, MoveTo
  <2> HIDE DEF k
  <2>2. StepOf(p, a2, k, dying[p], ld[p])
    <3>1. a2 \in Stages /\ dying' = [dying EXCEPT ![p] = dying[p]] /\ ld' = [ld EXCEPT ![p] = ld[p]]
      BY <2>1 DEF Stages, SpaceInv, SpaceType
    <3> QED  BY <1>1, <1>2, <2>1, <3>1 DEF StepOf
  <2>3. DirOf(a2, k, dying[p]) = k /\ HeldBy(a2, ld[p]) = 0 /\ Life(a2, k, dying[p])
    BY <1>4 DEF DirOf, HeldBy, Life, Stages, Before, After, Loading
  <2>4. Memory(tables, Dirs, Helds, frames)
    BY DEF SpaceInv
  <2> DEFINE dir2 == [Dirs EXCEPT ![p] = k]
  <2>5. /\ Memory(tables', dir2, Helds, frames)
        /\ \A q \in Process, u \in Pages : Dirs[q] # 0 =>
              dir2[q] = Dirs[q] /\ LookupPage(tables', Dirs[q], u) = LookupPage(tables, Dirs[q], u)
    <3> HIDE DEF dir2
    <3>1. dir2 = [Dirs EXCEPT ![p] = k]
      BY DEF dir2
    <3>2. tables' = Put(tables, k, [i \in 0 .. DirSize - 1 |-> 0]) /\ Dirs[p] = 0
          /\ k \in Nat /\ k # 0 /\ k \notin DOMAIN tables
      BY <1>1, <1>2, <1>4, <2>1 DEF k
    <3>3. Memory(tables', dir2, Helds, frames) /\ EntriesStay(tables, Dirs, tables', dir2, Process)
      BY <2>4, <3>1, <3>2, DirectoryMore
    <3> QED  BY <3>3 DEF EntriesStay
  <2>6. [Helds EXCEPT ![p] = HeldBy(a2, ld[p])] = Helds
    BY <1>1, <2>3 DEF Helds
  <2>7. OthersStay(p)
    BY <2>1, <2>5 DEF OthersStay, PagesStay
  <2>8. cr3 = 0
    BY <1>1 DEF SpaceInv, CpuOK
  <2>9. CpuOK' /\ curr' \in Process /\ cr3' \in Nat
    BY <1>1, <2>1, <2>2, <2>8, CpuKept
  <2>10. LoadOK(tables', frames', k, a2, ld[p])
    BY DEF LoadOK, Loading
  <2>11. Memory(tables', [Dirs EXCEPT ![p] = DirOf(a2, k, dying[p])],
                [Helds EXCEPT ![p] = HeldBy(a2, ld[p])], frames')
    BY <2>1, <2>3, <2>5, <2>6
  <2>12. LoadOK(tables', frames', DirOf(a2, k, dying[p]), a2, ld[p])
    BY <2>3, <2>10
  <2> QED  BY <2>2, <2>3, <2>7, <2>9, <2>11, <2>12, StepKeeps
<1> QED  BY <1>3, <1>4

(* process_activate() in elf_load() *)
LEMMA ActivateStep ==
    ASSUME SpaceInv, NEW p \in Process, process_activate(p), pools' = pools PROVE SpaceInv'
<1> DEFINE a2 == "open"
<1>1. /\ curr = p /\ at[p] = "activate" /\ curr' = curr /\ MoveTo(p, a2) /\ cr3' = pagedir[p]
      /\ tlb' = {} /\ pagedir' = pagedir /\ dying' = dying /\ tables' = tables
      /\ frames' = frames /\ ld' = ld
  BY DEF process_activate, AtPlace, Activate
<1>2. StepOf(p, a2, pagedir[p], dying[p], ld[p])
  <2>1. a2 \in Stages
    BY DEF Stages
  <2> QED  BY <1>1, <2>1, GotoIs
<1>3. /\ DirOf(a2, pagedir[p], dying[p]) = pagedir[p] /\ Dirs[p] = pagedir[p] /\ pagedir[p] # 0
      /\ HeldBy(a2, ld[p]) = 0 /\ Helds[p] = 0
  BY <1>1, LoadingDir DEF DirOf, HeldBy
<1>4. Life(a2, pagedir[p], dying[p])
  BY <1>3 DEF Life, Stages, Before, After, Loading
<1>5. /\ Memory(tables, Dirs, Helds, frames)
      /\ [Dirs EXCEPT ![p] = DirOf(a2, pagedir[p], dying[p])] = Dirs
      /\ [Helds EXCEPT ![p] = HeldBy(a2, ld[p])] = Helds
  BY <1>3 DEF SpaceInv, Dirs, Helds
<1>6. OthersStay(p)
  BY <1>1 DEF OthersStay, PagesStay
<1>7. CpuOK' /\ curr' \in Process /\ cr3' \in Nat
  BY <1>1, <1>2, <1>3, CpuTold
<1>8. LoadOK(tables', frames', DirOf(a2, pagedir[p], dying[p]), a2, ld[p])
  BY DEF LoadOK, Loading
<1>9. Memory(tables', [Dirs EXCEPT ![p] = DirOf(a2, pagedir[p], dying[p])],
             [Helds EXCEPT ![p] = HeldBy(a2, ld[p])], frames')
  BY <1>1, <1>5
<1> QED  BY <1>2, <1>4, <1>6, <1>7, <1>8, <1>9, StepKeeps

(* the executable is opened, or not *)
LEMMA OpenStep ==
    ASSUME SpaceInv, NEW p \in Process, OpenFile(p), pools' = pools PROVE SpaceInv'
<1>1. /\ AtPlace(p, at[p]) /\ at[p] = "open"
      /\ UNCHANGED <<curr, pagedir, dying, tables, frames, cr3, tlb>>
  BY DEF OpenFile, AtPlace
<1>2. at[p] \notin After /\ HeldBy(at[p], ld[p]) = 0
  BY <1>1 DEF After, HeldBy
<1>3. CASE MoveTo(p, "exit") /\ UNCHANGED ld
  BY <1>1, <1>2, <1>3, LeaveStep
<1>4. ASSUME NEW im \in Images, ld' = [ld EXCEPT ![p] = [NoLoad EXCEPT !.image = im]],
             MoveTo(p, "headers")
      PROVE  SpaceInv'
  <2> DEFINE l2 == [NoLoad EXCEPT !.image = im]
             a2 == "headers"
  <2>1. l2 \in LoadState /\ l2.image = im /\ l2.hdr = 1
    BY DEF NoLoad, LoadState
  <2>2. pagedir[p] # 0 /\ pagedir[p] \in Nat /\ dying[p] \in Nat
    BY <1>1, LoadingDir DEF SpaceInv, SpaceType
  <2>3. StepOf(p, a2, pagedir[p], dying[p], l2)
    <3> HIDE DEF l2
    <3>1. ld' = [ld EXCEPT ![p] = l2]
      BY <1>4 DEF l2
    <3>2. /\ a2 \in Stages /\ dying' = [dying EXCEPT ![p] = dying[p]]
          /\ pagedir' = [pagedir EXCEPT ![p] = pagedir[p]] /\ at' = [at EXCEPT ![p] = a2]
      BY <1>1, <1>4 DEF Stages, Loading, MoveTo, SpaceInv, SpaceType
    <3> QED  BY <2>1, <2>2, <3>1, <3>2 DEF StepOf
  <2> HIDE DEF l2
  <2>4. Life(a2, pagedir[p], dying[p]) /\ a2 \notin After /\ HeldBy(a2, l2) = 0
    BY <2>2 DEF Life, Stages, Before, After, Loading, HeldBy
  <2>5. LoadOK(tables, frames, Dirs[p], a2, l2)
    <3>1. \A j \in DOMAIN l2.image : ~(j < 1)
      BY <2>1, SpacesAssumption
    <3>2. 1 \in 1 .. Len(l2.image) + 1
      BY <2>1, SpacesAssumption
    <3> QED  BY <2>1, <3>1, <3>2 DEF LoadOK
  <2> QED  BY <1>1, <1>2, <2>3, <2>4, <2>5, PlaceStep DEF AtPlace
<1> QED  BY <1>3, <1>4 DEF OpenFile

(* a switch to another process, wherever both are *)
LEMMA SwitchStep ==
    ASSUME SpaceInv, NEW q \in Process, SwitchTo(q), pools' = pools PROVE SpaceInv'
<1>1. /\ curr' = q /\ cr3' = pagedir[q] /\ tlb' = {} /\ at' = at /\ pagedir' = pagedir
      /\ dying' = dying /\ tables' = tables /\ frames' = frames /\ ld' = ld
  BY DEF SwitchTo, Activate
<1>2. Dirs' = Dirs /\ Helds' = Helds
  BY <1>1 DEF Dirs, Helds
<1>3. SpaceType'
  BY <1>1 DEF SpaceInv, SpaceType
<1>4. cr3' # 0 => cr3' = Dirs[q] /\ at[q] # "destroy"
  BY <1>1, LoadingDir DEF Life, DirOf, After
<1>5. CpuOK'
  BY <1>1, <1>2, <1>4 DEF CpuOK
<1> QED  BY <1>1, <1>2, <1>3, <1>5 DEF SpaceInv

(* user code calls exit() *)
LEMMA UserExitStep ==
    ASSUME SpaceInv, NEW p \in Process, UserExit(p), pools' = pools PROVE SpaceInv'
<1>1. /\ AtPlace(p, at[p]) /\ at[p] = "user" /\ MoveTo(p, "exit")
      /\ UNCHANGED <<curr, pagedir, dying, tables, frames, cr3, tlb, ld>>
  BY DEF UserExit, AtPlace
<1> QED  BY <1>1, LeaveStep DEF After, HeldBy

(* a page fault that ends the process *)
LEMMA FaultStep ==
    ASSUME SpaceInv, NEW p \in Process, NEW u, NEW w, page_fault(p, u, w), pools' = pools
    PROVE  SpaceInv'
<1>1. /\ AtPlace(p, at[p]) /\ at[p] = "user" /\ MoveTo(p, "exit")
      /\ UNCHANGED <<curr, pagedir, dying, tables, frames, cr3, tlb, ld>>
  BY DEF page_fault, AtPlace
<1> QED  BY <1>1, LeaveStep DEF After, HeldBy

(* process_exit() clears the pointer: the directory is still the process's *)
LEMMA ExitStep ==
    ASSUME SpaceInv, NEW p \in Process, process_exit(p), pools' = pools PROVE SpaceInv'
<1> DEFINE a2 == IF pagedir[p] = 0 THEN "dead" ELSE "base"
           pd == pagedir[p]
           l == ld[p]
<1>1. /\ curr = p /\ at[p] = "exit" /\ at' = [at EXCEPT ![p] = a2]
      /\ dying' = [dying EXCEPT ![p] = pd] /\ pagedir' = [pagedir EXCEPT ![p] = 0]
      /\ curr' = curr /\ tables' = tables /\ frames' = frames /\ cr3' = cr3 /\ tlb' = tlb
      /\ ld' = ld
  BY DEF process_exit, AtPlace, MoveTo
<1>2. pd \in Nat /\ l \in LoadState /\ ld' = [ld EXCEPT ![p] = l] /\ a2 \in Stages
  BY <1>1 DEF SpaceInv, SpaceType, Stages, Before, After
<1>3. StepOf(p, a2, 0, pd, l)
  BY <1>1, <1>2 DEF StepOf
<1>4. Dirs[p] = pd /\ Helds[p] = 0
  BY <1>1, LoadingDir DEF DirOf, HeldBy
<1>5. /\ DirOf(a2, 0, pd) = pd /\ HeldBy(a2, l) = 0 /\ a2 # "destroy" /\ a2 \notin Loading
      /\ a2 \notin {"stack", "install stack", "push", "segment", "fill", "install"}
  BY DEF DirOf, HeldBy, Loading
<1>6. Life(a2, 0, pd)
  BY <1>2 DEF Life, Before, After
<1> HIDE DEF a2, pd, l
<1>7. /\ Memory(tables, Dirs, Helds, frames)
      /\ [Dirs EXCEPT ![p] = DirOf(a2, 0, pd)] = Dirs
      /\ [Helds EXCEPT ![p] = HeldBy(a2, l)] = Helds
  BY <1>4, <1>5 DEF SpaceInv, Dirs, Helds
<1>8. OthersStay(p)
  BY <1>1 DEF OthersStay, PagesStay
<1>9. CpuOK' /\ curr' \in Process /\ cr3' \in Nat
  BY <1>1, <1>3, <1>4, <1>5, CpuKept
<1>10. LoadOK(tables', frames', DirOf(a2, 0, pd), a2, l)
  BY <1>5 DEF LoadOK
<1>11. Memory(tables', [Dirs EXCEPT ![p] = DirOf(a2, 0, pd)],
              [Helds EXCEPT ![p] = HeldBy(a2, l)], frames')
  BY <1>1, <1>7
<1> QED  BY <1>3, <1>6, <1>8, <1>9, <1>10, <1>11, StepKeeps

(* process_exit() activates the directory of the kernel *)
LEMMA ExitActivateStep ==
    ASSUME SpaceInv, NEW p \in Process, ExitActivate(p), pools' = pools PROVE SpaceInv'
<1> DEFINE a2 == "destroy"
           pd == pagedir[p]
           dy == dying[p]
           l == ld[p]
<1>1. /\ curr = p /\ at[p] = "base" /\ curr' = curr /\ MoveTo(p, a2) /\ cr3' = 0
      /\ tlb' = {} /\ pagedir' = pagedir /\ dying' = dying /\ tables' = tables
      /\ frames' = frames /\ ld' = ld
  BY DEF ExitActivate, AtPlace, Activate
<1>2. StepOf(p, a2, pd, dy, l)
  <2>1. a2 \in Stages
    BY DEF Stages, After
  <2> QED  BY <1>1, <2>1, GotoIs
<1>3. /\ DirOf(a2, pd, dy) = dy /\ Dirs[p] = dy /\ pd = 0 /\ dy # 0
      /\ HeldBy(a2, l) = 0 /\ Helds[p] = 0
  BY <1>1, LoadingDir DEF DirOf, HeldBy, Life, After
<1>4. Life(a2, pd, dy)
  BY <1>3 DEF Life, Stages, Before, After, Loading
<1>5. /\ Memory(tables, Dirs, Helds, frames)
      /\ [Dirs EXCEPT ![p] = DirOf(a2, pd, dy)] = Dirs
      /\ [Helds EXCEPT ![p] = HeldBy(a2, l)] = Helds
  BY <1>3 DEF SpaceInv, Dirs, Helds
<1>6. OthersStay(p)
  BY <1>1 DEF OthersStay, PagesStay
<1>7. CpuOK' /\ curr' \in Process /\ cr3' \in Nat
  BY <1>1, <1>2, <1>3, CpuTold
<1>8. LoadOK(tables', frames', DirOf(a2, pd, dy), a2, l)
  BY DEF LoadOK, Loading
<1>9. Memory(tables', [Dirs EXCEPT ![p] = DirOf(a2, pd, dy)],
             [Helds EXCEPT ![p] = HeldBy(a2, l)], frames')
  BY <1>1, <1>5
<1> HIDE DEF pd, dy, l
<1> QED  BY <1>2, <1>4, <1>6, <1>7, <1>8, <1>9, StepKeeps

(* pagedir_destroy(): a page table, or the directory at the end *)
LEMMA DestroyStep ==
    ASSUME SpaceInv, NEW p \in Process, pagedir_destroy(p), pools' = pools PROVE SpaceInv'
<1> DEFINE pd == dying[p]
           left == {j \in 0 .. DirSize - 1 : tables[pd][j] # 0 /\ tables[pd][j] \in DOMAIN tables}
           i == CHOOSE j \in left : \A g \in left : j <= g
           pt == tables[pd][i]
           l == ld[p]
<1>1. /\ curr = p /\ at[p] = "destroy" /\ curr' = curr /\ pagedir' = pagedir /\ dying' = dying
      /\ cr3' = cr3 /\ tlb' = tlb /\ ld' = ld
  BY DEF pagedir_destroy, AtPlace
<1>2. /\ Dirs[p] = pd /\ pagedir[p] = 0 /\ pd # 0 /\ Helds[p] = 0 /\ pd \in Nat /\ l \in LoadState
      /\ at \in [Process -> Stages]
  BY <1>1, LoadingDir DEF DirOf, HeldBy, Life, After, SpaceInv, SpaceType
<1>3. Memory(tables, Dirs, Helds, frames)
  BY DEF SpaceInv
<1>4. cr3 = 0
  BY <1>1 DEF SpaceInv, CpuOK
<1>5. CASE left = {}
  <2> DEFINE a2 == "dead"
  <2>1. tables' = Drop(tables, {pd}) /\ MoveTo(p, a2) /\ frames' = frames
    BY <1>5 DEF pagedir_destroy
  <2>2. \A j \in DirSlots : tables[pd][j] = 0
    <3> SUFFICES ASSUME NEW j \in DirSlots, tables[pd][j] # 0 PROVE FALSE
      OBVIOUS
    <3>1. KPage(tables, Dirs[p], j) = tables[pd][j]
      BY <1>2, PlacesApart DEF KPage
    <3>2. tables[pd][j] \in DOMAIN tables
      BY <1>3, <3>1, KernelPages
    <3> QED  BY <1>5, <3>2 DEF DirSlots
  <2>3. StepOf(p, a2, 0, pd, l)
    <3>1. a2 \in Stages
      BY DEF Stages, Before
    <3> QED  BY <1>1, <1>2, <2>1, <3>1, GotoIs
  <2> DEFINE dir2 == [Dirs EXCEPT ![p] = 0]
  <2>4. Memory(tables', dir2, Helds, frames) /\ EntriesStay(tables, Dirs, tables', dir2, Process \ {p})
    <3> HIDE DEF dir2, pd
    <3>1. dir2 = [Dirs EXCEPT ![p] = 0] /\ tables' = Drop(tables, {Dirs[p]}) /\ Dirs[p] # 0
          /\ \A j \in DirSlots : tables[Dirs[p]][j] = 0
      BY <1>2, <2>1, <2>2 DEF dir2
    <3> QED  BY <1>3, <3>1, DirectoryFreed
  <2>5. DirOf(a2, 0, pd) = 0 /\ HeldBy(a2, l) = 0 /\ Life(a2, 0, pd)
    BY DEF DirOf, HeldBy, Life, Stages, Before, After, Loading
  <2>6. [Helds EXCEPT ![p] = HeldBy(a2, l)] = Helds
    BY <1>2, <2>5 DEF Helds
  <2>7. OthersStay(p)
    BY <2>1, <2>4 DEF OthersStay, PagesStay, EntriesStay
  <2> HIDE DEF pd, l, left
  <2>8. CpuOK' /\ curr' \in Process /\ cr3' \in Nat
    BY <1>1, <1>4, <2>3, CpuKept
  <2>9. LoadOK(tables', frames', DirOf(a2, 0, pd), a2, l)
    BY DEF LoadOK, Loading
  <2>10. Memory(tables', [Dirs EXCEPT ![p] = DirOf(a2, 0, pd)],
                [Helds EXCEPT ![p] = HeldBy(a2, l)], frames')
    BY <2>1, <2>4, <2>5, <2>6
  <2> QED  BY <2>3, <2>5, <2>7, <2>8, <2>9, <2>10, StepKeeps
<1>6. CASE left # {}
  <2> DEFINE a2 == "destroy"
  <2>1. i \in left
    <3>1. left \subseteq Nat
      BY DirSizeIs
    <3> HIDE DEF left
    <3>2. \E j \in left : \A g \in left : j <= g
      BY <1>6, <3>1, LeastNat
    <3> QED  BY <3>2
  <2>2. i \in DirSlots /\ pt # 0
    BY <2>1 DEF DirSlots
  <2>3. /\ frames' = Drop(frames, {tables[pt][s].frame : s \in Slots})
        /\ tables' = Drop([tables EXCEPT ![pd][i] = 0], {pt}) /\ at' = at
    BY <1>6 DEF pagedir_destroy
  <2> HIDE DEF i, left
  <2>4. StepOf(p, a2, 0, pd, l)
    <3>1. a2 \in Stages /\ at' = [at EXCEPT ![p] = a2]
      BY <1>1, <1>2, <2>3 DEF Stages, After
    <3>2. pagedir' = [pagedir EXCEPT ![p] = 0] /\ dying' = [dying EXCEPT ![p] = pd]
          /\ ld' = [ld EXCEPT ![p] = l]
      BY <1>1, <1>2 DEF SpaceInv, SpaceType
    <3> QED  BY <1>2, <3>1, <3>2 DEF StepOf
  <2>5. /\ Memory(tables', Dirs, Helds, frames')
        /\ EntriesStay(tables, Dirs, tables', Dirs, Process \ {p})
        /\ BytesStay(tables, Dirs, Helds, frames, frames', p)
    <3> HIDE DEF pd, pt
    <3>1. /\ pt = tables[Dirs[p]][i] /\ pt # 0 /\ Dirs[p] # 0 /\ i \in DirSlots
          /\ tables' = TableCleared(tables, Dirs[p], i, pt)
          /\ frames' = Drop(frames, PagesIn(tables, pt))
      BY <1>2, <2>2, <2>3 DEF pt, TableCleared, PagesIn
    <3> QED  BY <1>3, <3>1, TableFreed
  <2>6. DirOf(a2, 0, pd) = pd /\ HeldBy(a2, l) = 0 /\ Life(a2, 0, pd)
    BY <1>2 DEF DirOf, HeldBy, Life, Stages, Before, After, Loading
  <2>7. /\ [Helds EXCEPT ![p] = HeldBy(a2, l)] = Helds
        /\ [Dirs EXCEPT ![p] = DirOf(a2, 0, pd)] = Dirs
    BY <1>2, <2>6 DEF Helds, Dirs
  <2> HIDE DEF pd, l, pt
  <2>8. OthersStay(p)
    BY <2>5 DEF OthersStay, PagesStay, EntriesStay, BytesStay
  <2>9. CpuOK' /\ curr' \in Process /\ cr3' \in Nat
    BY <1>1, <1>4, <2>4, CpuKept
  <2>10. LoadOK(tables', frames', DirOf(a2, 0, pd), a2, l)
    BY DEF LoadOK, Loading
  <2>11. Memory(tables', [Dirs EXCEPT ![p] = DirOf(a2, 0, pd)],
                [Helds EXCEPT ![p] = HeldBy(a2, l)], frames')
    BY <2>5, <2>7
  <2> QED  BY <2>4, <2>6, <2>8, <2>9, <2>10, <2>11, StepKeeps
<1> QED  BY <1>5, <1>6

-----------------------------------------------------------------------------
(* An entry that is present leads to a page in use, which no other entry    *)
(* leads to and nobody holds.                                               *)
LEMMA EntryPlaces ==
    ASSUME NEW ts, NEW dir, NEW held, NEW fr, Memory(ts, dir, held, fr),
           NEW p \in Process, dir[p] # 0, NEW u \in Pages,
           NEW f, f = LookupPage(ts, dir[p], u).frame
    PROVE  /\ LookupPage(ts, dir[p], u) \in PageEntry /\ f \in Nat
           /\ f # 0 => f \in DOMAIN fr
           /\ \A q \in Process, v \in Pages :
                 dir[q] # 0 /\ f # 0 /\ LookupPage(ts, dir[q], v).frame = f => q = p /\ v = u
           /\ \A q \in Process : held[q] # 0 => held[q] # f
<1> DEFINE place(v) == v \div TableSize
           spot(v) == v % TableSize
           leaf(q, v) == Leaf(ts, KPage(ts, dir[q], place(v)), spot(v))
<1>1. \A v \in Pages : place(v) \in DirSlots /\ spot(v) \in Slots
  BY PageParts
<1>2. \A v \in Pages : place(v) = place(u) /\ spot(v) = spot(u) => v = u
  BY PagePartsApart
<1>3. ASSUME NEW q \in Process, NEW v \in Pages, dir[q] # 0
      PROVE  LookupPage(ts, dir[q], v).frame = leaf(q, v)
  BY <1>3, EntryIs
<1>4. LookupPage(ts, dir[p], u) \in PageEntry
  <2> DEFINE k == KPage(ts, dir[p], place(u))
  <2>1. LookupPage(ts, dir[p], u) = IF k = 0 THEN NotPresent ELSE ts[k][spot(u)]
    BY EntryIs
  <2>2. NotPresent \in PageEntry
    BY DEF NotPresent, PageEntry
  <2>3. k # 0 => ts[k] \in [Slots -> PageEntry]
    BY <1>1, KernelPages
  <2> HIDE DEF k, spot
  <2> QED  BY <1>1, <2>1, <2>2, <2>3
<1>5. f \in Nat
  BY <1>4 DEF PageEntry
<1>6. f = leaf(p, u)
  BY <1>3
<1>7. f # 0 => f \in DOMAIN fr
  BY <1>1, <1>6, UserPlaces
<1>8. ASSUME NEW q \in Process, NEW v \in Pages, dir[q] # 0, f # 0, LookupPage(ts, dir[q], v).frame = f
      PROVE  q = p /\ v = u
  <2>1. leaf(q, v) = leaf(p, u) /\ leaf(p, u) # 0
    BY <1>3, <1>6, <1>8
  <2>2. p = q /\ place(u) = place(v) /\ spot(u) = spot(v)
    BY <1>1, <2>1, UserPlaces
  <2> QED  BY <1>2, <2>2
<1>9. \A q \in Process : held[q] # 0 => held[q] # f
  BY <1>1, <1>6, UserPlaces
<1> QED  BY <1>4, <1>5, <1>7, <1>8, <1>9

(* what the processor finds for a page is the entry of the running process *)
LEMMA FoundIs ==
    ASSUME SpaceInv, NEW u \in Pages, NEW e \in Found(u)
    PROVE  cr3 # 0 /\ cr3 = Dirs[curr] /\ e = LookupPage(tables, cr3, u) /\ e.frame # 0
<1>1. cr3 # 0 => cr3 = Dirs[curr]
  BY DEF SpaceInv, CpuOK
<1>2. CASE \E c \in tlb : c.upage = u /\ e = c.entry
  <2>1. PICK c \in tlb : c.upage = u /\ e = c.entry
    BY <1>2
  <2>2. cr3 # 0 /\ Mapped(tables, cr3, c)
    BY DEF SpaceInv, CpuOK
  <2> QED  BY <1>1, <2>1, <2>2 DEF Mapped
<1>3. CASE ~\E c \in tlb : c.upage = u /\ e = c.entry
  <2>1. cr3 # 0 /\ e = LookupPage(tables, cr3, u) /\ e.frame # 0
    BY <1>3 DEF Found, NotPresent
  <2> QED  BY <1>1, <2>1
<1> QED  BY <1>2, <1>3

(* Memory says only which pages are in use, not what is in them *)
LEMMA Written ==
    ASSUME NEW ts, NEW dir, NEW held, NEW fr, Memory(ts, dir, held, fr), NEW fr2,
           DOMAIN fr2 = DOMAIN fr
    PROVE  Memory(ts, dir, held, fr2)
BY DEF Memory

(* The running process, at "push" or "user", reads or writes a page of its  *)
(* memory and goes on with user code.                                       *)
LEMMA AccessStep ==
    ASSUME SpaceInv, NEW p \in Process, curr = p, at[p] \in {"push", "user"},
           NEW u \in Pages, NEW e \in Found(u), NEW v,
           frames' = frames \/ frames' = [frames EXCEPT ![e.frame] = v],
           tlb' = tlb \cup {[upage |-> u, entry |-> e]},
           at' = [at EXCEPT ![p] = "user"],
           UNCHANGED <<pools, curr, pagedir, dying, tables, cr3, ld>>
    PROVE  SpaceInv'
<1> DEFINE a2 == "user"
           pd == pagedir[p]
           dy == dying[p]
           l == ld[p]
           f == e.frame
<1>1. cr3 # 0 /\ cr3 = Dirs[p] /\ e = LookupPage(tables, cr3, u) /\ f # 0
  BY FoundIs
<1>2. Dirs[p] = pd /\ pd # 0 /\ Helds[p] = 0
  BY LoadingDir DEF Loading, HeldBy
<1>3. Memory(tables, Dirs, Helds, frames)
  BY DEF SpaceInv
<1>4. DOMAIN frames' = DOMAIN frames /\ \A g \in DOMAIN frames : g # f => frames'[g] = frames[g]
  OBVIOUS
<1>5. StepOf(p, a2, pd, dy, l)
  <2>1. a2 \in Stages
    BY DEF Stages
  <2> QED  BY <2>1, GotoIs DEF MoveTo
<1>6. DirOf(a2, pd, dy) = pd /\ HeldBy(a2, l) = 0 /\ Life(a2, pd, dy)
  BY <1>2 DEF DirOf, HeldBy, Life, Stages, Before, After, Loading
<1>7. /\ [Helds EXCEPT ![p] = HeldBy(a2, l)] = Helds
      /\ [Dirs EXCEPT ![p] = DirOf(a2, pd, dy)] = Dirs
  BY <1>2, <1>6 DEF Helds, Dirs
<1>8. OthersStay(p)
  <2> SUFFICES ASSUME NEW q \in Process, q # p
               PROVE  /\ Dirs[q] # 0 => PagesStay(tables, frames, tables', frames', Dirs[q])
                      /\ Helds[q] # 0 => frames'[Helds[q]] = frames[Helds[q]]
    BY DEF OthersStay
  <2>1. ASSUME Dirs[q] # 0, NEW x \in Pages, LookupPage(tables, Dirs[q], x).frame # 0
        PROVE  frames'[LookupPage(tables, Dirs[q], x).frame] = frames[LookupPage(tables, Dirs[q], x).frame]
    <3> DEFINE g == LookupPage(tables, Dirs[q], x).frame
    <3>1. g \in DOMAIN frames
      BY <1>3, <2>1, EntryPlaces
    <3>2. g # f
      BY <1>1, <1>3, <2>1, EntryPlaces
    <3> QED  BY <1>4, <3>1, <3>2
  <2>2. ASSUME Helds[q] # 0 PROVE frames'[Helds[q]] = frames[Helds[q]]
    <3>1. Helds[q] \in DOMAIN frames
      BY <1>3, <2>2, UserPlaces
    <3>2. Helds[q] # f
      BY <1>1, <1>3, <2>2, EntryPlaces
    <3> QED  BY <1>4, <3>1, <3>2
  <2> QED  BY <2>1, <2>2 DEF PagesStay
<1>9. CpuOK' /\ curr' \in Process /\ cr3' \in Nat
  <2>1. Dirs' = Dirs
    <3>1. \A q \in Process : at'[q] = IF q = p THEN a2 ELSE at[q]
      BY DEF SpaceInv, SpaceType
    <3>2. \A q \in Process : DirOf(at'[q], pagedir[q], dying[q]) = DirOf(at[q], pagedir[q], dying[q])
      BY <3>1 DEF DirOf
    <3> QED  BY <3>2 DEF Dirs
  <2>2. at'[p] = a2
    BY DEF SpaceInv, SpaceType
  <2>3. Mapped(tables, cr3, [upage |-> u, entry |-> e])
    BY <1>1 DEF Mapped
  <2>4. \A c \in tlb : Mapped(tables, cr3, c)
    BY DEF SpaceInv, CpuOK
  <2>5. CpuOK'
    BY <1>1, <2>1, <2>2, <2>3, <2>4 DEF CpuOK
  <2> QED  BY <2>5 DEF SpaceInv, SpaceType
<1>10. LoadOK(tables', frames', DirOf(a2, pd, dy), a2, l)
  BY DEF LoadOK, Loading
<1>11. Memory(tables', [Dirs EXCEPT ![p] = DirOf(a2, pd, dy)],
              [Helds EXCEPT ![p] = HeldBy(a2, l)], frames')
  BY <1>3, <1>4, <1>7, Written
<1> HIDE DEF pd, dy, l
<1> QED  BY <1>5, <1>6, <1>8, <1>9, <1>10, <1>11, StepKeeps

(* push_command() writes to the page of the stack, and to no segment *)
LEMMA PushStep ==
    ASSUME SpaceInv, NEW p \in Process, PushArguments(p), pools' = pools PROVE SpaceInv'
<1>1. StackPage \in Pages
  BY Sizes DEF StackPage, Pages
<1>2. PICK e \in Found(StackPage) :
         /\ frames' = [frames EXCEPT ![e.frame] = [i \in 0 .. PGSIZE - 1 |-> p]]
         /\ tlb' = tlb \cup {[upage |-> StackPage, entry |-> e]}
  BY DEF PushArguments
<1>3. /\ curr = p /\ at[p] \in {"push", "user"} /\ at' = [at EXCEPT ![p] = "user"]
      /\ UNCHANGED <<pools, curr, pagedir, dying, tables, cr3, ld>>
  BY DEF PushArguments, AtPlace, MoveTo
<1> DEFINE v == [i \in 0 .. PGSIZE - 1 |-> p]
<1>4. frames' = [frames EXCEPT ![e.frame] = v]
  BY <1>2
<1> HIDE DEF v
<1> QED  BY <1>1, <1>2, <1>3, <1>4, AccessStep

(* user code reads or writes a page of its own *)
LEMMA UserAccessStep ==
    ASSUME SpaceInv, NEW p \in Process, NEW u \in Pages, NEW w \in BOOLEAN,
           UserAccess(p, u, w), pools' = pools
    PROVE  SpaceInv'
<1> DEFINE v == [i \in 0 .. PGSIZE - 1 |-> p]
<1>2. PICK e \in Found(u) :
         /\ frames' = IF w THEN [frames EXCEPT ![e.frame] = v] ELSE frames
         /\ tlb' = tlb \cup {[upage |-> u, entry |-> e]}
  BY DEF UserAccess
<1>3. /\ curr = p /\ at[p] \in {"push", "user"} /\ at' = [at EXCEPT ![p] = "user"]
      /\ UNCHANGED <<pools, curr, pagedir, dying, tables, cr3, ld>>
  BY DEF UserAccess, AtPlace, SpaceInv, SpaceType
<1> HIDE DEF v
<1>4. frames' = frames \/ frames' = [frames EXCEPT ![e.frame] = v]
  BY <1>2
<1> QED  BY <1>2, <1>3, <1>4, AccessStep

-----------------------------------------------------------------------------
(* numbers of load_segment() *)
LEMMA Segments ==
    ASSUME NEW im \in Images, NEW j \in DOMAIN im
    PROVE  /\ im[j] \in Elf32_Phdr /\ im[j].offset \in Nat /\ im[j].vaddr \in Nat
           /\ im[j].filesz \in Nat /\ im[j].memsz \in Nat /\ im[j].memsz < AddrModulus
           /\ im[j].vaddr < AddrModulus /\ im[j].w \in BOOLEAN
           /\ DOMAIN im = 1 .. Len(im) /\ Len(im) \in Nat
<1>1. im \in Seq(Elf32_Phdr)
  BY SpacesAssumption
<1>2. im[j] \in Elf32_Phdr /\ DOMAIN im = 1 .. Len(im) /\ Len(im) \in Nat
  BY <1>1
<1> QED  BY <1>2, Sizes DEF Elf32_Phdr, Elf32_Word

(* a segment that is loaded ends below PHYS_BASE, without a wrap *)
LEMMA ValidEnds ==
    ASSUME NEW ph \in Elf32_Phdr, validate_segment(ph)
    PROVE  /\ ph.vaddr \in Nat /\ ph.memsz \in Nat /\ ph.filesz \in Nat /\ ph.offset \in Nat
           /\ ph.memsz >= ph.filesz /\ ph.memsz > 0 /\ ph.vaddr + ph.memsz < PHYS_BASE
           /\ ph.offset % PGSIZE = ph.vaddr % PGSIZE
<1>1. /\ ph.vaddr \in Nat /\ ph.memsz \in Nat /\ ph.filesz \in Nat /\ ph.offset \in Nat
      /\ ph.memsz < AddrModulus /\ ph.vaddr < AddrModulus
  BY Sizes DEF Elf32_Phdr, Elf32_Word
<1> DEFINE sum == ph.vaddr + ph.memsz
           end == sum % AddrModulus
<1>2. /\ ph.memsz >= ph.filesz /\ ph.memsz # 0 /\ end < PHYS_BASE /\ ~(end < ph.vaddr)
      /\ ph.offset % PGSIZE = ph.vaddr % PGSIZE
  BY DEF validate_segment
<1>3. sum \in Nat /\ AddrModulus \in Nat /\ AddrModulus > 0
  BY <1>1, Sizes
<1>4. CASE sum < AddrModulus
  <2>1. end = sum
    <3> HIDE DEF sum
    <3> QED  BY <1>3, <1>4
  <2> QED  BY <1>1, <1>2, <2>1
<1>5. CASE sum >= AddrModulus
  <2>1. end = sum - AddrModulus
    <3>1. sum - AddrModulus \in 0 .. AddrModulus - 1 /\ sum = AddrModulus * 1 + (sum - AddrModulus)
      BY <1>1, <1>3, <1>5
    <3> HIDE DEF sum
    <3> QED  BY <1>3, <3>1, QuotientIs
  <2>2. sum = ph.vaddr + ph.memsz
    OBVIOUS
  <2> HIDE DEF sum, end
  <2>3. end < ph.vaddr
    BY <1>1, <1>3, <2>1, <2>2
  <2> QED  BY <1>2, <2>3
<1> QED  BY <1>1, <1>2, <1>3, <1>4, <1>5

(* its pages are user pages *)
LEMMA EndPages ==
    ASSUME NEW ph \in Elf32_Phdr, validate_segment(ph)
    PROVE  /\ EndPage(ph) \in Nat /\ EndPage(ph) <= UserPages
           /\ EndPage(ph) * PGSIZE >= ph.vaddr + ph.memsz
<1> DEFINE top == ph.vaddr + ph.memsz + PGSIZE - 1
           n == PGSIZE
           e == top \div n
           r == top % n
<1>1. /\ ph.vaddr + ph.memsz \in Nat /\ n \in Nat /\ n > 0 /\ UserPages \in Nat
      /\ ph.vaddr + ph.memsz < UserPages * n
  BY ValidEnds, Sizes
<1>2. top \in Nat /\ top = ph.vaddr + ph.memsz + n - 1
  BY <1>1
<1>3. e \in Nat /\ r \in 0 .. n - 1 /\ top = n * e + r
  BY <1>1, <1>2, Quotient
<1> DEFINE z == ph.vaddr + ph.memsz
<1>4. z \in Nat /\ z < UserPages * n /\ z + n - 1 = n * e + r
  BY <1>1, <1>2, <1>3
<1> HIDE DEF e, r, n, z, top
<1>5. n * e \in Nat /\ n * e = e * n /\ n * (UserPages + 1) = UserPages * n + n
      /\ UserPages * n \in Nat
  BY <1>1, <1>3
<1>6. n * e < n * (UserPages + 1)
  BY <1>1, <1>3, <1>4, <1>5
<1>7. e < UserPages + 1
  BY <1>1, <1>3, <1>6, TimesLess
<1>8. e * n >= z
  BY <1>1, <1>3, <1>4, <1>5
<1> QED  BY <1>1, <1>3, <1>7, <1>8 DEF e, n, z, top, EndPage

(* the arguments of load_segment() *)
LEMMA CallsSegment ==
    ASSUME NEW ph \in Elf32_Phdr, validate_segment(ph), NEW l \in LoadState,
           NEW l2, l2 = SegmentCall(l, ph)
    PROVE  /\ l2 \in LoadState /\ l2.image = l.image /\ l2.hdr = l.hdr /\ l2.kpage = l.kpage
           /\ SegmentAt(l2, ph) /\ l2.upage = ph.vaddr \div PGSIZE
<1> DEFINE n == PGSIZE
           v == ph.vaddr
           off == v % n
           q == v \div n
           m == off + ph.memsz
           up == m + n - 1
           R == up \div n
           rem == up % n
           read == IF ph.filesz > 0 THEN off + ph.filesz ELSE 0
           pos == ph.offset - (ph.offset % n)
           zero == n * R - read
<1>1. /\ v \in Nat /\ ph.memsz \in Nat /\ ph.filesz \in Nat /\ ph.offset \in Nat
      /\ ph.memsz >= ph.filesz /\ ph.memsz > 0 /\ ph.offset % n = off
      /\ n \in Nat /\ n > 0 /\ ph.w \in BOOLEAN
  BY ValidEnds, Sizes DEF Elf32_Phdr
<1>2. q \in Nat /\ off \in 0 .. n - 1 /\ v = n * q + off
  BY <1>1, Quotient
<1>3. m \in Nat /\ up \in Nat
  BY <1>1, <1>2
<1>4. R \in Nat /\ rem \in 0 .. n - 1 /\ up = n * R + rem
  BY <1>1, <1>3, Quotient
<1>5. pos \in Nat
  <2> DEFINE o == ph.offset
             oq == o \div n
             orem == o % n
  <2>1. oq \in Nat /\ orem \in 0 .. n - 1 /\ o = n * oq + orem
    BY <1>1, Quotient
  <2> HIDE DEF oq, orem, n
  <2>2. n * oq \in Nat
    BY <1>1, <2>1
  <2>3. ph.offset - orem \in Nat
    BY <1>1, <2>1, <2>2
  <2> QED  BY <2>3 DEF orem
<1>6. EndPage(ph) = q + R
  <2> DEFINE t == v + ph.memsz + n - 1
  <2>1. EndPage(ph) = t \div n
    BY DEF EndPage
  <2>2. t = n * (q + R) + rem
    <3>1. t = (n * q + off) + ph.memsz + n - 1
      BY <1>2
    <3>2. t = n * q + (m + n - 1)
      BY <1>1, <1>2, <3>1
    <3> HIDE DEF t, R, rem, q, m
    <3>3. t = n * q + (n * R + rem)
      BY <1>4, <3>2
    <3> HIDE DEF n
    <3> QED  BY <1>1, <1>2, <1>4, <3>3
  <2>3. t \in Nat /\ q + R \in Nat
    BY <1>1, <1>2, <1>4
  <2> HIDE DEF t, R, rem, q, n
  <2> QED  BY <1>1, <1>4, <2>1, <2>2, <2>3, QuotientIs
<1>7. /\ l2 = [l EXCEPT !.upage = q, !.read = read, !.zero = zero, !.pos = pos, !.w = ph.w]
  BY DEF SegmentCall, ROUND_UP
<1>8. read \in Nat /\ read <= m /\ m <= n * R /\ n * R \in Nat
  <2>1. read \in Nat /\ read <= m
    BY <1>1, <1>2
  <2> HIDE DEF m, R, rem, read
  <2>2. n * R \in Nat
    BY <1>1, <1>4
  <2> QED  BY <1>1, <1>3, <1>4, <2>1, <2>2
<1>9. zero \in Nat
  <2> DEFINE all == n * R
  <2>1. all \in Nat /\ read \in Nat /\ read <= all
    <3> HIDE DEF read, m, all
    <3>1. m \in Nat /\ m <= all /\ read <= m /\ read \in Nat /\ all \in Nat
      BY <1>3, <1>8 DEF all
    <3> QED  BY <3>1
  <2> HIDE DEF all, read
  <2>2. all - read \in Nat
    BY <2>1
  <2> QED  BY <2>2 DEF all
<1>10. /\ l2 \in LoadState /\ l2.image = l.image /\ l2.hdr = l.hdr /\ l2.kpage = l.kpage
       /\ l2.upage = q /\ l2.read = read /\ l2.zero = zero /\ l2.pos = pos /\ l2.w = ph.w
  <2> HIDE DEF read, zero, pos, q
  <2> QED  BY <1>1, <1>2, <1>5, <1>7, <1>8, <1>9 DEF LoadState
<1>11. SegmentAt(l2, ph)
  <2> DEFINE here == q * n
             end == v + ph.filesz
  <2>1. n * q = here /\ here \in Nat /\ v = here + off
    <3> HIDE DEF q, off, n
    <3> QED  BY <1>1, <1>2
  <2>2. read = IF ph.filesz > 0 /\ end > here THEN end - here ELSE 0
    <3> HIDE DEF here, off, q
    <3> QED  BY <1>1, <1>2, <2>1
  <2>3. read + zero = EndPage(ph) * n - here
    <3>1. (q + R) * n = here + n * R
      <4> HIDE DEF q, R, n
      <4> QED  BY <1>1, <1>2, <1>4
    <3> HIDE DEF read, R, n, q
    <3> QED  BY <1>6, <1>8, <2>1, <3>1
  <2>4. pos = ph.offset + here - v
    <3>1. pos = ph.offset - off
      BY <1>1
    <3> HIDE DEF off, pos, here, n
    <3> QED  BY <1>1, <1>2, <2>1, <3>1
  <2>5. q <= EndPage(ph)
    <3> HIDE DEF q, R
    <3> QED  BY <1>2, <1>4, <1>6
  <2> HIDE DEF read, zero, pos, q
  <2> QED  BY <1>10, <2>2, <2>3, <2>4, <2>5 DEF SegmentAt
<1> QED  BY <1>10, <1>11

(* division keeps the order *)
LEMMA QuotientUp ==
    ASSUME NEW a \in Nat, NEW b \in Nat, NEW n \in Nat, n > 0, b <= a
    PROVE  b \div n <= a \div n
<1> DEFINE q == a \div n
           r == b \div n
           x == a % n
           y == b % n
<1>1. /\ q \in Nat /\ x \in 0 .. n - 1 /\ a = n * q + x
      /\ r \in Nat /\ y \in 0 .. n - 1 /\ b = n * r + y
  BY Quotient
<1> HIDE DEF q, r, x, y
<1>2. n * q \in Nat /\ n * r \in Nat /\ n * (q + 1) = n * q + n
  BY <1>1
<1>3. n * r < n * (q + 1)
  BY <1>1, <1>2
<1>4. r < q + 1
  BY <1>1, <1>3, TimesLess
<1> QED  BY <1>1, <1>4 DEF q, r

(* an address below the end of a page is on a page below it *)
LEMMA QuotientBelow ==
    ASSUME NEW a \in Nat, NEW n \in Nat, n > 0, NEW e \in Nat, a < e * n
    PROVE  a \div n < e
<1> DEFINE q == a \div n
           x == a % n
<1>1. q \in Nat /\ x \in 0 .. n - 1 /\ a = n * q + x
  BY Quotient
<1> HIDE DEF q, x
<1>2. n * q < n * e
  BY <1>1
<1> QED  BY <1>1, <1>2, TimesLess DEF q

(* at its start nothing of a segment needs to be loaded; at its end all is *)
LEMMA LoadedFirst ==
    ASSUME NEW ts, NEW fr, NEW d, NEW ph \in Elf32_Phdr, validate_segment(ph)
    PROVE  Loaded(ts, fr, d, ph, ph.vaddr \div PGSIZE)
<1> SUFFICES ASSUME NEW a \in ph.vaddr .. ph.vaddr + ph.memsz - 1,
                    a \div PGSIZE < ph.vaddr \div PGSIZE
             PROVE  FALSE
  BY DEF Loaded
<1>1. ph.vaddr \in Nat /\ ph.memsz \in Nat /\ PGSIZE \in Nat /\ PGSIZE > 0
  BY ValidEnds, Sizes
<1>2. a \in Nat /\ ph.vaddr <= a
  BY <1>1
<1>3. ph.vaddr \div PGSIZE <= a \div PGSIZE /\ ph.vaddr \div PGSIZE \in Nat /\ a \div PGSIZE \in Nat
  BY <1>1, <1>2, QuotientUp, Quotient
<1> QED  BY <1>3

(* when load_segment() has come to the last page, the segment is loaded *)
LEMMA LoadedLast ==
    ASSUME NEW ts, NEW fr, NEW d, NEW ph \in Elf32_Phdr, validate_segment(ph),
           Loaded(ts, fr, d, ph, EndPage(ph))
    PROVE  Loaded(ts, fr, d, ph, UserPages)
<1> SUFFICES ASSUME NEW a \in ph.vaddr .. ph.vaddr + ph.memsz - 1 PROVE a \div PGSIZE < EndPage(ph)
  BY DEF Loaded
<1>1. ph.vaddr \in Nat /\ ph.memsz \in Nat /\ PGSIZE \in Nat /\ PGSIZE > 0
      /\ EndPage(ph) \in Nat /\ EndPage(ph) * PGSIZE >= ph.vaddr + ph.memsz
  BY ValidEnds, Sizes, EndPages
<1> DEFINE x == EndPage(ph) * PGSIZE
<1>2. a \in Nat /\ a < ph.vaddr + ph.memsz /\ x \in Nat /\ x >= ph.vaddr + ph.memsz
      /\ ph.vaddr + ph.memsz \in Nat
  BY <1>1
<1>3. a < x
  <2> HIDE DEF x
  <2> QED  BY <1>2
<1> QED  BY <1>1, <1>2, <1>3, QuotientBelow

(* the next program header: the sizes that load_segment() is called with fit *)
LEMMA HeaderStep ==
    ASSUME SpaceInv, NEW p \in Process, ProgramHeader(p), pools' = pools PROVE SpaceInv'
<1> DEFINE l == ld[p]
           ph == l.image[l.hdr]
           d == Dirs[p]
<1>1. /\ AtPlace(p, at[p]) /\ at[p] = "headers" /\ curr = p
      /\ UNCHANGED <<curr, pagedir, dying, tables, frames, cr3, tlb>>
  BY DEF ProgramHeader, AtPlace
<1>2. at[p] \notin After /\ HeldBy(at[p], l) = 0 /\ l \in LoadState /\ pagedir[p] # 0
  BY <1>1, LoadingDir DEF After, HeldBy, SpaceInv, SpaceType, Loading
<1>3. LoadOK(tables, frames, d, "headers", l)
  BY <1>1 DEF SpaceInv
<1>4. /\ l.image \in Images /\ l.hdr \in 1 .. Len(l.image) + 1
      /\ \A j \in DOMAIN l.image :
            j < l.hdr /\ l.image[j].type = "PT_LOAD" =>
               Loaded(tables, frames, d, l.image[j], UserPages) /\ validate_segment(l.image[j])
  BY <1>3 DEF LoadOK, Loading
<1>5. Len(l.image) \in Nat /\ DOMAIN l.image = 1 .. Len(l.image)
  BY <1>4, SpacesAssumption
<1>6. ASSUME NEW a2 \in {"headers", "segment", "stack"}, NEW l2 \in LoadState,
             at' = [at EXCEPT ![p] = a2], ld' = [ld EXCEPT ![p] = l2],
             LoadOK(tables, frames, d, a2, l2)
      PROVE  SpaceInv'
  <2>1. a2 \in Stages /\ pagedir[p] \in Nat /\ dying[p] \in Nat
    BY DEF Stages, Loading, SpaceInv, SpaceType
  <2>2. StepOf(p, a2, pagedir[p], dying[p], l2)
    <3>1. pagedir' = [pagedir EXCEPT ![p] = pagedir[p]] /\ dying' = [dying EXCEPT ![p] = dying[p]]
      BY <1>1 DEF SpaceInv, SpaceType
    <3> QED  BY <1>6, <2>1, <3>1 DEF StepOf
  <2>3. a2 \notin After /\ HeldBy(a2, l2) = 0
    BY DEF After, HeldBy
  <2>4. Life(a2, pagedir[p], dying[p])
    BY <1>2, <2>1 DEF Life, Before, After
  <2> QED  BY <1>1, <1>2, <1>6, <2>2, <2>3, <2>4, PlaceStep
<1>7. CASE l.hdr > Len(l.image)
  <2>1. at' = [at EXCEPT ![p] = "stack"] /\ ld' = [ld EXCEPT ![p] = l]
    BY <1>7 DEF ProgramHeader, MoveTo, SpaceInv, SpaceType
  <2>2. LoadOK(tables, frames, d, "stack", l)
    BY <1>4, <1>5, <1>7 DEF LoadOK
  <2> HIDE DEF l, d
  <2> QED  BY <1>2, <1>6, <2>1, <2>2
<1>8. CASE ~(l.hdr > Len(l.image))
  <2>1. l.hdr \in DOMAIN l.image /\ l.hdr \in Nat
    BY <1>4, <1>5, <1>8
  <2>2. ph \in Elf32_Phdr
    BY <1>4, <2>1, Segments
  <2>3. CASE ph.type = "ignored"
    <3> DEFINE l2 == [l EXCEPT !.hdr = @ + 1]
    <3>1. ld' = [ld EXCEPT ![p] = l2] /\ at' = at
      BY <1>8, <2>3 DEF ProgramHeader
    <3>2. at' = [at EXCEPT ![p] = "headers"]
      BY <1>1, <3>1 DEF SpaceInv, SpaceType
    <3>3. l2 \in LoadState /\ l2.image = l.image /\ l2.hdr = l.hdr + 1
      BY <1>2, <2>1 DEF LoadState
    <3> HIDE DEF l2
    <3>4. LoadOK(tables, frames, d, "headers", l2)
      <4>1. \A j \in DOMAIN l.image : j < l.hdr + 1 => j < l.hdr \/ j = l.hdr
        BY <1>5, <2>1
      <4>2. l2.hdr \in 1 .. Len(l2.image) + 1
        BY <1>4, <1>5, <1>8, <2>1, <3>3
      <4> QED  BY <1>4, <2>3, <3>3, <4>1, <4>2 DEF LoadOK
    <3> HIDE DEF l, d
    <3> QED  BY <1>6, <3>1, <3>2, <3>3, <3>4
  <2>4. CASE ph.type = "PT_LOAD" /\ validate_segment(ph)
    <3> DEFINE l2 == SegmentCall(l, ph)
    <3>1. ld' = [ld EXCEPT ![p] = l2] /\ at' = [at EXCEPT ![p] = "segment"]
      BY <1>8, <2>4 DEF ProgramHeader, MoveTo
    <3>2. /\ l2 \in LoadState /\ l2.image = l.image /\ l2.hdr = l.hdr
          /\ SegmentAt(l2, ph) /\ l2.upage = ph.vaddr \div PGSIZE
      <4> HIDE DEF l, ph
      <4> QED  BY <1>2, <2>2, <2>4, CallsSegment
    <3>3. Loaded(tables, frames, d, ph, l2.upage)
      <4> HIDE DEF l, ph, l2
      <4> QED  BY <2>2, <2>4, <3>2, LoadedFirst
    <3> HIDE DEF l2
    <3>4. LoadOK(tables, frames, d, "segment", l2)
      BY <1>4, <1>5, <1>8, <2>1, <2>4, <3>2, <3>3 DEF LoadOK
    <3> HIDE DEF l, d
    <3> QED  BY <1>6, <3>1, <3>2, <3>4
  <2>5. CASE ph.type # "ignored" /\ ~(ph.type = "PT_LOAD" /\ validate_segment(ph))
    <3>1. MoveTo(p, "exit") /\ UNCHANGED ld
      BY <1>8, <2>5 DEF ProgramHeader
    <3> QED  BY <1>1, <1>2, <3>1, LeaveStep
  <2> QED  BY <2>3, <2>4, <2>5
<1> QED  BY <1>7, <1>8

-----------------------------------------------------------------------------
(* The entries that are present stay; and so do the bytes of all pages in   *)
(* use but the one that p holds.                                            *)
PresentStay(ts2) ==
    \A q \in Process, v \in Pages :
       Dirs[q] # 0 /\ LookupPage(tables, Dirs[q], v).frame # 0 =>
          LookupPage(ts2, Dirs[q], v) = LookupPage(tables, Dirs[q], v)
FramesStay(p, fr2) == \A g \in DOMAIN frames : g # Helds[p] => fr2[g] = frames[g]

(* Then the memory of everyone stays. *)
LEMMA MemoryStays ==
    ASSUME SpaceInv, NEW p \in Process, NEW ts2, NEW fr2, PresentStay(ts2), FramesStay(p, fr2)
    PROVE  /\ \A q \in Process : Dirs[q] # 0 => PagesStay(tables, frames, ts2, fr2, Dirs[q])
           /\ \A q \in Process : q # p /\ Helds[q] # 0 => fr2[Helds[q]] = frames[Helds[q]]
<1>1. Memory(tables, Dirs, Helds, frames)
  BY DEF SpaceInv
<1>2. ASSUME NEW q \in Process, Dirs[q] # 0, NEW x \in Pages, LookupPage(tables, Dirs[q], x).frame # 0
      PROVE  fr2[LookupPage(tables, Dirs[q], x).frame] = frames[LookupPage(tables, Dirs[q], x).frame]
  <2> DEFINE g == LookupPage(tables, Dirs[q], x).frame
  <2>1. g \in DOMAIN frames
    BY <1>1, <1>2, EntryPlaces
  <2>2. g # Helds[p]
    BY <1>1, <1>2, EntryPlaces
  <2> QED  BY <2>1, <2>2 DEF FramesStay
<1>3. ASSUME NEW q \in Process, q # p, Helds[q] # 0 PROVE fr2[Helds[q]] = frames[Helds[q]]
  <2>1. Helds[q] \in DOMAIN frames /\ Helds[q] # Helds[p]
    BY <1>1, <1>3, UserPlaces
  <2> QED  BY <2>1 DEF FramesStay
<1> QED  BY <1>2, <1>3 DEF PagesStay, PresentStay

(* A step of a load: it keeps its page directory and the processor. *)
LEMMA LoadStep ==
    ASSUME SpaceInv, NEW p \in Process, curr = p, at[p] \in Loading,
           NEW a2 \in Loading \cup {"exit"}, NEW l2 \in LoadState,
           at' = [at EXCEPT ![p] = a2], ld' = [ld EXCEPT ![p] = l2],
           UNCHANGED <<pools, curr, pagedir, dying, cr3, tlb>>,
           Memory(tables', Dirs, [Helds EXCEPT ![p] = HeldBy(a2, l2)], frames'),
           PresentStay(tables'), FramesStay(p, frames'),
           LoadOK(tables', frames', Dirs[p], a2, l2)
    PROVE  SpaceInv'
<1> DEFINE pd == pagedir[p]
           dy == dying[p]
<1>1. Dirs[p] = pd /\ pd # 0 /\ pd \in Nat /\ dy \in Nat
  BY LoadingDir DEF SpaceInv, SpaceType
<1>2. StepOf(p, a2, pd, dy, l2)
  <2>1. a2 \in Stages
    BY DEF Stages
  <2>2. pagedir' = [pagedir EXCEPT ![p] = pagedir[p]] /\ dying' = [dying EXCEPT ![p] = dying[p]]
    BY DEF SpaceInv, SpaceType
  <2> QED  BY <1>1, <2>1, <2>2 DEF StepOf
<1>3. DirOf(a2, pd, dy) = pd /\ Life(a2, pd, dy) /\ a2 # "destroy"
  BY <1>1 DEF DirOf, Life, Stages, Before, After, Loading
<1>4. [Dirs EXCEPT ![p] = DirOf(a2, pd, dy)] = Dirs
  BY <1>1, <1>3 DEF Dirs
<1>5. OthersStay(p)
  BY MemoryStays DEF OthersStay
<1>6. cr3 # 0 => cr3 = Dirs[p]
  BY DEF SpaceInv, CpuOK
<1> HIDE DEF pd, dy
<1>7. cr3 # 0 => \A u \in Pages : LookupPage(tables, cr3, u).frame # 0 =>
                    LookupPage(tables', cr3, u) = LookupPage(tables, cr3, u)
  BY <1>6 DEF PresentStay
<1>8. CpuOK' /\ curr' \in Process /\ cr3' \in Nat
  BY <1>1, <1>2, <1>3, <1>7, CpuKept
<1>9. /\ Memory(tables', [Dirs EXCEPT ![p] = DirOf(a2, pd, dy)],
                [Helds EXCEPT ![p] = HeldBy(a2, l2)], frames')
      /\ LoadOK(tables', frames', DirOf(a2, pd, dy), a2, l2)
  BY <1>1, <1>3, <1>4
<1> QED  BY <1>2, <1>3, <1>5, <1>8, <1>9, StepKeeps

(* A load fails: the page that it holds is given back. *)
LEMMA GiveUpStep ==
    ASSUME SpaceInv, NEW p \in Process, curr = p, at[p] \in {"fill", "install", "install stack"},
           frames' = Drop(frames, {ld[p].kpage}), MoveTo(p, "exit"),
           UNCHANGED <<pools, curr, pagedir, dying, tables, cr3, tlb, ld>>
    PROVE  SpaceInv'
<1> DEFINE l == ld[p]
           a2 == "exit"
<1>1. at[p] \in Loading /\ Helds[p] = l.kpage /\ l \in LoadState
  BY LoadingDir DEF Loading, HeldBy, SpaceInv, SpaceType
<1>2. Memory(tables, Dirs, Helds, frames)
  BY DEF SpaceInv
<1> DEFINE held2 == [Helds EXCEPT ![p] = 0]
<1>3. Memory(tables, Dirs, held2, frames')
  <2> HIDE DEF held2
  <2>1. held2 = [Helds EXCEPT ![p] = 0] /\ frames' = Drop(frames, {Helds[p]})
    BY <1>1 DEF held2
  <2> QED  BY <1>2, <2>1, PageGiven
<1>4. /\ Memory(tables', Dirs, [Helds EXCEPT ![p] = HeldBy(a2, l)], frames')
      /\ PresentStay(tables') /\ FramesStay(p, frames')
  BY <1>1, <1>3 DEF HeldBy, PresentStay, FramesStay, Drop
<1>5. LoadOK(tables', frames', Dirs[p], a2, l)
  BY DEF LoadOK, Loading
<1>6. at' = [at EXCEPT ![p] = a2] /\ ld' = [ld EXCEPT ![p] = l]
  BY DEF MoveTo, SpaceInv, SpaceType
<1> HIDE DEF l
<1> QED  BY <1>1, <1>4, <1>5, <1>6, LoadStep

(* load_segment() is done when there is no page left *)
LEMMA SegmentEnds ==
    ASSUME NEW ph \in Elf32_Phdr, validate_segment(ph), NEW l \in LoadState, SegmentAt(l, ph)
    PROVE  /\ l.read = 0 /\ l.zero = 0 <=> l.upage = EndPage(ph)
           /\ l.upage \in Nat /\ l.upage <= EndPage(ph) /\ EndPage(ph) \in Nat
<1> DEFINE e == EndPage(ph)
           x == e * PGSIZE
           here == l.upage * PGSIZE
<1>1. /\ e \in Nat /\ l.upage \in Nat /\ l.read \in Nat /\ l.zero \in Nat
      /\ PGSIZE \in Nat /\ PGSIZE > 0
  BY EndPages, Sizes DEF LoadState
<1>2. l.upage <= e /\ l.read + l.zero = x - here
  BY DEF SegmentAt
<1>3. x \in Nat /\ here \in Nat /\ PGSIZE * e = x /\ PGSIZE * l.upage = here
  <2> HIDE DEF e
  <2> QED  BY <1>1
<1>4. CASE l.upage = e
  <2>1. x = here
    BY <1>4
  <2> HIDE DEF e, x, here
  <2> QED  BY <1>1, <1>2, <1>3, <1>4, <2>1 DEF e
<1>5. CASE l.upage # e
  <2>1. l.upage + 1 <= e
    <3> HIDE DEF e, x, here
    <3> QED  BY <1>1, <1>2, <1>5
  <2>2. PGSIZE * (l.upage + 1) <= PGSIZE * e
    <3> HIDE DEF e
    <3> QED  BY <1>1, <2>1, TimesUp
  <2>3. PGSIZE * (l.upage + 1) = here + PGSIZE
    BY <1>1
  <2> HIDE DEF e, x, here
  <2>4. x - here > 0
    BY <1>1, <1>3, <2>2, <2>3
  <2> QED  BY <1>1, <1>2, <1>5, <2>4 DEF e
<1> QED  BY <1>4, <1>5

(* load_segment() and setup_stack() take a page *)
LEMMA AllocStep ==
    ASSUME SpaceInv, NEW p \in Process, AllocFrame(p), pools' = pools PROVE SpaceInv'
<1> DEFINE l == ld[p]
           ph == l.image[l.hdr]
           d == Dirs[p]
           f == GetPage(DOMAIN frames, pools.user)
           done == at[p] = "segment" /\ l.read = 0 /\ l.zero = 0
           v == [i \in 0 .. PGSIZE - 1 |-> 0]
<1>1. /\ AtPlace(p, at[p]) /\ at[p] \in {"segment", "stack"} /\ curr = p
      /\ UNCHANGED <<curr, pagedir, dying, tables, cr3, tlb>>
  BY DEF AllocFrame, AtPlace
<1>2. /\ at[p] \notin After /\ HeldBy(at[p], l) = 0 /\ Helds[p] = 0 /\ l \in LoadState
      /\ at[p] \in Loading /\ d # 0
  BY <1>1, LoadingDir DEF After, HeldBy, SpaceInv, SpaceType, Loading
<1>3. LoadOK(tables, frames, d, at[p], l)
  BY DEF SpaceInv
<1>4. /\ l.image \in Images /\ l.hdr \in 1 .. Len(l.image) + 1
      /\ \A j \in DOMAIN l.image :
            j < l.hdr /\ l.image[j].type = "PT_LOAD" =>
               Loaded(tables, frames, d, l.image[j], UserPages) /\ validate_segment(l.image[j])
      /\ at[p] = "stack" => l.hdr = Len(l.image) + 1
      /\ at[p] = "segment" =>
            /\ l.hdr <= Len(l.image) /\ validate_segment(ph) /\ SegmentAt(l, ph)
            /\ Loaded(tables, frames, d, ph, l.upage)
  BY <1>1, <1>2, <1>3 DEF LoadOK
<1>5. Len(l.image) \in Nat /\ DOMAIN l.image = 1 .. Len(l.image)
  BY <1>4, SpacesAssumption
<1>6. at[p] = "segment" =>
         /\ ph \in Elf32_Phdr /\ l.hdr \in DOMAIN l.image
         /\ l.read = 0 /\ l.zero = 0 <=> l.upage = EndPage(ph)
         /\ l.upage \in Nat /\ l.upage <= EndPage(ph) /\ EndPage(ph) \in Nat
  <2> SUFFICES ASSUME at[p] = "segment"
               PROVE  /\ ph \in Elf32_Phdr /\ l.hdr \in DOMAIN l.image
                      /\ l.read = 0 /\ l.zero = 0 <=> l.upage = EndPage(ph)
                      /\ l.upage \in Nat /\ l.upage <= EndPage(ph) /\ EndPage(ph) \in Nat
    OBVIOUS
  <2>1. l.hdr \in DOMAIN l.image
    BY <1>4, <1>5
  <2>2. ph \in Elf32_Phdr
    BY <1>4, <2>1, Segments
  <2>3. validate_segment(ph) /\ SegmentAt(l, ph)
    BY <1>4
  <2> HIDE DEF l, ph
  <2> QED  BY <1>2, <2>1, <2>2, <2>3, SegmentEnds
<1>7. Memory(tables, Dirs, Helds, frames)
  BY DEF SpaceInv
<1>8. CASE done
  <2> DEFINE l2 == [l EXCEPT !.hdr = @ + 1]
             a2 == "headers"
  <2>1. at' = [at EXCEPT ![p] = a2] /\ ld' = [ld EXCEPT ![p] = l2] /\ frames' = frames
    BY <1>8 DEF AllocFrame, MoveTo
  <2>2. l2 \in LoadState /\ l2.image = l.image /\ l2.hdr = l.hdr + 1 /\ l.hdr \in Nat
    <3>1. l.hdr \in Nat
      BY <1>4, <1>5
    <3> QED  BY <1>2, <3>1 DEF LoadState
  <2>3. Loaded(tables, frames, d, ph, UserPages)
    <3>1. ph \in Elf32_Phdr /\ validate_segment(ph) /\ Loaded(tables, frames, d, ph, EndPage(ph))
      BY <1>4, <1>6, <1>8
    <3> HIDE DEF ph, d
    <3> QED  BY <3>1, LoadedLast
  <2> HIDE DEF l2
  <2>4. LoadOK(tables', frames', d, a2, l2)
    <3>1. \A j \in DOMAIN l.image : j < l.hdr + 1 => j < l.hdr \/ j = l.hdr
      BY <1>5, <2>2
    <3>2. l2.hdr \in 1 .. Len(l2.image) + 1
      BY <1>4, <1>5, <1>8, <2>2
    <3> QED  BY <1>1, <1>4, <1>8, <2>1, <2>2, <2>3, <3>1, <3>2 DEF LoadOK
  <2>5. [Helds EXCEPT ![p] = HeldBy(a2, l2)] = Helds
    BY <1>2 DEF Helds, HeldBy
  <2>6. PresentStay(tables') /\ FramesStay(p, frames') /\ a2 \in Loading \cup {"exit"}
    BY <1>1, <2>1 DEF PresentStay, FramesStay, Loading
  <2>7. Memory(tables', Dirs, [Helds EXCEPT ![p] = HeldBy(a2, l2)], frames')
    BY <1>1, <1>7, <2>1, <2>5
  <2> HIDE DEF l, a2
  <2> QED  BY <1>1, <1>2, <2>1, <2>2, <2>4, <2>6, <2>7, LoadStep
<1>9. CASE ~done /\ f = 0
  <2>1. MoveTo(p, "exit") /\ ld' = ld /\ frames' = frames
    BY <1>9 DEF AllocFrame
  <2> QED  BY <1>1, <1>2, <2>1, LeaveStep
<1>10. CASE ~done /\ f # 0
  <2> DEFINE l2 == [l EXCEPT !.kpage = f]
             a2 == IF at[p] = "segment" THEN "fill" ELSE "install stack"
             held2 == [Helds EXCEPT ![p] = f]
  <2>1. /\ at' = [at EXCEPT ![p] = a2] /\ ld' = [ld EXCEPT ![p] = l2]
        /\ frames' = Put(frames, f, v)
    BY <1>10 DEF AllocFrame, MoveTo
  <2>2. f \in Nat /\ f # 0 /\ f \notin DOMAIN frames
    BY <1>10, GetsPage DEF SpaceInv, SpaceType
  <2> HIDE DEF f, v
  <2>3. /\ l2 \in LoadState /\ l2.image = l.image /\ l2.hdr = l.hdr /\ l2.kpage = f
        /\ l2.upage = l.upage /\ l2.read = l.read /\ l2.zero = l.zero /\ l2.pos = l.pos
        /\ l2.w = l.w
    BY <1>2, <2>2 DEF LoadState
  <2>4. Memory(tables, Dirs, held2, frames') /\ \A g \in DOMAIN frames : frames'[g] = frames[g]
    <3> HIDE DEF held2
    <3>1. held2 = [Helds EXCEPT ![p] = f]
      BY DEF held2
    <3>2. Memory(tables, Dirs, held2, frames')
      BY <1>2, <1>7, <2>1, <2>2, <3>1, PageTaken
    <3> QED  BY <2>1, <2>2, <3>2 DEF Put
  <2>5. PresentStay(tables') /\ FramesStay(p, frames') /\ a2 \in Loading \cup {"exit"}
    BY <1>1, <2>4 DEF PresentStay, FramesStay, Loading
  <2>6. PagesStay(tables, frames, tables', frames', d)
    BY <1>2, <2>5, MemoryStays
  <2>7. LoadOK(tables', frames', d, at[p], l)
    <3>1. at[p] # "install"
      BY <1>1
    <3> HIDE DEF l, d
    <3> QED  BY <1>3, <2>6, <3>1, LoadKept
  <2> HIDE DEF l2
  <2>8. LoadOK(tables', frames', d, a2, l2)
    <3>1. CASE at[p] = "segment"
      <4>1. l.upage < EndPage(ph)
        BY <1>6, <1>10, <3>1
      <4> QED  BY <2>2, <2>3, <2>7, <3>1, <4>1 DEF LoadOK, SegmentAt, Loading
    <3>2. CASE at[p] # "segment"
      <4>1. a2 = "install stack" /\ at[p] = "stack"
        BY <1>1, <3>2
      <4> QED  BY <2>2, <2>3, <2>7, <4>1 DEF LoadOK, Loading
    <3> QED  BY <3>1, <3>2
  <2>9. [Helds EXCEPT ![p] = HeldBy(a2, l2)] = held2
    BY <2>3 DEF HeldBy
  <2>10. Memory(tables', Dirs, [Helds EXCEPT ![p] = HeldBy(a2, l2)], frames')
    BY <1>1, <2>4, <2>9
  <2> HIDE DEF l, a2
  <2> QED  BY <1>1, <1>2, <2>1, <2>3, <2>5, <2>8, <2>10, LoadStep
<1> QED  BY <1>8, <1>9, <1>10

(* file_read() and memset() *)
LEMMA FillStep ==
    ASSUME SpaceInv, NEW p \in Process, FillFrame(p), pools' = pools PROVE SpaceInv'
<1> DEFINE l == ld[p]
           d == Dirs[p]
           a2 == "install"
           n == PageRead(l)
           v == [i \in 0 .. PGSIZE - 1 |-> IF i < n THEN <<"file", l.pos + i>> ELSE 0]
<1>1. /\ at[p] = "fill" /\ curr = p
      /\ UNCHANGED <<curr, pagedir, dying, tables, cr3, tlb, ld>>
  BY DEF FillFrame, AtPlace
<1>2. /\ Helds[p] = l.kpage /\ HeldBy(a2, l) = l.kpage /\ l \in LoadState
      /\ at[p] \in Loading /\ d # 0 /\ l.kpage # 0
  <2>1. l.kpage # 0
    BY <1>1 DEF SpaceInv, LoadOK
  <2> QED  BY <1>1, <2>1, LoadingDir DEF HeldBy, SpaceInv, SpaceType, Loading
<1>3. LoadOK(tables, frames, d, "fill", l) /\ Memory(tables, Dirs, Helds, frames)
  BY <1>1 DEF SpaceInv
<1>4. l.kpage \in DOMAIN frames
  BY <1>2, <1>3, UserPlaces
<1>5. CASE frames' = [frames EXCEPT ![l.kpage] = v] /\ MoveTo(p, a2)
  <2> HIDE DEF v
  <2>1. /\ DOMAIN frames' = DOMAIN frames /\ FramesStay(p, frames') /\ PresentStay(tables')
        /\ frames'[l.kpage] = v
    BY <1>1, <1>2, <1>4, <1>5 DEF FramesStay, PresentStay
  <2>2. at' = [at EXCEPT ![p] = a2] /\ ld' = [ld EXCEPT ![p] = l] /\ a2 \in Loading \cup {"exit"}
    BY <1>1, <1>5 DEF MoveTo, SpaceInv, SpaceType, Loading
  <2>3. [Helds EXCEPT ![p] = HeldBy(a2, l)] = Helds
    BY <1>2 DEF Helds
  <2>4. Memory(tables', Dirs, [Helds EXCEPT ![p] = HeldBy(a2, l)], frames')
    BY <1>1, <1>3, <2>1, <2>3, Written
  <2>5. PagesStay(tables, frames, tables', frames', d)
    BY <1>2, <2>1, MemoryStays
  <2>6. LoadOK(tables', frames', d, "fill", l)
    BY <1>3, <2>5, LoadKept
  <2>7. Filled(frames', l)
    BY <2>1 DEF Filled, v
  <2>8. LoadOK(tables', frames', d, a2, l)
    BY <2>6, <2>7 DEF LoadOK, Loading
  <2> HIDE DEF l, a2
  <2> QED  BY <1>1, <1>2, <2>1, <2>2, <2>4, <2>8, LoadStep
<1>6. CASE frames' = Drop(frames, {l.kpage}) /\ MoveTo(p, "exit")
  BY <1>1, <1>6, GiveUpStep
<1> QED  BY <1>5, <1>6 DEF FillFrame

(* the page that p holds is mapped at u, in a page table that is new *)
TableWith(ts, d, i, k, t, e) ==
    Put([ts EXCEPT ![d][i] = k], k, [s \in Slots |-> IF s = t THEN e ELSE NotPresent])

(* pagedir_set_page() when there is no page table: a new one gets the entry *)
LEMMA PageMappedAnew ==
    ASSUME NEW ts, NEW dir, NEW held, NEW fr, Memory(ts, dir, held, fr),
           NEW p \in Process, dir[p] # 0, NEW u \in Pages, LookupPage(ts, dir[p], u).frame = 0,
           NEW e \in [frame : Nat, w : BOOLEAN], e.frame = held[p], held[p] # 0,
           NEW i, i = u \div TableSize, ts[dir[p]][i] = 0,
           NEW k \in Nat, k # 0, k \notin DOMAIN ts,
           NEW ts2, ts2 = TableWith(ts, dir[p], i, k, u % TableSize, e),
           NEW held2, held2 = [held EXCEPT ![p] = 0]
    PROVE  /\ Memory(ts2, dir, held2, fr)
           /\ EntryBecomes(ts, dir, ts2, p, u, e)
<1> DEFINE t == u % TableSize
<1>1. i \in DirSlots /\ t \in Slots
  BY PageParts
<1>2. PICK ts1 : ts1 = TableAdded(ts, dir[p], i, k)
  OBVIOUS
<1>3. /\ Memory(ts1, dir, held, fr)
      /\ ts1[dir[p]][i] = k /\ k \in DOMAIN ts1 /\ ts1[k] = NewTable
      /\ EntriesStay(ts, dir, ts1, dir, Process)
  BY <1>1, <1>2, TableMore
<1>4. ts2 = EntrySet(ts1, k, t, e)
  <2> DEFINE base == [ts EXCEPT ![dir[p]][i] = k]
             full == [s \in Slots |-> IF s = t THEN e ELSE NotPresent]
             none == [s \in Slots |-> NotPresent]
  <2>1. ts2 = Put(base, k, full) /\ ts1 = Put(base, k, none)
    BY <1>2 DEF TableAdded, NewTable, TableWith
  <2>2. full = [none EXCEPT ![t] = e]
    BY <1>1
  <2> HIDE DEF base, full, none
  <2>3. EntrySet(ts1, k, t, e) = [ts1 EXCEPT ![k] = [ts1[k] EXCEPT ![t] = e]]
    BY DEF EntrySet
  <2>4. ts1[k] = none /\ DOMAIN ts1 = DOMAIN base \cup {k}
        /\ \A j \in DOMAIN base : j # k => ts1[j] = base[j]
    BY <2>1 DEF Put
  <2>5. [ts1 EXCEPT ![k] = full] = Put(base, k, full)
    BY <2>1, <2>4 DEF Put
  <2> QED  BY <2>1, <2>2, <2>3, <2>4, <2>5
<1>5. LookupPage(ts1, dir[p], u).frame = 0
  BY <1>3 DEF EntriesStay
<1>6. Memory(ts2, dir, held2, fr) /\ EntryBecomes(ts1, dir, ts2, p, u, e)
  BY <1>3, <1>4, <1>5, PageMapped
<1>7. EntryBecomes(ts, dir, ts2, p, u, e)
  <2> SUFFICES ASSUME NEW q \in Process, NEW x \in Pages, dir[q] # 0
               PROVE  LookupPage(ts2, dir[q], x) = IF q = p /\ x = u THEN e ELSE LookupPage(ts, dir[q], x)
    BY DEF EntryBecomes
  <2>1. LookupPage(ts2, dir[q], x) = IF q = p /\ x = u THEN e ELSE LookupPage(ts1, dir[q], x)
    BY <1>6 DEF EntryBecomes
  <2>2. LookupPage(ts1, dir[q], x) = LookupPage(ts, dir[q], x)
    BY <1>3 DEF EntriesStay
  <2> QED  BY <2>1, <2>2
<1> QED  BY <1>6, <1>7

(* install_page() maps the page that p holds, if it does not fail *)
LEMMA Installs ==
    ASSUME SpaceInv, NEW p \in Process, at[p] \in {"install", "install stack"},
           NEW u \in Pages, NEW e \in [frame : Nat, w : BOOLEAN], e.frame = ld[p].kpage,
           NEW r, r = install_page(p, u, e), r # <<>>,
           NEW held2, held2 = [Helds EXCEPT ![p] = 0]
    PROVE  /\ Memory(r, Dirs, held2, frames)
           /\ EntryBecomes(tables, Dirs, r, p, u, e)
<1>1. /\ Helds[p] = ld[p].kpage /\ ld[p].kpage # 0 /\ Dirs[p] # 0 /\ pagedir[p] = Dirs[p]
      /\ Memory(tables, Dirs, Helds, frames)
  <2>1. ld[p].kpage # 0 /\ Memory(tables, Dirs, Helds, frames)
    BY DEF SpaceInv, LoadOK
  <2> QED  BY <2>1, LoadingDir DEF HeldBy, Loading
<1>2. PICK i, pt, new : /\ i = u \div TableSize /\ pt = tables[Dirs[p]][i]
                        /\ new = GetPage(DOMAIN tables, pools.kernel)
  OBVIOUS
<1>3. /\ LookupPage(tables, Dirs[p], u).frame = 0 /\ ~(pt = 0 /\ new = 0)
      /\ r = IF pt # 0 THEN EntrySet(tables, pt, u % TableSize, e)
             ELSE TableWith(tables, Dirs[p], i, new, u % TableSize, e)
  BY <1>1, <1>2 DEF install_page, EntrySet, TableWith
<1>4. new \in Nat /\ (new # 0 => new \notin DOMAIN tables)
  BY <1>2, GetsPage DEF SpaceInv, SpaceType
<1>5. CASE pt # 0
  <2>1. Memory(r, Dirs, held2, frames) /\ EntryBecomes(tables, Dirs, r, p, u, e)
    BY <1>1, <1>2, <1>3, <1>5, PageMapped
  <2> QED  BY <1>3, <2>1
<1>6. CASE pt = 0
  <2>1. Memory(r, Dirs, held2, frames) /\ EntryBecomes(tables, Dirs, r, p, u, e)
    <3>1. new \in Nat /\ new # 0 /\ new \notin DOMAIN tables
      BY <1>3, <1>4, <1>6
    <3>2. /\ Memory(tables, Dirs, Helds, frames) /\ Dirs[p] # 0 /\ LookupPage(tables, Dirs[p], u).frame = 0
          /\ e.frame = Helds[p] /\ Helds[p] # 0
          /\ i = u \div TableSize /\ tables[Dirs[p]][i] = 0
          /\ r = TableWith(tables, Dirs[p], i, new, u % TableSize, e)
      BY <1>1, <1>2, <1>3, <1>6
    <3> QED  BY <3>1, <3>2, PageMappedAnew
  <2> QED  BY <1>3, <2>1
<1> QED  BY <1>5, <1>6

(* setup_stack() *)
LEMMA StackStep ==
    ASSUME SpaceInv, NEW p \in Process, setup_stack(p), pools' = pools PROVE SpaceInv'
<1> DEFINE l == ld[p]
           d == Dirs[p]
           a2 == "push"
<1>1. /\ at[p] = "install stack" /\ curr = p
      /\ UNCHANGED <<curr, pagedir, dying, cr3, tlb, ld>>
  BY DEF setup_stack, AtPlace
<1>2. /\ l \in LoadState /\ at[p] \in Loading /\ d # 0 /\ Memory(tables, Dirs, Helds, frames)
      /\ LoadOK(tables, frames, d, at[p], l)
  BY <1>1, LoadingDir DEF SpaceInv, SpaceType, Loading
<1>3. PICK e : e = [frame |-> l.kpage, w |-> TRUE]
  OBVIOUS
<1>4. e \in [frame : Nat, w : BOOLEAN] /\ e.frame = l.kpage /\ StackPage \in Pages
  BY <1>2, <1>3, Sizes DEF LoadState, StackPage, Pages
<1>5. PICK r : r = install_page(p, StackPage, e)
  OBVIOUS
<1>6. CASE r = <<>>
  <2>1. frames' = Drop(frames, {l.kpage}) /\ MoveTo(p, "exit") /\ tables' = tables
    BY <1>3, <1>5, <1>6 DEF setup_stack
  <2> QED  BY <1>1, <2>1, GiveUpStep
<1>7. CASE r # <<>>
  <2>1. tables' = r /\ at' = [at EXCEPT ![p] = a2] /\ frames' = frames
    BY <1>3, <1>5, <1>7 DEF setup_stack, MoveTo
  <2>2. PICK held2 : held2 = [Helds EXCEPT ![p] = 0]
    OBVIOUS
  <2>3. /\ Memory(r, Dirs, held2, frames) /\ EntryBecomes(tables, Dirs, r, p, StackPage, e)
        /\ LookupPage(tables, d, StackPage).frame = 0
    <3>1. /\ at[p] \in {"install", "install stack"} /\ e.frame = ld[p].kpage
          /\ e \in [frame : Nat, w : BOOLEAN] /\ StackPage \in Pages
      BY <1>1, <1>4
    <3>2. /\ Memory(r, Dirs, held2, frames) /\ EntryBecomes(tables, Dirs, r, p, StackPage, e)
      BY <1>5, <1>7, <2>2, <3>1, Installs
    <3>3. LookupPage(tables, d, StackPage).frame = 0
      BY <1>1, <1>5, <1>7, LoadingDir DEF install_page, Loading
    <3> QED  BY <3>2, <3>3
  <2>4. PresentStay(tables') /\ FramesStay(p, frames')
    BY <2>1, <2>3 DEF PresentStay, FramesStay, EntryBecomes
  <2>5. PagesStay(tables, frames, tables', frames', d)
    BY <1>2, <2>4, MemoryStays
  <2>6. LoadOK(tables', frames', d, at[p], l)
    <3> HIDE DEF l, d
    <3> QED  BY <1>1, <1>2, <2>5, LoadKept
  <2>7. LoadOK(tables', frames', d, a2, l)
    BY <1>1, <2>6 DEF LoadOK, Loading
  <2>8. ld' = [ld EXCEPT ![p] = l] /\ a2 \in Loading \cup {"exit"} /\ HeldBy(a2, l) = 0
    BY <1>1 DEF SpaceInv, SpaceType, Loading, HeldBy
  <2>9. Memory(tables', Dirs, [Helds EXCEPT ![p] = HeldBy(a2, l)], frames')
    BY <2>1, <2>2, <2>3, <2>8
  <2> HIDE DEF l, a2
  <2> QED  BY <1>1, <1>2, <2>1, <2>4, <2>7, <2>8, <2>9, LoadStep
<1> QED  BY <1>6, <1>7

(* load_segment(): the loop variables after one page ... *)
LEMMA SegmentNext ==
    ASSUME NEW ph \in Elf32_Phdr, validate_segment(ph), NEW l \in LoadState, SegmentAt(l, ph),
           l.upage < EndPage(ph),
           NEW l2, l2 = [l EXCEPT !.read = @ - PageRead(l), !.zero = @ - (PGSIZE - PageRead(l)),
                                  !.pos = @ + PageRead(l), !.upage = @ + 1]
    PROVE  /\ l2 \in LoadState /\ l2.image = l.image /\ l2.hdr = l.hdr /\ l2.upage = l.upage + 1
           /\ SegmentAt(l2, ph)
<1>1. PICK e, x, here, end, n, P :
         /\ e = EndPage(ph) /\ x = e * PGSIZE /\ here = l.upage * PGSIZE
         /\ end = ph.vaddr + ph.filesz /\ n = PageRead(l) /\ P = PGSIZE
  OBVIOUS
<1>2. /\ e \in Nat /\ P \in Nat /\ P > 0 /\ l.upage \in Nat /\ l.read \in Nat /\ l.zero \in Nat
      /\ l.pos \in Nat /\ end \in Nat /\ ph.vaddr \in Nat /\ ph.filesz \in Nat /\ ph.offset \in Nat
      /\ n = IF l.read < P THEN l.read ELSE P
  <2>1. /\ ph.vaddr \in Nat /\ ph.filesz \in Nat /\ ph.offset \in Nat /\ e \in Nat
    BY <1>1, EndPages, ValidEnds
  <2>2. P \in Nat /\ P > 0 /\ n = IF l.read < P THEN l.read ELSE P
    BY <1>1, Sizes DEF PageRead
  <2>3. l.upage \in Nat /\ l.read \in Nat /\ l.zero \in Nat /\ l.pos \in Nat
    BY DEF LoadState
  <2>4. end \in Nat
    BY <1>1, <2>1
  <2> QED  BY <2>1, <2>2, <2>3, <2>4
<1>3. x \in Nat /\ here \in Nat /\ P * e = x /\ P * l.upage = here /\ (l.upage + 1) * P = here + P
      /\ P * (l.upage + 1) = here + P
  BY <1>1, <1>2
<1>4. here + P <= x
  <2>1. l.upage + 1 <= e
    BY <1>1, <1>2
  <2>2. P * (l.upage + 1) <= P * e
    <3>1. l.upage + 1 \in Nat
      BY <1>2
    <3> QED  BY <1>2, <2>1, <3>1, TimesUp
  <2> QED  BY <1>3, <2>2
<1>5. /\ l.read = IF ph.filesz > 0 /\ end > here THEN end - here ELSE 0
      /\ l.read + l.zero = x - here
      /\ l.read > 0 => l.pos = ph.offset + here - ph.vaddr
      /\ l.w = ph.w
  BY <1>1 DEF SegmentAt
<1>6. /\ n \in Nat /\ l.read - n \in Nat /\ l.zero - (P - n) \in Nat /\ l.pos + n \in Nat
      /\ l.upage + 1 \in Nat
  BY <1>2, <1>3, <1>4, <1>5
<1>7. /\ l2 \in LoadState /\ l2.image = l.image /\ l2.hdr = l.hdr /\ l2.upage = l.upage + 1
      /\ l2.read = l.read - n /\ l2.zero = l.zero - (P - n) /\ l2.pos = l.pos + n /\ l2.w = l.w
  BY <1>1, <1>6 DEF LoadState
<1>8. /\ l2.read = IF ph.filesz > 0 /\ end > here + P THEN end - (here + P) ELSE 0
      /\ l2.read + l2.zero = x - (here + P)
      /\ l2.read > 0 => l2.pos = ph.offset + (here + P) - ph.vaddr
  BY <1>2, <1>3, <1>5, <1>6, <1>7
<1>9. l2.upage <= e /\ l2.upage * P = here + P
  BY <1>1, <1>2, <1>3, <1>7
<1> QED  BY <1>1, <1>5, <1>7, <1>8, <1>9 DEF SegmentAt

(* ... and the bytes of that page *)
LEMMA LoadedNext ==
    ASSUME NEW ph \in Elf32_Phdr, validate_segment(ph), NEW l \in LoadState, SegmentAt(l, ph),
           NEW ts, NEW fr, NEW d, Loaded(ts, fr, d, ph, l.upage), l.upage \in Pages,
           LookupPage(ts, d, l.upage).frame = l.kpage, l.kpage # 0, Filled(fr, l)
    PROVE  Loaded(ts, fr, d, ph, l.upage + 1)
<1> SUFFICES ASSUME NEW a \in ph.vaddr .. ph.vaddr + ph.memsz - 1, a \div PGSIZE < l.upage + 1
             PROVE  /\ a \div PGSIZE \in Pages /\ LookupPage(ts, d, a \div PGSIZE).frame # 0
                    /\ ByteAt(ts, fr, d, a) = Expected(ph, a)
  BY DEF Loaded
<1>1. PICK here, end, n, P, u, i :
         /\ here = l.upage * PGSIZE /\ end = ph.vaddr + ph.filesz /\ n = PageRead(l)
         /\ P = PGSIZE /\ u = a \div PGSIZE /\ i = a % PGSIZE
  OBVIOUS
<1>2. /\ P \in Nat /\ P > 0 /\ l.upage \in Nat /\ l.read \in Nat /\ l.zero \in Nat
      /\ l.pos \in Nat /\ end \in Nat /\ ph.vaddr \in Nat /\ ph.filesz \in Nat /\ ph.offset \in Nat
      /\ ph.memsz \in Nat /\ n = IF l.read < P THEN l.read ELSE P
  <2>1. ph.vaddr \in Nat /\ ph.filesz \in Nat /\ ph.offset \in Nat /\ ph.memsz \in Nat
    BY ValidEnds
  <2>2. P \in Nat /\ P > 0 /\ n = IF l.read < P THEN l.read ELSE P
    BY <1>1, Sizes DEF PageRead
  <2>3. l.upage \in Nat /\ l.read \in Nat /\ l.zero \in Nat /\ l.pos \in Nat
    BY DEF LoadState
  <2>4. end \in Nat
    BY <1>1, <2>1
  <2> QED  BY <2>1, <2>2, <2>3, <2>4
<1>3. a \in Nat /\ ph.vaddr <= a
  BY <1>2
<1>4. u \in Nat /\ i \in 0 .. P - 1 /\ a = P * u + i
  BY <1>1, <1>2, <1>3, Quotient
<1>5. CASE u < l.upage
  BY <1>1, <1>5 DEF Loaded
<1>6. CASE ~(u < l.upage)
  <2>1. u = l.upage
    <3>1. u < l.upage + 1 /\ u \in Nat /\ l.upage \in Nat
      BY <1>1, <1>2, <1>4
    <3> QED  BY <1>6, <3>1
  <2>2. here \in Nat /\ a = here + i
    <3>1. l.upage * P = P * l.upage /\ l.upage * P \in Nat
      BY <1>2
    <3>2. here = P * u /\ here \in Nat
      BY <1>1, <2>1, <3>1
    <3> QED  BY <1>4, <3>2
  <2>3. /\ l.read = IF ph.filesz > 0 /\ end > here THEN end - here ELSE 0
        /\ l.read > 0 => l.pos = ph.offset + here - ph.vaddr
    BY <1>1 DEF SegmentAt
  <2>4. i < n <=> a < end
    BY <1>1, <1>2, <1>3, <1>4, <2>2, <2>3
  <2>5. a < end => l.pos + i = ph.offset + a - ph.vaddr
    <3>1. i \in Nat /\ i < P
      BY <1>2, <1>4
    <3>2. i < n => l.read > 0
      BY <1>2, <3>1
    <3> QED  BY <1>2, <2>2, <2>3, <2>4, <3>1, <3>2
  <2>6. ByteAt(ts, fr, d, a) = IF i < n THEN <<"file", l.pos + i>> ELSE 0
    <3>1. fr[l.kpage][i] = IF i < n THEN <<"file", l.pos + i>> ELSE 0
      BY <1>1, <1>4 DEF Filled
    <3> QED  BY <1>1, <2>1, <3>1 DEF ByteAt
  <2>7. Expected(ph, a) = IF a < end THEN <<"file", ph.offset + a - ph.vaddr>> ELSE 0
    BY <1>1 DEF Expected
  <2>8. ByteAt(ts, fr, d, a) = Expected(ph, a)
    BY <2>4, <2>5, <2>6, <2>7
  <2> QED  BY <1>1, <2>1, <2>8
<1> QED  BY <1>5, <1>6

(* load_segment() maps the page and goes on *)
LEMMA InstallStep ==
    ASSUME SpaceInv, NEW p \in Process, InstallSegment(p), pools' = pools PROVE SpaceInv'
<1> DEFINE l == ld[p]
           d == Dirs[p]
           a2 == "segment"
           ph == l.image[l.hdr]
           u == l.upage
<1>1. /\ at[p] = "install" /\ curr = p
      /\ UNCHANGED <<curr, pagedir, dying, cr3, tlb>>
  BY DEF InstallSegment, AtPlace
<1>2. /\ l \in LoadState /\ at[p] \in Loading /\ d # 0 /\ Memory(tables, Dirs, Helds, frames)
      /\ LoadOK(tables, frames, d, at[p], l)
  BY <1>1, LoadingDir DEF SpaceInv, SpaceType, Loading
<1>3. /\ l.image \in Images /\ l.hdr \in 1 .. Len(l.image) + 1 /\ l.hdr <= Len(l.image)
      /\ validate_segment(ph) /\ SegmentAt(l, ph) /\ l.upage < EndPage(ph) /\ l.kpage # 0
      /\ Filled(frames, l)
  BY <1>1, <1>2 DEF LoadOK, Loading
<1>4. ph \in Elf32_Phdr
  <2>1. Len(l.image) \in Nat /\ DOMAIN l.image = 1 .. Len(l.image)
    BY <1>3, SpacesAssumption
  <2>2. l.hdr \in DOMAIN l.image
    BY <1>3, <2>1
  <2> QED  BY <1>3, <2>2, Segments
<1>5. u \in Pages
  <2>1. EndPage(ph) \in Nat /\ EndPage(ph) <= UserPages /\ UserPages \in Nat /\ u \in Nat
    BY <1>2, <1>3, <1>4, EndPages, Sizes DEF LoadState
  <2> HIDE DEF u, ph
  <2>2. u < EndPage(ph)
    BY <1>3 DEF u
  <2> QED  BY <2>1, <2>2 DEF Pages
<1>6. PICK e : e = [frame |-> l.kpage, w |-> l.w]
  OBVIOUS
<1>7. e \in [frame : Nat, w : BOOLEAN] /\ e.frame = l.kpage
  BY <1>2, <1>6 DEF LoadState
<1>8. PICK r : r = install_page(p, u, e)
  OBVIOUS
<1>9. CASE r = <<>>
  <2>1. frames' = Drop(frames, {l.kpage}) /\ MoveTo(p, "exit") /\ tables' = tables /\ ld' = ld
    BY <1>6, <1>8, <1>9 DEF InstallSegment
  <2> QED  BY <1>1, <2>1, GiveUpStep
<1>10. CASE r # <<>>
  <2>1. PICK l2 : l2 = [l EXCEPT !.read = @ - PageRead(l), !.zero = @ - (PGSIZE - PageRead(l)),
                                 !.pos = @ + PageRead(l), !.upage = @ + 1]
    OBVIOUS
  <2>2. tables' = r /\ at' = [at EXCEPT ![p] = a2] /\ frames' = frames
    BY <1>6, <1>8, <1>10 DEF InstallSegment, MoveTo
  <2>3. ld' = [ld EXCEPT ![p] = l2]
    <3>1. ld' = [ld EXCEPT ![p].read = @ - PageRead(l),
                           ![p].zero = @ - (PGSIZE - PageRead(l)),
                           ![p].pos = @ + PageRead(l), ![p].upage = @ + 1]
      BY <1>6, <1>8, <1>10 DEF InstallSegment
    <3>2. ld \in [Process -> LoadState]
      BY DEF SpaceInv, SpaceType
    <3> QED  BY <2>1, <3>1, <3>2 DEF LoadState
  <2>4. /\ l2 \in LoadState /\ l2.image = l.image /\ l2.hdr = l.hdr /\ l2.upage = u + 1
        /\ SegmentAt(l2, ph)
    <3> HIDE DEF l, ph
    <3> QED  BY <1>2, <1>3, <1>4, <2>1, SegmentNext
  <2>5. PICK held2 : held2 = [Helds EXCEPT ![p] = 0]
    OBVIOUS
  <2>6. /\ Memory(r, Dirs, held2, frames) /\ EntryBecomes(tables, Dirs, r, p, u, e)
        /\ LookupPage(tables, d, u).frame = 0
    <3>1. /\ at[p] \in {"install", "install stack"} /\ e.frame = ld[p].kpage
          /\ e \in [frame : Nat, w : BOOLEAN] /\ u \in Pages /\ r = install_page(p, u, e)
      BY <1>1, <1>5, <1>7, <1>8
    <3> HIDE DEF u
    <3>2. /\ Memory(r, Dirs, held2, frames) /\ EntryBecomes(tables, Dirs, r, p, u, e)
      BY <1>10, <2>5, <3>1, Installs
    <3>3. LookupPage(tables, d, u).frame = 0
      BY <1>1, <1>8, <1>10, LoadingDir DEF install_page, Loading
    <3> QED  BY <3>2, <3>3
  <2>7. PresentStay(tables') /\ FramesStay(p, frames')
    BY <2>2, <2>6 DEF PresentStay, FramesStay, EntryBecomes
  <2>8. PagesStay(tables, frames, tables', frames', d)
    BY <1>2, <2>7, MemoryStays
  <2>9. LoadOK(tables', frames', d, at[p], l)
    <3>1. frames'[l.kpage] = frames[l.kpage]
      BY <2>2
    <3> HIDE DEF l, d
    <3> QED  BY <1>2, <2>8, <3>1, LoadKept
  <2>10. LookupPage(tables', d, u) = e
    BY <1>2, <1>5, <2>2, <2>6 DEF EntryBecomes
  <2>11. Loaded(tables', frames', d, ph, u + 1)
    <3>1. Loaded(tables', frames', d, ph, u)
      BY <1>1, <2>9 DEF LoadOK
    <3>2. Filled(frames', l) /\ LookupPage(tables', d, u).frame = l.kpage
      BY <1>3, <1>7, <2>2, <2>10 DEF Filled
    <3> HIDE DEF l, ph, d
    <3> QED  BY <1>2, <1>3, <1>4, <1>5, <3>1, <3>2, LoadedNext DEF u
  <2>12. LoadOK(tables', frames', d, a2, l2)
    BY <1>1, <1>3, <2>4, <2>9, <2>11 DEF LoadOK, Loading
  <2>13. a2 \in Loading \cup {"exit"} /\ HeldBy(a2, l2) = 0
    BY DEF Loading, HeldBy
  <2>14. Memory(tables', Dirs, [Helds EXCEPT ![p] = HeldBy(a2, l2)], frames')
    BY <2>2, <2>5, <2>6, <2>13
  <2> HIDE DEF l, a2
  <2> QED  BY <1>1, <1>2, <2>2, <2>3, <2>4, <2>7, <2>12, <2>13, <2>14, LoadStep
<1> QED  BY <1>9, <1>10

-----------------------------------------------------------------------------
(* at the start no page is in use *)
LEMMA NothingOccupied ==
    ASSUME NEW X, NEW m, m = [x \in X |-> 0], NEW D, D = {}
    PROVE  Occupied(m, X, D)
BY DEF Occupied

(* nothing is in use at the start *)
LEMMA SpaceStart == SpaceInit => SpaceInv
<1> SUFFICES ASSUME SpaceInit PROVE SpaceInv
  OBVIOUS
<1>1. /\ pools \in PoolSizes /\ at = [p \in Process |-> "new"]
      /\ pagedir = [p \in Process |-> 0] /\ dying = [p \in Process |-> 0]
      /\ tables = [k \in {} |-> <<>>] /\ frames = [f \in {} |-> <<>>]
      /\ cr3 = 0 /\ tlb = {} /\ ld = [p \in Process |-> NoLoad]
      /\ curr = CHOOSE p \in Process : TRUE
  BY DEF SpaceInit
<1>2. curr \in Process
  <2>1. \E p \in Process : TRUE
    BY SpacesAssumption
  <2> QED  BY <1>1, <2>1
<1>3. SpaceType
  <2>1. NoLoad \in LoadState
    BY DEF NoLoad, LoadState
  <2>2. "new" \in Stages
    BY DEF Stages, Before
  <2>3. pools \in [kernel : Nat, user : Nat]
    BY <1>1, SpacesAssumption
  <2> HIDE DEF NoLoad
  <2> QED  BY <1>1, <1>2, <2>1, <2>2, <2>3 DEF SpaceType
<1>4. CpuOK
  BY <1>1 DEF CpuOK
<1>5. Dirs = [p \in Process |-> 0] /\ Helds = [p \in Process |-> 0]
  BY <1>1 DEF Dirs, Helds, DirOf, HeldBy
<1>6. Memory(tables, Dirs, Helds, frames)
  <2>1. DOMAIN tables = {} /\ DOMAIN frames = {}
    BY <1>1
  <2>2. \A p \in Process : Dirs[p] = 0 /\ Helds[p] = 0
    BY <1>5
  <2>3. Shapes(tables, Dirs)
    BY <2>2 DEF Shapes, KPage
  <2>4. \A p \in Process : \A i : KPage(tables, Dirs[p], i) = 0
    BY <2>2 DEF KPage
  <2>5. KMap(tables, Dirs) = [x \in KSlots |-> 0]
    BY <2>4 DEF KMap, KSlots
  <2>6. \A p \in Process : \A i, s : FPage(tables, Dirs[p], Helds[p], i, s) = 0
    BY <2>2, <2>4 DEF FPage, Leaf
  <2>7. FMap(tables, Dirs, Helds) = [y \in FSlots |-> 0]
    BY <2>6 DEF FMap, FSlots
  <2>8. /\ Occupied(KMap(tables, Dirs), KSlots, DOMAIN tables)
        /\ Occupied(FMap(tables, Dirs, Helds), FSlots, DOMAIN frames)
    BY <2>1, <2>5, <2>7, NothingOccupied
  <2>9. Dirs \in [Process -> Nat] /\ Helds \in [Process -> Nat]
    BY <1>5
  <2> QED  BY <2>3, <2>8, <2>9 DEF Memory
<1>7. \A p \in Process : Life(at[p], pagedir[p], dying[p])
  BY <1>1 DEF Life, Stages, Before, After
<1>8. \A p \in Process : LoadOK(tables, frames, Dirs[p], at[p], ld[p])
  BY <1>1 DEF LoadOK, Loading
<1> QED  BY <1>3, <1>4, <1>6, <1>7, <1>8 DEF SpaceInv

(* every step of the system *)
LEMMA SpaceStep == SpaceInv /\ [SpaceNext]_spaceVars => SpaceInv'
<1> SUFFICES ASSUME SpaceInv, [SpaceNext]_spaceVars PROVE SpaceInv'
  OBVIOUS
<1>1. ASSUME NEW p \in Process, KernelStep(p), pools' = pools PROVE SpaceInv'
  BY <1>1, CreateStep, ActivateStep, OpenStep, HeaderStep, AllocStep, FillStep, InstallStep,
     StackStep, PushStep, ExitStep, ExitActivateStep, DestroyStep DEF KernelStep
<1>2. ASSUME NEW p \in Process, SwitchTo(p) \/ UserExit(p), pools' = pools PROVE SpaceInv'
  BY <1>2, SwitchStep, UserExitStep
<1>3. ASSUME NEW p \in Process, NEW u \in 0 .. UserPages - 1, NEW w \in BOOLEAN,
             UserAccess(p, u, w) \/ page_fault(p, u, w), pools' = pools
      PROVE  SpaceInv'
  <2>1. u \in Pages
    BY DEF Pages
  <2> QED  BY <1>3, <2>1, UserAccessStep, FaultStep
<1>4. ASSUME UNCHANGED spaceVars PROVE SpaceInv'
  <2>1. Dirs' = Dirs /\ Helds' = Helds
    BY <1>4 DEF spaceVars, Dirs, Helds
  <2>2. SpaceType' /\ CpuOK'
    BY <1>4, <2>1 DEF spaceVars, SpaceInv, SpaceType, CpuOK
  <2> QED  BY <1>4, <2>1, <2>2 DEF spaceVars, SpaceInv
<1> QED  BY <1>1, <1>2, <1>3, <1>4 DEF SpaceNext

-----------------------------------------------------------------------------
(* The invariant implies SpacesApart. *)

(* a map of a finite set that is one to one has as many values *)
LEMMA AsMany ==
    ASSUME NEW S, IsFiniteSet(S), NEW T, NEW g \in [S -> T],
           \A x, y \in S : g[x] = g[y] => x = y,
           \A t \in T : \E x \in S : g[x] = t
    PROVE  Cardinality(T) = Cardinality(S)
<1>1. g \in Bijection(S, T)
  BY DEF Bijection, Injection, Surjection, IsInjective
<1>2. ExistsBijection(S, T)
  BY <1>1 DEF ExistsBijection
<1> QED  BY <1>2, FS_Bijection

(* the pages that are present below p's page directory, and Mappings *)
Present(d) == {u \in Pages : LookupPage(tables, d, u).frame # 0}
MapOf(d, u) == [upage |-> u, entry |-> LookupPage(tables, d, u)]

(* the mappings that SpacesApart speaks of are the entries that are present *)
LEMMA MappingsAre ==
    ASSUME SpaceInv, NEW p \in Process, Dirs[p] # 0
    PROVE  Mappings(Dirs[p]) = {MapOf(Dirs[p], u) : u \in Present(Dirs[p])}
<1> DEFINE d == Dirs[p]
<1>1. ASSUME NEW u \in Pages PROVE LookupPage(tables, d, u).frame = 0 <=> LookupPage(tables, d, u) = NotPresent
  <2>1. LookupPage(tables, d, u) \in PageEntry
    BY EntryPlaces DEF SpaceInv
  <2>2. NotPresent.frame = 0
    BY DEF NotPresent
  <2> HIDE DEF d
  <2>3. LookupPage(tables, d, u).frame = 0 => LookupPage(tables, d, u) = NotPresent
    BY <2>1 DEF PageEntry
  <2> QED  BY <2>2, <2>3
<1> HIDE DEF d
<1>2. ASSUME NEW u \in Pages
      PROVE  MapOf(d, u) \in {[upage |-> v, entry |-> NotPresent] : v \in Pages} <=>
                LookupPage(tables, d, u) = NotPresent
  BY DEF MapOf
<1>3. Mappings(d) = {MapOf(d, u) : u \in Pages} \ {[upage |-> v, entry |-> NotPresent] : v \in Pages}
  BY DEF Mappings, MapOf, Pages
<1> QED  BY <1>1, <1>2, <1>3 DEF Present, d

(* no page is mapped twice in one address space: the count is that of the
   entries *)
LEMMA FramesAre ==
    ASSUME SpaceInv, NEW p \in Process, Dirs[p] # 0
    PROVE  /\ FramesOf(Dirs[p]) = {LookupPage(tables, Dirs[p], u).frame : u \in Present(Dirs[p])}
           /\ Cardinality(FramesOf(Dirs[p])) = Cardinality(Mappings(Dirs[p]))
<1> DEFINE d == Dirs[p]
           S == Present(d)
           M == {MapOf(d, u) : u \in S}
           F == {LookupPage(tables, d, u).frame : u \in S}
<1>1. Mappings(d) = M
  BY MappingsAre
<1>2. \A u : MapOf(d, u).upage = u /\ MapOf(d, u).entry = LookupPage(tables, d, u)
  BY DEF MapOf
<1>3. FramesOf(d) = F
  <2> HIDE DEF d, S
  <2> QED  BY <1>1, <1>2 DEF FramesOf
<1>4. IsFiniteSet(S)
  <2>1. UserPages - 1 \in Int
    BY Sizes
  <2>2. IsFiniteSet(Pages)
    BY <2>1, FS_Interval DEF Pages
  <2>3. S \in SUBSET Pages
    BY DEF Present
  <2> HIDE DEF S
  <2> QED  BY <2>2, <2>3, FS_Subset
<1>5. Cardinality(M) = Cardinality(S)
  <2> DEFINE g == [u \in S |-> MapOf(d, u)]
  <2>1. g \in [S -> M] /\ \A t \in M : \E x \in S : g[x] = t
    <3> HIDE DEF S, d
    <3> QED  OBVIOUS
  <2>2. \A x, y \in S : g[x] = g[y] => x = y
    <3> HIDE DEF S, d
    <3> QED  BY <1>2
  <2> HIDE DEF g, S, M
  <2> QED  BY <1>4, <2>1, <2>2, AsMany
<1>6. Cardinality(F) = Cardinality(S)
  <2> DEFINE g == [u \in S |-> LookupPage(tables, d, u).frame]
  <2>1. g \in [S -> F] /\ \A t \in F : \E x \in S : g[x] = t
    <3> HIDE DEF S, d
    <3> QED  OBVIOUS
  <2>2. ASSUME NEW x \in S, NEW y \in S, g[x] = g[y] PROVE x = y
    <3>1. x \in Pages /\ y \in Pages /\ LookupPage(tables, d, x).frame # 0
          /\ LookupPage(tables, d, y).frame = LookupPage(tables, d, x).frame
      BY <2>2 DEF Present
    <3>2. Memory(tables, Dirs, Helds, frames)
      BY DEF SpaceInv
    <3> QED  BY <3>1, <3>2, EntryPlaces
  <2> HIDE DEF g, S, F
  <2> QED  BY <1>4, <2>1, <2>2, AsMany
<1> QED  BY <1>1, <1>3, <1>5, <1>6

(* the processor *)
LEMMA CpuApart ==
    ASSUME SpaceInv
    PROVE  /\ cr3 # 0 => cr3 \in DOMAIN tables
           /\ cr3 \in {0, pagedir[curr]} \/ at[curr] = "base"
           /\ tlb # {} => cr3 # 0 /\ tlb \subseteq Mappings(cr3)
<1>1. curr \in Process /\ Memory(tables, Dirs, Helds, frames)
      /\ (cr3 # 0 => cr3 = Dirs[curr] /\ at[curr] # "destroy")
  BY DEF SpaceInv, SpaceType, CpuOK
<1>2. cr3 # 0 => cr3 \in DOMAIN tables
  BY <1>1, KernelPages
<1>3. cr3 \in {0, pagedir[curr]} \/ at[curr] = "base"
  BY <1>1, LoadingDir DEF DirOf
<1>4. ASSUME NEW c \in tlb PROVE cr3 # 0 /\ c \in Mappings(cr3)
  <2>1. cr3 # 0 /\ Mapped(tables, cr3, c)
    BY DEF SpaceInv, CpuOK
  <2>2. PICK u \in Pages : LookupPage(tables, cr3, u).frame # 0 /\ c = MapOf(cr3, u)
    BY <2>1 DEF Mapped, MapOf
  <2>3. Mappings(cr3) = {MapOf(cr3, v) : v \in Present(cr3)}
    BY <1>1, <2>1, MappingsAre
  <2> QED  BY <2>1, <2>2, <2>3 DEF Present
<1> QED  BY <1>2, <1>3, <1>4

(* the pages of two processes, and the bytes of a program that is loaded *)
LEMMA LiveDir ==
    ASSUME SpaceInv, NEW p \in Live
    PROVE  p \in Process /\ Dirs[p] = pagedir[p] /\ Dirs[p] # 0
<1>1. p \in Process /\ pagedir[p] # 0
  BY DEF Live
<1>2. Life(at[p], pagedir[p], dying[p]) /\ Dirs[p] = DirOf(at[p], pagedir[p], dying[p])
  BY <1>1, LoadingDir
<1> QED  BY <1>1, <1>2 DEF Life, DirOf, After

(* no page is mapped in two address spaces, or free while it is mapped *)
LEMMA PagesApart ==
    ASSUME SpaceInv, NEW p \in Live
    PROVE  /\ pagedir[p] \in DOMAIN tables /\ FramesOf(pagedir[p]) \subseteq DOMAIN frames
           /\ \A q \in Live \ {p} : FramesOf(pagedir[p]) \cap FramesOf(pagedir[q]) = {}
<1>1. p \in Process /\ Dirs[p] = pagedir[p] /\ Dirs[p] # 0
  BY LiveDir
<1>2. Memory(tables, Dirs, Helds, frames)
  BY DEF SpaceInv
<1>3. pagedir[p] \in DOMAIN tables
  BY <1>1, <1>2, KernelPages
<1>4. \A q \in Live : FramesOf(pagedir[q]) = {LookupPage(tables, Dirs[q], u).frame : u \in Present(Dirs[q])}
  BY LiveDir, FramesAre
<1>5. ASSUME NEW f \in FramesOf(pagedir[p]) PROVE f \in DOMAIN frames
  <2>1. PICK u \in Pages : LookupPage(tables, Dirs[p], u).frame = f /\ f # 0
    BY <1>4, <1>5 DEF Present
  <2> QED  BY <1>1, <1>2, <2>1, EntryPlaces
<1>6. ASSUME NEW q \in Live, q # p, NEW f \in FramesOf(pagedir[p]), f \in FramesOf(pagedir[q])
      PROVE  FALSE
  <2>1. PICK u \in Pages : LookupPage(tables, Dirs[p], u).frame = f /\ f # 0
    BY <1>4, <1>6 DEF Present
  <2>2. PICK v \in Pages : LookupPage(tables, Dirs[q], v).frame = f
    BY <1>4, <1>6 DEF Present
  <2>3. q \in Process /\ Dirs[q] # 0
    BY LiveDir
  <2> QED  BY <1>1, <1>2, <1>6, <2>1, <2>2, <2>3, EntryPlaces
<1> QED  BY <1>3, <1>5, <1>6

(* what push_command() finds is what the executable says *)
LEMMA ProgramLoaded ==
    ASSUME SpaceInv, NEW p \in Live, at[p] = "push", NEW i \in DOMAIN ld[p].image,
           NEW ph, ph = ld[p].image[i], ph.type = "PT_LOAD",
           NEW a \in ph.vaddr .. ph.vaddr + ph.memsz - 1
    PROVE  Byte(pagedir[p], a) = Expected(ph, a)
<1> DEFINE l == ld[p]
<1>1. p \in Process /\ Dirs[p] = pagedir[p] /\ Dirs[p] # 0
  BY LiveDir
<1>2. LoadOK(tables, frames, Dirs[p], "push", l)
  BY <1>1 DEF SpaceInv
<1>3. /\ l.image \in Images /\ l.hdr = Len(l.image) + 1
      /\ \A j \in DOMAIN l.image :
            j < l.hdr /\ l.image[j].type = "PT_LOAD" =>
               Loaded(tables, frames, Dirs[p], l.image[j], UserPages) /\ validate_segment(l.image[j])
  BY <1>2 DEF LoadOK, Loading
<1>4. Len(l.image) \in Nat /\ DOMAIN l.image = 1 .. Len(l.image)
  BY <1>3, SpacesAssumption
<1>5. i < l.hdr
  BY <1>3, <1>4
<1>6. Loaded(tables, frames, Dirs[p], ph, UserPages) /\ validate_segment(ph) /\ ph \in Elf32_Phdr
  BY <1>3, <1>5, Segments
<1>7. a \in Nat /\ a < UserPages * PGSIZE
  <2>1. ph.vaddr \in Nat /\ ph.memsz \in Nat /\ ph.vaddr + ph.memsz < PHYS_BASE
        /\ PHYS_BASE \in Nat /\ PHYS_BASE = UserPages * PGSIZE
    BY <1>6, ValidEnds, Sizes
  <2>2. a \in Nat /\ a < PHYS_BASE
    BY <2>1
  <2> QED  BY <2>1, <2>2
<1>8. a \div PGSIZE < UserPages
  BY <1>7, Sizes, QuotientBelow
<1>9. ByteAt(tables, frames, Dirs[p], a) = Expected(ph, a)
  BY <1>6, <1>8 DEF Loaded
<1> QED  BY <1>1, <1>9 DEF Byte, ByteAt

(* nothing is left when everyone is dead *)
LEMMA NothingLeft ==
    ASSUME SpaceInv, \A p \in Process : at[p] = "dead"
    PROVE  DOMAIN tables = {} /\ DOMAIN frames = {}
<1>1. Memory(tables, Dirs, Helds, frames)
  BY DEF SpaceInv
<1>2. \A p \in Process : Dirs[p] = 0 /\ Helds[p] = 0
  BY LoadingDir DEF DirOf, HeldBy, Life, Before
<1>3. \A p \in Process : \A i : KPage(tables, Dirs[p], i) = 0
  BY <1>2 DEF KPage
<1>4. \A p \in Process : \A i, s : FPage(tables, Dirs[p], Helds[p], i, s) = 0
  BY <1>2, <1>3 DEF FPage, Leaf
<1>5. \A x \in KSlots : KMap(tables, Dirs)[x] = 0
  BY <1>3 DEF KMap, KSlots
<1>6. \A y \in FSlots : FMap(tables, Dirs, Helds)[y] = 0
  BY <1>4 DEF FMap, FSlots
<1>7. /\ Occupied(KMap(tables, Dirs), KSlots, DOMAIN tables)
      /\ Occupied(FMap(tables, Dirs, Helds), FSlots, DOMAIN frames)
  BY <1>1 DEF Memory
<1> QED  BY <1>5, <1>6, <1>7 DEF Occupied

(* the inductive invariant is strong enough *)
LEMMA SpacesFollow == SpaceInv => SpacesApart
<1> SUFFICES ASSUME SpaceInv PROVE SpacesApart
  OBVIOUS
<1>1. ASSUME NEW p \in Live
      PROVE  Cardinality(FramesOf(pagedir[p])) = Cardinality(Mappings(pagedir[p]))
  <2>1. p \in Process /\ Dirs[p] = pagedir[p] /\ Dirs[p] # 0
    BY LiveDir
  <2>2. Cardinality(FramesOf(Dirs[p])) = Cardinality(Mappings(Dirs[p]))
    BY <2>1, FramesAre
  <2> QED  BY <2>1, <2>2
<1>2. ASSUME NEW p \in Live, at[p] = "push", NEW i \in DOMAIN ld[p].image
      PROVE  LET ph == ld[p].image[i] IN
             ph.type = "PT_LOAD" =>
                \A a \in ph.vaddr .. ph.vaddr + ph.memsz - 1 :
                   Byte(pagedir[p], a) = IF a < ph.vaddr + ph.filesz
                                         THEN <<"file", ph.offset + a - ph.vaddr>>
                                         ELSE 0
  BY <1>2, ProgramLoaded DEF Expected
<1> QED  BY <1>1, <1>2, CpuApart, PagesApart, NothingLeft DEF SpacesApart

(* Each process has its memory to itself: the theorem of the invariant      *)
(* SpacesApart, for every number of pages, processes and executables.       *)
THEOREM SpacesCorrect == SpaceSpec => []SpacesApart
<1>1. SpaceInit => SpaceInv
  BY SpaceStart
<1>2. SpaceInv /\ [SpaceNext]_spaceVars => SpaceInv'
  BY SpaceStep
<1>3. SpaceInv => SpacesApart
  BY SpacesFollow
<1> QED  BY <1>1, <1>2, <1>3, PTL DEF SpaceSpec
=============================================================================
