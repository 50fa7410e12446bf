----------------------------- MODULE HeapProofs -----------------------------
(***************************************************************************)
(* Proofs about the allocators of Lab 3, for any threads, descriptors,     *)
(* blocks of an arena and pages, and any number of calls: the blocks and   *)
(* pages that threads have are apart, safe and marked as used, and none is *)
(* lost or counted twice, although pages are given back without the lock   *)
(* of the pool (HeapCorrect).                                              *)
(*                                                                         *)
(* The inductive invariant gives each page to a claim (a thread is about   *)
(* to use it or is giving it back), an arena or a big block (World), each  *)
(* block of an arena to a thread's hands or to the free list, and each     *)
(* lock to its holder (LocksOK), and says what a call has found out so far *)
(* that other threads cannot undo (CallOK).                                *)
(***************************************************************************)
EXTENDS Heap, FiniteSetTheorems, SequenceTheorems, WellFoundedInduction, TLAPS

(* the allocator by itself, as Machine runs it *)
HeapSpec == HeapInit /\ [][HeapNext]_heapVars

(* the pages each thread has taken or is giving back, the block it is      *)
(* giving back, and that one with the blocks it has                        *)
ClaimOf(c) == IF c.at \in {"arena", "clear", "reset"} THEN c.scan .. c.scan + c.cnt - 1 ELSE {}
HandOf(c, own) == IF c.at = "put" THEN own \cup {c.old} ELSE own
Claims == [t \in HThread |-> ClaimOf(call[t])]
Hands == [t \in HThread |-> HandOf(call[t], owned[t])]

(* the pages of block b, whether a page is claimed, a block in no hands *)
Region(ar, b) == IF b[2] = 0 THEN b[1] .. b[1] + ar[b[1]].free_cnt - 1 ELSE {b[1]}
Claimed(cl, p) == \E t \in HThread : p \in cl[t]
Loose(has, b) == \A t \in HThread : b \notin has[t]

Header == [desc : {-1, Big} \cup Classes, free_cnt : Nat]

WorldType(cl, has, own, used, ar, fl, mk) ==
    /\ cl \in [HThread -> SUBSET PageNo] /\ used \subseteq PageNo
    /\ has \in [HThread -> SUBSET (PageNo \X Index)]
    /\ own \in [HThread -> SUBSET (PageNo \X Index)]
    /\ ar \in [PageNo -> Header]
    /\ fl \in [Classes -> Seq(PageNo \X Index)]
    /\ mk \in [PageNo -> [Index -> HThread \cup {"poison"}]]

(* claims are on used pages, no two on the same *)
ClaimsOK(cl, used) ==
    /\ \A t \in HThread : \A p \in cl[t] : p \in used
    /\ \A t, u \in HThread : \A p \in cl[t] : p \in cl[u] => t = u

(* a block is on used pages that nobody claims, and their headers fit *)
BlockOK(cl, used, ar, b) ==
    /\ b \in PageNo \X Index
    /\ \A p \in Region(ar, b) : p \in used /\ ~Claimed(cl, p)
    /\ b[2] = 0 => /\ ar[b[1]].desc = Big /\ ar[b[1]].free_cnt >= 1
                   /\ \A p \in Region(ar, b) : p # b[1] => ar[p].desc = -1
    /\ b[2] # 0 => ar[b[1]].desc \in Classes /\ b[2] \in 1 .. BlocksPerArena[ar[b[1]].desc]

(* no block is in two hands *)
HandsOK(cl, has, own, used, ar) ==
    /\ \A t \in HThread : \A b \in has[t] : BlockOK(cl, used, ar, b)
    /\ \A t, u \in HThread : \A b \in has[t] : b \in has[u] => t = u
    /\ \A t \in HThread : \A b \in own[t] : b \in has[t]

(* a page is used if and only if it is an arena, claimed or in a big block *)
InBig(has, ar, p) == \E t \in HThread : \E b \in has[t] : b[2] = 0 /\ p \in Region(ar, b)
UsedOK(cl, has, used, ar) ==
    /\ \A p \in PageNo : ar[p].desc # -1 => p \in used
    /\ \A p \in used : ar[p].desc \in Classes \/ Claimed(cl, p) \/ InBig(has, ar, p)

(* the blocks that belong in the free list of d *)
Free(cl, has, ar, d, b) ==
    /\ b[2] \in 1 .. BlocksPerArena[d] /\ ar[b[1]].desc = d
    /\ ~Claimed(cl, b[1]) /\ Loose(has, b)

Lists(l, b) == \E i \in 1 .. Len(l) : l[i] = b
NoRepeats(l) == \A i, j \in 1 .. Len(l) : l[i] = l[j] => i = j

ListOK(cl, has, ar, l, d) ==
    /\ NoRepeats(l)
    /\ \A b \in PageNo \X Index : Lists(l, b) <=> Free(cl, has, ar, d, b)

(* the free blocks of page p, an arena of d *)
FreeIn(has, d, p) == {b \in {p} \X (1 .. BlocksPerArena[d]) : Loose(has, b)}

CountOK(cl, has, ar, p) ==
    ar[p].desc \in Classes /\ ~Claimed(cl, p) =>
       ar[p].free_cnt = Cardinality(FreeIn(has, ar[p].desc, p))

(* an arena that nobody claims is of use to somebody *)
BusyOK(cl, has, ar, p) ==
    ar[p].desc \in Classes /\ ~Claimed(cl, p) => \E t \in HThread : \E b \in has[t] : b[1] = p

MarksOK(own, ar, mk) ==
    \A t \in HThread : \A b \in own[t] : \A p \in Region(ar, b) : mk[p][b[2]] = t

World(cl, has, own, used, ar, fl, mk) ==
    /\ WorldType(cl, has, own, used, ar, fl, mk)
    /\ ClaimsOK(cl, used) /\ HandsOK(cl, has, own, used, ar) /\ UsedOK(cl, has, used, ar)
    /\ \A d \in Classes : ListOK(cl, has, ar, fl[d], d)
    /\ \A p \in PageNo : CountOK(cl, has, ar, p)
    /\ MarksOK(own, ar, mk)

-----------------------------------------------------------------------------
Holding == {"palloc", "scan", "flip", "nomem", "arena", "clear", "reset"}
Places == {"idle", "desc", "free", "put"} \cup Holding

HeapCall == [at : Places, desc : {Big} \cup Classes, cnt : Nat \ {0}, scan : Nat,
             old : {<<>>} \cup (PageNo \X Index)]

HeapType ==
    /\ pool_lock \in BOOLEAN /\ desc_lock \in [Classes -> BOOLEAN]
    /\ call \in [HThread -> HeapCall]
    /\ heap_panic = FALSE

(* who holds which lock *)
LocksOK ==
    /\ \A t \in HThread : call[t].at \in {"scan", "flip"} => pool_lock = TRUE
    /\ \A t, u \in HThread :
          call[t].at \in {"scan", "flip"} /\ call[u].at \in {"scan", "flip"} => t = u
    /\ \A t \in HThread : call[t].at \in Holding /\ call[t].desc # Big =>
          desc_lock[call[t].desc] = TRUE
    /\ \A t, u \in HThread :
          (/\ call[t].at \in Holding /\ call[u].at \in Holding
           /\ call[t].desc # Big /\ call[t].desc = call[u].desc) => t = u

(* what a call knows of the pages and the block it is about *)
CallOK(c, own, used, ar, fl) ==
    /\ c.at \in {"desc", "put"} => c.desc # Big
    /\ c.desc # Big => c.cnt = 1
    /\ c.at \in {"palloc", "scan", "flip", "arena"} /\ c.desc # Big => fl[c.desc] = <<>>
    /\ c.at = "flip" => \A p \in c.scan .. c.scan + c.cnt - 1 : p \in PageNo /\ p \notin used
    /\ c.at \in {"arena", "clear", "reset"} =>
          \A p \in c.scan .. c.scan + c.cnt - 1 :
             /\ p \in PageNo
             /\ c.at = "clear" /\ ar[p].desc # Big /\ ar[p].desc # -1 => c.desc = ar[p].desc
             /\ c.at # "clear" => ar[p].desc = -1
    /\ c.at = "put" => /\ c.old \notin own /\ c.old # <<>> /\ c.old[2] # 0
                       /\ c.desc = ar[c.old[1]].desc /\ c.scan = c.old[1]
    /\ c.at = "free" => c.old \in own
    /\ c.at \in {"desc", "palloc", "scan", "flip", "nomem", "arena"} =>
          c.old = <<>> \/ c.old \in own

HeapInv ==
    /\ HeapType /\ LocksOK
    /\ \A t \in HThread : CallOK(call[t], owned[t], used_map, arena, free_list)
    /\ World(Claims, Hands, owned, used_map, arena, free_list, mark)
    /\ \A p \in PageNo : BusyOK(Claims, Hands, arena, p)
-----------------------------------------------------------------------------
(* a block's first page is one of its pages *)
LEMMA FrontPage ==
    ASSUME NEW cl, NEW used, NEW ar \in [PageNo -> Header], NEW b, BlockOK(cl, used, ar, b)
    PROVE  b[1] \in PageNo /\ b[1] \in Region(ar, b)
<1>1. b[1] \in PageNo /\ b[1] \in Int /\ ar[b[1]].free_cnt \in Int
  BY DEF BlockOK, PageNo, Header
<1>2. b[2] = 0 => ar[b[1]].free_cnt >= 1
  BY DEF BlockOK
<1> QED  BY <1>1, <1>2 DEF Region
-----------------------------------------------------------------------------
(* A page without a claim is not freed by one: a block's pages keep off    *)
(* the pages R, whatever becomes of these.                                 *)
LEMMA FlipWorld ==
    ASSUME NEW cl, NEW has, NEW own, NEW used, NEW ar, NEW fl, NEW mk,
           World(cl, has, own, used, ar, fl, mk),
           NEW t \in HThread, cl[t] = {},
           NEW R \in SUBSET PageNo, \A p \in R : p \notin used,
           NEW cl2, cl2 = [cl EXCEPT ![t] = R], NEW used2, used2 = used \cup R
    PROVE  World(cl2, has, own, used2, ar, fl, mk)
<1>1. /\ cl2 \in [HThread -> SUBSET PageNo]
      /\ \A u \in HThread : cl2[u] = IF u = t THEN R ELSE cl[u]
  BY DEF World, WorldType
<1>2. \A p : Claimed(cl2, p) <=> Claimed(cl, p) \/ p \in R
  BY <1>1 DEF Claimed
<1>3. \A p \in PageNo : p \in R => ar[p].desc = -1
  BY DEF World, UsedOK
<1>4. WorldType(cl2, has, own, used2, ar, fl, mk)
  BY <1>1 DEF World, WorldType
<1>5. ClaimsOK(cl2, used2)
  BY <1>1 DEF World, ClaimsOK
<1>6. HandsOK(cl2, has, own, used2, ar)
  BY <1>2 DEF World, HandsOK, BlockOK
<1>7. UsedOK(cl2, has, used2, ar)
  BY <1>2 DEF World, UsedOK
<1>8. ASSUME NEW d \in Classes PROVE ListOK(cl2, has, ar, fl[d], d)
  <2>1. \A b \in PageNo \X Index : Free(cl2, has, ar, d, b) <=> Free(cl, has, ar, d, b)
    <3> SUFFICES ASSUME NEW b \in PageNo \X Index
                 PROVE  Free(cl2, has, ar, d, b) <=> Free(cl, has, ar, d, b)
      OBVIOUS
    <3>1. b[1] \in PageNo
      OBVIOUS
    <3>2. d # -1
      BY HeapAssumption
    <3>3. b[1] \in R => ar[b[1]].desc # d
      BY <1>3, <3>1, <3>2
    <3>4. Claimed(cl2, b[1]) <=> Claimed(cl, b[1]) \/ b[1] \in R
      BY <1>2
    <3> QED  BY <3>3, <3>4 DEF Free
  <2>2. ListOK(cl, has, ar, fl[d], d)
    BY DEF World
  <2> QED  BY <2>1, <2>2 DEF ListOK
<1>9. ASSUME NEW p \in PageNo PROVE CountOK(cl2, has, ar, p)
  BY <1>2 DEF World, CountOK
<1> QED  BY <1>4, <1>5, <1>6, <1>7, <1>8, <1>9 DEF World

(* Resetting the bits of the pages that t claims, whose headers are clear, *)
(* keeps the state of the heap.                                            *)
LEMMA ResetWorld ==
    ASSUME NEW cl, NEW has, NEW own, NEW used, NEW ar, NEW fl, NEW mk,
           World(cl, has, own, used, ar, fl, mk),
           NEW t \in HThread, \A p \in cl[t] : ar[p].desc = -1,
           NEW cl2, cl2 = [cl EXCEPT ![t] = {}], NEW used2, used2 = used \ cl[t]
    PROVE  World(cl2, has, own, used2, ar, fl, mk)
<1>1. /\ cl2 \in [HThread -> SUBSET PageNo] /\ cl[t] \in SUBSET PageNo
      /\ \A u \in HThread : cl2[u] = IF u = t THEN {} ELSE cl[u]
  BY DEF World, WorldType
<1>2. \A p : Claimed(cl, p) <=> Claimed(cl2, p) \/ p \in cl[t]
  BY <1>1 DEF Claimed
<1>4. WorldType(cl2, has, own, used2, ar, fl, mk)
  BY <1>1 DEF World, WorldType
<1>5. ClaimsOK(cl2, used2)
  BY <1>1 DEF World, ClaimsOK
<1>6. HandsOK(cl2, has, own, used2, ar)
  BY <1>2 DEF World, HandsOK, BlockOK
<1>7. UsedOK(cl2, has, used2, ar)
  BY <1>2 DEF World, UsedOK
<1>8. ASSUME NEW d \in Classes PROVE ListOK(cl2, has, ar, fl[d], d)
  <2>1. \A b \in PageNo \X Index : Free(cl2, has, ar, d, b) <=> Free(cl, has, ar, d, b)
    <3>2. d # -1
      BY HeapAssumption
    <3> QED  BY <1>2, <3>2 DEF Free
  <2>2. ListOK(cl, has, ar, fl[d], d)
    BY DEF World
  <2> QED  BY <2>1, <2>2 DEF ListOK
<1>9. ASSUME NEW p \in PageNo PROVE CountOK(cl2, has, ar, p)
  <2>1. CountOK(cl, has, ar, p)
    BY DEF World
  <2>2. -1 \notin Classes
    BY HeapAssumption
  <2> QED  BY <1>2, <2>1, <2>2 DEF CountOK
<1> QED  BY <1>4, <1>5, <1>6, <1>7, <1>8, <1>9 DEF World

(* So does clearing the pages that t claims. *)
LEMMA ClearWorld ==
    ASSUME NEW cl, NEW has, NEW own, NEW used, NEW ar, NEW fl, NEW mk,
           World(cl, has, own, used, ar, fl, mk),
           NEW t \in HThread,
           NEW ar2, ar2 = [q \in PageNo |-> IF q \in cl[t] THEN NoArena ELSE ar[q]],
           NEW mk2, mk2 = [q \in PageNo |-> IF q \in cl[t] THEN [i \in Index |-> "poison"] ELSE mk[q]]
    PROVE  World(cl, has, own, used, ar2, fl, mk2)
<1>1. /\ ar2 \in [PageNo -> Header] /\ mk2 \in [PageNo -> [Index -> HThread \cup {"poison"}]]
      /\ \A p \in PageNo : p \notin cl[t] => ar2[p] = ar[p] /\ mk2[p] = mk[p]
      /\ \A p \in PageNo : p \in cl[t] => ar2[p].desc = -1
  BY DEF World, WorldType, NoArena, Header
<1>2. \A p : p \in cl[t] => Claimed(cl, p)
  BY DEF Claimed
<1>3. \A u \in HThread : \A b \in has[u] : b[1] \in Region(ar, b)
  BY FrontPage DEF World, WorldType, HandsOK
<1>4. \A u \in HThread : \A b \in has[u] :
         /\ b[1] \in PageNo /\ b[1] \notin cl[t] /\ ar2[b[1]] = ar[b[1]]
         /\ Region(ar2, b) = Region(ar, b)
         /\ \A p \in Region(ar, b) : p \in PageNo /\ p \notin cl[t] /\ ar2[p] = ar[p] /\ mk2[p] = mk[p]
  <2> SUFFICES ASSUME NEW u \in HThread, NEW b \in has[u]
               PROVE  /\ b[1] \in PageNo /\ b[1] \notin cl[t] /\ ar2[b[1]] = ar[b[1]]
                      /\ Region(ar2, b) = Region(ar, b)
                      /\ \A p \in Region(ar, b) :
                            p \in PageNo /\ p \notin cl[t] /\ ar2[p] = ar[p] /\ mk2[p] = mk[p]
    OBVIOUS
  <2>1. BlockOK(cl, used, ar, b) /\ used \subseteq PageNo
    BY DEF World, WorldType, HandsOK
  <2>2. \A p \in Region(ar, b) : p \in PageNo /\ p \notin cl[t]
    BY <2>1, <1>2 DEF BlockOK
  <2>3. b[1] \in Region(ar, b)
    BY <1>3
  <2>4. ar2[b[1]] = ar[b[1]]
    BY <2>2, <2>3, <1>1
  <2> QED  BY <2>2, <2>3, <2>4, <1>1 DEF Region
<1>5. HandsOK(cl, has, own, used, ar2)
  <2>1. \A u \in HThread : \A b \in has[u] : BlockOK(cl, used, ar2, b)
    <3> SUFFICES ASSUME NEW u \in HThread, NEW b \in has[u] PROVE BlockOK(cl, used, ar2, b)
      OBVIOUS
    <3>1. BlockOK(cl, used, ar, b)
      BY DEF World, HandsOK
    <3> QED  BY <3>1, <1>4 DEF BlockOK
  <2> QED  BY <2>1 DEF World, HandsOK
<1>6. \A p : InBig(has, ar2, p) <=> InBig(has, ar, p)
  BY <1>4 DEF InBig
<1>7. UsedOK(cl, has, used, ar2)
  <2>1. UsedOK(cl, has, used, ar) /\ used \subseteq PageNo
    BY DEF World, WorldType
  <2> QED  BY <1>1, <1>2, <1>6, <2>1 DEF UsedOK
<1>8. ASSUME NEW d \in Classes PROVE ListOK(cl, has, ar2, fl[d], d)
  <2>1. \A b \in PageNo \X Index : Free(cl, has, ar2, d, b) <=> Free(cl, has, ar, d, b)
    BY <1>1, <1>2 DEF Free
  <2>2. ListOK(cl, has, ar, fl[d], d)
    BY DEF World
  <2> QED  BY <2>1, <2>2 DEF ListOK
<1>9. ASSUME NEW p \in PageNo PROVE CountOK(cl, has, ar2, p)
  <2>1. CountOK(cl, has, ar, p)
    BY DEF World
  <2> QED  BY <1>1, <1>2, <2>1 DEF CountOK
<1>10. MarksOK(own, ar2, mk2)
  <2>1. \A u \in HThread : \A b \in own[u] : b \in has[u]
    BY DEF World, HandsOK
  <2>2. MarksOK(own, ar, mk)
    BY DEF World
  <2> QED  BY <1>4, <2>1, <2>2 DEF MarksOK
<1>11. WorldType(cl, has, own, used, ar2, fl, mk2) /\ ClaimsOK(cl, used)
  BY <1>1 DEF World, WorldType
<1> QED  BY <1>5, <1>7, <1>8, <1>9, <1>10, <1>11 DEF World

(* the first element of a list is taken *)
LEMMA TailLists ==
    ASSUME NEW S, NEW l \in Seq(S), l # <<>>, NoRepeats(l)
    PROVE  /\ Tail(l) \in Seq(S) /\ NoRepeats(Tail(l)) /\ Head(l) \in S /\ Lists(l, Head(l))
           /\ \A g : Lists(Tail(l), g) <=> Lists(l, g) /\ g # Head(l)
<1>1. /\ Len(l) \in Nat /\ Len(l) >= 1 /\ Tail(l) \in Seq(S) /\ Len(Tail(l)) = Len(l) - 1
      /\ Head(l) = l[1] /\ \A i \in 1 .. Len(l) - 1 : Tail(l)[i] = l[i + 1]
  OBVIOUS
<1>2. NoRepeats(Tail(l))
  BY <1>1 DEF NoRepeats
<1>3. Lists(l, Head(l)) /\ Head(l) \in S
  BY <1>1 DEF Lists
<1>4. ASSUME NEW g, Lists(Tail(l), g) PROVE Lists(l, g) /\ g # Head(l)
  <2>1. PICK i \in 1 .. Len(l) - 1 : Tail(l)[i] = g
    BY <1>1, <1>4 DEF Lists
  <2>2. i + 1 \in 1 .. Len(l) /\ 1 \in 1 .. Len(l) /\ i + 1 # 1 /\ l[i + 1] = g
    BY <1>1, <2>1
  <2> QED  BY <1>1, <2>2 DEF Lists, NoRepeats
<1>5. ASSUME NEW g, Lists(l, g), g # Head(l) PROVE Lists(Tail(l), g)
  <2>1. PICK i \in 1 .. Len(l) : l[i] = g
    BY <1>5 DEF Lists
  <2>2. i - 1 \in 1 .. Len(l) - 1 /\ (i - 1) + 1 = i
    BY <1>1, <1>5, <2>1
  <2>3. Tail(l)[i - 1] = g
    BY <1>1, <2>1, <2>2
  <2> QED  BY <1>1, <2>2, <2>3 DEF Lists
<1> QED  BY <1>1, <1>2, <1>3, <1>4, <1>5

(* of the pages of blocks in hands only an arena's is that of a class *)
LEMMA HandPages ==
    ASSUME NEW cl, NEW has, NEW own, NEW used, NEW ar, NEW fl, NEW mk,
           World(cl, has, own, used, ar, fl, mk),
           NEW u \in HThread, NEW b \in has[u]
    PROVE  /\ b \in PageNo \X Index /\ b[1] \in PageNo /\ b[2] \in Index
           /\ b[1] \in Region(ar, b) /\ BlockOK(cl, used, ar, b)
           /\ \A p \in Region(ar, b) :
                 /\ p \in PageNo /\ ~Claimed(cl, p)
                 /\ ar[p].desc \in Classes => b[2] # 0 /\ b[1] = p
<1>1. BlockOK(cl, used, ar, b) /\ ar \in [PageNo -> Header] /\ used \subseteq PageNo
  BY DEF World, WorldType, HandsOK
<1>2. b \in PageNo \X Index /\ b[1] \in PageNo /\ b[2] \in Index
  BY <1>1 DEF BlockOK
<1>3. b[1] \in Region(ar, b)
  BY <1>1, FrontPage
<1>4. -1 \notin Classes /\ Big \notin Classes
  BY HeapAssumption DEF Big
<1>5. ASSUME NEW p \in Region(ar, b)
      PROVE  /\ p \in PageNo /\ ~Claimed(cl, p)
             /\ ar[p].desc \in Classes => b[2] # 0 /\ b[1] = p
  <2>1. p \in PageNo /\ ~Claimed(cl, p)
    BY <1>1 DEF BlockOK
  <2>2. CASE b[2] # 0
    BY <2>1, <2>2 DEF Region
  <2>3. CASE b[2] = 0
    <3>1. ar[b[1]].desc = Big /\ (p # b[1] => ar[p].desc = -1)
      BY <1>1, <2>3 DEF BlockOK
    <3> QED  BY <2>1, <3>1, <1>4
  <2> QED  BY <2>2, <2>3
<1> QED  BY <1>1, <1>2, <1>3, <1>5

(* The free blocks of an arena are finitely many, at most those it has. *)
LEMMA FreeInFinite ==
    ASSUME NEW has, NEW d \in Classes, NEW p
    PROVE  /\ IsFiniteSet(FreeIn(has, d, p)) /\ Cardinality(FreeIn(has, d, p)) \in Nat
           /\ IsFiniteSet({p} \X (1 .. BlocksPerArena[d]))
           /\ Cardinality({p} \X (1 .. BlocksPerArena[d])) = BlocksPerArena[d]
           /\ Cardinality(FreeIn(has, d, p)) <= BlocksPerArena[d]
<1> DEFINE n == BlocksPerArena[d]
<1>0. n \in Nat /\ n >= 1
  BY HeapAssumption
<1>1. IsFiniteSet({p}) /\ Cardinality({p}) = 1
  BY FS_Singleton
<1>2. IsFiniteSet(1 .. n) /\ Cardinality(1 .. n) = n
  <2>1. 1 \in Int /\ n \in Int
    BY <1>0
  <2>2. IsFiniteSet(1 .. n) /\ Cardinality(1 .. n) = IF 1 > n THEN 0 ELSE n - 1 + 1
    BY <2>1, FS_Interval, Zenon
  <2> QED  BY <1>0, <2>2
<1>3. IsFiniteSet({p} \X (1 .. n)) /\ Cardinality({p} \X (1 .. n)) = 1 * n
  BY <1>1, <1>2, FS_Product
<1>4. FreeIn(has, d, p) \subseteq {p} \X (1 .. n)
  BY DEF FreeIn
<1>5. /\ IsFiniteSet(FreeIn(has, d, p))
      /\ Cardinality(FreeIn(has, d, p)) <= Cardinality({p} \X (1 .. n))
  BY <1>3, <1>4, FS_Subset
<1>6. Cardinality(FreeIn(has, d, p)) \in Nat
  BY <1>5, FS_CardinalityType
<1> QED  BY <1>0, <1>3, <1>5, <1>6

(* the first free block is given away *)
Taken(t, d, b, has, own, ar, fl, mk, has2, own2, ar2, fl2, mk2) ==
    /\ b = Head(fl[d])
    /\ has2 = [has EXCEPT ![t] = @ \cup {b}] /\ own2 = [own EXCEPT ![t] = @ \cup {b}]
    /\ ar2 = [ar EXCEPT ![b[1]].free_cnt = @ - 1]
    /\ fl2 = [fl EXCEPT ![d] = Tail(@)] /\ mk2 = [mk EXCEPT ![b[1]][b[2]] = t]

(* Taking the first free block keeps the state of the heap. *)
LEMMA TakeWorld ==
    ASSUME NEW cl, NEW has, NEW own, NEW used, NEW ar, NEW fl, NEW mk,
           World(cl, has, own, used, ar, fl, mk),
           NEW t \in HThread, NEW d \in Classes, fl[d] # <<>>,
           NEW b, NEW has2, NEW own2, NEW ar2, NEW fl2, NEW mk2,
           Taken(t, d, b, has, own, ar, fl, mk, has2, own2, ar2, fl2, mk2)
    PROVE  World(cl, has2, own2, used, ar2, fl2, mk2) /\ Free(cl, has, ar, d, b)
<1> DEFINE S == PageNo \X Index
<1>0. /\ b = Head(fl[d])
      /\ has2 = [has EXCEPT ![t] = @ \cup {b}] /\ own2 = [own EXCEPT ![t] = @ \cup {b}]
      /\ ar2 = [ar EXCEPT ![b[1]].free_cnt = @ - 1]
      /\ fl2 = [fl EXCEPT ![d] = Tail(@)] /\ mk2 = [mk EXCEPT ![b[1]][b[2]] = t]
  BY DEF Taken
<1>1. /\ fl[d] \in Seq(S) /\ NoRepeats(fl[d]) /\ ListOK(cl, has, ar, fl[d], d)
      /\ ar \in [PageNo -> Header] /\ used \subseteq PageNo
  BY DEF World, WorldType, ListOK
<1>2. /\ Tail(fl[d]) \in Seq(S) /\ NoRepeats(Tail(fl[d])) /\ b \in S /\ Lists(fl[d], b)
      /\ \A g : Lists(Tail(fl[d]), g) <=> Lists(fl[d], g) /\ g # b
  BY <1>0, <1>1, TailLists
<1>3. Free(cl, has, ar, d, b)
  BY <1>1, <1>2 DEF ListOK
<1>4. PICK p, i : p = b[1] /\ i = b[2] /\ b = <<p, i>> /\ p \in PageNo /\ i \in Index
  BY <1>2
<1>5. /\ i \in 1 .. BlocksPerArena[d] /\ i # 0 /\ ar[p].desc = d /\ ~Claimed(cl, p)
      /\ \A u \in HThread : b \notin has[u]
  BY <1>3, <1>4, HeapAssumption DEF Free, Loose
<1>6. /\ has2 \in [HThread -> SUBSET S] /\ own2 \in [HThread -> SUBSET S]
      /\ \A u \in HThread : \A g : g \in has2[u] <=> g \in has[u] \/ (u = t /\ g = b)
      /\ \A u \in HThread : \A g : g \in own2[u] <=> g \in own[u] \/ (u = t /\ g = b)
  BY <1>0, <1>2 DEF World, WorldType
<1>7. \A g : Loose(has2, g) <=> Loose(has, g) /\ g # b
  BY <1>6 DEF Loose
<1>8. /\ ar[p].free_cnt = Cardinality(FreeIn(has, d, p)) /\ b \in FreeIn(has, d, p)
      /\ FreeIn(has2, d, p) = FreeIn(has, d, p) \ {b}
      /\ FreeIn(has, d, p) # {}
  <2>1. CountOK(cl, has, ar, p)
    BY <1>4 DEF World
  <2>2. b \in FreeIn(has, d, p)
    BY <1>4, <1>5 DEF FreeIn, Loose
  <2>3. FreeIn(has2, d, p) = FreeIn(has, d, p) \ {b}
    BY <1>7 DEF FreeIn
  <2> QED  BY <2>1, <2>2, <2>3, <1>5 DEF CountOK
<1>9. Cardinality(FreeIn(has2, d, p)) = ar[p].free_cnt - 1 /\ ar[p].free_cnt - 1 \in Nat
  <2>1. IsFiniteSet(FreeIn(has, d, p))
    BY FreeInFinite
  <2>2. Cardinality(FreeIn(has, d, p) \ {b}) = Cardinality(FreeIn(has, d, p)) - 1
    BY <2>1, <1>8, FS_RemoveElement
  <2>3. Cardinality(FreeIn(has2, d, p)) \in Nat
    BY FreeInFinite
  <2> QED  BY <2>2, <2>3, <1>8
<1>10. /\ ar2 \in [PageNo -> Header]
       /\ \A q \in PageNo : /\ ar2[q].desc = ar[q].desc
                            /\ q # p => ar2[q] = ar[q]
       /\ ar2[p].free_cnt = ar[p].free_cnt - 1
  <2>1. PICK h : h = ar[p] /\ h \in Header
    BY <1>1, <1>4
  <2>2. ar2 = [ar EXCEPT ![p] = [h EXCEPT !.free_cnt = @ - 1]]
    BY <1>0, <2>1, <1>4
  <2>3. /\ [h EXCEPT !.free_cnt = @ - 1] \in Header
        /\ [h EXCEPT !.free_cnt = @ - 1].desc = h.desc
        /\ [h EXCEPT !.free_cnt = @ - 1].free_cnt = h.free_cnt - 1
    BY <2>1, <1>9 DEF Header
  <2> QED  BY <1>1, <1>4, <2>1, <2>2, <2>3
<1>11. /\ mk2 \in [PageNo -> [Index -> HThread \cup {"poison"}]]
       /\ \A q \in PageNo : \A j \in Index : mk2[q][j] = IF q = p /\ j = i THEN t ELSE mk[q][j]
  <2>1. mk \in [PageNo -> [Index -> HThread \cup {"poison"}]]
    BY DEF World, WorldType
  <2>2. PICK m : m = mk[p] /\ m \in [Index -> HThread \cup {"poison"}]
    BY <2>1, <1>4
  <2>3. mk2 = [mk EXCEPT ![p] = [m EXCEPT ![i] = t]]
    BY <1>0, <2>2, <1>4
  <2>4. /\ [m EXCEPT ![i] = t] \in [Index -> HThread \cup {"poison"}]
        /\ \A j \in Index : [m EXCEPT ![i] = t][j] = IF j = i THEN t ELSE m[j]
    BY <2>2
  <2> QED  BY <2>1, <2>2, <2>3, <2>4, <1>4
<1>12. /\ fl2 \in [Classes -> Seq(S)] /\ fl2[d] = Tail(fl[d])
       /\ \A c \in Classes : c # d => fl2[c] = fl[c]
  BY <1>0, <1>2 DEF World, WorldType
<1>13. ASSUME NEW u \in HThread, NEW g \in has[u]
       PROVE  /\ g \in S /\ g # b /\ Region(ar2, g) = Region(ar, g) /\ BlockOK(cl, used, ar2, g)
              /\ \A q \in Region(ar, g) : q \in PageNo /\ ~(q = p /\ g[2] = i)
  <2>1. /\ g \in S /\ g[1] \in PageNo /\ g[1] \in Region(ar, g) /\ BlockOK(cl, used, ar, g)
        /\ \A q \in Region(ar, g) : q \in PageNo /\ (ar[q].desc \in Classes => g[2] # 0 /\ g[1] = q)
    BY HandPages
  <2>2. g # b
    BY <1>5
  <2>3. g[1] = p => g[2] # 0
    BY <2>1, <1>5
  <2>4. Region(ar2, g) = Region(ar, g)
    BY <2>1, <2>3, <1>10 DEF Region
  <2>5. BlockOK(cl, used, ar2, g)
    BY <2>1, <2>3, <2>4, <1>10 DEF BlockOK
  <2>6. ASSUME NEW q \in Region(ar, g), q = p, g[2] = i PROVE FALSE
    <3>1. g[1] = p
      BY <2>1, <2>6, <1>5
    <3>2. g = <<g[1], g[2]>>
      BY <2>1
    <3> QED  BY <3>1, <3>2, <2>6, <2>2, <1>4
  <2> QED  BY <2>1, <2>2, <2>4, <2>5, <2>6
<1>14. BlockOK(cl, used, ar2, b) /\ Region(ar2, b) = {p}
  <2>1. Region(ar2, b) = {p}
    BY <1>4, <1>5 DEF Region
  <2>2. p \in used
    <3>1. UsedOK(cl, has, used, ar) /\ d # -1
      BY HeapAssumption DEF World
    <3> QED  BY <3>1, <1>4, <1>5 DEF UsedOK
  <2> QED  BY <2>1, <2>2, <1>2, <1>4, <1>5, <1>10 DEF BlockOK
<1>15. HandsOK(cl, has2, own2, used, ar2)
  <2>1. \A u \in HThread : \A g \in has2[u] : BlockOK(cl, used, ar2, g)
    BY <1>6, <1>13, <1>14
  <2>2. /\ \A u, v \in HThread : \A g \in has2[u] : g \in has2[v] => u = v
        /\ \A u \in HThread : \A g \in own2[u] : g \in has2[u]
    BY <1>5, <1>6 DEF World, HandsOK
  <2> QED  BY <2>1, <2>2 DEF HandsOK
<1>16. UsedOK(cl, has2, used, ar2)
  <2>1. UsedOK(cl, has, used, ar)
    BY DEF World
  <2>2. \A q : InBig(has, ar, q) => InBig(has2, ar2, q)
    BY <1>6, <1>13 DEF InBig
  <2> QED  BY <1>1, <1>10, <2>1, <2>2 DEF UsedOK
<1>17. ASSUME NEW c \in Classes PROVE ListOK(cl, has2, ar2, fl2[c], c)
  <2>1. \A g \in S : Free(cl, has2, ar2, c, g) <=> Free(cl, has, ar, c, g) /\ g # b
    <3>1. \A g \in S : g[1] \in PageNo
      OBVIOUS
    <3> QED  BY <3>1, <1>7, <1>10 DEF Free
  <2>2. ListOK(cl, has, ar, fl[c], c)
    BY DEF World
  <2>3. CASE c = d
    BY <2>1, <2>2, <2>3, <1>2, <1>12 DEF ListOK
  <2>4. CASE c # d
    <3>1. \A g \in S : Free(cl, has, ar, c, g) => g # b
      BY <2>4, <1>4, <1>5 DEF Free
    <3> QED  BY <2>1, <2>2, <2>4, <3>1, <1>12 DEF ListOK
  <2> QED  BY <2>3, <2>4
<1>18. ASSUME NEW q \in PageNo PROVE CountOK(cl, has2, ar2, q)
  <2>1. CASE q = p
    BY <2>1, <1>5, <1>9, <1>10 DEF CountOK
  <2>2. CASE q # p
    <3>1. CountOK(cl, has, ar, q) /\ ar2[q] = ar[q]
      BY <2>2, <1>10 DEF World
    <3>2. \A c : FreeIn(has2, c, q) = FreeIn(has, c, q)
      BY <2>2, <1>4, <1>7 DEF FreeIn
    <3> QED  BY <3>1, <3>2 DEF CountOK
  <2> QED  BY <2>1, <2>2
<1>19. MarksOK(own2, ar2, mk2)
  <2> SUFFICES ASSUME NEW u \in HThread, NEW g \in own2[u], NEW q \in Region(ar2, g)
               PROVE  mk2[q][g[2]] = u
    BY DEF MarksOK
  <2>1. CASE u = t /\ g = b
    BY <2>1, <1>4, <1>11, <1>14
  <2>2. CASE g \in own[u]
    <3>1. g \in has[u] /\ MarksOK(own, ar, mk)
      BY <2>2 DEF World, HandsOK
    <3>2. q \in Region(ar, g) /\ q \in PageNo /\ ~(q = p /\ g[2] = i) /\ g[2] \in Index
      BY <3>1, <1>13
    <3>3. mk[q][g[2]] = u
      BY <2>2, <3>1, <3>2 DEF MarksOK
    <3> QED  BY <3>2, <3>3, <1>11
  <2> QED  BY <2>1, <2>2, <1>6
<1>20. WorldType(cl, has2, own2, used, ar2, fl2, mk2) /\ ClaimsOK(cl, used)
  BY <1>6, <1>10, <1>11, <1>12 DEF World, WorldType
<1> QED  BY <1>3, <1>15, <1>16, <1>17, <1>18, <1>19, <1>20 DEF World

(* a claimed page becomes an arena, all of whose blocks are free *)
Founded(d, p, ar, fl, ar2, fl2) ==
    /\ ar2 = [ar EXCEPT ![p] = [desc |-> d, free_cnt |-> BlocksPerArena[d]]]
    /\ fl2 = [fl EXCEPT ![d] = [i \in 1 .. BlocksPerArena[d] |-> Block(p, i)]]

(* A claimed page becomes an arena: its blocks are the free list. *)
LEMMA ArenaWorld ==
    ASSUME NEW cl, NEW has, NEW own, NEW used, NEW ar, NEW fl, NEW mk,
           World(cl, has, own, used, ar, fl, mk),
           NEW t \in HThread, NEW d \in Classes, fl[d] = <<>>,
           NEW p \in PageNo, cl[t] = {p},
           NEW cl2, cl2 = [cl EXCEPT ![t] = {}],
           NEW ar2, NEW fl2, Founded(d, p, ar, fl, ar2, fl2)
    PROVE  World(cl2, has, own, used, ar2, fl2, mk)
<1> DEFINE S == PageNo \X Index
           n == BlocksPerArena[d]
           l == [i \in 1 .. n |-> <<p, i>>]
<1>0. ar2 = [ar EXCEPT ![p] = [desc |-> d, free_cnt |-> n]] /\ fl2 = [fl EXCEPT ![d] = l]
  BY DEF Founded, Block
<1>1. n \in Nat /\ n >= 1 /\ 1 .. n \subseteq Index /\ 0 \notin 1 .. n /\ d # -1 /\ d # Big
  BY HeapAssumption DEF Index, Big
<1>2. /\ cl2 \in [HThread -> SUBSET PageNo]
      /\ \A u \in HThread : cl2[u] = IF u = t THEN {} ELSE cl[u]
  BY DEF World, WorldType
<1>3. (\A q : Claimed(cl, q) <=> Claimed(cl2, q) \/ q = p) /\ ~Claimed(cl2, p) /\ p \in used
  BY <1>2 DEF Claimed, World, ClaimsOK
<1>4. /\ ar2 \in [PageNo -> Header] /\ ar2[p].desc = d /\ ar2[p].free_cnt = n
      /\ \A q \in PageNo : q # p => ar2[q] = ar[q]
  <2>1. [desc |-> d, free_cnt |-> n] \in Header
    BY <1>1 DEF Header
  <2> QED  BY <1>0, <2>1 DEF World, WorldType
<1>5. l \in Seq(S) /\ Len(l) = n /\ NoRepeats(l) /\ \A g : Lists(l, g) <=> \E i \in 1 .. n : g = <<p, i>>
  <2>1. l \in Seq(S) /\ Len(l) = n
    BY <1>1
  <2>2. \A i \in 1 .. n : l[i] = <<p, i>>
    OBVIOUS
  <2> QED  BY <2>1, <2>2 DEF NoRepeats, Lists
<1>6. /\ fl2 \in [Classes -> Seq(S)] /\ fl2[d] = l
      /\ \A c \in Classes : c # d => fl2[c] = fl[c]
  BY <1>0, <1>5 DEF World, WorldType
<1>7. ASSUME NEW u \in HThread, NEW g \in has[u]
      PROVE  /\ g[1] \in PageNo /\ g[1] # p /\ Region(ar2, g) = Region(ar, g)
             /\ BlockOK(cl2, used, ar2, g)
             /\ \A q \in Region(ar, g) : q \in PageNo /\ q # p
  <2>1. /\ g[1] \in PageNo /\ g[1] \in Region(ar, g) /\ BlockOK(cl, used, ar, g)
        /\ \A q \in Region(ar, g) : q \in PageNo /\ ~Claimed(cl, q)
    BY HandPages
  <2>2. \A q \in Region(ar, g) : q # p
    BY <2>1, <1>3
  <2>3. Region(ar2, g) = Region(ar, g)
    BY <2>1, <2>2, <1>4 DEF Region
  <2>4. BlockOK(cl2, used, ar2, g)
    BY <2>1, <2>2, <2>3, <1>3, <1>4 DEF BlockOK
  <2> QED  BY <2>1, <2>2, <2>3, <2>4
<1>8. \A g : g[1] = p => Loose(has, g)
  BY <1>7 DEF Loose
<1>9. ClaimsOK(cl2, used)
  BY <1>2 DEF World, ClaimsOK
<1>10. HandsOK(cl2, has, own, used, ar2)
  BY <1>7 DEF World, HandsOK
<1>11. UsedOK(cl2, has, used, ar2)
  <2>1. UsedOK(cl, has, used, ar) /\ used \subseteq PageNo
    BY DEF World, WorldType
  <2>2. \A q : InBig(has, ar, q) => InBig(has, ar2, q)
    BY <1>7 DEF InBig
  <2> QED  BY <1>3, <1>4, <2>1, <2>2 DEF UsedOK
<1>12. ASSUME NEW c \in Classes PROVE ListOK(cl2, has, ar2, fl2[c], c)
  <2>0. \A g \in S : g[1] \in PageNo /\ g = <<g[1], g[2]>>
    OBVIOUS
  <2>1. ListOK(cl, has, ar, fl[c], c)
    BY DEF World
  <2>2. CASE c = d
    <3>1. \A g \in S : ~Lists(fl[d], g)
      BY DEF Lists
    <3>2. \A g \in S : ~Free(cl, has, ar, d, g)
      BY <3>1, <2>1, <2>2 DEF ListOK
    <3>3. ASSUME NEW g \in S PROVE Free(cl2, has, ar2, d, g) <=> Lists(l, g)
      <4>1. CASE g[1] = p
        <5>1. Free(cl2, has, ar2, d, g) <=> g[2] \in 1 .. n
          BY <4>1, <1>3, <1>4, <1>8 DEF Free
        <5>2. Lists(l, g) <=> g[2] \in 1 .. n
          BY <4>1, <2>0, <1>5
        <5> QED  BY <5>1, <5>2
      <4>2. CASE g[1] # p
        <5>1. ~Free(cl2, has, ar2, d, g)
          BY <4>2, <2>0, <3>2, <1>3, <1>4 DEF Free
        <5>2. ~Lists(l, g)
          BY <4>2, <1>5
        <5> QED  BY <5>1, <5>2
      <4> QED  BY <4>1, <4>2
    <3> QED  BY <3>3, <2>2, <1>5, <1>6 DEF ListOK
  <2>3. CASE c # d
    <3>1. \A g \in S : Free(cl2, has, ar2, c, g) => Free(cl, has, ar, c, g)
      BY <2>0, <2>3, <1>3, <1>4 DEF Free
    <3>2. \A g \in S : Free(cl, has, ar, c, g) => Free(cl2, has, ar2, c, g)
      BY <2>0, <2>3, <1>3, <1>4 DEF Free
    <3> QED  BY <3>1, <3>2, <2>1, <2>3, <1>6 DEF ListOK
  <2> QED  BY <2>2, <2>3
<1>13. ASSUME NEW q \in PageNo PROVE CountOK(cl2, has, ar2, q)
  <2>1. CASE q = p
    <3>1. FreeIn(has, d, p) = {p} \X (1 .. n)
      BY <1>8 DEF FreeIn
    <3>2. Cardinality({p} \X (1 .. n)) = n
      BY FreeInFinite
    <3> QED  BY <2>1, <3>1, <3>2, <1>4 DEF CountOK
  <2>2. CASE q # p
    <3>1. CountOK(cl, has, ar, q)
      BY DEF World
    <3> QED  BY <3>1, <2>2, <1>3, <1>4 DEF CountOK
  <2> QED  BY <2>1, <2>2
<1>14. MarksOK(own, ar2, mk)
  <2>1. \A u \in HThread : \A g \in own[u] : g \in has[u]
    BY DEF World, HandsOK
  <2>2. MarksOK(own, ar, mk)
    BY DEF World
  <2> QED  BY <1>7, <2>1, <2>2 DEF MarksOK
<1>15. WorldType(cl2, has, own, used, ar2, fl2, mk)
  BY <1>2, <1>4, <1>6 DEF World, WorldType
<1> QED  BY <1>9, <1>10, <1>11, <1>12, <1>13, <1>14, <1>15 DEF World

(* what changes as t takes arena p out of use *)
Dropped(t, d, p, l2, cl, fl, cl2, fl2) ==
    /\ cl2 = [cl EXCEPT ![t] = {p}] /\ fl2 = [fl EXCEPT ![d] = l2]

(* an arena whose blocks are all free leaves the free list: it is claimed *)
LEMMA DropWorld ==
    ASSUME NEW cl, NEW has, NEW own, NEW used, NEW ar, NEW fl, NEW mk,
           World(cl, has, own, used, ar, fl, mk),
           NEW t \in HThread, NEW d \in Classes, cl[t] = {},
           NEW p \in PageNo, ar[p].desc = d, ~Claimed(cl, p),
           \A g \in {p} \X (1 .. BlocksPerArena[d]) : Loose(has, g),
           NEW l2, l2 \in Seq(PageNo \X Index), NoRepeats(l2),
           \A g \in PageNo \X Index : Lists(l2, g) <=> Lists(fl[d], g) /\ g[1] # p,
           NEW cl2, NEW fl2, Dropped(t, d, p, l2, cl, fl, cl2, fl2)
    PROVE  World(cl2, has, own, used, ar, fl2, mk)
<1> DEFINE S == PageNo \X Index
<1>2. /\ cl2 \in [HThread -> SUBSET PageNo]
      /\ \A u \in HThread : cl2[u] = IF u = t THEN {p} ELSE cl[u]
  BY DEF World, WorldType, Dropped
<1>3. \A q : Claimed(cl2, q) <=> Claimed(cl, q) \/ q = p
  BY <1>2 DEF Claimed
<1>4. d # -1 /\ d # Big
  BY HeapAssumption DEF Big
<1>6. /\ fl2 \in [Classes -> Seq(S)] /\ fl2[d] = l2
      /\ \A c \in Classes : c # d => fl2[c] = fl[c]
  BY DEF World, WorldType, Dropped
<1>7. ASSUME NEW u \in HThread, NEW g \in has[u]
      PROVE  BlockOK(cl2, used, ar, g)
  <2>1. /\ g \in S /\ BlockOK(cl, used, ar, g)
        /\ \A q \in Region(ar, g) : ar[q].desc \in Classes => g[2] # 0 /\ g[1] = q
    BY HandPages
  <2>2. p \notin Region(ar, g)
    <3>1. SUFFICES ASSUME p \in Region(ar, g) PROVE FALSE
      OBVIOUS
    <3>2. g[2] # 0 /\ g[1] = p
      BY <2>1, <3>1
    <3>3. g[2] \in 1 .. BlocksPerArena[d]
      BY <2>1, <3>2 DEF BlockOK
    <3>4. g \in {p} \X (1 .. BlocksPerArena[d])
      BY <2>1, <3>2, <3>3
    <3> QED  BY <3>4 DEF Loose
  <2> QED  BY <2>1, <2>2, <1>3 DEF BlockOK
<1>8. ClaimsOK(cl2, used)
  <2>1. p \in used
    BY <1>4 DEF World, UsedOK
  <2> QED  BY <2>1, <1>2 DEF World, ClaimsOK, Claimed
<1>9. HandsOK(cl2, has, own, used, ar)
  BY <1>7 DEF World, HandsOK
<1>10. UsedOK(cl2, has, used, ar)
  BY <1>3 DEF World, UsedOK
<1>11. ASSUME NEW c \in Classes PROVE ListOK(cl2, has, ar, fl2[c], c)
  <2>1. ListOK(cl, has, ar, fl[c], c)
    BY DEF World
  <2>2. \A g \in S : Free(cl2, has, ar, c, g) <=> Free(cl, has, ar, c, g) /\ g[1] # p
    BY <1>3 DEF Free
  <2>3. CASE c = d
    BY <2>1, <2>2, <2>3, <1>6 DEF ListOK
  <2>4. CASE c # d
    <3>1. \A g \in S : Free(cl, has, ar, c, g) => g[1] # p
      BY <2>4 DEF Free
    <3> QED  BY <3>1, <2>1, <2>2, <2>4, <1>6 DEF ListOK
  <2> QED  BY <2>3, <2>4
<1>12. ASSUME NEW q \in PageNo PROVE CountOK(cl2, has, ar, q)
  BY <1>3 DEF World, CountOK
<1>13. WorldType(cl2, has, own, used, ar, fl2, mk)
  BY <1>2, <1>6 DEF World, WorldType
<1> QED  BY <1>8, <1>9, <1>10, <1>11, <1>12, <1>13 DEF World

(* an element joins a list *)
LEMMA ConsLists ==
    ASSUME NEW S, NEW l \in Seq(S), NoRepeats(l), NEW b \in S, ~Lists(l, b)
    PROVE  /\ <<b>> \o l \in Seq(S) /\ NoRepeats(<<b>> \o l)
           /\ \A g : Lists(<<b>> \o l, g) <=> Lists(l, g) \/ g = b
<1> DEFINE m == <<b>> \o l
<1>1. /\ Len(l) \in Nat /\ m \in Seq(S) /\ Len(m) = Len(l) + 1 /\ m[1] = b
      /\ \A i \in 2 .. Len(l) + 1 : m[i] = l[i - 1]
  OBVIOUS
<1> HIDE DEF m
<1>2. \A i \in 2 .. Len(l) + 1 : i - 1 \in 1 .. Len(l)
  BY <1>1
<1>3. ASSUME NEW i \in 1 .. Len(m), NEW j \in 1 .. Len(m), m[i] = m[j] PROVE i = j
  <2>1. CASE i = 1 /\ j # 1
    <3>1. j \in 2 .. Len(l) + 1
      BY <1>1, <2>1
    <3> QED  BY <3>1, <2>1, <1>1, <1>2, <1>3 DEF Lists
  <2>2. CASE i # 1 /\ j = 1
    <3>1. i \in 2 .. Len(l) + 1
      BY <1>1, <2>2
    <3> QED  BY <3>1, <2>2, <1>1, <1>2, <1>3 DEF Lists
  <2>3. CASE i # 1 /\ j # 1
    <3>1. i \in 2 .. Len(l) + 1 /\ j \in 2 .. Len(l) + 1
      BY <1>1, <2>3
    <3>2. i - 1 = j - 1
      BY <3>1, <1>1, <1>2, <1>3 DEF NoRepeats
    <3> QED  BY <3>1, <3>2
  <2> QED  BY <2>1, <2>2, <2>3
<1>4. ASSUME NEW g PROVE Lists(m, g) <=> Lists(l, g) \/ g = b
  <2>1. ASSUME Lists(m, g) PROVE Lists(l, g) \/ g = b
    <3>1. PICK i \in 1 .. Len(m) : m[i] = g
      BY <2>1 DEF Lists
    <3>2. i = 1 \/ i \in 2 .. Len(l) + 1
      BY <3>1, <1>1
    <3> QED  BY <3>1, <3>2, <1>1, <1>2 DEF Lists
  <2>2. ASSUME Lists(l, g) PROVE Lists(m, g)
    <3>1. PICK i \in 1 .. Len(l) : l[i] = g
      BY <2>2 DEF Lists
    <3>2. i + 1 \in 2 .. Len(l) + 1 /\ i + 1 \in 1 .. Len(m) /\ (i + 1) - 1 = i
      BY <1>1
    <3> QED  BY <3>1, <3>2, <1>1 DEF Lists
  <2>3. ASSUME g = b PROVE Lists(m, g)
    <3>1. 1 \in 1 .. Len(m)
      BY <1>1
    <3> QED  BY <3>1, <2>3, <1>1 DEF Lists
  <2> QED  BY <2>1, <2>2, <2>3
<1>5. NoRepeats(m)
  BY <1>3 DEF NoRepeats
<1>6. m \in Seq(S) /\ NoRepeats(m) /\ \A g : Lists(m, g) <=> Lists(l, g) \/ g = b
  BY <1>1, <1>4, <1>5
<1> QED  BY <1>6 DEF m

(* what changes as t puts block b into the free list *)
PutBack(t, d, b, has, ar, fl, has2, ar2, fl2) ==
    /\ has2 = [has EXCEPT ![t] = @ \ {b}] /\ ar2 = [ar EXCEPT ![b[1]].free_cnt = @ + 1]
    /\ fl2 = [fl EXCEPT ![d] = <<b>> \o @]

(* a block that a thread is giving back joins the free list *)
LEMMA PutWorld ==
    ASSUME NEW cl, NEW has, NEW own, NEW used, NEW ar, NEW fl, NEW mk,
           World(cl, has, own, used, ar, fl, mk),
           NEW t \in HThread, NEW d \in Classes,
           NEW b \in has[t], b \notin own[t], b[2] # 0, ar[b[1]].desc = d,
           NEW has2, NEW ar2, NEW fl2, PutBack(t, d, b, has, ar, fl, has2, ar2, fl2)
    PROVE  /\ World(cl, has2, own, used, ar2, fl2, mk)
           /\ b[1] \in PageNo /\ ~Claimed(cl, b[1]) /\ ar[b[1]].free_cnt + 1 <= BlocksPerArena[d]
           /\ ar2[b[1]].free_cnt = ar[b[1]].free_cnt + 1 /\ ar2[b[1]].desc = d
           /\ \A q \in PageNo : ar2[q].desc = ar[q].desc /\ (q # b[1] => ar2[q] = ar[q])
           /\ fl2[d] = <<b>> \o fl[d]
<1> DEFINE S == PageNo \X Index
           n == BlocksPerArena[d]
<1>0. /\ has2 = [has EXCEPT ![t] = @ \ {b}] /\ ar2 = [ar EXCEPT ![b[1]].free_cnt = @ + 1]
      /\ fl2 = [fl EXCEPT ![d] = <<b>> \o @]
  BY DEF PutBack
<1>1. /\ fl[d] \in Seq(S) /\ NoRepeats(fl[d]) /\ ListOK(cl, has, ar, fl[d], d)
      /\ ar \in [PageNo -> Header] /\ used \subseteq PageNo
  BY DEF World, WorldType, ListOK
<1>2. /\ b \in S /\ BlockOK(cl, used, ar, b) /\ b[1] \in Region(ar, b)
      /\ \A q \in Region(ar, b) : q \in PageNo /\ ~Claimed(cl, q)
  BY HandPages
<1>3. PICK p, i : p = b[1] /\ i = b[2] /\ b = <<p, i>> /\ p \in PageNo /\ i \in Index
  BY <1>2
<1>4. i \in 1 .. n /\ i # 0 /\ ar[p].desc = d /\ ~Claimed(cl, p) /\ d # -1 /\ d # Big
  <2>1. d # -1 /\ d # Big
    BY HeapAssumption DEF Big
  <2>2. i # 0 /\ ar[p].desc = d
    BY <1>3
  <2>3. i \in 1 .. n
    BY <1>2, <1>3, <2>2 DEF BlockOK
  <2>4. ~Claimed(cl, p)
    BY <1>2, <1>3
  <2> QED  BY <2>1, <2>2, <2>3, <2>4
<1>5. /\ has2 \in [HThread -> SUBSET S]
      /\ \A u \in HThread : \A g : g \in has2[u] <=> g \in has[u] /\ g # b
  <2>1. has \in [HThread -> SUBSET S]
    BY DEF World, WorldType
  <2>2. \A u \in HThread : b \in has[u] => u = t
    BY DEF World, HandsOK
  <2> QED  BY <1>0, <2>1, <2>2
<1>6. \A g : Loose(has2, g) <=> Loose(has, g) \/ g = b
  BY <1>5 DEF Loose
<1>7. ~Loose(has, b) /\ ~Free(cl, has, ar, d, b) /\ ~Lists(fl[d], b)
  BY <1>1, <1>2 DEF Loose, Free, ListOK
<1>8. /\ <<b>> \o fl[d] \in Seq(S) /\ NoRepeats(<<b>> \o fl[d])
      /\ \A g : Lists(<<b>> \o fl[d], g) <=> Lists(fl[d], g) \/ g = b
  BY <1>1, <1>2, <1>7, ConsLists
<1>9. /\ fl2 \in [Classes -> Seq(S)] /\ fl2[d] = <<b>> \o fl[d]
      /\ \A c \in Classes : c # d => fl2[c] = fl[c]
  BY <1>0, <1>8 DEF World, WorldType
<1>10. /\ ar[p].free_cnt = Cardinality(FreeIn(has, d, p))
       /\ FreeIn(has2, d, p) = FreeIn(has, d, p) \cup {b} /\ b \notin FreeIn(has, d, p)
  <2>1. CountOK(cl, has, ar, p)
    BY <1>3 DEF World
  <2>2. b \notin FreeIn(has, d, p)
    BY <1>7 DEF FreeIn
  <2>3. FreeIn(has2, d, p) = FreeIn(has, d, p) \cup {b}
    <3>1. b \in {p} \X (1 .. n)
      BY <1>3, <1>4
    <3> QED  BY <3>1, <1>6 DEF FreeIn
  <2> QED  BY <2>1, <2>2, <2>3, <1>4 DEF CountOK
<1>11. Cardinality(FreeIn(has2, d, p)) = ar[p].free_cnt + 1 /\ ar[p].free_cnt + 1 <= n
  <2>1. IsFiniteSet(FreeIn(has, d, p)) /\ Cardinality(FreeIn(has2, d, p)) <= n
    BY FreeInFinite
  <2>2. Cardinality(FreeIn(has, d, p) \cup {b}) = Cardinality(FreeIn(has, d, p)) + 1
    BY <2>1, <1>10, FS_AddElement
  <2> QED  BY <2>1, <2>2, <1>10
<1>12. /\ ar2 \in [PageNo -> Header]
       /\ \A q \in PageNo : /\ ar2[q].desc = ar[q].desc
                            /\ q # p => ar2[q] = ar[q]
       /\ ar2[p].free_cnt = ar[p].free_cnt + 1
  <2>1. PICK h : h = ar[p] /\ h \in Header
    BY <1>1, <1>3
  <2>2. ar2 = [ar EXCEPT ![p] = [h EXCEPT !.free_cnt = @ + 1]]
    BY <2>1, <1>0, <1>3
  <2>3. /\ [h EXCEPT !.free_cnt = @ + 1] \in Header
        /\ [h EXCEPT !.free_cnt = @ + 1].desc = h.desc
        /\ [h EXCEPT !.free_cnt = @ + 1].free_cnt = h.free_cnt + 1
    BY <2>1 DEF Header
  <2> QED  BY <1>1, <1>3, <2>1, <2>2, <2>3
<1>13. ASSUME NEW u \in HThread, NEW g \in has[u]
       PROVE  Region(ar2, g) = Region(ar, g) /\ BlockOK(cl, used, ar2, g)
  <2>1. /\ g \in S /\ g[1] \in PageNo /\ g[1] \in Region(ar, g) /\ BlockOK(cl, used, ar, g)
        /\ \A q \in Region(ar, g) : q \in PageNo /\ (ar[q].desc \in Classes => g[2] # 0 /\ g[1] = q)
    BY HandPages
  <2>3. g[1] = p => g[2] # 0
    BY <2>1, <1>4
  <2>4. Region(ar2, g) = Region(ar, g)
    BY <2>1, <2>3, <1>12 DEF Region
  <2> QED  BY <2>1, <2>3, <2>4, <1>12 DEF BlockOK
<1>14. HandsOK(cl, has2, own, used, ar2)
  <2>1. \A u \in HThread : \A g \in own[u] : g \in has[u] /\ g # b
    BY DEF World, HandsOK
  <2>2. \A u, v \in HThread : \A g \in has[u] : g \in has[v] => u = v
    BY DEF World, HandsOK
  <2> QED  BY <1>5, <1>13, <2>1, <2>2 DEF HandsOK
<1>15. UsedOK(cl, has2, used, ar2)
  <2>1. UsedOK(cl, has, used, ar)
    BY DEF World
  <2>2. \A q : InBig(has, ar, q) => InBig(has2, ar2, q)
    BY <1>5, <1>13 DEF InBig
  <2> QED  BY <1>1, <1>12, <2>1, <2>2 DEF UsedOK
<1>16. ASSUME NEW c \in Classes PROVE ListOK(cl, has2, ar2, fl2[c], c)
  <2>0. \A g \in S : g[1] \in PageNo
    OBVIOUS
  <2>1. ListOK(cl, has, ar, fl[c], c)
    BY DEF World
  <2>2. CASE c = d
    <3>1. \A g \in S : Free(cl, has2, ar2, d, g) <=> Free(cl, has, ar, d, g) \/ g = b
      BY <2>0, <1>3, <1>4, <1>6, <1>12 DEF Free
    <3> QED  BY <2>1, <2>2, <3>1, <1>8, <1>9 DEF ListOK
  <2>3. CASE c # d
    <3>1. \A g \in S : Free(cl, has2, ar2, c, g) <=> Free(cl, has, ar, c, g)
      BY <2>0, <2>3, <1>3, <1>4, <1>6, <1>12 DEF Free
    <3> QED  BY <2>1, <2>3, <3>1, <1>9 DEF ListOK
  <2> QED  BY <2>2, <2>3
<1>17. ASSUME NEW q \in PageNo PROVE CountOK(cl, has2, ar2, q)
  <2>1. CASE q = p
    BY <2>1, <1>4, <1>11, <1>12 DEF CountOK
  <2>2. CASE q # p
    <3>1. CountOK(cl, has, ar, q) /\ ar2[q] = ar[q]
      BY <2>2, <1>12 DEF World
    <3>2. \A c : FreeIn(has2, c, q) = FreeIn(has, c, q)
      BY <2>2, <1>3, <1>6 DEF FreeIn
    <3> QED  BY <3>1, <3>2 DEF CountOK
  <2> QED  BY <2>1, <2>2
<1>18. MarksOK(own, ar2, mk)
  <2>1. \A u \in HThread : \A g \in own[u] : g \in has[u]
    BY DEF World, HandsOK
  <2>2. MarksOK(own, ar, mk)
    BY DEF World
  <2> QED  BY <1>13, <2>1, <2>2 DEF MarksOK
<1>19. WorldType(cl, has2, own, used, ar2, fl2, mk) /\ ClaimsOK(cl, used)
  BY <1>5, <1>9, <1>12 DEF World, WorldType
<1>20. World(cl, has2, own, used, ar2, fl2, mk)
  BY <1>14, <1>15, <1>16, <1>17, <1>18, <1>19 DEF World
<1> QED  BY <1>3, <1>4, <1>9, <1>11, <1>12, <1>20

(* two blocks in hands share no page, unless both are blocks of an arena *)
LEMMA HandsApart ==
    ASSUME NEW cl, NEW has, NEW own, NEW used, NEW ar, NEW fl, NEW mk,
           World(cl, has, own, used, ar, fl, mk),
           NEW u \in HThread, NEW b \in has[u], NEW v \in HThread, NEW g \in has[v],
           NEW q \in Region(ar, b), q \in Region(ar, g), b # g
    PROVE  b[2] # 0 /\ g[2] # 0 /\ b[2] # g[2] /\ b[1] = g[1] /\ q = b[1]
<1>1. /\ b \in PageNo \X Index /\ b[1] \in PageNo /\ BlockOK(cl, used, ar, b)
      /\ b[1] \in Region(ar, b) /\ q \in PageNo
      /\ ar[q].desc \in Classes => b[2] # 0 /\ b[1] = q
  BY HandPages
<1>2. /\ g \in PageNo \X Index /\ g[1] \in PageNo /\ BlockOK(cl, used, ar, g)
      /\ g[1] \in Region(ar, g)
      /\ ar[q].desc \in Classes => g[2] # 0 /\ g[1] = q
  BY HandPages
<1>3. b = <<b[1], b[2]>> /\ g = <<g[1], g[2]>>
  BY <1>1, <1>2
<1>4. CASE b[2] # 0
  <2>1. b[1] = q /\ ar[q].desc \in Classes
    BY <1>1, <1>4 DEF Region, BlockOK
  <2> QED  BY <2>1, <1>2, <1>3, <1>4
<1>5. CASE g[2] # 0
  <2>1. g[1] = q /\ ar[q].desc \in Classes
    BY <1>2, <1>5 DEF Region, BlockOK
  <2> QED  BY <2>1, <1>1, <1>3, <1>5
<1>6. CASE b[2] = 0 /\ g[2] = 0
  <2>1. b[1] # g[1]
    BY <1>3, <1>6
  <2>2. /\ ar[b[1]].desc = Big /\ ar[g[1]].desc = Big /\ Big # -1
        /\ b[1] \notin Region(ar, g) /\ g[1] \notin Region(ar, b)
    BY <1>1, <1>2, <1>6, <2>1 DEF BlockOK, Big
  <2>3. PICK m, n : m = ar[b[1]].free_cnt /\ n = ar[g[1]].free_cnt /\ m \in Nat /\ n \in Nat
    BY <1>1, <1>2 DEF World, WorldType, Header
  <2>4. Region(ar, b) = b[1] .. b[1] + m - 1 /\ Region(ar, g) = g[1] .. g[1] + n - 1
    BY <1>6, <2>3 DEF Region
  <2>5. PICK x, y : x = b[1] /\ y = g[1] /\ x \in Int /\ y \in Int /\ q \in Int
    BY <1>1, <1>2 DEF PageNo
  <2>6. /\ x # y /\ q \in x .. x + m - 1 /\ q \in y .. y + n - 1
        /\ x \notin y .. y + n - 1 /\ y \notin x .. x + m - 1
    BY <2>1, <2>2, <2>4, <2>5
  <2> QED  BY <2>3, <2>5, <2>6
<1> QED  BY <1>4, <1>5, <1>6

(* a block of an arena is cleared, and no longer its thread's *)
LEMMA PoisonWorld ==
    ASSUME NEW cl, NEW has, NEW own, NEW used, NEW ar, NEW fl, NEW mk,
           World(cl, has, own, used, ar, fl, mk),
           NEW t \in HThread, NEW b \in own[t], b[2] # 0,
           NEW own2, own2 = [own EXCEPT ![t] = @ \ {b}],
           NEW mk2, mk2 = [mk EXCEPT ![b[1]][b[2]] = "poison"]
    PROVE  World(cl, has, own2, used, ar, fl, mk2)
<1>1. b \in has[t]
  BY DEF World, HandsOK
<1>2. b \in PageNo \X Index /\ b[1] \in Region(ar, b)
  BY <1>1, HandPages
<1>3. PICK p, i : p = b[1] /\ i = b[2] /\ b = <<p, i>> /\ p \in PageNo /\ i \in Index
  BY <1>2
<1>4. /\ own2 \in [HThread -> SUBSET (PageNo \X Index)]
      /\ \A u \in HThread : \A g \in own2[u] : g \in own[u] /\ g \in has[u] /\ g # b
  <2>1. own \in [HThread -> SUBSET (PageNo \X Index)]
    BY DEF World, WorldType
  <2>2. \A u, v \in HThread : \A g \in has[u] : g \in has[v] => u = v
    BY DEF World, HandsOK
  <2>3. \A u \in HThread : \A g \in own[u] : g \in has[u]
    BY DEF World, HandsOK
  <2> QED  BY <1>1, <2>1, <2>2, <2>3
<1>5. /\ mk2 \in [PageNo -> [Index -> HThread \cup {"poison"}]]
      /\ \A q \in PageNo : \A j \in Index : mk2[q][j] = IF q = p /\ j = i THEN "poison" ELSE mk[q][j]
  <2>1. mk \in [PageNo -> [Index -> HThread \cup {"poison"}]]
    BY DEF World, WorldType
  <2>2. PICK m : m = mk[p] /\ m \in [Index -> HThread \cup {"poison"}]
    BY <2>1, <1>3
  <2>3. mk2 = [mk EXCEPT ![p] = [m EXCEPT ![i] = "poison"]]
    BY <2>2, <1>3
  <2>4. /\ [m EXCEPT ![i] = "poison"] \in [Index -> HThread \cup {"poison"}]
        /\ \A j \in Index : [m EXCEPT ![i] = "poison"][j] = IF j = i THEN "poison" ELSE m[j]
    BY <2>2
  <2> QED  BY <2>1, <2>2, <2>3, <2>4, <1>3
<1>6. MarksOK(own2, ar, mk2)
  <2> SUFFICES ASSUME NEW u \in HThread, NEW g \in own2[u], NEW q \in Region(ar, g)
               PROVE  mk2[q][g[2]] = u
    BY DEF MarksOK
  <2>1. g \in own[u] /\ g \in has[u] /\ g # b
    BY <1>4
  <2>2. g \in PageNo \X Index /\ q \in PageNo /\ g[2] \in Index
    BY <2>1, HandPages
  <2>3. mk[q][g[2]] = u
    BY <2>1 DEF World, MarksOK
  <2>4. ~(q = p /\ g[2] = i)
    <3>1. SUFFICES ASSUME q = p, g[2] = i PROVE FALSE
      OBVIOUS
    <3>2. g[2] # 0
      BY <3>1, <1>3
    <3>3. g[1] = q
      BY <3>2 DEF Region
    <3> QED  BY <3>1, <3>3, <2>1, <2>2, <1>3
  <2> QED  BY <2>2, <2>3, <2>4, <1>5
<1>7. HandsOK(cl, has, own2, used, ar)
  BY <1>4 DEF World, HandsOK
<1>8. WorldType(cl, has, own2, used, ar, fl, mk2)
  BY <1>4, <1>5 DEF World, WorldType
<1> QED  BY <1>6, <1>7, <1>8 DEF World

(* what changes as t gives big block b back *)
PagesBack(t, b, cl, has, own, ar, cl2, has2, own2) ==
    /\ cl2 = [cl EXCEPT ![t] = Region(ar, b)]
    /\ has2 = [has EXCEPT ![t] = @ \ {b}] /\ own2 = [own EXCEPT ![t] = @ \ {b}]

(* a big block is given back: its pages are claimed *)
LEMMA FreePagesWorld ==
    ASSUME NEW cl, NEW has, NEW own, NEW used, NEW ar, NEW fl, NEW mk,
           World(cl, has, own, used, ar, fl, mk),
           NEW t \in HThread, NEW b \in has[t], b[2] = 0, cl[t] = {},
           NEW cl2, NEW has2, NEW own2, PagesBack(t, b, cl, has, own, ar, cl2, has2, own2)
    PROVE  World(cl2, has2, own2, used, ar, fl, mk)
<1> DEFINE S == PageNo \X Index
           R == Region(ar, b)
<1>0. /\ cl2 = [cl EXCEPT ![t] = R]
      /\ has2 = [has EXCEPT ![t] = @ \ {b}] /\ own2 = [own EXCEPT ![t] = @ \ {b}]
  BY DEF PagesBack
<1>1. /\ b \in S /\ b[1] \in PageNo /\ BlockOK(cl, used, ar, b) /\ b[1] \in R
      /\ \A p \in R : p \in PageNo /\ ~Claimed(cl, p) /\ p \in used /\ ar[p].desc \notin Classes
  <2>1. BlockOK(cl, used, ar, b)
    BY HandPages
  <2> QED  BY <2>1, HandPages DEF BlockOK
<1> HIDE DEF R
<1>2. /\ cl2 \in [HThread -> SUBSET PageNo]
      /\ \A u \in HThread : cl2[u] = IF u = t THEN R ELSE cl[u]
  BY <1>0, <1>1 DEF World, WorldType, R
<1>3. \A q : Claimed(cl2, q) <=> Claimed(cl, q) \/ q \in R
  BY <1>2 DEF Claimed
<1>4. \A u \in HThread : b \in has[u] => u = t
  BY DEF World, HandsOK
<1>5. /\ has2 \in [HThread -> SUBSET S] /\ own2 \in [HThread -> SUBSET S]
      /\ \A u \in HThread : \A g : g \in has2[u] <=> g \in has[u] /\ g # b
      /\ \A u \in HThread : \A g : g \in own2[u] <=> g \in own[u] /\ g # b
  <2>1. has \in [HThread -> SUBSET S] /\ own \in [HThread -> SUBSET S]
    BY DEF World, WorldType
  <2>2. \A u \in HThread : b \in own[u] => u = t
    BY <1>4 DEF World, HandsOK
  <2> QED  BY <1>0, <1>4, <2>1, <2>2
<1>6. \A g : Loose(has2, g) <=> Loose(has, g) \/ g = b
  BY <1>5 DEF Loose
<1>7. ASSUME NEW u \in HThread, NEW g \in has2[u] PROVE BlockOK(cl2, used, ar, g)
  <2>1. g \in has[u] /\ g # b
    BY <1>5
  <2>2. BlockOK(cl, used, ar, g)
    BY <2>1, HandPages
  <2>3. \A q \in Region(ar, g) : q \notin R
    BY <2>1, HandsApart DEF R
  <2> QED  BY <2>2, <2>3, <1>3 DEF BlockOK
<1>8. HandsOK(cl2, has2, own2, used, ar)
  <2>1. \A u \in HThread : \A g \in own[u] : g \in has[u]
    BY DEF World, HandsOK
  <2>2. \A u, v \in HThread : \A g \in has[u] : g \in has[v] => u = v
    BY DEF World, HandsOK
  <2> QED  BY <1>5, <1>7, <2>1, <2>2 DEF HandsOK
<1>9. ClaimsOK(cl2, used)
  BY <1>1, <1>2 DEF World, ClaimsOK, Claimed
<1>10. UsedOK(cl2, has2, used, ar)
  <2>1. UsedOK(cl, has, used, ar)
    BY DEF World
  <2>2. ASSUME NEW q, InBig(has, ar, q) PROVE InBig(has2, ar, q) \/ Claimed(cl2, q)
    <3>0. PICK u \in HThread : \E g \in has[u] : g[2] = 0 /\ q \in Region(ar, g)
      BY <2>2 DEF InBig
    <3>1. PICK g \in has[u] : g[2] = 0 /\ q \in Region(ar, g)
      BY <3>0
    <3>2. CASE g = b
      BY <3>1, <3>2, <1>3 DEF R
    <3>3. CASE g # b
      BY <3>1, <3>3, <1>5 DEF InBig
    <3> QED  BY <3>2, <3>3
  <2> QED  BY <2>1, <2>2, <1>3 DEF UsedOK
<1>11. ASSUME NEW c \in Classes PROVE ListOK(cl2, has2, ar, fl[c], c)
  <2>1. ListOK(cl, has, ar, fl[c], c)
    BY DEF World
  <2>2. b[2] \notin 1 .. BlocksPerArena[c]
    BY HeapAssumption
  <2>3. ASSUME NEW g \in S PROVE Free(cl2, has2, ar, c, g) <=> Free(cl, has, ar, c, g)
    <3>1. g[1] \in PageNo
      OBVIOUS
    <3>2. ar[g[1]].desc = c => g[1] \notin R
      BY <3>1, <1>1
    <3>3. Claimed(cl2, g[1]) <=> Claimed(cl, g[1]) \/ g[1] \in R
      BY <1>3
    <3> QED  BY <3>2, <3>3, <2>2, <1>6 DEF Free
  <2> QED  BY <2>1, <2>3 DEF ListOK
<1>12. ASSUME NEW q \in PageNo PROVE CountOK(cl2, has2, ar, q)
  <2>1. CountOK(cl, has, ar, q)
    BY DEF World
  <2>2. \A c \in Classes : FreeIn(has2, c, q) = FreeIn(has, c, q)
    <3>1. \A c \in Classes : b \notin {q} \X (1 .. BlocksPerArena[c])
      BY HeapAssumption
    <3> QED  BY <3>1, <1>6 DEF FreeIn
  <2> QED  BY <2>1, <2>2, <1>3 DEF CountOK
<1>13. MarksOK(own2, ar, mk)
  BY <1>5 DEF World, MarksOK
<1>14. WorldType(cl2, has2, own2, used, ar, fl, mk)
  BY <1>2, <1>5 DEF World, WorldType
<1> QED  BY <1>8, <1>9, <1>10, <1>11, <1>12, <1>13, <1>14 DEF World

(* claimed pages become a big block of the thread, which writes them *)
PagesGiven(t, p, n, b, has, own, ar, mk, has2, own2, ar2, mk2) ==
    /\ b = Block(p, 0)
    /\ has2 = [has EXCEPT ![t] = @ \cup {b}] /\ own2 = [own EXCEPT ![t] = @ \cup {b}]
    /\ ar2 = [ar EXCEPT ![p] = [desc |-> Big, free_cnt |-> n]]
    /\ mk2 = [q \in PageNo |-> IF q \in p .. p + n - 1 THEN [mk[q] EXCEPT ![0] = t] ELSE mk[q]]

(* The claimed pages become a big block. *)
LEMMA PagesWorld ==
    ASSUME NEW cl, NEW has, NEW own, NEW used, NEW ar, NEW fl, NEW mk,
           World(cl, has, own, used, ar, fl, mk),
           NEW t \in HThread, NEW p \in Nat, NEW n \in Nat \ {0},
           cl[t] = p .. p + n - 1, \A q \in cl[t] : ar[q].desc = -1,
           NEW b, NEW has2, NEW own2, NEW ar2, NEW mk2,
           PagesGiven(t, p, n, b, has, own, ar, mk, has2, own2, ar2, mk2),
           NEW cl2, cl2 = [cl EXCEPT ![t] = {}]
    PROVE  World(cl2, has2, own2, used, ar2, fl, mk2)
<1> DEFINE S == PageNo \X Index
           R == p .. p + n - 1
<1>0. /\ b = Block(p, 0)
      /\ has2 = [has EXCEPT ![t] = @ \cup {b}] /\ own2 = [own EXCEPT ![t] = @ \cup {b}]
      /\ ar2 = [ar EXCEPT ![p] = [desc |-> Big, free_cnt |-> n]]
      /\ mk2 = [q \in PageNo |-> IF q \in R THEN [mk[q] EXCEPT ![0] = t] ELSE mk[q]]
  BY DEF PagesGiven
<1>1. /\ cl \in [HThread -> SUBSET PageNo] /\ R = cl[t]
      /\ R \subseteq PageNo /\ R \subseteq used /\ p \in R /\ p \in PageNo
      /\ \A q \in R : Claimed(cl, q) /\ ar[q].desc = -1
  <2>1. cl \in [HThread -> SUBSET PageNo] /\ cl[t] \subseteq used
    BY DEF World, WorldType, ClaimsOK
  <2>2. p \in R
    OBVIOUS
  <2> QED  BY <2>1, <2>2 DEF Claimed
<1>2. b = <<p, 0>> /\ b[1] = p /\ b[2] = 0 /\ 0 \in Index /\ b \in S
  BY <1>0, <1>1 DEF Block, Index
<1>3. /\ cl2 \in [HThread -> SUBSET PageNo]
      /\ \A u \in HThread : cl2[u] = IF u = t THEN {} ELSE cl[u]
  BY <1>1
<1>4. \A u \in HThread : \A q \in R : q \in cl[u] => u = t
  BY <1>1 DEF World, ClaimsOK
<1> HIDE DEF R
<1>5. \A q : (Claimed(cl, q) <=> Claimed(cl2, q) \/ q \in R) /\ ~(Claimed(cl2, q) /\ q \in R)
  BY <1>1, <1>3, <1>4 DEF Claimed
<1>6. /\ ar2 \in [PageNo -> Header] /\ ar2[p].desc = Big /\ ar2[p].free_cnt = n
      /\ \A q \in PageNo : q # p => ar2[q] = ar[q]
  <2>1. [desc |-> Big, free_cnt |-> n] \in Header
    BY DEF Header
  <2> QED  BY <2>1, <1>0, <1>1 DEF World, WorldType
<1>7. /\ mk2 \in [PageNo -> [Index -> HThread \cup {"poison"}]]
      /\ \A q \in PageNo : q \notin R => mk2[q] = mk[q]
      /\ \A q \in R : mk2[q][0] = t
  <2>1. mk \in [PageNo -> [Index -> HThread \cup {"poison"}]]
    BY DEF World, WorldType
  <2>2. \A q \in PageNo : mk2[q] = IF q \in R THEN [mk[q] EXCEPT ![0] = t] ELSE mk[q]
    BY <1>0
  <2>3. \A q \in PageNo : /\ [mk[q] EXCEPT ![0] = t] \in [Index -> HThread \cup {"poison"}]
                          /\ [mk[q] EXCEPT ![0] = t][0] = t
    BY <2>1, <1>2
  <2> QED  BY <2>1, <2>2, <2>3, <1>0, <1>1
<1>8. ASSUME NEW u \in HThread, NEW g \in has[u]
      PROVE  /\ g \in S /\ g[1] \in PageNo /\ g[1] \notin R /\ g # b
             /\ Region(ar2, g) = Region(ar, g) /\ BlockOK(cl2, used, ar2, g)
             /\ \A q \in Region(ar, g) : q \in PageNo /\ q \notin R
  <2>1. /\ g \in S /\ g[1] \in PageNo /\ g[1] \in Region(ar, g) /\ BlockOK(cl, used, ar, g)
        /\ \A q \in Region(ar, g) : q \in PageNo /\ ~Claimed(cl, q)
    BY HandPages
  <2>2. \A q \in Region(ar, g) : q \notin R
    BY <2>1, <1>1
  <2>3. g[1] # p /\ g # b /\ g[1] \notin R
    BY <2>1, <2>2, <1>1, <1>2
  <2>4. Region(ar2, g) = Region(ar, g)
    BY <2>1, <2>3, <1>6 DEF Region
  <2>5. \A q \in Region(ar, g) : q # p
    BY <2>2, <1>1
  <2>6. BlockOK(cl2, used, ar2, g)
    BY <2>1, <2>3, <2>4, <2>5, <1>5, <1>6 DEF BlockOK
  <2> QED  BY <2>1, <2>2, <2>3, <2>4, <2>6
<1>9. /\ has2 \in [HThread -> SUBSET S] /\ own2 \in [HThread -> SUBSET S]
      /\ \A u \in HThread : \A g : g \in has2[u] <=> g \in has[u] \/ (u = t /\ g = b)
      /\ \A u \in HThread : \A g : g \in own2[u] <=> g \in own[u] \/ (u = t /\ g = b)
  BY <1>0, <1>2 DEF World, WorldType
<1>10. Region(ar2, b) = R
  BY <1>2, <1>6 DEF Region, R
<1>11. BlockOK(cl2, used, ar2, b)
  <2>1. \A q \in R : q # p => ar2[q].desc = -1
    BY <1>1, <1>6
  <2>2. \A q \in R : q \in used /\ ~Claimed(cl2, q)
    BY <1>1, <1>5
  <2>3. ar2[p].desc = Big /\ ar2[p].free_cnt >= 1
    BY <1>6
  <2> QED  BY <2>1, <2>2, <2>3, <1>2, <1>10 DEF BlockOK
<1>12. HandsOK(cl2, has2, own2, used, ar2)
  <2>1. \A u \in HThread : \A g \in own[u] : g \in has[u]
    BY DEF World, HandsOK
  <2>2. \A u, v \in HThread : \A g \in has[u] : g \in has[v] => u = v
    BY DEF World, HandsOK
  <2>3. \A u \in HThread : \A g \in has2[u] : BlockOK(cl2, used, ar2, g)
    BY <1>8, <1>9, <1>11
  <2>4. \A u \in HThread : b \notin has[u]
    BY <1>8
  <2>5. \A u, v \in HThread : \A g \in has2[u] : g \in has2[v] => u = v
    BY <2>2, <2>4, <1>9
  <2>6. \A u \in HThread : \A g \in own2[u] : g \in has2[u]
    BY <2>1, <1>9
  <2> QED  BY <2>3, <2>5, <2>6 DEF HandsOK
<1>13. ClaimsOK(cl2, used)
  BY <1>3 DEF World, ClaimsOK
<1>14. UsedOK(cl2, has2, used, ar2)
  <2>1. UsedOK(cl, has, used, ar) /\ used \subseteq PageNo
    BY DEF World, WorldType
  <2>2. \A q : InBig(has, ar, q) => InBig(has2, ar2, q)
    BY <1>8, <1>9 DEF InBig
  <2>3. \A q \in R : InBig(has2, ar2, q)
    <3>1. b \in has2[t]
      BY <1>9
    <3> QED  BY <3>1, <1>2, <1>10 DEF InBig
  <2>4. \A q \in used : q \notin R => ar2[q] = ar[q]
    BY <2>1, <1>1, <1>6
  <2>5. \A q \in used : ar2[q].desc \in Classes \/ Claimed(cl2, q) \/ InBig(has2, ar2, q)
    BY <2>1, <2>2, <2>3, <2>4, <1>5 DEF UsedOK
  <2>6. \A q \in PageNo : ar2[q].desc # -1 => q \in used
    BY <2>1, <1>1, <1>6 DEF UsedOK
  <2> QED  BY <2>5, <2>6 DEF UsedOK
<1>15. \A q \in PageNo : ar2[q].desc \in Classes => ar2[q] = ar[q] /\ q \notin R
  <2>1. Big \notin Classes /\ -1 \notin Classes
    BY HeapAssumption DEF Big
  <2> QED  BY <2>1, <1>1, <1>6
<1>16. \A q \in PageNo : ar[q].desc \in Classes => ar2[q] = ar[q] /\ q \notin R
  <2>1. -1 \notin Classes
    BY HeapAssumption
  <2> QED  BY <2>1, <1>1, <1>6
<1>17. \A g : Loose(has2, g) <=> Loose(has, g) /\ g # b
  BY <1>9 DEF Loose
<1>18. ASSUME NEW c \in Classes PROVE ListOK(cl2, has2, ar2, fl[c], c)
  <2>1. ListOK(cl, has, ar, fl[c], c)
    BY DEF World
  <2>2. b[2] \notin 1 .. BlocksPerArena[c]
    BY HeapAssumption, <1>2
  <2>3. ASSUME NEW g \in S PROVE Free(cl2, has2, ar2, c, g) <=> Free(cl, has, ar, c, g)
    <3>1. g[1] \in PageNo
      OBVIOUS
    <3>2. ar[g[1]].desc = c <=> ar2[g[1]].desc = c
      BY <3>1, <1>15, <1>16
    <3>3. ar[g[1]].desc = c => (Claimed(cl2, g[1]) <=> Claimed(cl, g[1]))
      BY <3>1, <1>5, <1>16
    <3> QED  BY <3>2, <3>3, <2>2, <1>17 DEF Free
  <2> QED  BY <2>1, <2>3 DEF ListOK
<1>19. ASSUME NEW q \in PageNo PROVE CountOK(cl2, has2, ar2, q)
  <2>1. CountOK(cl, has, ar, q)
    BY DEF World
  <2>2. \A c \in Classes : FreeIn(has2, c, q) = FreeIn(has, c, q)
    <3>1. \A c \in Classes : b \notin {q} \X (1 .. BlocksPerArena[c])
      BY HeapAssumption, <1>2
    <3> QED  BY <3>1, <1>17 DEF FreeIn
  <2>3. CASE ar2[q].desc \in Classes
    BY <2>1, <2>2, <2>3, <1>5, <1>15 DEF CountOK
  <2> QED  BY <2>3 DEF CountOK
<1>20. MarksOK(own2, ar2, mk2)
  <2>1. \A u \in HThread : \A g \in own[u] : g \in has[u]
    BY DEF World, HandsOK
  <2>2. MarksOK(own, ar, mk)
    BY DEF World
  <2> SUFFICES ASSUME NEW u \in HThread, NEW g \in own2[u], NEW q \in Region(ar2, g)
               PROVE  mk2[q][g[2]] = u
    BY DEF MarksOK
  <2>3. CASE u = t /\ g = b
    BY <2>3, <1>2, <1>7, <1>10
  <2>4. CASE g \in own[u]
    <3>1. g \in has[u]
      BY <2>1, <2>4
    <3>2. q \in Region(ar, g) /\ q \in PageNo /\ q \notin R
      BY <3>1, <1>8
    <3>3. mk[q][g[2]] = u
      BY <2>2, <2>4, <3>2 DEF MarksOK
    <3> QED  BY <3>2, <3>3, <1>7
  <2> QED  BY <2>3, <2>4, <1>9
<1>21. WorldType(cl2, has2, own2, used, ar2, fl, mk2)
  BY <1>3, <1>6, <1>7, <1>9 DEF World, WorldType
<1> QED  BY <1>12, <1>13, <1>14, <1>18, <1>19, <1>20, <1>21 DEF World

(* the order of the natural numbers, as a relation *)
LessNat == OpToRel(<, Nat)

(* What the relation LessNat holds. *)
LEMMA LessNatIs ==
    ASSUME NEW m \in Nat, NEW n \in Nat, m < n
    PROVE  <<m, n>> \in LessNat
<1>1. /\ <<m, n>> \in Nat \X Nat
      /\ <<m, n>>[1] = m /\ <<m, n>>[2] = n
  OBVIOUS
<1>2. <<m, n>>[1] < <<m, n>>[2]
  BY <1>1
<1> QED
  BY <1>1, <1>2, Zenon DEF LessNat, OpToRel

(* A set of natural numbers has a least element. *)
LEMMA LeastNat ==
    ASSUME NEW S, S \subseteq Nat, S # {}
    PROVE  \E m \in S : \A n \in S : m <= n
<1>1. IsWellFoundedOn(LessNat, Nat)
  BY NatLessThanWellFounded, Zenon DEF LessNat
<1>2. PICK m \in S : \A n \in S : ~(<<n, m>> \in LessNat)
  BY <1>1, WFMin
<1>3. ASSUME NEW n \in S
      PROVE  m <= n
  <2>1. ~(n < m)
    BY <1>2, LessNatIs
  <2> QED
    BY <2>1
<1> QED
  BY <1>3

(* list_remove() takes one element out of a list and leaves the rest *)
LEMMA RemovedLists ==
    ASSUME NEW S, NEW l \in Seq(S), NoRepeats(l), NEW b, Lists(l, b)
    PROVE  /\ Removed(l, b) \in Seq(S) /\ NoRepeats(Removed(l, b))
           /\ \A g : Lists(Removed(l, b), g) <=> Lists(l, g) /\ g # b
<1> DEFINE k == CHOOSE k \in DOMAIN l : l[k] = b
           n == Len(l)
           r == [j \in 1 .. n - 1 |-> IF j < k THEN l[j] ELSE l[j + 1]]
<1>1. Removed(l, b) = r
  BY DEF Removed
<1>2. /\ n \in Nat /\ DOMAIN l = 1 .. n /\ \A i \in 1 .. n : l[i] \in S
      /\ k \in 1 .. n /\ l[k] = b
  <2>1. n \in Nat /\ DOMAIN l = 1 .. n /\ \A i \in 1 .. n : l[i] \in S
    OBVIOUS
  <2>2. \E i \in DOMAIN l : l[i] = b
    BY <2>1 DEF Lists
  <2>3. k \in DOMAIN l /\ l[k] = b
    BY <2>2
  <2> QED  BY <2>1, <2>3
<1> HIDE DEF k
<1>3. n - 1 \in Nat /\ r \in Seq(S) /\ Len(r) = n - 1
  <2>1. n - 1 \in Nat
    BY <1>2
  <2>2. \A j \in 1 .. n - 1 : (IF j < k THEN l[j] ELSE l[j + 1]) \in S
    BY <1>2
  <2>3. r \in [1 .. n - 1 -> S]
    BY <2>2
  <2> QED  BY <2>1, <2>3
<1>4. \A j \in 1 .. n - 1 : r[j] = IF j < k THEN l[j] ELSE l[j + 1]
  OBVIOUS
<1> HIDE DEF n, r
<1>5. ASSUME NEW i \in 1 .. n - 1, NEW j \in 1 .. n - 1, r[i] = r[j] PROVE i = j
  <2>1. PICK x, y : /\ x = (IF i < k THEN i ELSE i + 1) /\ y = (IF j < k THEN j ELSE j + 1)
                    /\ x \in 1 .. n /\ y \in 1 .. n
    BY <1>2
  <2>2. l[x] = l[y]
    BY <1>4, <1>5, <2>1
  <2>3. x = y
    BY <2>1, <2>2 DEF NoRepeats, n
  <2> QED  BY <1>2, <2>1, <2>3
<1>6. ASSUME NEW g PROVE (\E j \in 1 .. n - 1 : r[j] = g) <=> (\E i \in 1 .. n : l[i] = g) /\ g # b
  <2>1. ASSUME NEW j \in 1 .. n - 1, r[j] = g PROVE (\E i \in 1 .. n : l[i] = g) /\ g # b
    <3>1. PICK x : x = (IF j < k THEN j ELSE j + 1) /\ x \in 1 .. n /\ x # k
      BY <1>2
    <3>2. l[x] = g
      BY <1>4, <2>1, <3>1
    <3>3. l[x] # l[k]
      BY <1>2, <3>1 DEF NoRepeats, n
    <3> QED  BY <3>1, <3>2, <3>3, <1>2
  <2>2. ASSUME NEW i \in 1 .. n, l[i] = g, g # b PROVE \E j \in 1 .. n - 1 : r[j] = g
    <3>1. i # k
      BY <1>2, <2>2
    <3>2. CASE i < k
      <4>1. i \in 1 .. n - 1
        BY <1>2, <3>2
      <4> QED  BY <4>1, <3>2, <2>2, <1>4
    <3>3. CASE i > k
      <4>1. i - 1 \in 1 .. n - 1 /\ ~(i - 1 < k) /\ (i - 1) + 1 = i
        BY <1>2, <3>3
      <4>2. r[i - 1] = l[i]
        BY <4>1, <1>4
      <4> QED  BY <4>1, <4>2, <2>2
    <3> QED  BY <3>1, <3>2, <3>3, <1>2
  <2> QED  BY <2>1, <2>2
<1>7. r \in Seq(S) /\ NoRepeats(r) /\ \A g : Lists(r, g) <=> Lists(l, g) /\ g # b
  BY <1>3, <1>5, <1>6 DEF NoRepeats, Lists, n
<1> QED  BY <1>1, <1>7

(* the loop of free() over the blocks of an arena, unfolded *)
Unfolds(f, l, p, k) == f = [i \in 0 .. k |-> IF i = 0 THEN l ELSE Removed(f[i - 1], Block(p, i))]

(* The loop that removes the blocks of an arena one after the other takes  *)
(* its steps.                                                              *)
LEMMA Unfolded ==
    ASSUME NEW l, NEW p, NEW cnt \in Nat
    PROVE  \E f : Unfolds(f, l, p, cnt) /\ ArenaRemoved(l, p, cnt) = f[cnt]
<1> DEFINE Bad == {k \in Nat : ~\E f : Unfolds(f, l, p, k)}
<1>1. Bad = {}
  <2> SUFFICES ASSUME Bad # {} PROVE FALSE
    OBVIOUS
  <2>1. PICK k \in Bad : \A j \in Bad : k <= j
    BY LeastNat
  <2>2. k # 0
    <3> DEFINE g == [i \in 0 .. 0 |-> l]
    <3>1. \A i \in 0 .. 0 : i = 0
      OBVIOUS
    <3>2. g = [i \in 0 .. 0 |-> IF i = 0 THEN l ELSE Removed(g[i - 1], Block(p, i))]
      BY <3>1
    <3> QED  BY <3>2, <2>1 DEF Unfolds
  <2>3. k - 1 \in Nat /\ k - 1 \notin Bad
    BY <2>1, <2>2
  <2>4. PICK f : Unfolds(f, l, p, k - 1)
    BY <2>3
  <2> DEFINE g == [i \in 0 .. k |-> IF i = k THEN Removed(f[k - 1], Block(p, k)) ELSE f[i]]
  <2>5. \A i \in 0 .. k : g[i] = IF i = 0 THEN l ELSE Removed(g[i - 1], Block(p, i))
    <3> SUFFICES ASSUME NEW i \in 0 .. k
                 PROVE  g[i] = IF i = 0 THEN l ELSE Removed(g[i - 1], Block(p, i))
      OBVIOUS
    <3>0. \A j \in 0 .. k - 1 : f[j] = IF j = 0 THEN l ELSE Removed(f[j - 1], Block(p, j))
      BY <2>4 DEF Unfolds
    <3>1. CASE i = k
      <4>1. k - 1 \in 0 .. k /\ k - 1 # k
        BY <2>1, <2>3
      <4>2. g[k - 1] = f[k - 1] /\ g[k] = Removed(f[k - 1], Block(p, k))
        BY <4>1, <3>1
      <4> QED  BY <4>2, <3>1, <2>2
    <3>2. CASE i # k
      <4>1. i \in 0 .. k - 1 /\ g[i] = f[i]
        BY <3>2, <2>1
      <4>2. i # 0 => i - 1 \in 0 .. k /\ i - 1 # k
        BY <3>2, <2>1
      <4>3. i # 0 => g[i - 1] = f[i - 1]
        BY <4>2
      <4> QED  BY <4>1, <4>3, <3>0
    <3> QED  BY <3>1, <3>2
  <2>6. g = [i \in 0 .. k |-> IF i = 0 THEN l ELSE Removed(g[i - 1], Block(p, i))]
    BY <2>5
  <2> QED  BY <2>6, <2>1 DEF Unfolds
<1>2. \E f : Unfolds(f, l, p, cnt)
  BY <1>1
<1> DEFINE after == CHOOSE f : f = [i \in 0 .. cnt |-> IF i = 0 THEN l
                                                       ELSE Removed(f[i - 1], Block(p, i))]
<1>3. Unfolds(after, l, p, cnt)
  BY <1>2 DEF Unfolds
<1>4. ArenaRemoved(l, p, cnt) = after[cnt]
  BY DEF ArenaRemoved
<1> QED  BY <1>3, <1>4

(* free() removes the blocks of an arena from the list, and no others *)
LEMMA ArenaRemovedLists ==
    ASSUME NEW S, NEW l \in Seq(S), NoRepeats(l), NEW p, NEW cnt \in Nat,
           \A i \in 1 .. cnt : Lists(l, Block(p, i))
    PROVE  /\ ArenaRemoved(l, p, cnt) \in Seq(S) /\ NoRepeats(ArenaRemoved(l, p, cnt))
           /\ \A g : Lists(ArenaRemoved(l, p, cnt), g) <=>
                 Lists(l, g) /\ \A i \in 1 .. cnt : g # Block(p, i)
<1> DEFINE Good(m, k) == /\ m \in Seq(S) /\ NoRepeats(m)
                         /\ \A g : Lists(m, g) <=> Lists(l, g) /\ \A i \in 1 .. k : g # Block(p, i)
<1>1. PICK f : Unfolds(f, l, p, cnt) /\ ArenaRemoved(l, p, cnt) = f[cnt]
  BY Unfolded
<1>2. \A i \in 0 .. cnt : f[i] = IF i = 0 THEN l ELSE Removed(f[i - 1], Block(p, i))
  BY <1>1 DEF Unfolds
<1> DEFINE Bad == {k \in 0 .. cnt : ~Good(f[k], k)}
<1>3. Bad = {}
  <2> SUFFICES ASSUME Bad # {} PROVE FALSE
    OBVIOUS
  <2>1. PICK k \in Bad : \A j \in Bad : k <= j
    <3>1. Bad \subseteq Nat
      OBVIOUS
    <3> QED  BY <3>1, LeastNat
  <2>2. CASE k = 0
    <3>1. f[0] = l
      BY <1>2
    <3>2. Good(l, 0)
      OBVIOUS
    <3> QED  BY <3>1, <3>2, <2>1, <2>2
  <2>3. CASE k # 0
    <3>1. k - 1 \in 0 .. cnt /\ k - 1 \notin Bad /\ k \in 1 .. cnt
      BY <2>1, <2>3
    <3>2. PICK m : m = f[k - 1] /\ Good(m, k - 1)
      BY <3>1
    <3>3. f[k] = Removed(m, Block(p, k))
      BY <3>1, <3>2, <1>2
    <3>4. Lists(m, Block(p, k))
      <4>1. \A i \in 1 .. k - 1 : Block(p, k) # Block(p, i)
        BY <3>1 DEF Block
      <4> QED  BY <4>1, <3>1, <3>2
    <3>5. /\ f[k] \in Seq(S) /\ NoRepeats(f[k])
          /\ \A g : Lists(f[k], g) <=> Lists(m, g) /\ g # Block(p, k)
      BY <3>2, <3>3, <3>4, RemovedLists
    <3>6. ASSUME NEW g
          PROVE  (\A i \in 1 .. k : g # Block(p, i)) <=>
                    (\A i \in 1 .. k - 1 : g # Block(p, i)) /\ g # Block(p, k)
      <4>1. \A i : i \in 1 .. k <=> i \in 1 .. k - 1 \/ i = k
        BY <3>1
      <4> QED  BY <4>1
    <3>7. Good(f[k], k)
      BY <3>2, <3>5, <3>6
    <3> QED  BY <3>7, <2>1
  <2> QED  BY <2>2, <2>3
<1>4. Good(f[cnt], cnt)
  BY <1>3
<1> QED  BY <1>1, <1>4

-----------------------------------------------------------------------------
(* one thread's call goes on *)
LEMMA Moved ==
    ASSUME HeapType, NEW t \in HThread, NEW c2 \in HeapCall, call' = [call EXCEPT ![t] = c2]
    PROVE  /\ call' \in [HThread -> HeapCall]
           /\ \A u \in HThread : call'[u] = IF u = t THEN c2 ELSE call[u]
           /\ Claims' = [Claims EXCEPT ![t] = ClaimOf(c2)]
<1>1. /\ call' \in [HThread -> HeapCall]
      /\ \A u \in HThread : call'[u] = IF u = t THEN c2 ELSE call[u]
  BY DEF HeapType
<1>2. Claims' = [Claims EXCEPT ![t] = ClaimOf(c2)]
  BY <1>1 DEF Claims
<1> QED  BY <1>1, <1>2

(* so does it without a change to pages, blocks or lists *)
LEMMA SameWorld ==
    ASSUME HeapInv, NEW t \in HThread, NEW c2 \in HeapCall, call' = [call EXCEPT ![t] = c2],
           ClaimOf(c2) = ClaimOf(call[t]), HandOf(c2, owned[t]) = HandOf(call[t], owned[t]),
           UNCHANGED <<used_map, free_list, arena, mark, owned>>,
           CallOK(c2, owned[t], used_map, arena, free_list), HeapType', LocksOK'
    PROVE  HeapInv'
<1>1. \A u \in HThread : call'[u] = IF u = t THEN c2 ELSE call[u]
  BY Moved DEF HeapInv
<1>2. Claims' = Claims /\ Hands' = Hands
  BY <1>1 DEF Claims, Hands
<1>3. World(Claims, Hands, owned, used_map, arena, free_list, mark)'
  BY <1>2 DEF HeapInv
<1>4. \A u \in HThread : CallOK(call[u], owned[u], used_map, arena, free_list)'
  BY <1>1 DEF HeapInv
<1>5. \A p \in PageNo : BusyOK(Claims, Hands, arena, p)'
  BY <1>2 DEF HeapInv
<1> QED  BY <1>3, <1>4, <1>5 DEF HeapInv

(* palloc_get_multiple() takes the pool's lock. *)
LEMMA PallocStep ==
    ASSUME HeapInv, NEW t \in HThread, palloc_get_multiple(t)
    PROVE  HeapInv'
<1>1. PICK c : c = call[t] /\ c \in HeapCall
  BY DEF HeapInv, HeapType
<1>2. PICK c2 : c2 = [c EXCEPT !.at = "scan", !.scan = 0]
  OBVIOUS
<1>3. /\ call' = [call EXCEPT ![t] = c2] /\ c.at = "palloc" /\ pool_lock = FALSE
      /\ pool_lock' = TRUE /\ UNCHANGED <<desc_lock, heap_panic>>
      /\ UNCHANGED <<used_map, free_list, arena, mark, owned>>
  BY <1>1, <1>2 DEF palloc_get_multiple, HeapInv, HeapType
<1>4. /\ c2 \in HeapCall /\ c2.at = "scan" /\ c2.scan = 0 /\ c2.desc = c.desc /\ c2.cnt = c.cnt
      /\ c2.old = c.old
  BY <1>1, <1>2 DEF HeapCall, Places, Holding
<1>5. /\ call' \in [HThread -> HeapCall]
      /\ \A u \in HThread : call'[u] = IF u = t THEN c2 ELSE call[u]
  BY <1>3, <1>4, Moved DEF HeapInv
<1>6. CallOK(c2, owned[t], used_map, arena, free_list)
  <2>1. CallOK(c, owned[t], used_map, arena, free_list)
    BY <1>1 DEF HeapInv
  <2> QED  BY <2>1, <1>3, <1>4 DEF CallOK
<1>7. HeapType'
  BY <1>3, <1>5 DEF HeapInv, HeapType
<1>8. LocksOK'
  BY <1>1, <1>3, <1>4, <1>5 DEF HeapInv, LocksOK, Holding
<1>9. ClaimOf(c2) = ClaimOf(c) /\ HandOf(c2, owned[t]) = HandOf(c, owned[t])
  BY <1>3, <1>4 DEF ClaimOf, HandOf
<1> QED  BY <1>1, <1>3, <1>4, <1>6, <1>7, <1>8, <1>9, SameWorld

(* bitmap_scan() tries the next group of pages, whoever frees pages        *)
(* meanwhile.                                                              *)
LEMMA ScanStep ==
    ASSUME HeapInv, NEW t \in HThread, bitmap_scan(t)
    PROVE  HeapInv'
<1>1. PICK c : c = call[t] /\ c \in HeapCall
  BY DEF HeapInv, HeapType
<1> DEFINE fits == c.scan + c.cnt <= PoolPages
           found == fits /\ ~bitmap_contains(used_map, c.scan, c.cnt, TRUE)
<1>2. PICK c2 : c2 = IF found THEN [c EXCEPT !.at = "flip"]
                     ELSE IF fits THEN [c EXCEPT !.scan = @ + 1] ELSE [c EXCEPT !.at = "nomem"]
  OBVIOUS
<1>3. /\ call' = [call EXCEPT ![t] = c2] /\ c.at = "scan"
      /\ (pool_lock' = TRUE <=> fits) /\ pool_lock' \in BOOLEAN
      /\ UNCHANGED <<desc_lock, heap_panic>>
      /\ UNCHANGED <<used_map, free_list, arena, mark, owned>>
  <2>1. pool_lock' = fits /\ fits \in BOOLEAN
    BY <1>1 DEF bitmap_scan
  <2>2. (pool_lock' = TRUE <=> fits) /\ pool_lock' \in BOOLEAN
    BY <2>1, Zenon
  <2>3. call' = [call EXCEPT ![t] = c2] /\ c.at = "scan"
    BY <1>1, <1>2 DEF bitmap_scan
  <2>4. /\ UNCHANGED <<desc_lock, heap_panic>>
        /\ UNCHANGED <<used_map, free_list, arena, mark, owned>>
    BY DEF bitmap_scan
  <2> HIDE DEF fits
  <2> QED  BY <2>2, <2>3, <2>4
<1>3a. found => fits
  OBVIOUS
<1>3b. fits => c.scan \in Nat /\ c.scan + 1 \in Nat
  BY <1>1 DEF HeapCall
<1>3c. found => \A p \in c.scan .. c.scan + c.cnt - 1 : p \in PageNo /\ p \notin used_map
  <2>1. c.scan \in Nat /\ c.cnt \in Nat /\ PoolPages \in Nat
    BY <1>1, HeapAssumption DEF HeapCall
  <2> QED  BY <2>1 DEF bitmap_contains, PageNo
<1> HIDE DEF found, fits
<1>4. /\ c2 \in HeapCall /\ c2.desc = c.desc /\ c2.cnt = c.cnt /\ c2.old = c.old
      /\ c2.at \in {"scan", "flip", "nomem"} /\ (c2.at \in {"scan", "flip"} <=> fits)
      /\ c2.at = "flip" => found /\ c2.scan = c.scan
  <2>1. CASE found
    <3>1. c2 = [c EXCEPT !.at = "flip"]
      BY <1>2, <2>1
    <3> QED  BY <3>1, <2>1, <1>1, <1>3, <1>3a DEF HeapCall, Places, Holding
  <2>2. CASE ~found /\ fits
    <3>1. PICK y : y = c.scan + 1 /\ y \in Nat
      BY <2>2, <1>3b
    <3>2. c2 = [c EXCEPT !.scan = y]
      BY <1>2, <2>2, <3>1
    <3>3. c2 \in HeapCall /\ c2.desc = c.desc /\ c2.cnt = c.cnt /\ c2.old = c.old /\ c2.at = "scan"
      BY <3>1, <3>2, <1>1, <1>3 DEF HeapCall
    <3> QED  BY <3>3, <2>2
  <2>3. CASE ~fits
    <3>1. c2 = [c EXCEPT !.at = "nomem"]
      BY <1>2, <1>3a, <2>3
    <3>2. c2 \in HeapCall /\ c2.desc = c.desc /\ c2.cnt = c.cnt /\ c2.old = c.old /\ c2.at = "nomem"
      BY <3>1, <1>1 DEF HeapCall, Places, Holding
    <3> QED  BY <3>2, <2>3
  <2> QED  BY <2>1, <2>2, <2>3, <1>3a
<1>5. /\ call' \in [HThread -> HeapCall]
      /\ \A u \in HThread : call'[u] = IF u = t THEN c2 ELSE call[u]
  BY <1>3, <1>4, Moved DEF HeapInv
<1>6. CallOK(c2, owned[t], used_map, arena, free_list)
  <2>1. CallOK(c, owned[t], used_map, arena, free_list)
    BY <1>1 DEF HeapInv
  <2> QED  BY <2>1, <1>3, <1>4, <1>3c DEF CallOK
<1>7. HeapType'
  BY <1>3, <1>5 DEF HeapInv, HeapType
<1>8. LocksOK'
  BY <1>1, <1>3, <1>4, <1>5 DEF HeapInv, LocksOK, Holding
<1>9. ClaimOf(c2) = ClaimOf(c) /\ HandOf(c2, owned[t]) = HandOf(c, owned[t])
  BY <1>3, <1>4 DEF ClaimOf, HandOf
<1> QED  BY <1>1, <1>3, <1>4, <1>6, <1>7, <1>8, <1>9, SameWorld

(* malloc() and realloc() are called. *)
LEMMA MallocStep ==
    ASSUME HeapInv, NEW t \in HThread, NEW d \in {Big} \cup Classes, NEW cnt \in Nat \ {0},
           NEW old \in {<<>>} \cup owned[t], d # Big => cnt = 1, malloc(t, d, cnt, old)
    PROVE  HeapInv'
<1>1. PICK c : c = call[t] /\ c \in HeapCall
  BY DEF HeapInv, HeapType
<1>2. PICK c2 : c2 = [at |-> IF d = Big THEN "palloc" ELSE "desc",
                      desc |-> d, cnt |-> cnt, scan |-> 0, old |-> old]
  OBVIOUS
<1>3. /\ call' = [call EXCEPT ![t] = c2] /\ c.at = "idle"
      /\ UNCHANGED <<pool_lock, desc_lock, heap_panic>>
      /\ UNCHANGED <<used_map, free_list, arena, mark, owned>>
  BY <1>1, <1>2 DEF malloc
<1>4. /\ c2 \in HeapCall /\ c2.desc = d /\ c2.cnt = cnt /\ c2.old = old
      /\ c2.at = IF d = Big THEN "palloc" ELSE "desc"
  <2>1. old \in {<<>>} \cup (PageNo \X Index)
    BY DEF HeapInv, World, WorldType
  <2> QED  BY <2>1, <1>2 DEF HeapCall, Places, Holding
<1>5. /\ call' \in [HThread -> HeapCall]
      /\ \A u \in HThread : call'[u] = IF u = t THEN c2 ELSE call[u]
  BY <1>3, <1>4, Moved DEF HeapInv
<1>6. CallOK(c2, owned[t], used_map, arena, free_list)
  BY <1>4 DEF CallOK
<1>7. HeapType'
  BY <1>3, <1>5 DEF HeapInv, HeapType
<1>8. LocksOK'
  BY <1>1, <1>3, <1>4, <1>5 DEF HeapInv, LocksOK, Holding
<1>9. ClaimOf(c2) = ClaimOf(c) /\ HandOf(c2, owned[t]) = HandOf(c, owned[t])
  BY <1>3, <1>4 DEF ClaimOf, HandOf
<1> QED  BY <1>1, <1>3, <1>4, <1>6, <1>7, <1>8, <1>9, SameWorld

(* free() is called. *)
LEMMA FreeStep ==
    ASSUME HeapInv, NEW t \in HThread, NEW b \in owned[t], free(t, b)
    PROVE  HeapInv'
<1>1. PICK c : c = call[t] /\ c \in HeapCall
  BY DEF HeapInv, HeapType
<1>2. PICK c2 : c2 = [NoCall EXCEPT !.at = "free", !.old = b]
  OBVIOUS
<1>3. /\ call' = [call EXCEPT ![t] = c2] /\ c.at = "idle"
      /\ UNCHANGED <<pool_lock, desc_lock, heap_panic>>
      /\ UNCHANGED <<used_map, free_list, arena, mark, owned>>
  BY <1>1, <1>2 DEF free
<1>4. c2 \in HeapCall /\ c2.desc = Big /\ c2.old = b /\ c2.at = "free"
  <2>1. b \in PageNo \X Index
    BY DEF HeapInv, World, WorldType
  <2>2. c2 = [at |-> "free", desc |-> Big, cnt |-> 1, scan |-> 0, old |-> b]
    BY <1>2 DEF NoCall, Big
  <2> QED  BY <2>1, <2>2 DEF HeapCall, Places, Holding
<1>5. /\ call' \in [HThread -> HeapCall]
      /\ \A u \in HThread : call'[u] = IF u = t THEN c2 ELSE call[u]
  BY <1>3, <1>4, Moved DEF HeapInv
<1>6. CallOK(c2, owned[t], used_map, arena, free_list)
  BY <1>4 DEF CallOK
<1>7. HeapType'
  BY <1>3, <1>5 DEF HeapInv, HeapType
<1>8. LocksOK'
  BY <1>1, <1>3, <1>4, <1>5 DEF HeapInv, LocksOK, Holding
<1>9. ClaimOf(c2) = ClaimOf(c) /\ HandOf(c2, owned[t]) = HandOf(c, owned[t])
  BY <1>3, <1>4 DEF ClaimOf, HandOf
<1> QED  BY <1>1, <1>3, <1>4, <1>6, <1>7, <1>8, <1>9, SameWorld

(* malloc() returns NULL, and releases the descriptor's lock. *)
LEMMA NoMemStep ==
    ASSUME HeapInv, NEW t \in HThread, OutOfMemory(t)
    PROVE  HeapInv'
<1>1. PICK c : c = call[t] /\ c \in HeapCall
  BY DEF HeapInv, HeapType
<1>3. /\ call' = [call EXCEPT ![t] = NoCall] /\ c.at = "nomem"
      /\ desc_lock' = (IF c.desc = Big THEN desc_lock ELSE [desc_lock EXCEPT ![c.desc] = FALSE])
      /\ UNCHANGED <<pool_lock, heap_panic>>
      /\ UNCHANGED <<used_map, free_list, arena, mark, owned>>
  BY <1>1 DEF OutOfMemory
<1>4. NoCall \in HeapCall /\ NoCall.at = "idle" /\ NoCall.desc = Big
  BY DEF HeapCall, Places, Holding, NoCall, Big
<1>5. /\ call' \in [HThread -> HeapCall]
      /\ \A u \in HThread : call'[u] = IF u = t THEN NoCall ELSE call[u]
  BY <1>3, <1>4, Moved DEF HeapInv
<1>6. CallOK(NoCall, owned[t], used_map, arena, free_list)
  BY <1>4 DEF CallOK
<1>7. HeapType'
  BY <1>1, <1>3, <1>5 DEF HeapInv, HeapType, HeapCall
<1>8. LocksOK'
  <2>1. \A d \in Classes : d # c.desc => desc_lock'[d] = desc_lock[d]
    BY <1>3 DEF HeapInv, HeapType
  <2>2. \A u \in HThread : call[u].desc \in {Big} \cup Classes
    BY DEF HeapInv, HeapType, HeapCall
  <2>3. \A u \in HThread : u # t /\ call[u].at \in Holding /\ call[u].desc # Big => call[u].desc # c.desc
    BY <1>1, <1>3 DEF HeapInv, LocksOK, Holding
  <2> QED  BY <2>1, <2>2, <2>3, <1>1, <1>3, <1>4, <1>5 DEF HeapInv, LocksOK, Holding
<1>9. ClaimOf(NoCall) = ClaimOf(c) /\ HandOf(NoCall, owned[t]) = HandOf(c, owned[t])
  BY <1>3, <1>4 DEF ClaimOf, HandOf
<1> QED  BY <1>1, <1>3, <1>4, <1>6, <1>7, <1>8, <1>9, SameWorld

(* malloc() finds the free list empty and goes to the page allocator with  *)
(* the lock.                                                               *)
LEMMA EmptyStep ==
    ASSUME HeapInv, NEW t \in HThread, TakeBlock(t), free_list[call[t].desc] = <<>>
    PROVE  HeapInv'
<1>1. PICK c : c = call[t] /\ c \in HeapCall
  BY DEF HeapInv, HeapType
<1>2. PICK c2 : c2 = [c EXCEPT !.at = "palloc"]
  OBVIOUS
<1>3. /\ call' = [call EXCEPT ![t] = c2] /\ c.at = "desc" /\ ~desc_lock[c.desc]
      /\ desc_lock' = [desc_lock EXCEPT ![c.desc] = TRUE]
      /\ UNCHANGED <<pool_lock, heap_panic>>
      /\ UNCHANGED <<used_map, free_list, arena, mark, owned>>
  BY <1>1, <1>2 DEF TakeBlock
<1>4. /\ c2 \in HeapCall /\ c2.desc = c.desc /\ c2.old = c.old /\ c2.at = "palloc" /\ c2.cnt = c.cnt
      /\ c.desc \in {Big} \cup Classes
  BY <1>1, <1>2 DEF HeapCall, Places, Holding
<1>5. /\ call' \in [HThread -> HeapCall]
      /\ \A u \in HThread : call'[u] = IF u = t THEN c2 ELSE call[u]
  BY <1>3, <1>4, Moved DEF HeapInv
<1>6. CallOK(c, owned[t], used_map, arena, free_list) /\ CallOK(c2, owned[t], used_map, arena, free_list)
  <2>1. CallOK(c, owned[t], used_map, arena, free_list)
    BY <1>1 DEF HeapInv
  <2> QED  BY <2>1, <1>1, <1>3, <1>4 DEF CallOK
<1>7. HeapType'
  BY <1>3, <1>5 DEF HeapInv, HeapType
<1>8. LocksOK'
  <2>0. c.desc \in Classes
    BY <1>3, <1>4, <1>6 DEF CallOK
  <2>1. /\ desc_lock'[c.desc] = TRUE
        /\ \A d \in Classes : desc_lock[d] = TRUE => desc_lock'[d] = TRUE
    BY <1>3, <2>0 DEF HeapInv, HeapType
  <2>2. \A u \in HThread : call[u].desc \in {Big} \cup Classes
    BY DEF HeapInv, HeapType, HeapCall
  <2>3. \A u \in HThread : call[u].at \in Holding /\ call[u].desc # Big => call[u].desc # c.desc
    BY <1>3 DEF HeapInv, LocksOK, Holding
  <2> QED  BY <2>1, <2>2, <2>3, <1>1, <1>3, <1>4, <1>5 DEF HeapInv, LocksOK, Holding
<1>9. ClaimOf(c2) = ClaimOf(c) /\ HandOf(c2, owned[t]) = HandOf(c, owned[t])
  BY <1>3, <1>4 DEF ClaimOf, HandOf
<1> QED  BY <1>1, <1>3, <1>4, <1>6, <1>7, <1>8, <1>9, SameWorld

(* what the invariant says of a thread's claims and hands *)
LEMMA InvParts ==
    ASSUME HeapInv
    PROVE  /\ HeapType /\ LocksOK
           /\ World(Claims, Hands, owned, used_map, arena, free_list, mark)
           /\ \A u \in HThread :
                 /\ call[u] \in HeapCall
                 /\ CallOK(call[u], owned[u], used_map, arena, free_list)
                 /\ Claims[u] = ClaimOf(call[u]) /\ Hands[u] = HandOf(call[u], owned[u])
           /\ \A p \in PageNo : BusyOK(Claims, Hands, arena, p)
BY DEF HeapInv, HeapType, Claims, Hands

(* bitmap_scan_and_flip(): the pages found are still free, since only bits *)
(* that are set were reset since.                                          *)
LEMMA FlipStep ==
    ASSUME HeapInv, NEW t \in HThread, bitmap_flip(t)
    PROVE  HeapInv'
<1>1. PICK c : c = call[t] /\ c \in HeapCall
  BY InvParts
<1>2. PICK c2 : c2 = [c EXCEPT !.at = "arena"]
  OBVIOUS
<1> DEFINE R == c.scan .. c.scan + c.cnt - 1
<1>3. /\ call' = [call EXCEPT ![t] = c2] /\ c.at = "flip" /\ pool_lock' = FALSE
      /\ used_map' = used_map \cup R
      /\ UNCHANGED <<desc_lock, heap_panic>> /\ UNCHANGED <<free_list, arena, mark, owned>>
  BY <1>1, <1>2 DEF bitmap_flip, bitmap_set_multiple
<1>4. /\ c2 \in HeapCall /\ c2.desc = c.desc /\ c2.cnt = c.cnt /\ c2.old = c.old /\ c2.scan = c.scan
      /\ c2.at = "arena"
  BY <1>1, <1>2 DEF HeapCall, Places, Holding
<1>5. /\ call' \in [HThread -> HeapCall]
      /\ \A u \in HThread : call'[u] = IF u = t THEN c2 ELSE call[u]
      /\ Claims' = [Claims EXCEPT ![t] = ClaimOf(c2)]
  BY <1>3, <1>4, Moved DEF HeapInv
<1>6. /\ CallOK(c, owned[t], used_map, arena, free_list)
      /\ World(Claims, Hands, owned, used_map, arena, free_list, mark)
      /\ ClaimOf(c2) = R /\ Claims[t] = {} /\ Hands' = Hands
      /\ \A p \in R : p \in PageNo /\ p \notin used_map
  <2>1. /\ CallOK(c, owned[t], used_map, arena, free_list)
        /\ World(Claims, Hands, owned, used_map, arena, free_list, mark)
        /\ Claims[t] = ClaimOf(c)
    BY <1>1, InvParts
  <2>2. ClaimOf(c2) = R /\ ClaimOf(c) = {}
    BY <1>3, <1>4 DEF ClaimOf
  <2>3. Hands' = Hands
    BY <1>1, <1>3, <1>4, <1>5 DEF Hands, HandOf
  <2>4. \A p \in R : p \in PageNo /\ p \notin used_map
    BY <2>1, <1>3 DEF CallOK
  <2> QED  BY <2>1, <2>2, <2>3, <2>4
<1>7. World(Claims, Hands, owned, used_map, arena, free_list, mark)'
  <2>1. R \in SUBSET PageNo
    BY <1>6
  <2> HIDE DEF R
  <2> QED  BY <2>1, <1>3, <1>5, <1>6, FlipWorld
<1>8. \A p \in R : arena[p].desc = -1
  BY <1>6 DEF World, UsedOK
<1> HIDE DEF R
<1>9. ASSUME NEW u \in HThread PROVE CallOK(call[u], owned[u], used_map, arena, free_list)'
  <2>1. CASE u = t
    <3>1. CallOK(c2, owned[t], used_map', arena, free_list)
      BY <1>3, <1>4, <1>6, <1>8 DEF CallOK, R
    <3> QED  BY <3>1, <2>1, <1>3, <1>5
  <2>2. CASE u # t
    <3>1. CallOK(call[u], owned[u], used_map, arena, free_list) /\ call[u].at # "flip"
      BY <1>1, <1>3, <2>2, InvParts DEF LocksOK
    <3>2. CallOK(call[u], owned[u], used_map', arena, free_list)
      BY <3>1 DEF CallOK
    <3> QED  BY <3>2, <2>2, <1>3, <1>5
  <2> QED  BY <2>1, <2>2
<1>10. HeapType'
  BY <1>3, <1>5 DEF HeapInv, HeapType
<1>11. LocksOK'
  BY <1>1, <1>3, <1>4, <1>5 DEF HeapInv, LocksOK, Holding
<1>12. \A p \in PageNo : BusyOK(Claims, Hands, arena, p)'
  <2>1. \A p : Claimed(Claims, p) => Claimed(Claims', p)
    BY <1>5, <1>6 DEF Claimed, World, WorldType
  <2> QED  BY <2>1, <1>3, <1>6, InvParts DEF BusyOK
<1> QED  BY <1>7, <1>9, <1>10, <1>11, <1>12 DEF HeapInv

(* palloc_free_multiple() clears the pages. *)
LEMMA ClearStep ==
    ASSUME HeapInv, NEW t \in HThread, palloc_free_multiple(t), call[t].at = "clear"
    PROVE  HeapInv'
<1>1. PICK c : c = call[t] /\ c \in HeapCall
  BY InvParts
<1>2. PICK c2 : c2 = [c EXCEPT !.at = "reset"]
  OBVIOUS
<1> DEFINE R == c.scan .. c.scan + c.cnt - 1
<1>3. /\ call' = [call EXCEPT ![t] = c2] /\ c.at = "clear"
      /\ mark' = [q \in PageNo |-> IF q \in R THEN [i \in Index |-> "poison"] ELSE mark[q]]
      /\ arena' = [q \in PageNo |-> IF q \in R THEN NoArena ELSE arena[q]]
      /\ UNCHANGED <<pool_lock, desc_lock, heap_panic>>
      /\ UNCHANGED <<used_map, free_list, owned>>
  BY <1>1, <1>2 DEF palloc_free_multiple, Clear, Headers
<1>4. /\ c2 \in HeapCall /\ c2.desc = c.desc /\ c2.cnt = c.cnt /\ c2.old = c.old /\ c2.scan = c.scan
      /\ c2.at = "reset"
  BY <1>1, <1>2 DEF HeapCall, Places, Holding
<1>5. /\ call' \in [HThread -> HeapCall]
      /\ \A u \in HThread : call'[u] = IF u = t THEN c2 ELSE call[u]
  BY <1>3, <1>4, Moved DEF HeapInv
<1>6. /\ CallOK(c, owned[t], used_map, arena, free_list)
      /\ World(Claims, Hands, owned, used_map, arena, free_list, mark)
      /\ Claims[t] = R /\ Hands' = Hands /\ Claims' = Claims
      /\ \A p \in R : p \in PageNo /\ arena'[p].desc = -1
      /\ \A p \in PageNo : p \notin R => arena'[p] = arena[p]
  <2>1. /\ CallOK(c, owned[t], used_map, arena, free_list)
        /\ World(Claims, Hands, owned, used_map, arena, free_list, mark)
        /\ Claims[t] = ClaimOf(c)
    BY <1>1, InvParts
  <2>2. ClaimOf(c2) = R /\ ClaimOf(c) = R
    BY <1>3, <1>4 DEF ClaimOf
  <2>3. Hands' = Hands /\ Claims' = Claims
    BY <1>1, <1>3, <1>4, <1>5, <2>2 DEF Hands, HandOf, Claims
  <2>4. \A p \in R : p \in PageNo
    BY <2>1, <1>3 DEF CallOK
  <2>5. /\ \A p \in R : arena'[p].desc = -1
        /\ \A p \in PageNo : p \notin R => arena'[p] = arena[p]
    BY <2>4, <1>3 DEF NoArena
  <2> QED  BY <2>1, <2>2, <2>3, <2>4, <2>5
<1> HIDE DEF R
<1>7. World(Claims, Hands, owned, used_map, arena, free_list, mark)'
  BY <1>3, <1>6, ClearWorld
<1>9. ASSUME NEW u \in HThread PROVE CallOK(call[u], owned[u], used_map, arena, free_list)'
  <2>1. CASE u = t
    <3>1. CallOK(c2, owned[t], used_map, arena', free_list)
      BY <1>3, <1>4, <1>6 DEF CallOK, R
    <3> QED  BY <3>1, <2>1, <1>3, <1>5
  <2>2. CASE u # t
    <3>0. PICK e : e = call[u]
      OBVIOUS
    <3>1. /\ CallOK(e, owned[u], used_map, arena, free_list)
          /\ Claims[u] = ClaimOf(e) /\ Hands[u] = HandOf(e, owned[u])
      BY <3>0, InvParts
    <3>2. \A p \in ClaimOf(e) : p \in PageNo => arena'[p] = arena[p]
      BY <3>1, <2>2, <1>6 DEF World, ClaimsOK
    <3>3. e.at = "put" => arena'[e.old[1]] = arena[e.old[1]]
      <4>1. SUFFICES ASSUME e.at = "put" PROVE arena'[e.old[1]] = arena[e.old[1]]
        OBVIOUS
      <4>2. e.old \in Hands[u]
        BY <3>1, <4>1 DEF HandOf
      <4>3. e.old[1] \in PageNo /\ ~Claimed(Claims, e.old[1])
        BY <4>2, <1>6, HandPages
      <4>4. e.old[1] \notin R
        BY <4>3, <1>6 DEF Claimed
      <4> QED  BY <4>3, <4>4, <1>6
    <3>4. CallOK(e, owned[u], used_map, arena', free_list)
      BY <3>1, <3>2, <3>3 DEF CallOK, ClaimOf
    <3> QED  BY <3>0, <3>4, <2>2, <1>3, <1>5
  <2> QED  BY <2>1, <2>2
<1>10. HeapType'
  BY <1>3, <1>5 DEF HeapInv, HeapType
<1>11. LocksOK'
  BY <1>1, <1>3, <1>4, <1>5 DEF HeapInv, LocksOK, Holding
<1>12. \A p \in PageNo : BusyOK(Claims, Hands, arena, p)'
  <2>1. -1 \notin Classes
    BY HeapAssumption
  <2> QED  BY <2>1, <1>6, InvParts DEF BusyOK
<1> QED  BY <1>7, <1>9, <1>10, <1>11, <1>12 DEF HeapInv

(* who keeps a lock when t gives its own back *)
LEMMA Released ==
    ASSUME HeapInv, NEW t \in HThread, NEW c, c = call[t], c.at \in Holding,
           desc_lock' = (IF c.desc = Big THEN desc_lock ELSE [desc_lock EXCEPT ![c.desc] = FALSE]),
           NEW c2, c2.at \notin Holding,
           UNCHANGED pool_lock,
           \A u \in HThread : call'[u] = IF u = t THEN c2 ELSE call[u]
    PROVE  LocksOK' /\ desc_lock' \in [Classes -> BOOLEAN]
<1>1. \A d \in Classes : d # c.desc => desc_lock'[d] = desc_lock[d]
  BY DEF HeapInv, HeapType
<1>2. \A u \in HThread : call[u].desc \in {Big} \cup Classes
  BY DEF HeapInv, HeapType, HeapCall
<1>3. \A u \in HThread : u # t /\ call[u].at \in Holding /\ call[u].desc # Big => call[u].desc # c.desc
  BY DEF HeapInv, LocksOK
<1>4. \A u \in HThread : u # t /\ call[u].at \in Holding /\ call[u].desc # Big =>
         desc_lock'[call[u].desc] = TRUE
  BY <1>1, <1>2, <1>3 DEF HeapInv, LocksOK
<1>5. c2.at \notin {"scan", "flip"}
  BY DEF Holding
<1>6. LocksOK'
  BY <1>4, <1>5 DEF HeapInv, LocksOK
<1>7. desc_lock' \in [Classes -> BOOLEAN]
  BY DEF HeapInv, HeapType
<1> QED  BY <1>6, <1>7

(* A thread without a call claims and gives back nothing. *)
LEMMA IdleCall ==
    /\ NoCall \in HeapCall /\ NoCall.at = "idle" /\ NoCall.desc = Big /\ ClaimOf(NoCall) = {}
    /\ \A own : HandOf(NoCall, own) = own
    /\ \A own, used, ar, fl : CallOK(NoCall, own, used, ar, fl)
<1>1. NoCall \in HeapCall /\ NoCall.at = "idle" /\ NoCall.desc = Big
  BY DEF HeapCall, Places, Holding, NoCall, Big
<1> QED  BY <1>1 DEF ClaimOf, HandOf, CallOK

(* palloc_free_multiple() finds the bits of its pages set, and resets them. *)
LEMMA ResetStep ==
    ASSUME HeapInv, NEW t \in HThread, palloc_free_multiple(t), call[t].at = "reset"
    PROVE  HeapInv'
<1>1. PICK c : c = call[t] /\ c \in HeapCall
  BY InvParts
<1> DEFINE R == c.scan .. c.scan + c.cnt - 1
<1>3. /\ call' = [call EXCEPT ![t] = NoCall] /\ c.at = "reset"
      /\ desc_lock' = (IF c.desc = Big THEN desc_lock ELSE [desc_lock EXCEPT ![c.desc] = FALSE])
      /\ heap_panic' = bitmap_contains(used_map, c.scan, c.cnt, FALSE)
      /\ used_map' = used_map \ R
      /\ UNCHANGED pool_lock /\ UNCHANGED <<free_list, arena, mark, owned>>
  BY <1>1 DEF palloc_free_multiple, FreeReturn, bitmap_set_multiple
<1>5. /\ call' \in [HThread -> HeapCall]
      /\ \A u \in HThread : call'[u] = IF u = t THEN NoCall ELSE call[u]
      /\ Claims' = [Claims EXCEPT ![t] = {}]
  BY <1>3, IdleCall, Moved DEF HeapInv
<1>6. /\ CallOK(c, owned[t], used_map, arena, free_list)
      /\ World(Claims, Hands, owned, used_map, arena, free_list, mark)
      /\ Claims[t] = R /\ Hands' = Hands
      /\ \A p \in R : p \in PageNo /\ arena[p].desc = -1 /\ p \in used_map
  <2>1. /\ CallOK(c, owned[t], used_map, arena, free_list)
        /\ World(Claims, Hands, owned, used_map, arena, free_list, mark)
        /\ Claims[t] = ClaimOf(c)
    BY <1>1, InvParts
  <2>2. ClaimOf(c) = R
    BY <1>3 DEF ClaimOf
  <2>3. Hands' = Hands
    BY <1>1, <1>3, <1>5, IdleCall DEF Hands, HandOf
  <2>4. \A p \in R : p \in PageNo /\ arena[p].desc = -1
    BY <2>1, <1>3 DEF CallOK
  <2>5. \A p \in R : p \in used_map
    BY <2>1, <2>2 DEF World, ClaimsOK
  <2> QED  BY <2>1, <2>2, <2>3, <2>4, <2>5
<1>7. heap_panic' = FALSE
  BY <1>3, <1>6 DEF bitmap_contains
<1> HIDE DEF R
<1>8. World(Claims, Hands, owned, used_map, arena, free_list, mark)'
  BY <1>3, <1>5, <1>6, ResetWorld
<1>9. ASSUME NEW u \in HThread PROVE CallOK(call[u], owned[u], used_map, arena, free_list)'
  <2>1. CASE u = t
    BY <2>1, <1>5, IdleCall
  <2>2. CASE u # t
    <3>1. CallOK(call[u], owned[u], used_map, arena, free_list)
      BY InvParts
    <3>2. CallOK(call[u], owned[u], used_map', arena, free_list)
      BY <3>1, <1>3 DEF CallOK
    <3> QED  BY <3>2, <2>2, <1>3, <1>5
  <2> QED  BY <2>1, <2>2
<1>10. LocksOK' /\ desc_lock' \in [Classes -> BOOLEAN]
  BY <1>1, <1>3, <1>5, IdleCall, Released DEF Holding
<1>11. HeapType'
  BY <1>3, <1>5, <1>7, <1>10 DEF HeapInv, HeapType
<1>12. \A p \in PageNo : BusyOK(Claims, Hands, arena, p)'
  <2>1. -1 \notin Classes
    BY HeapAssumption
  <2>2. \A p : Claimed(Claims, p) => Claimed(Claims', p) \/ p \in R
    BY <1>5, <1>6 DEF Claimed, World, WorldType
  <2> QED  BY <2>1, <2>2, <1>3, <1>6, InvParts DEF BusyOK
<1> QED  BY <1>8, <1>9, <1>10, <1>11, <1>12 DEF HeapInv

(* malloc() returns: the call is over, or realloc() frees its old block *)
ReturnOf(c) == IF c.old = <<>> THEN NoCall ELSE [c EXCEPT !.at = "free", !.desc = 0]

(* malloc() returns without claims, and realloc() with the old block still *)
(* its thread's.                                                           *)
LEMMA Returned ==
    ASSUME NEW c \in HeapCall, NEW own, c.old = <<>> \/ c.old \in own,
           NEW c2, c2 = ReturnOf(c)
    PROVE  /\ c2 \in HeapCall /\ c2.at \in {"idle", "free"} /\ ClaimOf(c2) = {}
           /\ \A o : HandOf(c2, o) = o
           /\ \A o, used, ar, fl : own \subseteq o => CallOK(c2, o, used, ar, fl)
<1>1. CASE c.old = <<>>
  <2>1. c2 = NoCall
    BY <1>1 DEF ReturnOf
  <2> QED  BY <2>1, IdleCall
<1>2. CASE c.old # <<>>
  <2>0. c2 = [c EXCEPT !.at = "free", !.desc = 0]
    BY <1>2 DEF ReturnOf
  <2>1. /\ c2 \in HeapCall /\ c2.at = "free" /\ c2.desc = Big /\ c2.old = c.old
    BY <2>0 DEF HeapCall, Places, Holding, Big
  <2> QED  BY <2>1, <1>2 DEF ClaimOf, HandOf, CallOK
<1> QED  BY <1>1, <1>2

(* malloc() takes the first free block. *)
LEMMA TakeStep ==
    ASSUME HeapInv, NEW t \in HThread, TakeBlock(t), free_list[call[t].desc] # <<>>
    PROVE  HeapInv'
<1>1. PICK c : c = call[t] /\ c \in HeapCall
  BY InvParts
<1>2. PICK c2 : c2 = ReturnOf(c)
  OBVIOUS
<1>3. PICK d, b : d = c.desc /\ b = Head(free_list[d])
  OBVIOUS
<1>4. /\ call' = [call EXCEPT ![t] = c2] /\ c.at = "desc" /\ ~desc_lock[d]
      /\ free_list' = [free_list EXCEPT ![d] = Tail(@)]
      /\ arena' = [arena EXCEPT ![b[1]].free_cnt = @ - 1]
      /\ owned' = [owned EXCEPT ![t] = @ \cup {b}]
      /\ mark' = [mark EXCEPT ![b[1]][b[2]] = t]
      /\ UNCHANGED <<pool_lock, desc_lock, heap_panic>> /\ UNCHANGED used_map
  <2>1. call' = [call EXCEPT ![t] = c2]
    BY <1>1, <1>2 DEF TakeBlock, Return, ReturnOf
  <2> QED  BY <2>1, <1>1, <1>3 DEF TakeBlock, Give
<1>5. /\ CallOK(c, owned[t], used_map, arena, free_list)
      /\ World(Claims, Hands, owned, used_map, arena, free_list, mark)
      /\ Claims[t] = {} /\ Hands[t] = owned[t]
      /\ Claims = [Claims EXCEPT ![t] = {}]
  <2>1. /\ CallOK(c, owned[t], used_map, arena, free_list)
        /\ World(Claims, Hands, owned, used_map, arena, free_list, mark)
        /\ Claims[t] = ClaimOf(c) /\ Hands[t] = HandOf(c, owned[t])
    BY <1>1, InvParts
  <2>2. Claims[t] = {} /\ Hands[t] = owned[t]
    BY <2>1, <1>4 DEF ClaimOf, HandOf
  <2>3. Claims = [Claims EXCEPT ![t] = {}]
    BY <2>2 DEF Claims
  <2> QED  BY <2>1, <2>2, <2>3
<1>6. /\ c2 \in HeapCall /\ c2.at \in {"idle", "free"} /\ ClaimOf(c2) = {}
      /\ \A o : HandOf(c2, o) = o
      /\ \A o, used, ar, fl : owned[t] \subseteq o => CallOK(c2, o, used, ar, fl)
  <2>1. c.old = <<>> \/ c.old \in owned[t]
    BY <1>4, <1>5 DEF CallOK
  <2> QED  BY <2>1, <1>1, <1>2, Returned
<1>7. /\ call' \in [HThread -> HeapCall]
      /\ \A u \in HThread : call'[u] = IF u = t THEN c2 ELSE call[u]
      /\ Claims' = Claims
  <2>1. c2 \in HeapCall /\ call' = [call EXCEPT ![t] = c2] /\ HeapType
    BY <1>4, <1>6, InvParts
  <2>2. /\ call' \in [HThread -> HeapCall]
        /\ \A u \in HThread : call'[u] = IF u = t THEN c2 ELSE call[u]
        /\ Claims' = [Claims EXCEPT ![t] = ClaimOf(c2)]
    BY <2>1, Moved
  <2> QED  BY <2>2, <1>5, <1>6
<1>8. d \in Classes /\ free_list[d] # <<>>
  BY <1>1, <1>3, <1>4, <1>5 DEF CallOK, HeapCall
<1>9. /\ owned \in [HThread -> SUBSET (PageNo \X Index)] /\ Hands \in [HThread -> SUBSET (PageNo \X Index)]
  BY <1>5 DEF World, WorldType
<1>10. /\ Hands' = [Hands EXCEPT ![t] = @ \cup {b}]
       /\ \A u \in HThread : u # t => owned'[u] = owned[u]
       /\ owned'[t] = owned[t] \cup {b}
  <2>1. /\ \A u \in HThread : u # t => owned'[u] = owned[u]
        /\ owned'[t] = owned[t] \cup {b}
    BY <1>4, <1>9
  <2>2. Hands'= [u \in HThread |-> HandOf(call'[u], owned'[u])]
    BY DEF Hands
  <2>3. \A u \in HThread : u # t => HandOf(call'[u], owned'[u]) = Hands[u]
    BY <2>1, <1>7, InvParts
  <2>4. HandOf(call'[t], owned'[t]) = Hands[t] \cup {b}
    BY <2>1, <1>5, <1>6, <1>7
  <2> QED  BY <2>1, <2>2, <2>3, <2>4, <1>9
<1>11. /\ World(Claims, Hands', owned', used_map, arena', free_list', mark')
       /\ Free(Claims, Hands, arena, d, b)
  <2>1. /\ World(Claims, Hands, owned, used_map, arena, free_list, mark)
        /\ d \in Classes /\ free_list[d] # <<>> /\ b = Head(free_list[d])
    BY <1>3, <1>5, <1>8
  <2>2. PICK has2, own2, ar2, fl2, mk2 :
           /\ has2 = Hands' /\ own2 = owned' /\ ar2 = arena' /\ fl2 = free_list' /\ mk2 = mark'
    OBVIOUS
  <2>3. /\ has2 = [Hands EXCEPT ![t] = @ \cup {b}] /\ own2 = [owned EXCEPT ![t] = @ \cup {b}]
        /\ ar2 = [arena EXCEPT ![b[1]].free_cnt = @ - 1]
        /\ fl2 = [free_list EXCEPT ![d] = Tail(@)]
        /\ mk2 = [mark EXCEPT ![b[1]][b[2]] = t]
    BY <2>2, <1>4, <1>10
  <2>4. Taken(t, d, b, Hands, owned, arena, free_list, mark, has2, own2, ar2, fl2, mk2)
    BY <2>1, <2>3 DEF Taken
  <2>5. /\ World(Claims, has2, own2, used_map, ar2, fl2, mk2)
        /\ Free(Claims, Hands, arena, d, b)
    BY <2>1, <2>4, TakeWorld
  <2> QED  BY <2>2, <2>5
<1>12. World(Claims, Hands, owned, used_map, arena, free_list, mark)'
  BY <1>4, <1>7, <1>11
<1>13. \A p \in PageNo : arena'[p].desc = arena[p].desc
  <2>1. arena \in [PageNo -> Header]
    BY <1>5 DEF World, WorldType
  <2>2. PICK a : a = [arena[b[1]] EXCEPT !.free_cnt = @ - 1]
    OBVIOUS
  <2>3. arena' = [arena EXCEPT ![b[1]] = a]
    BY <2>2, <1>4
  <2>4. b[1] \in PageNo => a.desc = arena[b[1]].desc
    BY <2>1, <2>2 DEF Header
  <2> QED  BY <2>1, <2>3, <2>4
<1>14. \A k \in Classes : k # d => free_list'[k] = free_list[k]
  BY <1>4, <1>5 DEF World, WorldType
<1>15. ASSUME NEW u \in HThread PROVE CallOK(call[u], owned[u], used_map, arena, free_list)'
  <2>1. CASE u = t
    <3>1. owned[t] \subseteq owned'[t]
      BY <1>10
    <3> QED  BY <3>1, <2>1, <1>6, <1>7
  <2>2. CASE u # t
    <3>0. PICK e : e = call[u] /\ e \in HeapCall
      BY InvParts
    <3>1. /\ CallOK(e, owned[u], used_map, arena, free_list)
          /\ Hands[u] = HandOf(e, owned[u])
      BY <3>0, InvParts
    <3>2. e.at \in Holding => e.desc # d
      BY <3>0, <1>4, <1>8, HeapAssumption, InvParts DEF LocksOK, Big
    <3>3. e.at = "put" => e.old[1] \in PageNo
      <4>1. e.at = "put" => e.old \in Hands[u]
        BY <3>1 DEF HandOf
      <4> QED  BY <4>1, <1>5, HandPages
    <3>4. CallOK(e, owned[u], used_map, arena', free_list')
      BY <3>0, <3>1, <3>2, <3>3, <1>13, <1>14 DEF CallOK, Holding, HeapCall
    <3> QED  BY <3>0, <3>4, <2>2, <1>4, <1>7, <1>10
  <2> QED  BY <2>1, <2>2
<1>16. HeapType'
  BY <1>4, <1>7 DEF HeapInv, HeapType
<1>17. LocksOK'
  BY <1>1, <1>4, <1>6, <1>7 DEF HeapInv, LocksOK, Holding
<1>18. \A p \in PageNo : BusyOK(Claims, Hands, arena, p)'
  <2>1. \A u \in HThread : Hands[u] \subseteq Hands'[u]
    BY <1>9, <1>10
  <2> QED  BY <2>1, <1>7, <1>13, InvParts DEF BusyOK
<1> QED  BY <1>12, <1>15, <1>16, <1>17, <1>18 DEF HeapInv

(* calls of other threads stay right when only headers of unclaimed pages, *)
(* or of those that t claims, and the lists of other descriptors change    *)
LEMMA Others ==
    ASSUME HeapInv, NEW t \in HThread, NEW u \in HThread, u # t, NEW ar2, NEW fl2,
           \A p \in PageNo : p \notin Claims[t] => ar2[p].desc = arena[p].desc,
           \A d \in Classes : call[u].at \in Holding /\ call[u].desc = d => fl2[d] = free_list[d]
    PROVE  CallOK(call[u], owned[u], used_map, ar2, fl2)
<1>0. PICK e : e = call[u] /\ e \in HeapCall
  BY InvParts
<1>1. /\ CallOK(e, owned[u], used_map, arena, free_list)
      /\ World(Claims, Hands, owned, used_map, arena, free_list, mark)
      /\ Claims[u] = ClaimOf(e) /\ Hands[u] = HandOf(e, owned[u])
  BY <1>0, InvParts
<1>2. \A p \in ClaimOf(e) : p \in PageNo => ar2[p].desc = arena[p].desc
  BY <1>1 DEF World, ClaimsOK
<1>3. e.at = "put" => ar2[e.old[1]].desc = arena[e.old[1]].desc
  <2>1. SUFFICES ASSUME e.at = "put" PROVE ar2[e.old[1]].desc = arena[e.old[1]].desc
    OBVIOUS
  <2>2. e.old \in Hands[u]
    BY <1>1, <2>1 DEF HandOf
  <2>3. e.old[1] \in PageNo /\ ~Claimed(Claims, e.old[1])
    BY <2>2, <1>1, HandPages
  <2>4. e.old[1] \notin Claims[t]
    BY <2>3 DEF Claimed
  <2> QED  BY <2>3, <2>4
<1>4. e.at \in {"palloc", "scan", "flip", "arena"} /\ e.desc # Big => fl2[e.desc] = <<>>
  BY <1>0, <1>1 DEF CallOK, Holding, HeapCall
<1>5. CallOK(e, owned[u], used_map, ar2, fl2)
  BY <1>1, <1>2, <1>3, <1>4 DEF CallOK, ClaimOf
<1> QED  BY <1>0, <1>5

(* malloc() makes a new arena and takes its first block. *)
LEMMA ArenaStep ==
    ASSUME HeapInv, NEW t \in HThread, NewArena(t), call[t].desc # Big
    PROVE  HeapInv'
<1>1. PICK c : c = call[t] /\ c \in HeapCall
  BY InvParts
<1>2. PICK c2 : c2 = ReturnOf(c)
  OBVIOUS
<1>3. PICK d, p, n, l : /\ d = c.desc /\ p = c.scan /\ n = BlocksPerArena[d]
                        /\ l = [i \in 1 .. n |-> Block(p, i)]
  OBVIOUS
<1>4. /\ call' = [call EXCEPT ![t] = c2] /\ c.at = "arena" /\ d # Big
      /\ free_list' = [free_list EXCEPT ![d] = Tail(l)]
      /\ arena' = [arena EXCEPT ![p] = [desc |-> d, free_cnt |-> n - 1]]
      /\ owned' = [owned EXCEPT ![t] = @ \cup {Head(l)}]
      /\ mark' = [mark EXCEPT ![Head(l)[1]][Head(l)[2]] = t]
      /\ desc_lock' = [desc_lock EXCEPT ![d] = FALSE]
      /\ UNCHANGED <<pool_lock, heap_panic>> /\ UNCHANGED used_map
  <2>1. call' = [call EXCEPT ![t] = c2]
    BY <1>1, <1>2 DEF NewArena, Return, ReturnOf
  <2> QED  BY <2>1, <1>1, <1>3 DEF NewArena, Give
<1>5. /\ CallOK(c, owned[t], used_map, arena, free_list)
      /\ World(Claims, Hands, owned, used_map, arena, free_list, mark)
      /\ Claims[t] = ClaimOf(c) /\ Hands[t] = HandOf(c, owned[t])
      /\ d \in Classes
  BY <1>1, <1>3, <1>4, InvParts DEF HeapCall
<1>6. /\ Claims[t] = {p} /\ p \in PageNo /\ arena[p].desc = -1 /\ Hands[t] = owned[t]
      /\ free_list[d] = <<>>
  <2>1. c.cnt = 1 /\ c.scan \in Nat
    BY <1>1, <1>3, <1>4, <1>5 DEF CallOK, HeapCall
  <2>2. c.scan .. c.scan + c.cnt - 1 = {p}
    BY <2>1, <1>3
  <2>3. p \in c.scan .. c.scan + c.cnt - 1
    BY <2>2
  <2> QED  BY <2>2, <2>3, <1>3, <1>4, <1>5 DEF CallOK, ClaimOf, HandOf
<1>7. /\ c2 \in HeapCall /\ c2.at \in {"idle", "free"} /\ ClaimOf(c2) = {}
      /\ \A o : HandOf(c2, o) = o
      /\ \A o, used, ar, fl : owned[t] \subseteq o => CallOK(c2, o, used, ar, fl)
  <2>1. c.old = <<>> \/ c.old \in owned[t]
    BY <1>4, <1>5 DEF CallOK
  <2> QED  BY <2>1, <1>1, <1>2, Returned
<1>8. /\ call' \in [HThread -> HeapCall]
      /\ \A u \in HThread : call'[u] = IF u = t THEN c2 ELSE call[u]
      /\ Claims' = [Claims EXCEPT ![t] = {}]
  <2>1. c2 \in HeapCall /\ call' = [call EXCEPT ![t] = c2] /\ HeapType
    BY <1>4, <1>7, InvParts
  <2>2. /\ call' \in [HThread -> HeapCall]
        /\ \A u \in HThread : call'[u] = IF u = t THEN c2 ELSE call[u]
        /\ Claims' = [Claims EXCEPT ![t] = ClaimOf(c2)]
    BY <2>1, Moved
  <2> QED  BY <2>2, <1>7
<1>9. /\ owned \in [HThread -> SUBSET (PageNo \X Index)] /\ Hands \in [HThread -> SUBSET (PageNo \X Index)]
  BY <1>5 DEF World, WorldType
<1>10. PICK b : b = Head(l) /\ b = <<p, 1>> /\ n \in Nat /\ n >= 1
  <2>1. n \in Nat /\ n >= 1
    BY <1>3, <1>5, HeapAssumption
  <2>2. l \in Seq(PageNo \X Nat) /\ Len(l) = n
    BY <2>1, <1>3, <1>6 DEF Block
  <2>3. Head(l) = l[1]
    BY <2>1, <2>2
  <2>4. l[1] = <<p, 1>>
    BY <2>1, <1>3 DEF Block
  <2> QED  BY <2>1, <2>3, <2>4
<1>11. /\ Hands' = [Hands EXCEPT ![t] = @ \cup {b}]
       /\ \A u \in HThread : u # t => owned'[u] = owned[u]
       /\ owned'[t] = owned[t] \cup {b}
  <2>1. /\ \A u \in HThread : u # t => owned'[u] = owned[u]
        /\ owned'[t] = owned[t] \cup {b}
    BY <1>4, <1>9, <1>10
  <2>2. Hands'= [u \in HThread |-> HandOf(call'[u], owned'[u])]
    BY DEF Hands
  <2>3. \A u \in HThread : u # t => HandOf(call'[u], owned'[u]) = Hands[u]
    BY <2>1, <1>8, InvParts
  <2>4. HandOf(call'[t], owned'[t]) = Hands[t] \cup {b}
    BY <2>1, <1>6, <1>7, <1>8
  <2> QED  BY <2>1, <2>2, <2>3, <2>4, <1>9
<1>12. PICK ar1, fl1 : /\ ar1 = [arena EXCEPT ![p] = [desc |-> d, free_cnt |-> n]]
                       /\ fl1 = [free_list EXCEPT ![d] = l]
  OBVIOUS
<1>13. World(Claims', Hands, owned, used_map, ar1, fl1, mark)
  <2>1. PICK cl2 : cl2 = Claims' /\ cl2 = [Claims EXCEPT ![t] = {}]
    BY <1>8
  <2>2. World(cl2, Hands, owned, used_map, ar1, fl1, mark)
    <3>1. Founded(d, p, arena, free_list, ar1, fl1)
      BY <1>3, <1>12 DEF Founded
    <3> QED  BY <3>1, <1>5, <1>6, <2>1, ArenaWorld
  <2> QED  BY <2>1, <2>2
<1>14. Taken(t, d, b, Hands, owned, ar1, fl1, mark, Hands', owned', arena', free_list', mark')
  <2>1. fl1[d] = l /\ [fl1 EXCEPT ![d] = Tail(@)] = free_list'
    BY <1>4, <1>5, <1>12 DEF World, WorldType
  <2>2. [ar1 EXCEPT ![b[1]].free_cnt = @ - 1] = arena'
    <3>1. ar1[p] = [desc |-> d, free_cnt |-> n] /\ b[1] = p
      BY <1>5, <1>6, <1>10, <1>12 DEF World, WorldType
    <3>2. [ar1[p] EXCEPT !.free_cnt = @ - 1] = [desc |-> d, free_cnt |-> n - 1]
      BY <3>1
    <3>3. [ar1 EXCEPT ![b[1]].free_cnt = @ - 1] = [ar1 EXCEPT ![p] = [ar1[p] EXCEPT !.free_cnt = @ - 1]]
      BY <3>1
    <3> QED  BY <3>2, <3>3, <1>4, <1>5, <1>6, <1>12 DEF World, WorldType
  <2>3. mark' = [mark EXCEPT ![b[1]][b[2]] = t]
    BY <1>4, <1>10
  <2>4. Hands' = [Hands EXCEPT ![t] = @ \cup {b}] /\ owned' = [owned EXCEPT ![t] = @ \cup {b}]
    BY <1>4, <1>10, <1>11
  <2> QED  BY <2>1, <2>2, <2>3, <2>4, <1>10 DEF Taken
<1>15. World(Claims, Hands, owned, used_map, arena, free_list, mark)'
  <2>1. PICK cl2, has2, own2, ar2, fl2, mk2 :
           /\ cl2 = Claims' /\ has2 = Hands' /\ own2 = owned' /\ ar2 = arena' /\ fl2 = free_list'
           /\ mk2 = mark'
    OBVIOUS
  <2>2. fl1[d] # <<>>
    <3>1. fl1[d] = l
      BY <1>5, <1>12 DEF World, WorldType
    <3>2. l # <<>>
      <4>1. 1 \in DOMAIN l
        BY <1>3, <1>10
      <4> QED  BY <4>1
    <3> QED  BY <3>1, <3>2
  <2>3. World(cl2, has2, own2, used_map, ar2, fl2, mk2)
    BY <2>1, <2>2, <1>5, <1>13, <1>14, TakeWorld
  <2> QED  BY <2>1, <2>3, <1>4
<1>16. \A q \in PageNo : q # p => arena'[q] = arena[q]
  BY <1>4, <1>5 DEF World, WorldType
<1>17. ASSUME NEW u \in HThread PROVE CallOK(call[u], owned[u], used_map, arena, free_list)'
  <2>1. CASE u = t
    <3>1. owned[t] \subseteq owned'[t]
      BY <1>11
    <3> QED  BY <3>1, <2>1, <1>7, <1>8
  <2>2. CASE u # t
    <3>1. \A k \in Classes : call[u].at \in Holding /\ call[u].desc = k => free_list'[k] = free_list[k]
      <4>1. \A k \in Classes : k # d => free_list'[k] = free_list[k]
        BY <1>4, <1>5 DEF World, WorldType
      <4>2. call[u].at \in Holding => call[u].desc # d
        BY <2>2, <1>1, <1>3, <1>4, InvParts DEF LocksOK, Holding
      <4> QED  BY <4>1, <4>2
    <3>2. \A q \in PageNo : q \notin Claims[t] => arena'[q].desc = arena[q].desc
      BY <1>6, <1>16
    <3>3. CallOK(call[u], owned[u], used_map, arena', free_list')
      BY <2>2, <3>1, <3>2, Others
    <3> QED  BY <3>3, <2>2, <1>4, <1>8, <1>11
  <2> QED  BY <2>1, <2>2
<1>18. LocksOK' /\ desc_lock' \in [Classes -> BOOLEAN]
  <2>1. /\ c.at \in Holding /\ c2.at \notin Holding /\ UNCHANGED pool_lock
        /\ desc_lock' = (IF c.desc = Big THEN desc_lock ELSE [desc_lock EXCEPT ![c.desc] = FALSE])
    BY <1>3, <1>4, <1>7 DEF Holding
  <2> QED  BY <2>1, <1>1, <1>8, Released
<1>19. HeapType'
  BY <1>4, <1>8, <1>18 DEF HeapInv, HeapType
<1>20. ASSUME NEW q \in PageNo PROVE BusyOK(Claims', Hands', arena', q)
  <2>1. \A u \in HThread : Hands[u] \subseteq Hands'[u]
    BY <1>9, <1>11
  <2>2. CASE q = p
    <3>1. b \in Hands'[t] /\ b[1] = p
      BY <1>9, <1>10, <1>11
    <3> QED  BY <2>2, <3>1 DEF BusyOK
  <2>3. CASE q # p
    <3>1. Claimed(Claims, q) => Claimed(Claims', q)
      BY <2>3, <1>5, <1>6, <1>8 DEF Claimed, World, WorldType
    <3>2. BusyOK(Claims, Hands, arena, q)
      BY InvParts
    <3> QED  BY <2>1, <2>3, <3>1, <3>2, <1>16 DEF BusyOK
  <2> QED  BY <2>2, <2>3
<1> QED  BY <1>15, <1>17, <1>18, <1>19, <1>20 DEF HeapInv

(* malloc() makes a big block of its pages. *)
LEMMA PagesStep ==
    ASSUME HeapInv, NEW t \in HThread, NewArena(t), call[t].desc = Big
    PROVE  HeapInv'
<1>1. PICK c : c = call[t] /\ c \in HeapCall
  BY InvParts
<1>2. PICK c2 : c2 = ReturnOf(c)
  OBVIOUS
<1>3. PICK p, n, b : p = c.scan /\ n = c.cnt /\ b = Block(p, 0)
  OBVIOUS
<1>4. /\ call' = [call EXCEPT ![t] = c2] /\ c.at = "arena" /\ c.desc = Big
      /\ arena' = [arena EXCEPT ![p] = [desc |-> Big, free_cnt |-> n]]
      /\ owned' = [owned EXCEPT ![t] = @ \cup {b}]
      /\ mark' = [q \in PageNo |-> IF q \in p .. p + n - 1 THEN [mark[q] EXCEPT ![0] = t] ELSE mark[q]]
      /\ UNCHANGED <<pool_lock, desc_lock, heap_panic>> /\ UNCHANGED <<used_map, free_list>>
  <2>1. call' = [call EXCEPT ![t] = c2]
    BY <1>1, <1>2 DEF NewArena, Return, ReturnOf
  <2> QED  BY <2>1, <1>1, <1>3 DEF NewArena, GivePages
<1>5. /\ CallOK(c, owned[t], used_map, arena, free_list)
      /\ World(Claims, Hands, owned, used_map, arena, free_list, mark)
      /\ Claims[t] = ClaimOf(c) /\ Hands[t] = HandOf(c, owned[t])
      /\ p \in Nat /\ n \in Nat \ {0}
  BY <1>1, <1>3, InvParts DEF HeapCall
<1>6. /\ Claims[t] = p .. p + n - 1 /\ p \in Claims[t] /\ Hands[t] = owned[t]
      /\ \A q \in Claims[t] : q \in PageNo /\ arena[q].desc = -1
  <2>1. Claims[t] = p .. p + n - 1 /\ Hands[t] = owned[t]
    BY <1>3, <1>4, <1>5 DEF ClaimOf, HandOf
  <2> QED  BY <2>1, <1>3, <1>4, <1>5 DEF CallOK
<1>7. /\ c2 \in HeapCall /\ c2.at \in {"idle", "free"} /\ ClaimOf(c2) = {}
      /\ \A o : HandOf(c2, o) = o
      /\ \A o, used, ar, fl : owned[t] \subseteq o => CallOK(c2, o, used, ar, fl)
  <2>1. c.old = <<>> \/ c.old \in owned[t]
    BY <1>4, <1>5 DEF CallOK
  <2> QED  BY <2>1, <1>1, <1>2, Returned
<1>8. /\ call' \in [HThread -> HeapCall]
      /\ \A u \in HThread : call'[u] = IF u = t THEN c2 ELSE call[u]
      /\ Claims' = [Claims EXCEPT ![t] = {}]
  <2>1. c2 \in HeapCall /\ call' = [call EXCEPT ![t] = c2] /\ HeapType
    BY <1>4, <1>7, InvParts
  <2>2. /\ call' \in [HThread -> HeapCall]
        /\ \A u \in HThread : call'[u] = IF u = t THEN c2 ELSE call[u]
        /\ Claims' = [Claims EXCEPT ![t] = ClaimOf(c2)]
    BY <2>1, Moved
  <2> QED  BY <2>2, <1>7
<1>9. /\ owned \in [HThread -> SUBSET (PageNo \X Index)] /\ Hands \in [HThread -> SUBSET (PageNo \X Index)]
  BY <1>5 DEF World, WorldType
<1>10. /\ Hands' = [Hands EXCEPT ![t] = @ \cup {b}]
       /\ \A u \in HThread : u # t => owned'[u] = owned[u]
       /\ owned'[t] = owned[t] \cup {b}
  <2>1. /\ \A u \in HThread : u # t => owned'[u] = owned[u]
        /\ owned'[t] = owned[t] \cup {b}
    BY <1>4, <1>9
  <2>2. Hands'= [u \in HThread |-> HandOf(call'[u], owned'[u])]
    BY DEF Hands
  <2>3. \A u \in HThread : u # t => HandOf(call'[u], owned'[u]) = Hands[u]
    BY <2>1, <1>8, InvParts
  <2>4. HandOf(call'[t], owned'[t]) = Hands[t] \cup {b}
    BY <2>1, <1>6, <1>7, <1>8
  <2> QED  BY <2>1, <2>2, <2>3, <2>4, <1>9
<1>11. World(Claims, Hands, owned, used_map, arena, free_list, mark)'
  <2>1. PICK cl2, has2, own2, ar2, mk2 :
           cl2 = Claims' /\ has2 = Hands' /\ own2 = owned' /\ ar2 = arena' /\ mk2 = mark'
    OBVIOUS
  <2>2. PagesGiven(t, p, n, b, Hands, owned, arena, mark, has2, own2, ar2, mk2)
    BY <2>1, <1>3, <1>4, <1>10 DEF PagesGiven
  <2>3. cl2 = [Claims EXCEPT ![t] = {}] /\ \A q \in Claims[t] : arena[q].desc = -1
    BY <2>1, <1>6, <1>8
  <2>4. World(cl2, has2, own2, used_map, ar2, free_list, mk2)
    BY <2>2, <2>3, <1>5, <1>6, PagesWorld
  <2> QED  BY <2>1, <2>4, <1>4
<1>12. /\ \A q \in PageNo : q # p => arena'[q] = arena[q]
       /\ arena'[p].desc = Big
  BY <1>4, <1>5, <1>6 DEF World, WorldType
<1>13. ASSUME NEW u \in HThread PROVE CallOK(call[u], owned[u], used_map, arena, free_list)'
  <2>1. CASE u = t
    <3>1. owned[t] \subseteq owned'[t]
      BY <1>10
    <3> QED  BY <3>1, <2>1, <1>7, <1>8
  <2>2. CASE u # t
    <3>1. \A q \in PageNo : q \notin Claims[t] => arena'[q].desc = arena[q].desc
      BY <1>6, <1>12
    <3>2. CallOK(call[u], owned[u], used_map, arena', free_list)
      BY <2>2, <3>1, Others
    <3> QED  BY <3>2, <2>2, <1>4, <1>8, <1>10
  <2> QED  BY <2>1, <2>2
<1>14. LocksOK'
  BY <1>1, <1>4, <1>7, <1>8 DEF HeapInv, LocksOK, Holding
<1>15. HeapType'
  BY <1>4, <1>8 DEF HeapInv, HeapType
<1>16. ASSUME NEW q \in PageNo PROVE BusyOK(Claims', Hands', arena', q)
  <2>1. \A u \in HThread : Hands[u] \subseteq Hands'[u]
    BY <1>9, <1>10
  <2>2. Big \notin Classes /\ -1 \notin Classes
    BY HeapAssumption DEF Big
  <2>3. CASE q \in Claims[t]
    <3>1. arena'[q].desc \notin Classes
      BY <2>2, <2>3, <1>6, <1>12
    <3> QED  BY <3>1 DEF BusyOK
  <2>4. CASE q \notin Claims[t]
    <3>1. Claimed(Claims, q) => Claimed(Claims', q)
      BY <2>4, <1>5, <1>8 DEF Claimed, World, WorldType
    <3>2. BusyOK(Claims, Hands, arena, q) /\ arena'[q] = arena[q]
      BY <2>4, <1>6, <1>12, InvParts
    <3> QED  BY <2>1, <3>1, <3>2 DEF BusyOK
  <2> QED  BY <2>3, <2>4
<1> QED  BY <1>11, <1>13, <1>14, <1>15, <1>16 DEF HeapInv

(* free() of a block of an arena finds the header intact and poisons the   *)
(* block.                                                                  *)
LEMMA PoisonStep ==
    ASSUME HeapInv, NEW t \in HThread, FreeBlock(t), arena[call[t].old[1]].desc # Big
    PROVE  HeapInv'
<1>1. PICK c : c = call[t] /\ c \in HeapCall
  BY InvParts
<1>2. PICK b, a : b = c.old /\ a = arena[b[1]]
  OBVIOUS
<1>3. PICK c2 : c2 = [c EXCEPT !.at = "put", !.desc = a.desc, !.scan = b[1], !.cnt = 1]
  OBVIOUS
<1>4. /\ call' = [call EXCEPT ![t] = c2] /\ c.at = "free" /\ heap_panic' = (a.desc = -1)
      /\ owned' = [owned EXCEPT ![t] = @ \ {b}]
      /\ mark' = [mark EXCEPT ![b[1]][b[2]] = "poison"]
      /\ UNCHANGED <<pool_lock, desc_lock>> /\ UNCHANGED <<used_map, free_list, arena>>
  <2>1. a.desc # Big
    BY <1>1, <1>2
  <2>2. call' = [call EXCEPT ![t] = c2]
    BY <2>1, <1>1, <1>2, <1>3 DEF FreeBlock
  <2> QED  BY <2>1, <2>2, <1>1, <1>2 DEF FreeBlock
<1>5. /\ World(Claims, Hands, owned, used_map, arena, free_list, mark)
      /\ Claims[t] = {} /\ Hands[t] = owned[t] /\ b \in owned[t]
  <2>1. /\ CallOK(c, owned[t], used_map, arena, free_list)
        /\ World(Claims, Hands, owned, used_map, arena, free_list, mark)
        /\ Claims[t] = ClaimOf(c) /\ Hands[t] = HandOf(c, owned[t])
    BY <1>1, InvParts
  <2> QED  BY <2>1, <1>2, <1>4 DEF CallOK, ClaimOf, HandOf
<1>6. /\ b \in PageNo \X Index /\ b[1] \in PageNo /\ b[1] \in Nat /\ b[2] # 0
      /\ a.desc \in Classes /\ a.desc # -1 /\ a.desc # Big /\ b # <<>>
  <2>1. BlockOK(Claims, used_map, arena, b) /\ b \in PageNo \X Index /\ b[1] \in PageNo
    BY <1>5, HandPages
  <2>2. b[2] # 0 /\ a.desc \in Classes
    BY <2>1, <1>1, <1>2 DEF BlockOK
  <2>3. a.desc # -1 /\ a.desc # Big
    BY <2>2, HeapAssumption DEF Big
  <2>4. b # <<>>
    BY <2>1
  <2> QED  BY <2>1, <2>2, <2>3, <2>4 DEF PageNo
<1>7. /\ c2 \in HeapCall /\ c2.at = "put" /\ c2.desc = a.desc /\ c2.scan = b[1] /\ c2.cnt = 1
      /\ c2.old = b
  <2>1. PICK x, y : x = a.desc /\ x \in {Big} \cup Classes /\ y = b[1] /\ y \in Nat
    BY <1>6
  <2>2. c2 = [c EXCEPT !.at = "put", !.desc = x, !.scan = y, !.cnt = 1]
    BY <2>1, <1>3
  <2>3. /\ c2 \in HeapCall /\ c2.at = "put" /\ c2.desc = x /\ c2.scan = y /\ c2.cnt = 1
        /\ c2.old = c.old
    <3>1. c2 = [at |-> "put", desc |-> x, cnt |-> 1, scan |-> y, old |-> c.old]
      BY <2>2, <1>1 DEF HeapCall
    <3>2. c.old \in {<<>>} \cup (PageNo \X Index) /\ "put" \in Places
      BY <1>1 DEF HeapCall, Places
    <3> QED  BY <2>1, <3>1, <3>2 DEF HeapCall
  <2> QED  BY <2>1, <2>3, <1>2
<1>8. /\ call' \in [HThread -> HeapCall]
      /\ \A u \in HThread : call'[u] = IF u = t THEN c2 ELSE call[u]
      /\ Claims' = Claims
  <2>1. HeapType
    BY InvParts
  <2>2. /\ call' \in [HThread -> HeapCall]
        /\ \A u \in HThread : call'[u] = IF u = t THEN c2 ELSE call[u]
        /\ Claims' = [Claims EXCEPT ![t] = ClaimOf(c2)]
    BY <2>1, <1>4, <1>7, Moved
  <2>3. ClaimOf(c2) = Claims[t]
    BY <1>5, <1>7 DEF ClaimOf
  <2>4. [Claims EXCEPT ![t] = Claims[t]] = Claims
    BY DEF Claims
  <2> QED  BY <2>2, <2>3, <2>4
<1>9. owned \in [HThread -> SUBSET (PageNo \X Index)]
  BY <1>5 DEF World, WorldType
<1>10. /\ Hands' = Hands
       /\ \A u \in HThread : u # t => owned'[u] = owned[u]
       /\ owned'[t] = owned[t] \ {b}
  <2>1. /\ \A u \in HThread : u # t => owned'[u] = owned[u]
        /\ owned'[t] = owned[t] \ {b}
    BY <1>4, <1>9
  <2>2. Hands'= [u \in HThread |-> HandOf(call'[u], owned'[u])]
    BY DEF Hands
  <2>3. \A u \in HThread : u # t => HandOf(call'[u], owned'[u]) = HandOf(call[u], owned[u])
    BY <2>1, <1>8
  <2>4. HandOf(call'[t], owned'[t]) = owned[t]
    <3>1. HandOf(c2, owned[t] \ {b}) = (owned[t] \ {b}) \cup {b}
      BY <1>7 DEF HandOf
    <3>2. (owned[t] \ {b}) \cup {b} = owned[t]
      BY <1>5
    <3> QED  BY <3>1, <3>2, <2>1, <1>8
  <2>5. HandOf(call[t], owned[t]) = owned[t]
    BY <1>5, InvParts
  <2> QED  BY <2>1, <2>2, <2>3, <2>4, <2>5 DEF Hands
<1>11. World(Claims, Hands, owned, used_map, arena, free_list, mark)'
  <2>1. PICK own2, mk2 : own2 = owned' /\ mk2 = mark'
    OBVIOUS
  <2>2. /\ own2 = [owned EXCEPT ![t] = @ \ {b}] /\ mk2 = [mark EXCEPT ![b[1]][b[2]] = "poison"]
    BY <2>1, <1>4
  <2>3. World(Claims, Hands, own2, used_map, arena, free_list, mk2)
    BY <2>2, <1>5, <1>6, PoisonWorld
  <2> QED  BY <2>1, <2>3, <1>4, <1>8, <1>10
<1>12. ASSUME NEW u \in HThread PROVE CallOK(call[u], owned[u], used_map, arena, free_list)'
  <2>1. CASE u = t
    <3>1. CallOK(c2, owned'[t], used_map, arena, free_list)
      BY <1>2, <1>6, <1>7, <1>10 DEF CallOK
    <3> QED  BY <3>1, <2>1, <1>4, <1>8
  <2>2. CASE u # t
    <3>1. CallOK(call[u], owned[u], used_map, arena, free_list)
      BY InvParts
    <3> QED  BY <3>1, <2>2, <1>4, <1>8, <1>10
  <2> QED  BY <2>1, <2>2
<1>13. LocksOK'
  BY <1>1, <1>4, <1>7, <1>8 DEF HeapInv, LocksOK, Holding
<1>14. HeapType'
  BY <1>4, <1>6, <1>8 DEF HeapInv, HeapType
<1>15. \A p \in PageNo : BusyOK(Claims, Hands, arena, p)'
  BY <1>4, <1>8, <1>10, InvParts DEF BusyOK
<1> QED  BY <1>11, <1>12, <1>13, <1>14, <1>15 DEF HeapInv

(* free() of a big block finds the header intact and claims its pages. *)
LEMMA FreePagesStep ==
    ASSUME HeapInv, NEW t \in HThread, FreeBlock(t), arena[call[t].old[1]].desc = Big
    PROVE  HeapInv'
<1>1. PICK c : c = call[t] /\ c \in HeapCall
  BY InvParts
<1>2. PICK b, a : b = c.old /\ a = arena[b[1]]
  OBVIOUS
<1>3. PICK c2 : c2 = [c EXCEPT !.at = "clear", !.desc = a.desc, !.scan = b[1], !.cnt = a.free_cnt]
  OBVIOUS
<1>4. /\ call' = [call EXCEPT ![t] = c2] /\ c.at = "free" /\ heap_panic' = (a.desc = -1)
      /\ owned' = [owned EXCEPT ![t] = @ \ {b}]
      /\ UNCHANGED <<pool_lock, desc_lock>> /\ UNCHANGED <<used_map, free_list, arena, mark>>
  <2>1. a.desc = Big
    BY <1>1, <1>2
  <2>2. call' = [call EXCEPT ![t] = c2]
    BY <2>1, <1>1, <1>2, <1>3 DEF FreeBlock
  <2> QED  BY <2>1, <2>2, <1>1, <1>2 DEF FreeBlock
<1>5. /\ World(Claims, Hands, owned, used_map, arena, free_list, mark)
      /\ Claims[t] = {} /\ Hands[t] = owned[t] /\ b \in owned[t]
  <2>1. /\ CallOK(c, owned[t], used_map, arena, free_list)
        /\ World(Claims, Hands, owned, used_map, arena, free_list, mark)
        /\ Claims[t] = ClaimOf(c) /\ Hands[t] = HandOf(c, owned[t])
    BY <1>1, InvParts
  <2> QED  BY <2>1, <1>2, <1>4 DEF CallOK, ClaimOf, HandOf
<1>6. /\ b[1] \in PageNo /\ b[1] \in Nat /\ b[2] = 0 /\ a.desc = Big /\ a.desc # -1
      /\ a.free_cnt \in Nat \ {0} /\ BlockOK(Claims, used_map, arena, b)
      /\ \A p \in Region(arena, b) : p \in PageNo
  <2>1. /\ BlockOK(Claims, used_map, arena, b) /\ b \in PageNo \X Index /\ b[1] \in PageNo
        /\ \A p \in Region(arena, b) : p \in PageNo
    BY <1>5, HandPages
  <2>2. a.desc = Big /\ Big \notin Classes /\ Big # -1
    BY <1>1, <1>2, HeapAssumption DEF Big
  <2>3. b[2] = 0
    BY <2>1, <2>2, <1>2 DEF BlockOK
  <2>4. a.free_cnt \in Nat /\ a.free_cnt >= 1
    BY <2>1, <2>3, <1>2, <1>5 DEF BlockOK, World, WorldType, Header
  <2> QED  BY <2>1, <2>2, <2>3, <2>4 DEF PageNo
<1>7. /\ c2 \in HeapCall /\ c2.at = "clear" /\ c2.desc = Big /\ c2.scan = b[1] /\ c2.cnt = a.free_cnt
      /\ c2.old = b
  <2>1. PICK x, y : x = a.free_cnt /\ x \in Nat \ {0} /\ y = b[1] /\ y \in Nat
    BY <1>6
  <2>2. c2 = [c EXCEPT !.at = "clear", !.desc = Big, !.scan = y, !.cnt = x]
    BY <2>1, <1>3, <1>6
  <2>3. c2 = [at |-> "clear", desc |-> Big, cnt |-> x, scan |-> y, old |-> c.old]
    BY <2>2, <1>1 DEF HeapCall
  <2>4. c.old \in {<<>>} \cup (PageNo \X Index) /\ "clear" \in Places
    BY <1>1 DEF HeapCall, Places, Holding
  <2>5. /\ c2 \in HeapCall /\ c2.at = "clear" /\ c2.desc = Big /\ c2.scan = y /\ c2.cnt = x
        /\ c2.old = c.old
    BY <2>1, <2>3, <2>4 DEF HeapCall
  <2> QED  BY <2>1, <2>5, <1>2
<1>8. ClaimOf(c2) = Region(arena, b)
  BY <1>2, <1>6, <1>7 DEF ClaimOf, Region
<1>9. /\ call' \in [HThread -> HeapCall]
      /\ \A u \in HThread : call'[u] = IF u = t THEN c2 ELSE call[u]
      /\ Claims' = [Claims EXCEPT ![t] = Region(arena, b)]
  <2>1. HeapType
    BY InvParts
  <2> QED  BY <2>1, <1>4, <1>7, <1>8, Moved
<1>10. owned \in [HThread -> SUBSET (PageNo \X Index)] /\ Hands \in [HThread -> SUBSET (PageNo \X Index)]
  BY <1>5 DEF World, WorldType
<1>11. /\ Hands' = [Hands EXCEPT ![t] = @ \ {b}]
       /\ \A u \in HThread : u # t => owned'[u] = owned[u]
       /\ owned'[t] = owned[t] \ {b}
  <2>1. /\ \A u \in HThread : u # t => owned'[u] = owned[u]
        /\ owned'[t] = owned[t] \ {b}
    BY <1>4, <1>10
  <2>2. Hands'= [u \in HThread |-> HandOf(call'[u], owned'[u])]
    BY DEF Hands
  <2>3. \A u \in HThread : u # t => HandOf(call'[u], owned'[u]) = Hands[u]
    BY <2>1, <1>9, InvParts
  <2>4. HandOf(call'[t], owned'[t]) = Hands[t] \ {b}
    BY <2>1, <1>5, <1>7, <1>9 DEF HandOf
  <2> QED  BY <2>1, <2>2, <2>3, <2>4, <1>10
<1>12. World(Claims, Hands, owned, used_map, arena, free_list, mark)'
  <2>1. PICK cl2, has2, own2 : cl2 = Claims' /\ has2 = Hands' /\ own2 = owned'
    OBVIOUS
  <2>2. PagesBack(t, b, Claims, Hands, owned, arena, cl2, has2, own2)
    BY <2>1, <1>4, <1>9, <1>11 DEF PagesBack
  <2>3. World(cl2, has2, own2, used_map, arena, free_list, mark)
    <3>1. b \in Hands[t] /\ b[2] = 0 /\ Claims[t] = {}
      BY <1>5, <1>6
    <3> QED  BY <3>1, <2>2, <1>5, FreePagesWorld
  <2> QED  BY <2>1, <2>3, <1>4
<1>13. ASSUME NEW u \in HThread PROVE CallOK(call[u], owned[u], used_map, arena, free_list)'
  <2>1. CASE u = t
    <3>1. \A p \in Region(arena, b) : p \in PageNo /\ (arena[p].desc = Big \/ arena[p].desc = -1)
      BY <1>6 DEF BlockOK
    <3>2. CallOK(c2, owned'[t], used_map, arena, free_list)
      BY <3>1, <1>7, <1>8 DEF CallOK, ClaimOf
    <3> QED  BY <3>2, <2>1, <1>4, <1>9
  <2>2. CASE u # t
    <3>1. CallOK(call[u], owned[u], used_map, arena, free_list)
      BY InvParts
    <3> QED  BY <3>1, <2>2, <1>4, <1>9, <1>11
  <2> QED  BY <2>1, <2>2
<1>14. LocksOK'
  BY <1>1, <1>4, <1>7, <1>9 DEF HeapInv, LocksOK, Holding
<1>15. HeapType'
  BY <1>4, <1>6, <1>9 DEF HeapInv, HeapType
<1>16. ASSUME NEW p \in PageNo PROVE BusyOK(Claims', Hands', arena, p)
  <2>1. SUFFICES ASSUME arena[p].desc \in Classes, ~Claimed(Claims', p)
                 PROVE  \E u \in HThread : \E g \in Hands'[u] : g[1] = p
    BY DEF BusyOK
  <2>2. Claimed(Claims, p) => Claimed(Claims', p)
    BY <1>5, <1>9 DEF Claimed, World, WorldType
  <2>3. PICK u \in HThread : \E g \in Hands[u] : g[1] = p
    BY <2>1, <2>2, InvParts DEF BusyOK
  <2>4. PICK g \in Hands[u] : g[1] = p
    BY <2>3
  <2>5. g # b
    BY <2>1, <2>4, <1>2, <1>6, HeapAssumption DEF Big
  <2> QED  BY <2>4, <2>5, <1>10, <1>11
<1> QED  BY <1>4, <1>12, <1>13, <1>14, <1>15, <1>16 DEF HeapInv

(* an arena is unused if and only if it has as many free blocks as blocks *)
LEMMA UnusedArena ==
    ASSUME NEW has, NEW d \in Classes, NEW p
    PROVE  Cardinality(FreeIn(has, d, p)) >= BlocksPerArena[d] <=>
              \A g \in {p} \X (1 .. BlocksPerArena[d]) : Loose(has, g)
<1> DEFINE S == {p} \X (1 .. BlocksPerArena[d])
<1>1. /\ IsFiniteSet(S) /\ Cardinality(S) = BlocksPerArena[d] /\ FreeIn(has, d, p) \subseteq S
      /\ Cardinality(FreeIn(has, d, p)) \in Nat
      /\ Cardinality(FreeIn(has, d, p)) <= BlocksPerArena[d] /\ BlocksPerArena[d] \in Nat
  <2>1. FreeIn(has, d, p) \subseteq S
    BY DEF FreeIn
  <2>2. BlocksPerArena[d] \in Nat
    BY HeapAssumption
  <2> QED  BY <2>1, <2>2, FreeInFinite
<1>2. ASSUME Cardinality(FreeIn(has, d, p)) >= BlocksPerArena[d]
      PROVE  \A g \in S : Loose(has, g)
  <2>1. Cardinality(FreeIn(has, d, p)) = Cardinality(S)
    BY <1>1, <1>2
  <2>2. FreeIn(has, d, p) = S
    BY <1>1, <2>1, FS_Subset
  <2> QED  BY <2>2 DEF FreeIn
<1>3. ASSUME \A g \in S : Loose(has, g)
      PROVE  Cardinality(FreeIn(has, d, p)) >= BlocksPerArena[d]
  <2>1. FreeIn(has, d, p) = S
    BY <1>3 DEF FreeIn
  <2> QED  BY <1>1, <2>1
<1> QED  BY <1>2, <1>3

(* what free() finds and does as it puts block b into the free list of d:  *)
(* its arena then has k free blocks                                        *)
Put(t, b, d, k, has2, ar2, fl2) ==
    /\ b = call[t].old /\ d = call[t].desc /\ d \in Classes /\ b[1] \in PageNo
    /\ desc_lock[d] = FALSE /\ Claims[t] = {} /\ ~Claimed(Claims, b[1])
    /\ World(Claims, has2, owned, used_map, ar2, fl2, mark)
    /\ arena' = ar2 /\ ar2[b[1]].desc = d
    /\ \A p \in PageNo : ar2[p].desc = arena[p].desc
    /\ \A u \in HThread : has2[u] = IF u = t THEN owned[t] ELSE Hands[u]
    /\ fl2[d] = <<b>> \o free_list[d] /\ fl2 \in [Classes -> Seq(PageNo \X Index)]
    /\ \A e \in Classes : e # d => fl2[e] = free_list[e]
    /\ k >= BlocksPerArena[d] <=> \A g \in {b[1]} \X (1 .. BlocksPerArena[d]) : Loose(has2, g)
    /\ desc_lock' = [desc_lock EXCEPT ![d] = k >= BlocksPerArena[d]]
    /\ free_list' = [free_list EXCEPT ![d] =
          IF k >= BlocksPerArena[d] THEN ArenaRemoved(fl2[d], b[1], BlocksPerArena[d]) ELSE fl2[d]]
    /\ call' = [call EXCEPT ![t] =
          IF k >= BlocksPerArena[d] THEN [call[t] EXCEPT !.at = "clear"] ELSE NoCall]
    /\ heap_panic' = FALSE /\ UNCHANGED <<pool_lock, used_map, mark, owned>>

(* free() has the lock: the block joins the list, and the count is within  *)
(* its bound.                                                              *)
LEMMA PutStart ==
    ASSUME HeapInv, NEW t \in HThread, PutBlock(t)
    PROVE  \E b, d, k, has2, ar2, fl2 : Put(t, b, d, k, has2, ar2, fl2)
<1>1. PICK c : c = call[t] /\ c \in HeapCall
  BY InvParts
<1>2. PICK b, d : b = c.old /\ d = c.desc
  OBVIOUS
<1>3. PICK has2 : has2 = [Hands EXCEPT ![t] = @ \ {b}]
  OBVIOUS
<1>4. PICK ar2 : ar2 = [arena EXCEPT ![b[1]].free_cnt = @ + 1]
  OBVIOUS
<1>5. PICK fl2 : fl2 = [free_list EXCEPT ![d] = <<b>> \o @]
  OBVIOUS
<1>6. /\ CallOK(c, owned[t], used_map, arena, free_list) /\ c.at = "put" /\ ~desc_lock[d]
      /\ World(Claims, Hands, owned, used_map, arena, free_list, mark)
      /\ Claims[t] = {} /\ Hands[t] = owned[t] \cup {b}
  <2>1. /\ CallOK(c, owned[t], used_map, arena, free_list)
        /\ World(Claims, Hands, owned, used_map, arena, free_list, mark)
        /\ Claims[t] = ClaimOf(c) /\ Hands[t] = HandOf(c, owned[t])
    BY <1>1, InvParts
  <2>2. c.at = "put" /\ ~desc_lock[d]
    BY <1>1, <1>2 DEF PutBlock
  <2> QED  BY <2>1, <2>2, <1>2 DEF ClaimOf, HandOf
<1>7. /\ d \in Classes /\ b \in Hands[t] /\ b \notin owned[t] /\ b[2] # 0 /\ arena[b[1]].desc = d
  BY <1>1, <1>2, <1>6 DEF CallOK, HeapCall
<1>8. /\ World(Claims, has2, owned, used_map, ar2, fl2, mark)
      /\ b[1] \in PageNo /\ ~Claimed(Claims, b[1])
      /\ arena[b[1]].free_cnt + 1 <= BlocksPerArena[d]
      /\ ar2[b[1]].free_cnt = arena[b[1]].free_cnt + 1 /\ ar2[b[1]].desc = d
      /\ \A p \in PageNo : ar2[p].desc = arena[p].desc
      /\ fl2[d] = <<b>> \o free_list[d]
  <2>1. PutBack(t, d, b, Hands, arena, free_list, has2, ar2, fl2)
    BY <1>3, <1>4, <1>5 DEF PutBack
  <2> QED  BY <2>1, <1>6, <1>7, PutWorld
<1>9. PICK k : k = arena[b[1]].free_cnt + 1
  OBVIOUS
<1>10. k >= BlocksPerArena[d] <=> \A g \in {b[1]} \X (1 .. BlocksPerArena[d]) : Loose(has2, g)
  <2>1. k = Cardinality(FreeIn(has2, d, b[1]))
    BY <1>7, <1>8, <1>9 DEF World, CountOK
  <2> QED  BY <2>1, <1>7, UnusedArena
<1>11. \A u \in HThread : has2[u] = IF u = t THEN owned[t] ELSE Hands[u]
  <2>1. Hands \in [HThread -> SUBSET (PageNo \X Index)]
    BY <1>6 DEF World, WorldType
  <2> QED  BY <2>1, <1>3, <1>6, <1>7
<1>12. /\ \A e \in Classes : e # d => fl2[e] = free_list[e]
       /\ fl2 \in [Classes -> Seq(PageNo \X Index)]
  BY <1>5, <1>6, <1>8 DEF World, WorldType
<1>13. /\ heap_panic' = (k > BlocksPerArena[d])
       /\ arena' = [arena EXCEPT ![b[1]].free_cnt = k]
       /\ desc_lock' = [desc_lock EXCEPT ![d] = k >= BlocksPerArena[d]]
       /\ free_list' = [free_list EXCEPT ![d] =
             IF k >= BlocksPerArena[d] THEN ArenaRemoved(<<b>> \o free_list[d], b[1], BlocksPerArena[d])
                                       ELSE <<b>> \o free_list[d]]
       /\ call' = [call EXCEPT ![t] =
             IF k >= BlocksPerArena[d] THEN [call[t] EXCEPT !.at = "clear"] ELSE NoCall]
       /\ UNCHANGED <<pool_lock, used_map, mark, owned>>
  BY <1>1, <1>2, <1>9 DEF PutBlock
<1>14. arena' = ar2
  BY <1>4, <1>9, <1>13
<1>15. heap_panic' = FALSE
  <2>1. k \in Nat /\ BlocksPerArena[d] \in Nat /\ k <= BlocksPerArena[d]
    <3>1. arena[b[1]].free_cnt \in Nat
      BY <1>6, <1>8 DEF World, WorldType, Header
    <3> QED  BY <3>1, <1>7, <1>8, <1>9, HeapAssumption
  <2>2. (k > BlocksPerArena[d]) = FALSE
    BY <2>1
  <2>3. heap_panic' = (k > BlocksPerArena[d])
    BY <1>13
  <2> QED  BY <2>2, <2>3, Zenon
<1>16. desc_lock[d] = FALSE
  <2>1. desc_lock \in [Classes -> BOOLEAN]
    BY InvParts DEF HeapType
  <2> QED  BY <2>1, <1>6, <1>7
<1>17. Put(t, b, d, k, has2, ar2, fl2)
  <2>1. b = call[t].old /\ d = call[t].desc
    BY <1>1, <1>2
  <2>2. free_list' = [free_list EXCEPT ![d] =
           IF k >= BlocksPerArena[d] THEN ArenaRemoved(fl2[d], b[1], BlocksPerArena[d]) ELSE fl2[d]]
    BY <1>8, <1>13
  <2> QED  BY <2>1, <2>2, <1>6, <1>7, <1>8, <1>10, <1>11, <1>12, <1>13, <1>14, <1>15, <1>16, Zenon DEF Put
<1> QED  BY <1>17

(* a block is put into the free list: its arena stays in use *)
LEMMA PutStep ==
    ASSUME HeapInv, NEW t \in HThread, NEW b, NEW d, NEW k, NEW has2, NEW ar2, NEW fl2,
           Put(t, b, d, k, has2, ar2, fl2), ~(k >= BlocksPerArena[d])
    PROVE  HeapInv'
<1>1. /\ d \in Classes /\ b[1] \in PageNo /\ desc_lock[d] = FALSE /\ Claims[t] = {}
      /\ World(Claims, has2, owned, used_map, ar2, fl2, mark)
      /\ arena' = ar2 /\ ar2[b[1]].desc = d /\ \A p \in PageNo : ar2[p].desc = arena[p].desc
      /\ \A u \in HThread : has2[u] = IF u = t THEN owned[t] ELSE Hands[u]
      /\ \A e \in Classes : e # d => fl2[e] = free_list[e]
      /\ heap_panic' = FALSE /\ UNCHANGED <<pool_lock, used_map, mark, owned>>
  BY DEF Put
<1>2. /\ call' = [call EXCEPT ![t] = NoCall] /\ desc_lock' = [desc_lock EXCEPT ![d] = FALSE]
      /\ free_list' = [free_list EXCEPT ![d] = fl2[d]]
  <2>1. (k >= BlocksPerArena[d]) = FALSE
    OBVIOUS
  <2>2. /\ desc_lock' = [desc_lock EXCEPT ![d] = k >= BlocksPerArena[d]]
        /\ free_list' = [free_list EXCEPT ![d] = IF k >= BlocksPerArena[d]
              THEN ArenaRemoved(fl2[d], b[1], BlocksPerArena[d]) ELSE fl2[d]]
        /\ call' = [call EXCEPT ![t] = IF k >= BlocksPerArena[d]
              THEN [call[t] EXCEPT !.at = "clear"] ELSE NoCall]
    BY DEF Put
  <2>3. desc_lock' = [desc_lock EXCEPT ![d] = FALSE]
    BY <2>1, <2>2
  <2>4. free_list' = [free_list EXCEPT ![d] = fl2[d]] /\ call' = [call EXCEPT ![t] = NoCall]
    BY <2>2
  <2> QED  BY <2>3, <2>4
<1>3. ~\A g \in {b[1]} \X (1 .. BlocksPerArena[d]) : Loose(has2, g)
  BY DEF Put
<1>4. /\ call' \in [HThread -> HeapCall]
      /\ \A u \in HThread : call'[u] = IF u = t THEN NoCall ELSE call[u]
      /\ Claims' = Claims
  <2>1. /\ call' \in [HThread -> HeapCall]
        /\ \A u \in HThread : call'[u] = IF u = t THEN NoCall ELSE call[u]
        /\ Claims' = [Claims EXCEPT ![t] = {}]
    BY <1>2, IdleCall, Moved DEF HeapInv
  <2>2. [Claims EXCEPT ![t] = Claims[t]] = Claims
    BY DEF Claims
  <2> QED  BY <2>1, <2>2, <1>1
<1>5. free_list' = fl2
  <2>1. fl2 \in [Classes -> Seq(PageNo \X Index)] /\ free_list \in [Classes -> Seq(PageNo \X Index)]
    BY <1>1, InvParts DEF World, WorldType
  <2> QED  BY <2>1, <1>1, <1>2
<1>6. Hands' = has2
  <2>1. has2 \in [HThread -> SUBSET (PageNo \X Index)]
    BY <1>1 DEF World, WorldType
  <2>2. Hands' = [u \in HThread |-> HandOf(call'[u], owned[u])]
    BY <1>1 DEF Hands
  <2>3. \A u \in HThread : HandOf(call'[u], owned[u]) = has2[u]
    BY <1>1, <1>4, IdleCall, InvParts
  <2> QED  BY <2>1, <2>2, <2>3
<1>7. World(Claims, Hands, owned, used_map, arena, free_list, mark)'
  BY <1>1, <1>4, <1>5, <1>6
<1>8. ASSUME NEW u \in HThread, u # t, call[u].at \in Holding PROVE call[u].desc # d
  <2>1. d # Big
    BY <1>1, HeapAssumption DEF Big
  <2>2. call[u].desc # Big => desc_lock[call[u].desc] = TRUE
    <3>1. LocksOK
      BY InvParts
    <3> QED  BY <3>1, <1>8 DEF LocksOK
  <2>3. desc_lock[d] = FALSE
    BY <1>1
  <2> QED  BY <2>1, <2>2, <2>3
<1>9. ASSUME NEW u \in HThread PROVE CallOK(call[u], owned[u], used_map, arena, free_list)'
  <2>1. CASE u = t
    BY <2>1, <1>4, IdleCall
  <2>2. CASE u # t
    <3>1. CallOK(call[u], owned[u], used_map, ar2, fl2)
      BY <2>2, <1>1, <1>8, Others
    <3> QED  BY <3>1, <2>2, <1>1, <1>4, <1>5
  <2> QED  BY <2>1, <2>2
<1>10. LocksOK' /\ HeapType'
  <2>0. \A u \in HThread : call[u] \in HeapCall /\ call[u].desc \in {Big} \cup Classes
    BY InvParts DEF HeapCall
  <2>1. \A u \in HThread : u # t /\ call[u].at \in Holding /\ call[u].desc # Big =>
           desc_lock'[call[u].desc] = desc_lock[call[u].desc]
    BY <2>0, <1>2, <1>8 DEF HeapInv, HeapType
  <2>2. NoCall.at \notin Holding /\ NoCall.at \notin {"scan", "flip"}
    BY IdleCall DEF Holding
  <2>3. LocksOK'
    BY <2>1, <2>2, <1>1, <1>4 DEF HeapInv, LocksOK
  <2>4. HeapType'
    BY <1>1, <1>2, <1>4 DEF HeapInv, HeapType
  <2> QED  BY <2>3, <2>4
<1>11. ASSUME NEW p \in PageNo PROVE BusyOK(Claims', Hands', arena', p)
  <2>1. CASE p = b[1]
    <3>1. PICK g \in {b[1]} \X (1 .. BlocksPerArena[d]) : ~Loose(has2, g)
      BY <1>3
    <3>2. g[1] = p
      BY <3>1, <2>1
    <3> QED  BY <3>1, <3>2, <1>6 DEF BusyOK, Loose
  <2>2. CASE p # b[1]
    <3>1. BusyOK(Claims, Hands, arena, p)
      BY InvParts
    <3>2. Hands[t] \subseteq owned[t] \cup {b} /\ arena'[p].desc = arena[p].desc
      BY <1>1, InvParts DEF HandOf, Put
    <3>3. \A u \in HThread : \A g \in Hands[u] : g[1] = p => g \in has2[u]
      BY <3>2, <2>2, <1>1
    <3> QED  BY <3>1, <3>2, <3>3, <1>4, <1>6 DEF BusyOK
  <2> QED  BY <2>1, <2>2
<1> QED  BY <1>7, <1>9, <1>10, <1>11 DEF HeapInv

(* ... or is all unused: its blocks leave the list and its page is freed *)
LEMMA PutDropStep ==
    ASSUME HeapInv, NEW t \in HThread, NEW b, NEW d, NEW k, NEW has2, NEW ar2, NEW fl2,
           Put(t, b, d, k, has2, ar2, fl2), k >= BlocksPerArena[d], call[t].at = "put"
    PROVE  HeapInv'
<1>0. PICK c, p : c = call[t] /\ c \in HeapCall /\ p = b[1]
  BY InvParts
<1>1. /\ d \in Classes /\ p \in PageNo /\ desc_lock[d] = FALSE /\ Claims[t] = {}
      /\ b = c.old /\ d = c.desc /\ ~Claimed(Claims, p)
      /\ World(Claims, has2, owned, used_map, ar2, fl2, mark)
      /\ arena' = ar2 /\ ar2[p].desc = d /\ \A q \in PageNo : ar2[q].desc = arena[q].desc
      /\ \A u \in HThread : has2[u] = IF u = t THEN owned[t] ELSE Hands[u]
      /\ \A e \in Classes : e # d => fl2[e] = free_list[e]
      /\ heap_panic' = FALSE /\ UNCHANGED <<pool_lock, used_map, mark, owned>>
  BY <1>0 DEF Put
<1>2. PICK c2, l2 : /\ c2 = [c EXCEPT !.at = "clear"]
                    /\ l2 = ArenaRemoved(fl2[d], p, BlocksPerArena[d])
  OBVIOUS
<1>3. /\ call' = [call EXCEPT ![t] = c2] /\ desc_lock' = [desc_lock EXCEPT ![d] = TRUE]
      /\ free_list' = [free_list EXCEPT ![d] = l2]
  <2>1. call' = [call EXCEPT ![t] = c2]
    BY <1>0, <1>2 DEF Put
  <2>2. desc_lock' = [desc_lock EXCEPT ![d] = TRUE]
    BY DEF Put
  <2>3. free_list' = [free_list EXCEPT ![d] = l2]
    BY <1>0, <1>2 DEF Put
  <2> QED  BY <2>1, <2>2, <2>3
<1>4. \A g \in {p} \X (1 .. BlocksPerArena[d]) : Loose(has2, g)
  BY <1>0 DEF Put
<1>5. /\ c2 \in HeapCall /\ c2.at = "clear" /\ c2.desc = d /\ c2.scan = p /\ c2.cnt = 1 /\ c2.old = b
  <2>1. CallOK(c, owned[t], used_map, arena, free_list) /\ c.at = "put"
    BY <1>0, InvParts
  <2>2. c.scan = p /\ c.cnt = 1
    BY <2>1, <1>0, <1>1, HeapAssumption DEF CallOK, Big
  <2>3. c2 = [at |-> "clear", desc |-> c.desc, cnt |-> c.cnt, scan |-> c.scan, old |-> c.old]
    BY <1>0, <1>2 DEF HeapCall
  <2>4. "clear" \in Places
    BY DEF Places, Holding
  <2> QED  BY <2>2, <2>3, <2>4, <1>0, <1>1 DEF HeapCall
<1>6. ClaimOf(c2) = {p} /\ \A o : HandOf(c2, o) = o
  <2>1. p \in Int
    BY <1>1 DEF PageNo
  <2> QED  BY <2>1, <1>5 DEF ClaimOf, HandOf
<1>7. /\ call' \in [HThread -> HeapCall]
      /\ \A u \in HThread : call'[u] = IF u = t THEN c2 ELSE call[u]
      /\ Claims' = [Claims EXCEPT ![t] = {p}]
  <2>1. HeapType
    BY InvParts
  <2> QED  BY <2>1, <1>3, <1>5, <1>6, Moved
<1>8. Hands' = has2
  <2>1. has2 \in [HThread -> SUBSET (PageNo \X Index)]
    BY <1>1 DEF World, WorldType
  <2>2. Hands' = [u \in HThread |-> HandOf(call'[u], owned[u])]
    BY <1>1 DEF Hands
  <2>3. \A u \in HThread : HandOf(call'[u], owned[u]) = has2[u]
    BY <1>1, <1>6, <1>7, InvParts
  <2> QED  BY <2>1, <2>2, <2>3
<1>9. /\ l2 \in Seq(PageNo \X Index) /\ NoRepeats(l2)
      /\ \A g \in PageNo \X Index : Lists(l2, g) <=> Lists(fl2[d], g) /\ g[1] # p
  <2> DEFINE S == PageNo \X Index
             n == BlocksPerArena[d]
  <2>1. /\ fl2[d] \in Seq(S) /\ NoRepeats(fl2[d]) /\ n \in Nat
        /\ \A g \in S : Lists(fl2[d], g) <=> Free(Claims, has2, ar2, d, g)
    BY <1>1, HeapAssumption DEF World, WorldType, ListOK
  <2>2. ASSUME NEW i \in 1 .. n PROVE Lists(fl2[d], Block(p, i))
    <3>1. i \in Index
      BY <1>1 DEF Index
    <3>2. Block(p, i) \in S /\ Block(p, i)[1] = p /\ Block(p, i)[2] = i
      BY <3>1, <1>1 DEF Block
    <3>3. Loose(has2, Block(p, i))
      BY <1>4 DEF Block
    <3>4. Free(Claims, has2, ar2, d, Block(p, i))
      BY <3>2, <3>3, <1>1 DEF Free
    <3> QED  BY <3>2, <3>4, <2>1
  <2>3. /\ l2 \in Seq(S) /\ NoRepeats(l2)
        /\ \A g : Lists(l2, g) <=> Lists(fl2[d], g) /\ \A i \in 1 .. n : g # Block(p, i)
    <3> HIDE DEF S, n
    <3> QED  BY <2>1, <2>2, <1>2, ArenaRemovedLists DEF n
  <2>4. ASSUME NEW g \in S, Lists(fl2[d], g) PROVE g[1] # p <=> \A i \in 1 .. n : g # Block(p, i)
    <3>1. Free(Claims, has2, ar2, d, g)
      BY <2>1, <2>4
    <3>2. g[2] \in 1 .. n /\ g = <<g[1], g[2]>>
      BY <3>1 DEF Free
    <3> QED  BY <3>2 DEF Block
  <2> QED  BY <2>3, <2>4
<1>10. World(Claims, Hands, owned, used_map, arena, free_list, mark)'
  <2>1. free_list' = [fl2 EXCEPT ![d] = l2]
    <3>1. fl2 \in [Classes -> Seq(PageNo \X Index)] /\ free_list \in [Classes -> Seq(PageNo \X Index)]
      BY <1>1, InvParts DEF World, WorldType
    <3> QED  BY <3>1, <1>1, <1>3
  <2>2. PICK cl2, fl3 : cl2 = Claims' /\ fl3 = free_list'
    OBVIOUS
  <2>3. Dropped(t, d, p, l2, Claims, fl2, cl2, fl3)
    BY <2>1, <2>2, <1>7 DEF Dropped
  <2>4. World(cl2, has2, owned, used_map, ar2, fl3, mark)
    BY <2>3, <1>1, <1>4, <1>9, DropWorld
  <2> QED  BY <2>2, <2>4, <1>1, <1>8
<1>11. ASSUME NEW u \in HThread, u # t, call[u].at \in Holding PROVE call[u].desc # d
  <2>1. d # Big
    BY <1>1, HeapAssumption DEF Big
  <2>2. LocksOK
    BY InvParts
  <2> QED  BY <2>1, <2>2, <1>1, <1>11 DEF LocksOK
<1>12. ASSUME NEW u \in HThread PROVE CallOK(call[u], owned[u], used_map, arena, free_list)'
  <2>1. CASE u = t
    <3>1. \A q \in c2.scan .. c2.scan + c2.cnt - 1 : q \in PageNo /\ ar2[q].desc = c2.desc
      BY <1>1, <1>5, <1>6 DEF ClaimOf
    <3>2. CallOK(c2, owned[t], used_map, ar2, free_list')
      BY <3>1, <1>5 DEF CallOK
    <3> QED  BY <3>2, <2>1, <1>1, <1>7
  <2>2. CASE u # t
    <3>1. \A e \in Classes : call[u].at \in Holding /\ call[u].desc = e => free_list'[e] = free_list[e]
      <4>1. free_list \in [Classes -> Seq(PageNo \X Index)]
        BY InvParts DEF World, WorldType
      <4> QED  BY <4>1, <2>2, <1>3, <1>11
    <3>2. CallOK(call[u], owned[u], used_map, ar2, free_list')
      BY <2>2, <3>1, <1>1, Others
    <3> QED  BY <3>2, <2>2, <1>1, <1>7
  <2> QED  BY <2>1, <2>2
<1>13. LocksOK' /\ HeapType'
  <2>0. \A u \in HThread : call[u] \in HeapCall /\ call[u].desc \in {Big} \cup Classes
    BY InvParts DEF HeapCall
  <2>1. /\ desc_lock' \in [Classes -> BOOLEAN] /\ desc_lock'[d] = TRUE
        /\ \A e \in Classes : e # d => desc_lock'[e] = desc_lock[e]
    BY <1>1, <1>3 DEF HeapInv, HeapType
  <2>2. c2.at \notin {"scan", "flip"} /\ c2.desc = d
    BY <1>5
  <2>3. LocksOK'
    BY <2>0, <2>1, <2>2, <1>1, <1>7, <1>11 DEF HeapInv, LocksOK
  <2>4. HeapType'
    BY <2>1, <1>1, <1>7 DEF HeapInv, HeapType
  <2> QED  BY <2>3, <2>4
<1>14. ASSUME NEW q \in PageNo PROVE BusyOK(Claims', Hands', arena', q)
  <2>1. CASE q = p
    BY <2>1, <1>1, <1>7 DEF BusyOK, Claimed, Claims
  <2>2. CASE q # p
    <3>1. BusyOK(Claims, Hands, arena, q)
      BY InvParts
    <3>2. Hands[t] \subseteq owned[t] \cup {b} /\ arena'[q].desc = arena[q].desc
      BY <1>0, <1>1, InvParts DEF HandOf
    <3>3. \A u \in HThread : \A g \in Hands[u] : g[1] = q => g \in has2[u]
      BY <3>2, <2>2, <1>0, <1>1
    <3>4. Claimed(Claims, q) => Claimed(Claims', q)
      BY <1>1, <1>7 DEF Claimed, World, WorldType
    <3> QED  BY <3>1, <3>2, <3>3, <3>4, <1>8 DEF BusyOK
  <2> QED  BY <2>1, <2>2
<1> QED  BY <1>10, <1>12, <1>13, <1>14 DEF HeapInv

(* The invariant holds initially. *)
LEMMA HeapStart ==
    ASSUME HeapInit
    PROVE  HeapInv
<1>1. /\ Claims = [t \in HThread |-> {}] /\ Hands = [t \in HThread |-> {}]
      /\ owned = [t \in HThread |-> {}]
  BY IdleCall DEF HeapInit, Claims, Hands
<1>2. NoArena \in Header /\ NoArena.desc = -1 /\ -1 \notin Classes
  BY HeapAssumption DEF NoArena, Header
<1>3. WorldType(Claims, Hands, owned, used_map, arena, free_list, mark)
  BY <1>1, <1>2 DEF HeapInit, WorldType
<1>4. /\ ClaimsOK(Claims, used_map) /\ HandsOK(Claims, Hands, owned, used_map, arena)
      /\ MarksOK(owned, arena, mark)
  BY <1>1 DEF ClaimsOK, HandsOK, MarksOK
<1>5. \A p \in PageNo : arena[p].desc = -1
  BY <1>2 DEF HeapInit
<1>6. UsedOK(Claims, Hands, used_map, arena)
  BY <1>5 DEF HeapInit, UsedOK
<1>7. ASSUME NEW d \in Classes PROVE ListOK(Claims, Hands, arena, free_list[d], d)
  <2>1. free_list[d] = <<>> /\ Len(<<>>) = 0
    BY DEF HeapInit
  <2>2. \A b \in PageNo \X Index : ~Free(Claims, Hands, arena, d, b)
    BY <1>2, <1>5 DEF Free
  <2> QED  BY <2>1, <2>2 DEF ListOK, NoRepeats, Lists
<1>8. \A p \in PageNo : CountOK(Claims, Hands, arena, p) /\ BusyOK(Claims, Hands, arena, p)
  BY <1>2, <1>5 DEF CountOK, BusyOK
<1>9. World(Claims, Hands, owned, used_map, arena, free_list, mark)
  BY <1>3, <1>4, <1>6, <1>7, <1>8 DEF World
<1>10. HeapType
  BY IdleCall DEF HeapInit, HeapType
<1>11. \A t \in HThread : call[t] = NoCall /\ call[t].at = "idle"
  BY IdleCall DEF HeapInit
<1>12. LocksOK
  BY <1>11 DEF LocksOK, Holding
<1> QED  BY <1>8, <1>9, <1>10, <1>11, <1>12, IdleCall DEF HeapInv

(* every step of the allocator keeps the invariant *)
LEMMA HeapKept ==
    ASSUME HeapInv, [HeapNext]_heapVars
    PROVE  HeapInv'
<1>1. CASE UNCHANGED heapVars
  BY <1>1 DEF heapVars, HeapInv, HeapType, LocksOK, Claims, Hands
<1>2. CASE HeapNext
  <2>1. PICK t \in HThread :
           \/ HeapStep(t)
           \/ \E d \in Classes, old \in {<<>>} \cup owned[t] : malloc(t, d, 1, old)
           \/ \E cnt \in 1 .. 2, old \in {<<>>} \cup owned[t] : malloc(t, Big, cnt, old)
           \/ \E b \in owned[t] : free(t, b)
    BY <1>2 DEF HeapNext
  <2>2. CASE palloc_get_multiple(t) \/ bitmap_scan(t) \/ bitmap_flip(t)
    BY <2>2, PallocStep, ScanStep, FlipStep
  <2>3. CASE palloc_free_multiple(t)
    <3>1. call[t].at = "clear" \/ call[t].at = "reset"
      BY <2>3 DEF palloc_free_multiple
    <3> QED  BY <2>3, <3>1, ClearStep, ResetStep
  <2>4. CASE TakeBlock(t)
    BY <2>4, TakeStep, EmptyStep
  <2>5. CASE NewArena(t)
    BY <2>5, ArenaStep, PagesStep
  <2>6. CASE OutOfMemory(t)
    BY <2>6, NoMemStep
  <2>7. CASE FreeBlock(t)
    BY <2>7, PoisonStep, FreePagesStep
  <2>8. CASE PutBlock(t)
    <3>1. PICK b, d, k, has2, ar2, fl2 : Put(t, b, d, k, has2, ar2, fl2)
      BY <2>8, PutStart
    <3>2. call[t].at = "put"
      BY <2>8 DEF PutBlock
    <3> QED  BY <3>1, <3>2, PutStep, PutDropStep
  <2>9. CASE \E d \in Classes, old \in {<<>>} \cup owned[t] : malloc(t, d, 1, old)
    <3>1. PICK d \in Classes, old \in {<<>>} \cup owned[t] : malloc(t, d, 1, old)
      BY <2>9
    <3>2. d \in {Big} \cup Classes /\ 1 \in Nat \ {0}
      BY <3>1
    <3>3. malloc(t, d, 1, old)
      BY <3>1
    <3> QED  BY <3>2, <3>3, MallocStep
  <2>10. CASE \E cnt \in 1 .. 2, old \in {<<>>} \cup owned[t] : malloc(t, Big, cnt, old)
    <3>1. PICK cnt \in 1 .. 2, old \in {<<>>} \cup owned[t] : malloc(t, Big, cnt, old)
      BY <2>10
    <3>2. cnt \in Nat \ {0}
      OBVIOUS
    <3>3. Big \in {Big} \cup Classes
      OBVIOUS
    <3> QED  BY <3>1, <3>2, <3>3, MallocStep
  <2>11. CASE \E b \in owned[t] : free(t, b)
    BY <2>11, FreeStep
  <2> QED  BY <2>1, <2>2, <2>3, <2>4, <2>5, <2>6, <2>7, <2>8, <2>9, <2>10, <2>11 DEF HeapStep
<1> QED  BY <1>1, <1>2

(* a list that has no element twice is as long as the set of its elements *)
LEMMA OnceLength ==
    ASSUME NEW S, NEW l \in Seq(S), NoRepeats(l)
    PROVE  Len(l) = Cardinality({l[i] : i \in DOMAIN l})
<1> DEFINE T == {l[i] : i \in DOMAIN l}
<1>1. Len(l) \in Nat /\ DOMAIN l = 1 .. Len(l)
  OBVIOUS
<1>2. l \in [1 .. Len(l) -> T] /\ \A g \in T : \E i \in 1 .. Len(l) : l[i] = g
  BY <1>1
<1>3. \A i, j \in 1 .. Len(l) : l[i] = l[j] => i = j
  BY DEF NoRepeats
<1> HIDE DEF T
<1>4. l \in Bijection(1 .. Len(l), T)
  BY <1>2, <1>3 DEF Bijection, Injection, Surjection, IsInjective
<1>5. ExistsBijection(1 .. Len(l), T)
  BY <1>4 DEF ExistsBijection
<1> QED  BY <1>1, <1>5, FS_CountingElements DEF T

(* what threads have is apart and marked, on used pages *)
LEMMA HoldersApart ==
    ASSUME HeapInv, NEW h \in Holders
    PROVE  /\ PagesOf(h[2]) \subseteq used_map
           /\ \A p \in PagesOf(h[2]) : mark[p][h[2][2]] = h[1]
           /\ \A g \in Holders \ {h} : PagesOf(h[2]) \cap PagesOf(g[2]) # {} =>
                 h[2][2] # g[2][2] /\ h[2][2] # 0 /\ g[2][2] # 0
<1>1. World(Claims, Hands, owned, used_map, arena, free_list, mark)
  BY InvParts
<1>2. \A b : PagesOf(b) = Region(arena, b)
  BY DEF PagesOf, Region
<1>3. PICK t, b : t \in HThread /\ b \in owned[t] /\ h = <<t, b>> /\ b \in Hands[t]
  BY <1>1 DEF Holders, World, HandsOK
<1>4. PagesOf(b) \subseteq used_map /\ \A p \in PagesOf(b) : mark[p][b[2]] = t
  BY <1>1, <1>2, <1>3 DEF World, HandsOK, BlockOK, MarksOK
<1>5. ASSUME NEW g \in Holders \ {h}, PagesOf(b) \cap PagesOf(g[2]) # {}
      PROVE  b[2] # g[2][2] /\ b[2] # 0 /\ g[2][2] # 0
  <2>1. PICK u, e : u \in HThread /\ e \in owned[u] /\ g = <<u, e>> /\ e \in Hands[u]
    BY <1>1 DEF Holders, World, HandsOK
  <2>2. b # e
    <3>1. b = e => t = u
      BY <1>1, <1>3, <2>1 DEF World, HandsOK
    <3> QED  BY <3>1, <1>3, <2>1
  <2>3. PICK q : q \in Region(arena, b) /\ q \in Region(arena, e)
    BY <1>2, <1>5, <2>1
  <2>4. b[2] # 0 /\ e[2] # 0 /\ b[2] # e[2]
    BY <2>1, <2>2, <2>3, <1>1, <1>3, HandsApart
  <2> QED  BY <2>1, <2>4
<1> QED  BY <1>3, <1>4, <1>5

(* a descriptor whose lock is free has its unused blocks in its list *)
LEMMA ListExact ==
    ASSUME HeapInv, NEW d \in Classes, ~desc_lock[d]
    PROVE  /\ {free_list[d][i] : i \in DOMAIN free_list[d]} = Unused(d)
           /\ Len(free_list[d]) = Cardinality(Unused(d))
           /\ \A p \in PageNo : arena[p].desc = d =>
                 arena[p].free_cnt = Cardinality({b \in Unused(d) : b[1] = p})
<1> DEFINE S == PageNo \X Index
           l == free_list[d]
<1>1. /\ World(Claims, Hands, owned, used_map, arena, free_list, mark)
      /\ l \in Seq(S) /\ ListOK(Claims, Hands, arena, l, d)
  BY InvParts DEF World, WorldType
<1>2. ASSUME NEW p \in PageNo, arena[p].desc = d PROVE ~Claimed(Claims, p)
  <2>1. SUFFICES ASSUME NEW u \in HThread, p \in Claims[u] PROVE FALSE
    BY DEF Claimed
  <2>2. PICK c : c = call[u]
    OBVIOUS
  <2>3. /\ CallOK(c, owned[u], used_map, arena, free_list) /\ p \in ClaimOf(c)
    BY <2>1, <2>2, InvParts
  <2>4. d # -1 /\ d # Big
    BY HeapAssumption DEF Big
  <2>5. c.at = "clear" /\ c.desc = d
    BY <2>3, <2>4, <1>2 DEF CallOK, ClaimOf
  <2> QED  BY <2>2, <2>4, <2>5, InvParts DEF LocksOK, Holding
<1>3. \A b : (\A t \in HThread : b \notin owned[t] /\ ~(call[t].at = "put" /\ call[t].old = b))
                <=> Loose(Hands, b)
  BY InvParts DEF Loose, HandOf
<1>4. \A b : b \in Unused(d) <=> /\ b \in PageNo \X (1 .. BlocksPerArena[d])
                                 /\ arena[b[1]].desc = d /\ Loose(Hands, b)
  BY <1>3 DEF Unused
<1>5. PageNo \X (1 .. BlocksPerArena[d]) \subseteq S
  BY DEF Index
<1>6. \A b : b \in Unused(d) <=> b \in S /\ Free(Claims, Hands, arena, d, b)
  <2>1. ASSUME NEW b, b \in Unused(d) PROVE b \in S /\ Free(Claims, Hands, arena, d, b)
    <3>1. b \in PageNo \X (1 .. BlocksPerArena[d]) /\ arena[b[1]].desc = d /\ Loose(Hands, b)
      BY <2>1, <1>4
    <3>2. b[1] \in PageNo /\ b[2] \in 1 .. BlocksPerArena[d]
      BY <3>1
    <3> QED  BY <3>1, <3>2, <1>2, <1>5 DEF Free
  <2>2. ASSUME NEW b, b \in S, Free(Claims, Hands, arena, d, b) PROVE b \in Unused(d)
    <3>1. b \in PageNo \X (1 .. BlocksPerArena[d])
      BY <2>2 DEF Free
    <3> QED  BY <3>1, <2>2, <1>4 DEF Free
  <2> QED  BY <2>1, <2>2
<1>7. {l[i] : i \in DOMAIN l} = Unused(d)
  <2>1. DOMAIN l = 1 .. Len(l) /\ \A i \in 1 .. Len(l) : l[i] \in S
    BY <1>1
  <2>2. \A b : b \in {l[i] : i \in DOMAIN l} <=> Lists(l, b)
    BY <2>1 DEF Lists
  <2>3. \A b : Lists(l, b) => b \in S
    BY <2>1 DEF Lists
  <2>4. \A b \in S : Lists(l, b) <=> Free(Claims, Hands, arena, d, b)
    BY <1>1 DEF ListOK
  <2> HIDE DEF l, S
  <2> QED  BY <2>2, <2>3, <2>4, <1>6
<1>8. Len(l) = Cardinality(Unused(d))
  <2>1. NoRepeats(l)
    BY <1>1 DEF ListOK
  <2>2. Len(l) = Cardinality({l[i] : i \in DOMAIN l})
    <3> HIDE DEF S, l
    <3> QED  BY <2>1, <1>1, OnceLength
  <2> QED  BY <2>2, <1>7
<1>9. ASSUME NEW p \in PageNo, arena[p].desc = d
      PROVE  arena[p].free_cnt = Cardinality({b \in Unused(d) : b[1] = p})
  <2>1. {b \in Unused(d) : b[1] = p} = FreeIn(Hands, d, p)
    BY <1>4, <1>9 DEF FreeIn
  <2>2. CountOK(Claims, Hands, arena, p)
    BY <1>1 DEF World
  <2> QED  BY <2>1, <2>2, <1>2, <1>9 DEF CountOK
<1> QED  BY <1>7, <1>8, <1>9

(* between calls a page is used if and only if somebody has a block in it *)
LEMMA PagesExact ==
    ASSUME HeapInv, \A t \in HThread : call[t].at = "idle"
    PROVE  used_map = UNION {PagesOf(h[2]) : h \in Holders}
<1>1. World(Claims, Hands, owned, used_map, arena, free_list, mark)
  BY InvParts
<1>2. \A t \in HThread : Claims[t] = {} /\ Hands[t] = owned[t] /\ owned[t] \subseteq PageNo \X Index
  BY <1>1, InvParts DEF ClaimOf, HandOf, World, WorldType
<1>3. \A b : PagesOf(b) = Region(arena, b)
  BY DEF PagesOf, Region
<1>4. ASSUME NEW p \in used_map PROVE \E h \in Holders : p \in PagesOf(h[2])
  <2>1. ~Claimed(Claims, p) /\ p \in PageNo
    BY <1>1, <1>2 DEF Claimed, World, WorldType
  <2>2. arena[p].desc \in Classes \/ InBig(Hands, arena, p)
    BY <2>1, <1>1 DEF World, UsedOK
  <2>3. \E t \in HThread : \E b \in Hands[t] : p \in Region(arena, b)
    <3>1. CASE arena[p].desc \in Classes
      <4>1. PICK t \in HThread : \E b \in Hands[t] : b[1] = p
        BY <2>1, <3>1, InvParts DEF BusyOK
      <4>2. PICK b \in Hands[t] : b[1] = p
        BY <4>1
      <4>3. b[1] \in Region(arena, b)
        BY <1>1, HandPages
      <4> QED  BY <4>2, <4>3
    <3>2. CASE InBig(Hands, arena, p)
      BY <3>2 DEF InBig
    <3> QED  BY <3>1, <3>2, <2>2
  <2>4. PICK t \in HThread : \E b \in Hands[t] : p \in Region(arena, b)
    BY <2>3
  <2>5. PICK b \in Hands[t] : p \in Region(arena, b)
    BY <2>4
  <2>6. <<t, b>> \in Holders /\ <<t, b>>[2] = b
    BY <2>5, <1>2 DEF Holders
  <2> QED  BY <2>5, <2>6, <1>3
<1>5. \A h \in Holders : PagesOf(h[2]) \subseteq used_map
  BY HoldersApart
<1> QED  BY <1>4, <1>5

(* The invariant implies the property. *)
LEMMA HeapSoundHere ==
    ASSUME HeapInv
    PROVE  HeapSound
<1>1. heap_panic = FALSE
  BY InvParts DEF HeapType
<1>2. ASSUME NEW d \in Classes, ~desc_lock[d]
      PROVE  /\ {free_list[d][i] : i \in DOMAIN free_list[d]} = Unused(d)
             /\ Len(free_list[d]) = Cardinality(Unused(d))
             /\ \A p \in PageNo : arena[p].desc = d =>
                   arena[p].free_cnt = Cardinality({b \in Unused(d) : b[1] = p})
  BY <1>2, ListExact
<1> QED  BY <1>1, <1>2, HoldersApart, PagesExact DEF HeapSound

(***************************************************************************)
(* Blocks that threads have are apart and safe on used pages, no assertion *)
(* of malloc.c, palloc.c and bitmap.c fails, and no memory is lost or      *)
(* counted twice, for any number of threads, descriptors, blocks of an     *)
(* arena and pages, as pages are freed without the pool's lock.            *)
(***************************************************************************)
THEOREM HeapCorrect == HeapSpec => []HeapSound
<1>1. HeapInit => HeapInv
  BY HeapStart
<1>2. HeapInv /\ [HeapNext]_heapVars => HeapInv'
  BY HeapKept
<1>3. HeapInv => HeapSound
  BY HeapSoundHere
<1> QED  BY <1>1, <1>2, <1>3, PTL DEF HeapSpec
=============================================================================
