-------------------------------- MODULE Heap ---------------------------------
(***************************************************************************)
(* Memory allocation in the Pintos kernel (Lab 3, the same in Labs 1 and   *)
(* 2): malloc(), realloc() and free() of malloc.c over the page allocator  *)
(* palloc.c, whose pool is a bitmap of bitmap.c.                           *)
(*                                                                         *)
(* Threads allocate and free blocks at the same time.  A descriptor's      *)
(* state is protected by its lock; the bits of used_map are set under the  *)
(* pool's lock but reset without it, and a scan of them takes many steps.  *)
(* Resetting the bits of one call is one step.                             *)
(* What threads write into their memory is a mark that says whose it is.   *)
(***************************************************************************)
EXTENDS Integers, Sequences, FiniteSets

CONSTANTS
    HThread,           \* the threads
    Classes,           \* the descriptors, smallest blocks first: 1 .. n
    BlocksPerArena,    \* the blocks of an arena of each descriptor
    PoolPages,         \* the pages of the kernel pool
    MaxBlocks,         \* bound: blocks a thread has at a time
    MaxHeapCalls       \* bound: calls of malloc(), realloc() and free()

ASSUME HeapAssumption ==
    /\ PoolPages \in Nat /\ MaxBlocks \in Nat /\ MaxHeapCalls \in Nat
    /\ Classes \subseteq Nat \ {0} /\ BlocksPerArena \in [Classes -> Nat \ {0}]

PageNo == 0 .. PoolPages - 1
Big == 0                       \* the arena of a big block has no descriptor

(* a block: the index of its page, and its index in the arena (0: big) *)
Block(p, i) == <<p, i>>
Index == {0} \cup UNION {1 .. BlocksPerArena[d] : d \in Classes}

VARIABLES
    used_map,          \* the pages whose bit is set
    pool_lock,         \* TRUE while a thread holds the pool's lock
    desc_lock,         \* the same of each descriptor
    free_list,         \* the free blocks of each descriptor
    arena,             \* the header of each page: its descriptor and free_cnt
                       \* (for a big block, its pages)
    mark,              \* what the bytes of a block or a page of a big block say:
                       \* the thread that wrote them, or "poison"
    owned,             \* the blocks each thread has
    call,              \* each thread's call and where it is in it
    heap_calls,        \* how many calls there were
    heap_panic         \* an assertion has failed

heapVars == <<used_map, pool_lock, desc_lock, free_list, arena, mark, owned, call,
              heap_calls, heap_panic>>

NoArena == [desc |-> -1, free_cnt |-> 0]
NoCall == [at |-> "idle", desc |-> 0, cnt |-> 1, scan |-> 0, old |-> <<>>]

HeapInit ==
    /\ used_map = {} /\ pool_lock = FALSE
    /\ desc_lock = [d \in Classes |-> FALSE]
    /\ free_list = [d \in Classes |-> <<>>]
    /\ arena = [p \in PageNo |-> NoArena]
    /\ mark = [p \in PageNo |-> [i \in Index |-> "poison"]]
    /\ owned = [t \in HThread |-> {}]
    /\ call = [t \in HThread |-> NoCall]
    /\ heap_calls = 0 /\ heap_panic = FALSE

-----------------------------------------------------------------------------
(***************************************************************************)
(* bitmap.c                                                                *)
(***************************************************************************)

(* bitmap_contains(): is some bit of cnt from start on set to value? *)
bitmap_contains(map, start, cnt, value) ==
    \E i \in start .. start + cnt - 1 : (i \in map) = value

(* bitmap_set_multiple() *)
bitmap_set_multiple(map, start, cnt, value) ==
    IF value THEN map \cup (start .. start + cnt - 1)
             ELSE map \ (start .. start + cnt - 1)

-----------------------------------------------------------------------------
(***************************************************************************)
(* palloc.c                                                                *)
(***************************************************************************)

(* palloc_get_multiple(): the pool's lock, and the scan from page 0 *)
palloc_get_multiple(t) ==
    /\ call[t].at = "palloc" /\ ~pool_lock
    /\ pool_lock' = TRUE
    /\ call' = [call EXCEPT ![t].at = "scan", ![t].scan = 0]
    /\ UNCHANGED <<used_map, desc_lock, free_list, arena, mark, owned, heap_calls, heap_panic>>

(* bitmap_scan(): one group of pages; the search goes on, fails or finds *)
bitmap_scan(t) ==
    /\ call[t].at = "scan"
    /\ LET c == call[t]
           fits == c.scan + c.cnt <= PoolPages
           found == fits /\ ~bitmap_contains(used_map, c.scan, c.cnt, TRUE)
       IN /\ call' = IF found THEN [call EXCEPT ![t].at = "flip"]
                     ELSE IF fits THEN [call EXCEPT ![t].scan = @ + 1]
                     ELSE [call EXCEPT ![t].at = "nomem"]
          /\ pool_lock' = fits
    /\ UNCHANGED <<used_map, desc_lock, free_list, arena, mark, owned, heap_calls, heap_panic>>

(* bitmap_scan_and_flip() with pages found, and lock_release() *)
bitmap_flip(t) ==
    /\ call[t].at = "flip"
    /\ used_map' = bitmap_set_multiple(used_map, call[t].scan, call[t].cnt, TRUE)
    /\ pool_lock' = FALSE
    /\ call' = [call EXCEPT ![t].at = "arena"]
    /\ UNCHANGED <<desc_lock, free_list, arena, mark, owned, heap_calls, heap_panic>>

(* palloc_free_multiple() up to the bitmap: the pages are cleared *)
Clear(p, cnt) == [q \in PageNo |-> IF q \in p .. p + cnt - 1
                                   THEN [i \in Index |-> "poison"] ELSE mark[q]]

(* the headers of cleared pages *)
Headers(p, cnt) == [q \in PageNo |-> IF q \in p .. p + cnt - 1 THEN NoArena ELSE arena[q]]

(* free() returns, after a normal block with the descriptor's lock *)
FreeReturn(t) ==
    /\ desc_lock' = IF call[t].desc = Big THEN desc_lock
                    ELSE [desc_lock EXCEPT ![call[t].desc] = FALSE]
    /\ call' = [call EXCEPT ![t] = NoCall]

(* variant: the bits are reset before the pages are cleared *)
ResetThenClear(t) ==
    /\ \/ /\ call[t].at = "clear"
          /\ used_map' = bitmap_set_multiple(used_map, call[t].scan, call[t].cnt, FALSE)
          /\ call' = [call EXCEPT ![t].at = "reset"]
          /\ UNCHANGED <<mark, arena, desc_lock>>
       \/ /\ call[t].at = "reset"
          /\ mark' = Clear(call[t].scan, call[t].cnt)
          /\ arena' = Headers(call[t].scan, call[t].cnt)
          /\ FreeReturn(t)
          /\ UNCHANGED used_map
    /\ UNCHANGED <<pool_lock, free_list, owned, heap_calls, heap_panic>>

(* palloc_free_multiple(), without the pool's lock: the pages are cleared, *)
(* then their bits are asserted to be set and reset                        *)
palloc_free_multiple(t) ==
    /\ \/ /\ call[t].at = "clear"
          /\ mark' = Clear(call[t].scan, call[t].cnt)
          /\ arena' = Headers(call[t].scan, call[t].cnt)
          /\ call' = [call EXCEPT ![t].at = "reset"]
          /\ UNCHANGED <<used_map, desc_lock, heap_panic>>
       \/ /\ call[t].at = "reset"
          /\ heap_panic' = bitmap_contains(used_map, call[t].scan, call[t].cnt, FALSE)
          /\ used_map' = bitmap_set_multiple(used_map, call[t].scan, call[t].cnt, FALSE)
          /\ FreeReturn(t)
          /\ UNCHANGED <<mark, arena>>
    /\ UNCHANGED <<pool_lock, free_list, owned, heap_calls>>

-----------------------------------------------------------------------------
(***************************************************************************)
(* malloc.c                                                                *)
(***************************************************************************)

(* malloc() of a size that fits descriptor d, or that needs cnt pages;     *)
(* with old it is realloc()'s                                              *)
malloc(t, d, cnt, old) ==
    /\ call[t].at = "idle" /\ heap_calls < MaxHeapCalls
    /\ Cardinality(owned[t]) < MaxBlocks
    /\ heap_calls' = heap_calls + 1
    /\ call' = [call EXCEPT ![t] = [at |-> IF d = Big THEN "palloc" ELSE "desc",
                                    desc |-> d, cnt |-> cnt, scan |-> 0, old |-> old]]
    /\ UNCHANGED <<used_map, pool_lock, desc_lock, free_list, arena, mark, owned, heap_panic>>

(* a new block, which the thread writes *)
Give(t, b) ==
    /\ owned' = [owned EXCEPT ![t] = @ \cup {b}]
    /\ mark' = [mark EXCEPT ![b[1]][b[2]] = t]

(* a new big block of cnt pages *)
GivePages(t, p, cnt) ==
    /\ owned' = [owned EXCEPT ![t] = @ \cup {Block(p, 0)}]
    /\ mark' = [q \in PageNo |-> IF q \in p .. p + cnt - 1
                                 THEN [mark[q] EXCEPT ![0] = t] ELSE mark[q]]

(* malloc() returns: realloc() goes on to free the old block *)
Return(t) == call' = [call EXCEPT ![t] = IF @.old = <<>> THEN NoCall
                                         ELSE [@ EXCEPT !.at = "free", !.desc = 0]]

(* the descriptor's lock; with its free list empty a page is needed *)
TakeBlock(t) ==
    /\ call[t].at = "desc" /\ ~desc_lock[call[t].desc]
    /\ LET d == call[t].desc
           b == Head(free_list[d])
       IN IF free_list[d] = <<>>
          THEN /\ desc_lock' = [desc_lock EXCEPT ![d] = TRUE]
               /\ call' = [call EXCEPT ![t].at = "palloc"]
               /\ UNCHANGED <<free_list, arena, mark, owned>>
          ELSE /\ free_list' = [free_list EXCEPT ![d] = Tail(@)]
               /\ arena' = [arena EXCEPT ![b[1]].free_cnt = @ - 1]
               /\ Give(t, b)
               /\ Return(t)
               /\ UNCHANGED desc_lock
    /\ UNCHANGED <<used_map, pool_lock, heap_calls, heap_panic>>

(* a new arena: its blocks join the free list and the first is taken, or   *)
(* the pages are one big block                                             *)
NewArena(t) ==
    /\ call[t].at = "arena"
    /\ LET d == call[t].desc
           p == call[t].scan
           blocks == [i \in 1 .. BlocksPerArena[d] |-> Block(p, i)]
       IN IF d = Big
          THEN /\ arena' = [arena EXCEPT ![p] = [desc |-> Big, free_cnt |-> call[t].cnt]]
               /\ GivePages(t, p, call[t].cnt)
               /\ UNCHANGED <<desc_lock, free_list>>
          ELSE /\ free_list' = [free_list EXCEPT ![d] = Tail(blocks)]
               /\ arena' = [arena EXCEPT ![p] = [desc |-> d, free_cnt |-> BlocksPerArena[d] - 1]]
               /\ Give(t, Head(blocks))
               /\ desc_lock' = [desc_lock EXCEPT ![d] = FALSE]
    /\ Return(t)
    /\ UNCHANGED <<used_map, pool_lock, heap_calls, heap_panic>>

(* no page for malloc(): NULL, and realloc() leaves the old block alone *)
OutOfMemory(t) ==
    /\ call[t].at = "nomem"
    /\ desc_lock' = IF call[t].desc = Big THEN desc_lock
                    ELSE [desc_lock EXCEPT ![call[t].desc] = FALSE]
    /\ call' = [call EXCEPT ![t] = NoCall]
    /\ UNCHANGED <<used_map, pool_lock, free_list, arena, mark, owned, heap_calls, heap_panic>>

(* free() of a block is called *)
free(t, b) ==
    /\ call[t].at = "idle" /\ heap_calls < MaxHeapCalls
    /\ heap_calls' = heap_calls + 1
    /\ call' = [call EXCEPT ![t] = [NoCall EXCEPT !.at = "free", !.old = b]]
    /\ UNCHANGED <<used_map, pool_lock, desc_lock, free_list, arena, mark, owned, heap_panic>>

(* block_to_arena(): the block is cleared, a big block's pages are freed   *)
FreeBlock(t) ==
    /\ call[t].at = "free"
    /\ LET b == call[t].old
           a == arena[b[1]]
       IN /\ heap_panic' = (a.desc = -1)
          /\ owned' = [owned EXCEPT ![t] = @ \ {b}]
          /\ mark' = IF a.desc = Big THEN mark ELSE [mark EXCEPT ![b[1]][b[2]] = "poison"]
          /\ call' = [call EXCEPT ![t].at = IF a.desc = Big THEN "clear" ELSE "put",
                                  ![t].desc = a.desc, ![t].scan = b[1],
                                  ![t].cnt = IF a.desc = Big THEN a.free_cnt ELSE 1]
    /\ UNCHANGED <<used_map, pool_lock, desc_lock, free_list, arena, heap_calls>>

(* list_remove() *)
Removed(list, b) ==
    LET k == CHOOSE k \in DOMAIN list : list[k] = b
    IN [j \in 1 .. Len(list) - 1 |-> IF j < k THEN list[j] ELSE list[j + 1]]

(* the blocks of an arena are removed one after the other *)
ArenaRemoved(list, p, cnt) ==
    LET after[i \in 0 .. cnt] == IF i = 0 THEN list ELSE Removed(after[i - 1], Block(p, i))
    IN after[cnt]

(* the block joins the free list; an arena that is entirely unused leaves  *)
(* it with all its blocks and its page is freed, under the lock            *)
PutBlock(t) ==
    /\ call[t].at = "put" /\ ~desc_lock[call[t].desc]
    /\ LET b == call[t].old
           d == call[t].desc
           cnt == arena[b[1]].free_cnt + 1
           full == cnt >= BlocksPerArena[d]
           joined == <<b>> \o free_list[d]
       IN /\ heap_panic' = (cnt > BlocksPerArena[d])
          /\ free_list' = [free_list EXCEPT ![d] = IF full THEN ArenaRemoved(joined, b[1], BlocksPerArena[d])
                                                           ELSE joined]
          /\ arena' = [arena EXCEPT ![b[1]].free_cnt = cnt]
          /\ desc_lock' = [desc_lock EXCEPT ![d] = full]
          /\ call' = [call EXCEPT ![t] = IF full THEN [@ EXCEPT !.at = "clear"] ELSE NoCall]
    /\ UNCHANGED <<used_map, pool_lock, mark, owned, heap_calls>>

HeapStep(t) ==
    \/ palloc_get_multiple(t) \/ bitmap_scan(t) \/ bitmap_flip(t) \/ palloc_free_multiple(t)
    \/ TakeBlock(t) \/ NewArena(t) \/ OutOfMemory(t) \/ FreeBlock(t) \/ PutBlock(t)

HeapNext ==
    /\ ~heap_panic
    /\ \E t \in HThread :
          \/ HeapStep(t)
          \/ \E d \in Classes, old \in {<<>>} \cup owned[t] : malloc(t, d, 1, old)
          \/ \E cnt \in 1 .. 2, old \in {<<>>} \cup owned[t] : malloc(t, Big, cnt, old)
          \/ \E b \in owned[t] : free(t, b)

-----------------------------------------------------------------------------
(* the pages a block of a thread takes part of *)
PagesOf(b) == IF b[2] = 0 THEN b[1] .. b[1] + arena[b[1]].free_cnt - 1 ELSE {b[1]}

Holders == {tb \in HThread \X (PageNo \X Index) : tb[2] \in owned[tb[1]]}

(* the blocks of arenas of d that are on no thread's hands *)
Unused(d) ==
    {b \in PageNo \X (1 .. BlocksPerArena[d]) :
        /\ arena[b[1]].desc = d
        /\ \A t \in HThread : b \notin owned[t] /\ ~(call[t].at = "put" /\ call[t].old = b)}

(***************************************************************************)
(* Blocks that threads have are apart: nobody else's block or big block    *)
(* covers them, nobody poisons them, and their pages are marked as used,   *)
(* although pages are freed without the pool's lock while another thread   *)
(* scans the bitmap.  No assertion of the allocator fails.                 *)
(*                                                                         *)
(* No memory is lost or counted twice: while nobody holds a descriptor's   *)
(* lock its free list has each unused block of its arenas once, and        *)
(* free_cnt agrees; and when no call is under way the used pages are those *)
(* of arenas in which somebody has a block.                                *)
(***************************************************************************)
HeapSound ==
    /\ ~heap_panic
    /\ \A h \in Holders :
          LET t == h[1]
              b == h[2]
          IN /\ PagesOf(b) \subseteq used_map
             /\ \A p \in PagesOf(b) : mark[p][b[2]] = t
             /\ \A g \in Holders \ {h} :
                   PagesOf(b) \cap PagesOf(g[2]) # {} =>
                      b[2] # g[2][2] /\ b[2] # 0 /\ g[2][2] # 0
    /\ \A d \in Classes : ~desc_lock[d] =>
          /\ {free_list[d][i] : i \in DOMAIN free_list[d]} = Unused(d)
          /\ Len(free_list[d]) = Cardinality(Unused(d))
          /\ \A p \in PageNo : arena[p].desc = d =>
                arena[p].free_cnt = Cardinality({b \in Unused(d) : b[1] = p})
    /\ (\A t \in HThread : call[t].at = "idle") =>
          used_map = UNION {PagesOf(h[2]) : h \in Holders}
=============================================================================
