---------------------------- MODULE AddressSpaces ----------------------------
(***************************************************************************)
(* The address spaces of Lab 3's user processes, from elf_load() to        *)
(* process_exit(): page directories and page tables (userprog/pagedir.c),  *)
(* the segments of an executable (userprog/elf.c), the page faults of user *)
(* code (userprog/exception.c), and the switch of page directories with    *)
(* the running thread, which may come between any two steps.               *)
(*                                                                         *)
(* An executable is the sequence of its program headers.  Addresses are    *)
(* small: PGSIZE bytes in a page, TableSize pages to a page table.         *)
(***************************************************************************)
EXTENDS Integers, Sequences, FiniteSets

CONSTANTS
    Process,
    PGSIZE, TableSize, UserPages,  \* PHYS_BASE is UserPages * PGSIZE
    AddrModulus,                   \* 2^32
    FileLength, Images,            \* the executables, of FileLength bytes each
    PoolSizes                      \* the pages of the kernel pool and of the user pool

(* a program header, a record of 32-bit numbers: loaded, ignored or refused *)
Elf32_Word == 0 .. AddrModulus - 1
Elf32_Phdr ==
    [type : {"PT_LOAD", "ignored", "refused"}, offset : Elf32_Word, vaddr : Elf32_Word,
     filesz : Elf32_Word, memsz : Elf32_Word, w : BOOLEAN]

ASSUME SpacesAssumption ==
    /\ Process # {}
    /\ PGSIZE \in Nat \ {0} /\ TableSize \in Nat \ {0} /\ UserPages \in Nat \ {0}
    /\ AddrModulus \in Nat /\ UserPages * PGSIZE < AddrModulus /\ FileLength \in Nat
    /\ Images \subseteq Seq(Elf32_Phdr)
    /\ PoolSizes \subseteq [kernel : Nat, user : Nat]

VARIABLES
    pools,         \* how many pages the machine has
    curr,          \* the running process
    at,            \* where each process is in its life
    pagedir,       \* t->pagedir: a kernel page, or 0 (NULL)
    dying,         \* the pd that process_exit() works on
    tables,        \* kernel pages in use as page directory or page table
    frames,        \* user pages in use: their bytes
    cr3, tlb,      \* the processor: page directory (0: init_page_dir), and cache
    ld             \* the variables of elf_load() and load_segment()

spaceVars == <<pools, curr, at, pagedir, dying, tables, frames, cr3, tlb, ld>>

PHYS_BASE == UserPages * PGSIZE
DirSize == (UserPages + TableSize - 1) \div TableSize
StackPage == UserPages - 1
Slots == 0 .. TableSize - 1

NoLoad == [image |-> <<>>, hdr |-> 1, upage |-> 0, read |-> 0, zero |-> 0, pos |-> 0,
           kpage |-> 0, w |-> FALSE]

SpaceInit ==
    /\ pools \in PoolSizes
    /\ curr = CHOOSE p \in Process : TRUE      \* any one starts
    /\ at = [p \in Process |-> "new"]
    /\ pagedir = [p \in Process |-> 0]
    /\ dying = [p \in Process |-> 0]
    /\ tables = [k \in {} |-> <<>>]
    /\ frames = [f \in {} |-> <<>>]
    /\ cr3 = 0 /\ tlb = {}
    /\ ld = [p \in Process |-> NoLoad]

MoveTo(p, place) == at' = [at EXCEPT ![p] = place]
AtPlace(p, place) == curr = p /\ at[p] = place

-----------------------------------------------------------------------------
(* external: palloc_get_page(), the first free page of a pool of n; 0 when  *)
(* there is none                                                            *)
GetPage(used, n) ==
    LET unused == (1 .. n) \ used
    IN IF unused = {} THEN 0 ELSE CHOOSE k \in unused : \A j \in unused : k <= j

(* pages taken out of or put into a map *)
Drop(m, ks) == [k \in DOMAIN m \ ks |-> m[k]]
Put(m, k, v) == [j \in DOMAIN m \cup {k} |-> IF j = k THEN v ELSE m[j]]

(* the page table entry for upage, below the page directory pd of ts:       *)
(* [frame, w], frame 0 when it is not present                               *)
NotPresent == [frame |-> 0, w |-> FALSE]
LookupPage(ts, pd, upage) ==
    LET pt == ts[pd][upage \div TableSize]
    IN IF pt = 0 THEN NotPresent ELSE ts[pt][upage % TableSize]

(* pagedir_create() *)
pagedir_create(p) ==
    /\ AtPlace(p, "new")
    /\ LET k == GetPage(DOMAIN tables, pools.kernel) IN
       IF k = 0 THEN MoveTo(p, "exit") /\ UNCHANGED <<pagedir, tables>>
       ELSE /\ tables' = Put(tables, k, [i \in 0 .. DirSize - 1 |-> 0])
            /\ pagedir' = [pagedir EXCEPT ![p] = k]
            /\ MoveTo(p, "activate")
    /\ UNCHANGED <<curr, dying, frames, cr3, tlb, ld>>

(* pagedir_activate(): the processor forgets what it has cached *)
Activate(pd) == cr3' = pd /\ tlb' = {}

(* process_activate() in elf_load() *)
process_activate(p) ==
    /\ AtPlace(p, "activate")
    /\ Activate(pagedir[p])
    /\ MoveTo(p, "open")
    /\ UNCHANGED <<curr, pagedir, dying, tables, frames, ld>>

(* thread_schedule_tail() calls process_activate() for the new thread *)
SwitchTo(q) ==
    /\ q # curr /\ at[q] # "dead"
    /\ curr' = q
    /\ Activate(pagedir[q])
    /\ UNCHANGED <<at, pagedir, dying, tables, frames, ld>>

-----------------------------------------------------------------------------
(* the executable is opened and its header verified, or not *)
OpenFile(p) ==
    /\ AtPlace(p, "open")
    /\ \/ MoveTo(p, "exit") /\ UNCHANGED ld
       \/ \E im \in Images : /\ ld' = [ld EXCEPT ![p] = [NoLoad EXCEPT !.image = im]]
                             /\ MoveTo(p, "headers")
    /\ UNCHANGED <<curr, pagedir, dying, tables, frames, cr3, tlb>>

validate_segment(ph) ==
    LET end == (ph.vaddr + ph.memsz) % AddrModulus
    IN /\ ph.offset % PGSIZE = ph.vaddr % PGSIZE
       /\ ph.offset <= FileLength
       /\ ph.memsz >= ph.filesz /\ ph.memsz # 0
       /\ ph.vaddr < PHYS_BASE /\ end < PHYS_BASE
       /\ ~(end < ph.vaddr)
       /\ ph.vaddr >= PGSIZE

ROUND_UP(x) == PGSIZE * ((x + PGSIZE - 1) \div PGSIZE)

(* the arguments of load_segment() for a program header *)
SegmentCall(l, ph) ==
    LET page_offset == ph.vaddr % PGSIZE
        read == IF ph.filesz > 0 THEN page_offset + ph.filesz ELSE 0
    IN [l EXCEPT !.upage = ph.vaddr \div PGSIZE, !.read = read,
                 !.zero = ROUND_UP(page_offset + ph.memsz) - read,
                 !.pos = ph.offset - (ph.offset % PGSIZE), !.w = ph.w]

(* one program header: ignored, refused or loaded; after the last one the   *)
(* stack is set up                                                          *)
ProgramHeader(p) ==
    /\ AtPlace(p, "headers")
    /\ IF ld[p].hdr > Len(ld[p].image)
       THEN MoveTo(p, "stack") /\ UNCHANGED ld
       ELSE LET ph == ld[p].image[ld[p].hdr] IN
            CASE ph.type = "ignored" ->
                   ld' = [ld EXCEPT ![p].hdr = @ + 1] /\ UNCHANGED at
              [] ph.type = "PT_LOAD" /\ validate_segment(ph) ->
                   ld' = [ld EXCEPT ![p] = SegmentCall(@, ph)] /\ MoveTo(p, "segment")
              [] OTHER -> MoveTo(p, "exit") /\ UNCHANGED ld
    /\ UNCHANGED <<curr, pagedir, dying, tables, frames, cr3, tlb>>

(* load_segment(): a page of memory for the next page, or setup_stack()'s *)
AllocFrame(p) ==
    /\ AtPlace(p, "segment") \/ AtPlace(p, "stack")
    /\ IF at[p] = "segment" /\ ld[p].read = 0 /\ ld[p].zero = 0
       THEN /\ ld' = [ld EXCEPT ![p].hdr = @ + 1] /\ MoveTo(p, "headers")
            /\ UNCHANGED frames
       ELSE LET f == GetPage(DOMAIN frames, pools.user) IN
            IF f = 0 THEN MoveTo(p, "exit") /\ UNCHANGED <<ld, frames>>
            ELSE /\ frames' = Put(frames, f, [i \in 0 .. PGSIZE - 1 |-> 0])
                 /\ ld' = [ld EXCEPT ![p].kpage = f]
                 /\ MoveTo(p, IF at[p] = "segment" THEN "fill" ELSE "install stack")
    /\ UNCHANGED <<curr, pagedir, dying, tables, cr3, tlb>>

PageRead(l) == IF l.read < PGSIZE THEN l.read ELSE PGSIZE

(* file_read() and memset() of the page; a file that is too short, or that  *)
(* cannot be read, ends the load                                            *)
FillFrame(p) ==
    /\ AtPlace(p, "fill")
    /\ LET l == ld[p]
           n == PageRead(l)
       IN \/ /\ l.pos + n <= FileLength
             /\ frames' = [frames EXCEPT ![l.kpage] =
                              [i \in 0 .. PGSIZE - 1 |-> IF i < n THEN <<"file", l.pos + i>>
                                                                  ELSE 0]]
             /\ MoveTo(p, "install")
          \/ frames' = Drop(frames, {l.kpage}) /\ MoveTo(p, "exit")
    /\ UNCHANGED <<curr, pagedir, dying, tables, cr3, tlb, ld>>

(* install_page(): only where no page is mapped; pagedir_set_page() makes   *)
(* the page table if there is none (lookup_page()).  r is the page          *)
(* directory's memory afterwards, or <<>> when the call fails.              *)
install_page(p, upage, entry) ==
    LET pd == pagedir[p]
        dir == upage \div TableSize
        new == GetPage(DOMAIN tables, pools.kernel)
        pt == tables[pd][dir]
    IN IF LookupPage(tables, pd, upage).frame # 0 \/ (pt = 0 /\ new = 0) THEN <<>>
       ELSE IF pt # 0 THEN [tables EXCEPT ![pt][upage % TableSize] = entry]
       ELSE Put([tables EXCEPT ![pd][dir] = new], new,
                [i \in Slots |-> IF i = upage % TableSize THEN entry ELSE NotPresent])

(* load_segment() maps the page and goes on with the next one *)
InstallSegment(p) ==
    /\ AtPlace(p, "install")
    /\ LET l == ld[p]
           ts == install_page(p, l.upage, [frame |-> l.kpage, w |-> l.w])
       IN IF ts = <<>>
          THEN /\ frames' = Drop(frames, {l.kpage}) /\ MoveTo(p, "exit")
               /\ UNCHANGED <<tables, ld>>
          ELSE /\ tables' = ts
               /\ ld' = [ld EXCEPT ![p].read = @ - PageRead(l),
                                   ![p].zero = @ - (PGSIZE - PageRead(l)),
                                   ![p].pos = @ + PageRead(l), ![p].upage = @ + 1]
               /\ MoveTo(p, "segment") /\ UNCHANGED frames
    /\ UNCHANGED <<curr, pagedir, dying, cr3, tlb>>

(* setup_stack(): the page below PHYS_BASE *)
setup_stack(p) ==
    /\ AtPlace(p, "install stack")
    /\ LET ts == install_page(p, StackPage, [frame |-> ld[p].kpage, w |-> TRUE])
       IN IF ts = <<>>
          THEN frames' = Drop(frames, {ld[p].kpage}) /\ MoveTo(p, "exit") /\ UNCHANGED tables
          ELSE tables' = ts /\ MoveTo(p, "push") /\ UNCHANGED frames
    /\ UNCHANGED <<curr, pagedir, dying, cr3, tlb, ld>>

-----------------------------------------------------------------------------
(* what the processor finds for upage: cached, or in the tables below cr3 *)
Found(upage) ==
    LET here == IF cr3 = 0 THEN NotPresent ELSE LookupPage(tables, cr3, upage)
    IN {t.entry : t \in {c \in tlb : c.upage = upage}}
         \cup IF here.frame # 0 THEN {here} ELSE {}

(* push_command() writes to the stack through its user address *)
PushArguments(p) ==
    /\ AtPlace(p, "push")
    /\ \E e \in Found(StackPage) :
          /\ frames' = [frames EXCEPT ![e.frame] = [i \in 0 .. PGSIZE - 1 |-> p]]
          /\ tlb' = tlb \cup {[upage |-> StackPage, entry |-> e]}
    /\ MoveTo(p, "user")
    /\ UNCHANGED <<curr, pagedir, dying, tables, cr3, ld>>

(* user code reads or writes a page *)
UserAccess(p, upage, write) ==
    /\ AtPlace(p, "user")
    /\ \E e \in Found(upage) :
          /\ write => e.w
          /\ tlb' = tlb \cup {[upage |-> upage, entry |-> e]}
          /\ frames' = IF write THEN [frames EXCEPT ![e.frame] = [i \in 0 .. PGSIZE - 1 |-> p]]
                                ELSE frames
    /\ UNCHANGED <<curr, at, pagedir, dying, tables, cr3, ld>>

(* page_fault() and kill(): no page there, or a write to one that is not    *)
(* writable, ends the process; so does a call of exit()                     *)
page_fault(p, upage, write) ==
    /\ AtPlace(p, "user")
    /\ \A e \in Found(upage) : write /\ ~e.w
    /\ MoveTo(p, "exit")
    /\ UNCHANGED <<curr, pagedir, dying, tables, frames, cr3, tlb, ld>>

UserExit(p) ==
    /\ AtPlace(p, "user")
    /\ MoveTo(p, "exit")
    /\ UNCHANGED <<curr, pagedir, dying, tables, frames, cr3, tlb, ld>>

-----------------------------------------------------------------------------
(* variant: the pointer is cleared last, so that a switch back to the       *)
(* process activates its page directory again                               *)
ExitKeepsPointer(p) ==
    /\ AtPlace(p, "exit")
    /\ IF pagedir[p] = 0 THEN MoveTo(p, "dead") ELSE MoveTo(p, "base")
    /\ dying' = [dying EXCEPT ![p] = pagedir[p]]
    /\ UNCHANGED <<curr, pagedir, tables, frames, cr3, tlb, ld>>

(* process_exit(): cur->pagedir is cleared first ... *)
process_exit(p) ==
    /\ AtPlace(p, "exit")
    /\ IF pagedir[p] = 0 THEN MoveTo(p, "dead") ELSE MoveTo(p, "base")
    /\ dying' = [dying EXCEPT ![p] = pagedir[p]]
    /\ pagedir' = [pagedir EXCEPT ![p] = 0]
    /\ UNCHANGED <<curr, tables, frames, cr3, tlb, ld>>

(* ... then the kernel's page directory is activated ... *)
ExitActivate(p) ==
    /\ AtPlace(p, "base")
    /\ Activate(0)
    /\ MoveTo(p, "destroy")
    /\ UNCHANGED <<curr, pagedir, dying, tables, frames, ld>>

(* ... and pagedir_destroy() frees the pages of one page table after the    *)
(* other, then the page directory                                           *)
pagedir_destroy(p) ==
    /\ AtPlace(p, "destroy")
    /\ LET pd == dying[p]
           left == {i \in 0 .. DirSize - 1 : tables[pd][i] # 0 /\ tables[pd][i] \in DOMAIN tables}
           i == CHOOSE i \in left : \A j \in left : i <= j
           pt == tables[pd][i]
       IN IF left = {}
          THEN tables' = Drop(tables, {pd}) /\ MoveTo(p, "dead") /\ UNCHANGED frames
          ELSE /\ frames' = Drop(frames, {tables[pt][s].frame : s \in Slots})
               /\ tables' = Drop([tables EXCEPT ![pd][i] = 0], {pt})
               /\ UNCHANGED at
    /\ UNCHANGED <<curr, pagedir, dying, cr3, tlb, ld>>

KernelStep(p) ==
    \/ pagedir_create(p) \/ process_activate(p) \/ OpenFile(p) \/ ProgramHeader(p)
    \/ AllocFrame(p) \/ FillFrame(p) \/ InstallSegment(p) \/ setup_stack(p)
    \/ PushArguments(p) \/ process_exit(p) \/ ExitActivate(p) \/ pagedir_destroy(p)

SpaceNext ==
    /\ UNCHANGED pools
    /\ \/ \E p \in Process : KernelStep(p) \/ SwitchTo(p) \/ UserExit(p)
       \/ \E p \in Process, u \in 0 .. UserPages - 1, w \in BOOLEAN :
             UserAccess(p, u, w) \/ page_fault(p, u, w)

-----------------------------------------------------------------------------
(* the entries that are present below page directory pd *)
Mappings(pd) ==
    {[upage |-> u, entry |-> LookupPage(tables, pd, u)] : u \in 0 .. UserPages - 1}
       \ {[upage |-> u, entry |-> NotPresent] : u \in 0 .. UserPages - 1}

FramesOf(pd) == {m.entry.frame : m \in Mappings(pd)}

Live == {p \in Process : pagedir[p] # 0}

(* byte a of the memory of pd *)
Byte(pd, a) == frames[LookupPage(tables, pd, a \div PGSIZE).frame][a % PGSIZE]

(***************************************************************************)
(* Each process has its memory to itself.  The processor's page directory  *)
(* is that of the running process or the kernel's, and never one that was  *)
(* freed; what it has cached is in that directory; and no frame is mapped  *)
(* twice, or free while it is mapped.  A process that runs user code has   *)
(* in its memory what its executable says: the bytes of each segment, then *)
(* zeros.  And when no process is left, no page is: also when a load fails *)
(* half way.                                                               *)
(***************************************************************************)
SpacesApart ==
    /\ cr3 # 0 => cr3 \in DOMAIN tables
    /\ cr3 \in {0, pagedir[curr]} \/ at[curr] = "base"
    /\ tlb # {} => cr3 # 0 /\ tlb \subseteq Mappings(cr3)
    /\ \A p \in Live :
          /\ pagedir[p] \in DOMAIN tables
          /\ FramesOf(pagedir[p]) \subseteq DOMAIN frames
          /\ Cardinality(FramesOf(pagedir[p])) = Cardinality(Mappings(pagedir[p]))
          /\ \A q \in Live \ {p} : FramesOf(pagedir[p]) \cap FramesOf(pagedir[q]) = {}
          /\ at[p] = "push" =>
                \A i \in DOMAIN ld[p].image :
                   LET ph == ld[p].image[i] IN
                   ph.type = "PT_LOAD" =>
                      \A a \in ph.vaddr .. ph.vaddr + ph.memsz - 1 :
                         Byte(pagedir[p], a) = IF a < ph.vaddr + ph.filesz
                                               THEN <<"file", ph.offset + a - ph.vaddr>>
                                               ELSE 0
    /\ (\A p \in Process : at[p] = "dead") => DOMAIN tables = {} /\ DOMAIN frames = {}
=============================================================================
