------------------------------- MODULE Library -------------------------------
(***************************************************************************)
(* The pure algorithms of Pintos' C library and of program start: sorting  *)
(* of lists and arrays, binary search, 64-bit division out of 32-bit       *)
(* instructions, memmove() of overlapping blocks, the sizes that malloc()  *)
(* and calloc() compute, and the way of a command line through strtok_r()  *)
(* and push_command() onto the stack of the new program.  Each call of the *)
(* unit applies one of them to one of the bounded inputs; LibraryRight     *)
(* compares the result with a definition.                                  *)
(* A list element is <<key, identity>>, a word is W bits wide where the    *)
(* code's has 32, and memory is a function from addresses to bytes.        *)
(***************************************************************************)
EXTENDS Integers, Sequences, FiniteSets, SequencesExt

CONSTANTS
    Keys, MaxLen,        \* the keys and the length of the lists and arrays
    W,                   \* the bits of a machine word, a power of two
    Cells,               \* the size of the array that memmove() works on
    CharA, CharB, Space, \* the characters of command lines
    MaxLine,             \* the length of the command lines
    StackTop,            \* the top of the stack page, which begins at 0
    PageBytes,           \* PGSIZE, for the sizes that malloc() computes
    ArenaBytes           \* sizeof (struct arena)

ASSUME LibraryAssumption ==
    /\ Keys \subseteq Int /\ MaxLen \in Nat /\ Cells \in Nat /\ MaxLine \in Nat
    /\ W \in {2, 4, 8, 16}
    /\ {CharA, CharB, Space} \subseteq 1..255 /\ Cardinality({CharA, CharB, Space}) = 3
    /\ StackTop \in Nat /\ StackTop % 4 = 0
    /\ PageBytes \in Nat \ {0} /\ ArenaBytes \in Nat

VARIABLE libcall         \* the last call: its name, its input and its result

-----------------------------------------------------------------------------
(* lib/kernel/list.c.  Iterators are positions, list_end() is Len + 1. *)
less(a, b) == a[1] < b[1]

RECURSIVE find_end_of_run(_, _)
find_end_of_run(s, a) ==
    IF a + 1 <= Len(s) /\ ~less(s[a + 1], s[a]) THEN find_end_of_run(s, a + 1) ELSE a + 1

(* list_splice() of one element: the one at m goes before the one at a *)
list_splice(s, a, m) ==
    SubSeq(s, 1, a - 1) \o <<s[m]>> \o SubSeq(s, a, m - 1) \o SubSeq(s, m + 1, Len(s))

(* variant: of two equal elements, the one of the second run comes first *)
RECURSIVE SecondRunFirst(_, _, _, _)
SecondRunFirst(s, a0, a1b0, b1) ==
    IF a0 = a1b0 \/ a1b0 = b1 THEN s
    ELSE IF less(s[a0], s[a1b0]) THEN SecondRunFirst(s, a0 + 1, a1b0, b1)
    ELSE SecondRunFirst(list_splice(s, a0, a1b0), a0 + 1, a1b0 + 1, b1)

RECURSIVE inplace_merge(_, _, _, _)
inplace_merge(s, a0, a1b0, b1) ==
    IF a0 = a1b0 \/ a1b0 = b1 THEN s
    ELSE IF ~less(s[a1b0], s[a0]) THEN inplace_merge(s, a0 + 1, a1b0, b1)
    ELSE inplace_merge(list_splice(s, a0, a1b0), a0 + 1, a1b0 + 1, b1)

(* one pass of list_sort() from a0 on; cnt is output_run_cnt *)
RECURSIVE Pass(_, _, _)
Pass(s, a0, cnt) ==
    IF a0 > Len(s) THEN [list |-> s, runs |-> cnt]
    ELSE LET a1b0 == find_end_of_run(s, a0)
         IN IF a1b0 > Len(s) THEN [list |-> s, runs |-> cnt + 1]
            ELSE LET b1 == find_end_of_run(s, a1b0)
                 IN Pass(inplace_merge(s, a0, a1b0, b1), b1, cnt + 1)

RECURSIVE list_sort(_)
list_sort(s) ==
    LET p == Pass(s, 1, 0) IN IF p.runs > 1 THEN list_sort(p.list) ELSE p.list

list_insert_ordered(s, e) ==
    LET after == {i \in DOMAIN s : less(e, s[i])}
        at == IF after = {} THEN Len(s) + 1 ELSE CHOOSE i \in after : \A j \in after : i <= j
    IN InsertAt(s, at, e)

RECURSIVE list_unique(_, _)
list_unique(s, elem) ==
    IF elem >= Len(s) THEN s
    ELSE IF ~less(s[elem], s[elem + 1]) /\ ~less(s[elem + 1], s[elem])
         THEN list_unique(RemoveAt(s, elem + 1), elem)
         ELSE list_unique(s, elem + 1)

list_max(s) ==
    FoldLeftDomain(LAMBDA max, e : IF less(s[max], s[e]) THEN e ELSE max, 1, s)

-----------------------------------------------------------------------------
(* lib/stdlib.c *)
do_swap(s, a, b) == [s EXCEPT ![a] = s[b], ![b] = s[a]]

RECURSIVE heapify(_, _, _)
heapify(s, i, cnt) ==
    LET left == 2 * i
        right == 2 * i + 1
        max1 == IF left <= cnt /\ less(s[i], s[left]) THEN left ELSE i
        max2 == IF right <= cnt /\ less(s[max1], s[right]) THEN right ELSE max1
    IN IF max2 = i THEN s ELSE heapify(do_swap(s, i, max2), max2, cnt)

RECURSIVE BuildHeap(_, _)
BuildHeap(s, i) == IF i = 0 THEN s ELSE BuildHeap(heapify(s, i, Len(s)), i - 1)

RECURSIVE SortHeap(_, _)
SortHeap(s, i) ==
    IF i <= 1 THEN s ELSE SortHeap(heapify(do_swap(s, 1, i), 1, i - 1), i - 1)

sort(s) == SortHeap(BuildHeap(s, Len(s) \div 2), Len(s))

(* binary_search() of key k in s from first to last (exclusive); 0 is NULL *)
RECURSIVE binary_search(_, _, _, _)
binary_search(k, s, first, last) ==
    IF first >= last THEN 0
    ELSE LET middle == first + (last - first) \div 2
         IN CASE k < s[middle][1] -> binary_search(k, s, first, middle)
              [] k > s[middle][1] -> binary_search(k, s, middle + 1, last)
              [] OTHER -> middle

-----------------------------------------------------------------------------
(* lib/arithmetic.c: division of numbers of two words *)
b == 2^W
Trap == -(b * b * b)      \* the divide error of the processor, no quotient

divl(n, d) == IF n \div d < b THEN n \div d ELSE Trap

(* the halving steps of nlz(): by h = W/2, ..., 2, 1 bits *)
RECURSIVE NlzFrom(_, _)
NlzFrom(x, h) ==
    IF h = 0 THEN 0
    ELSE IF x < 2^(W - h) THEN h + NlzFrom((x * 2^h) % b, h \div 2) ELSE NlzFrom(x, h \div 2)
nlz(x) == NlzFrom(x, W \div 2)

udiv64(n, d) ==
    IF d \div b = 0
    THEN divl(b * ((n \div b) % d) + (n % b), d) + b * ((n \div b) \div d)
    ELSE IF n < d THEN 0
    ELSE LET s == nlz(d \div b)
             q == divl(n \div 2, ((d * 2^s) % (b * b)) \div b) \div 2^(W - 1 - s)
         IN IF (n - (q - 1) * d) % (b * b) < d THEN q - 1 ELSE q

umod64(n, d) == (n - d * udiv64(n, d)) % b       \* returned in one word

(* x as a signed number of two words; the negation wraps, as the processor's does *)
Signed(x) == IF x % (b * b) < (b * b) \div 2 THEN x % (b * b) ELSE (x % (b * b)) - b * b
sdiv64(n, d) ==
    LET q == udiv64(IF n >= 0 THEN n ELSE -n, IF d >= 0 THEN d ELSE -d)
    IN IF (n < 0) = (d < 0) THEN Signed(q) ELSE Signed(-q)

(* returned in one signed word *)
SignedWord(x) == IF x % b < b \div 2 THEN x % b ELSE (x % b) - b
smod64(n, d) == SignedWord(n - d * sdiv64(n, d))

-----------------------------------------------------------------------------
(* lib/string.c.  memmove() copies upwards or downwards, byte by byte, and *)
(* returns the pointer it has moved.                                       *)
RECURSIVE CopyUp(_, _, _, _)
CopyUp(m, dst, src, size) ==
    IF size = 0 THEN [mem |-> m, dst |-> dst]
    ELSE CopyUp([m EXCEPT ![dst] = m[src]], dst + 1, src + 1, size - 1)

RECURSIVE CopyDown(_, _, _, _)
CopyDown(m, dst, src, size) ==
    IF size = 0 THEN [mem |-> m, dst |-> dst]
    ELSE CopyDown([m EXCEPT ![dst + size - 1] = m[src + size - 1]], dst, src, size - 1)

memmove(m, dst, src, size) ==
    IF dst < src THEN CopyUp(m, dst, src, size) ELSE CopyDown(m, dst, src, size)

(* strtok_r() with delimiter Space, from position s of the buffer; token 0 *)
(* is NULL                                                                 *)
RECURSIVE strtok_r(_, _)
strtok_r(buf, s) ==
    IF buf[s] = 0 THEN [token |-> 0, save |-> s, buf |-> buf]
    ELSE IF buf[s] = Space THEN strtok_r(buf, s + 1)
    ELSE LET end == CHOOSE e \in s..Len(buf) :
                       /\ buf[e] \in {0, Space}
                       /\ \A i \in s..(e - 1) : buf[i] \notin {0, Space}
         IN [token |-> s, save |-> IF buf[end] = 0 THEN end ELSE end + 1,
             buf |-> [buf EXCEPT ![end] = 0]]

(* start_process(): argv, as positions in the buffer, which changes *)
RECURSIVE Tokenize(_, _, _)
Tokenize(buf, save, argv) ==
    LET t == strtok_r(buf, save)
    IN IF t.token = 0 THEN [argv |-> argv, buf |-> buf]
       ELSE Tokenize(t.buf, t.save, Append(argv, t.token))

(* the bytes of the string at position p, with its terminator *)
RECURSIVE StringAt(_, _)
StringAt(m, p) == <<m[p]>> \o IF m[p] = 0 THEN <<>> ELSE StringAt(m, p + 1)

-----------------------------------------------------------------------------
(* userprog/process.c: push_command().  A pointer or an int is four bytes. *)
memcpy(m, a, bytes) ==
    [x \in DOMAIN m |-> IF x \in a..(a + Len(bytes) - 1) THEN bytes[x - a + 1] ELSE m[x]]
Word(v) == <<v % 256, v \div 256, 0, 0>>
WordAt(m, a) == m[a] + 256 * m[a + 1]
Align(a) == a - (a % 4)

RECURSIVE PushStrings(_, _, _, _, _)
PushStrings(strings, i, mem, esp, addrs) ==
    IF i = 0 THEN [mem |-> mem, esp |-> esp, addrs |-> addrs]
    ELSE LET e == esp - Len(strings[i])
         IN PushStrings(strings, i - 1, memcpy(mem, e, strings[i]), e, <<e>> \o addrs)

RECURSIVE PushWords(_, _, _, _)
PushWords(words, i, mem, esp) ==
    IF i = 0 THEN mem
    ELSE PushWords(words, i - 1, memcpy(mem, esp - 4, Word(words[i])), esp - 4)

(* strings, aligned; a null sentinel (the page is zeroed, so it is only    *)
(* skipped), argv[], argv, argc and the return address, skipped too        *)
push_command(strings) ==
    LET argc == Len(strings)
        zeros == [a \in 0..(StackTop - 1) |-> 0]
        p == PushStrings(strings, argc, zeros, Align(StackTop), <<>>)
        argv == Align(p.esp) - 4 - 4 * argc
        m1 == PushWords(p.addrs, argc, p.mem, Align(p.esp) - 4)
        m2 == memcpy(m1, argv - 4, Word(argv))
    IN [mem |-> memcpy(m2, argv - 8, Word(argc)), esp |-> argv - 12]

start_process(line) ==
    LET t == Tokenize(Append(line, 0), 1, <<>>)
    IN push_command([i \in DOMAIN t.argv |-> StringAt(t.buf, t.argv[i])])

-----------------------------------------------------------------------------
(* threads/malloc.c: the pages that malloc() asks palloc for when no       *)
(* descriptor fits, and the bytes that calloc() asks malloc() for; none is *)
(* a null pointer                                                          *)
malloc_pages(size) == ((size + ArenaBytes + PageBytes - 1) % b) \div PageBytes

calloc_size(m, n) ==
    LET size == (m * n) % b
    IN IF size < m \/ size < n THEN 0 ELSE size

-----------------------------------------------------------------------------
(* The inputs. *)
Lists == {[i \in DOMAIN ks |-> <<ks[i], i>>] : ks \in BoundedSeq(Keys, MaxLen)}
Ordered(s) == \A i, j \in DOMAIN s : i < j => s[i][1] <= s[j][1]
OrderedLists == {s \in Lists : Ordered(s)}
Lines == {l \in BoundedSeq({CharA, CharB, Space}, MaxLine) : l # <<>>}
Doubles == 0..(b * b - 1)
SignedDoubles == -((b * b) \div 2)..((b * b) \div 2 - 1)

LibraryInit == libcall = <<"none", 0, 0>>

Call(fn, in, out) == libcall' = <<fn, in, out>>

SortCalls ==
    \E s \in Lists :
       \/ Call("list_sort", s, list_sort(s))
       \/ Call("sort", s, sort(s))
       \/ s # <<>> /\ Call("list_max", s, list_max(s))

OrderedCalls ==
    \E s \in OrderedLists :
       \/ \E k \in Keys : \/ Call("list_insert_ordered", <<s, <<k, 0>>>>,
                                  list_insert_ordered(s, <<k, 0>>))
                          \/ Call("binary_search", <<s, k>>,
                                  binary_search(k, s, 1, Len(s) + 1))
       \/ Call("list_unique", s, list_unique(s, 1))

DivisionCalls ==
    \/ \E d \in Doubles \ {0} :
          \/ Call("udiv64", d, [n \in Doubles |-> udiv64(n, d)])
          \/ Call("umod64", d, [n \in Doubles |-> umod64(n, d)])
    \/ \E d \in SignedDoubles \ {0} :
          \/ Call("sdiv64", d, [n \in SignedDoubles |-> sdiv64(n, d)])
          \/ Call("smod64", d, [n \in SignedDoubles |-> smod64(n, d)])

MoveCalls ==
    \E size \in 0..Cells : \E dst, src \in 1..(Cells - size + 1) :
       Call("memmove", <<dst, src, size>>,
            memmove([i \in 1..Cells |-> i], dst, src, size))

StartCalls == \E l \in Lines : Call("start_process", l, start_process(l))

SizeCalls ==
    \E m \in 0..(b - 1) :
       \/ m >= PageBytes \div 2 /\ Call("malloc", m, malloc_pages(m))
       \/ \E n \in 0..(b - 1) : Call("calloc", <<m, n>>, calloc_size(m, n))

LibraryNext ==
    /\ libcall[1] = "none"
    /\ SortCalls \/ OrderedCalls \/ DivisionCalls \/ MoveCalls \/ StartCalls \/ SizeCalls

-----------------------------------------------------------------------------
(* The reference definitions. *)
Stable(s) == \A i, j \in DOMAIN s : i < j => s[i][1] < s[j][1] \/
                                     (s[i][1] = s[j][1] /\ s[i][2] < s[j][2])
SameElements(s, t) == Len(s) = Len(t) /\ ToSet(s) = ToSet(t)

(* what the kernel's model takes for the result of list_sort() *)
KernelList == INSTANCE ListOps
RankOrder(s) == KernelList!list_sort(s, [e \in ToSet(s) |-> e[1]])

SortsRight(fn, s, r) ==
    CASE fn = "list_sort" -> SameElements(s, r) /\ Stable(r) /\ r = RankOrder(s)
      [] fn = "sort" -> SameElements(s, r) /\ Ordered(r)
      [] fn = "list_max" -> \A i \in DOMAIN s : \/ s[i][1] < s[r][1]
                                                \/ (s[i][1] = s[r][1] /\ r <= i)

(* a new element goes behind the equal ones; of equals the first is kept *)
OrderedRight(fn, in, r) ==
    CASE fn = "list_insert_ordered" ->
           /\ SameElements(Append(in[1], in[2]), r) /\ Ordered(r)
           /\ \A i, j \in DOMAIN r : r[i] = in[2] /\ r[j][1] = in[2][1] => j <= i
      [] fn = "binary_search" ->
           LET hits == {i \in DOMAIN in[1] : in[1][i][1] = in[2]}
           IN IF hits = {} THEN r = 0 ELSE r \in hits
      [] fn = "list_unique" ->
           /\ Stable(r)
           /\ ToSet(r) = {in[i] : i \in {i \in DOMAIN in :
                                          \A j \in 1..(i - 1) : in[j][1] # in[i][1]}}

Quotient(n, d) ==
    LET q == (IF n < 0 THEN -n ELSE n) \div (IF d < 0 THEN -d ELSE d)
    IN IF (n < 0) = (d < 0) THEN q ELSE -q

(* the remainder comes back in one word (OneWordRemainder); the smallest   *)
(* number divided by -1 has no quotient                                    *)
DivisionRight(fn, d, r) ==
    CASE fn = "udiv64" -> \A n \in Doubles : r[n] = n \div d
      [] fn = "umod64" -> d <= b => \A n \in Doubles : r[n] = (n % d)
      [] fn = "sdiv64" -> \A n \in SignedDoubles : (-n \notin SignedDoubles /\ d = -1)
                                                   \/ r[n] = Quotient(n, d)
      [] fn = "smod64" -> d \in -(b \div 2)..(b \div 2) =>
                            \A n \in SignedDoubles : r[n] = n - d * Quotient(n, d)

MoveRight(in, r) ==
    r.mem = [i \in 1..Cells |-> IF i - in[1] \in 0..(in[3] - 1) THEN in[2] + (i - in[1]) ELSE i]

(* the words of a line, from left to right: what a shell would pass on *)
WordStarts(l) == {i \in DOMAIN l : l[i] # Space /\ (i = 1 \/ l[i - 1] = Space)}
WordEnd(l, i) == CHOOSE e \in i..Len(l) : /\ \A j \in i..e : l[j] # Space
                                          /\ e = Len(l) \/ l[e + 1] = Space
LineWords(l) ==
    LET starts == SetToSortSeq(WordStarts(l), <)
    IN [k \in DOMAIN starts |-> Append(SubSeq(l, starts[k], WordEnd(l, starts[k])), 0)]

(* the new program finds argc, argv and argv[argc] = NULL on its stack *)
StartRight(l, r) ==
    LET words == LineWords(l)
        argc == WordAt(r.mem, r.esp + 4)
        argv == WordAt(r.mem, r.esp + 8)
    IN /\ r.esp % 4 = 0 /\ argv % 4 = 0
       /\ argc = Len(words)
       /\ \A i \in 1..argc : StringAt(r.mem, WordAt(r.mem, argv + 4 * (i - 1))) = words[i]
       /\ WordAt(r.mem, argv + 4 * argc) = 0

(* For every bounded input: list_sort() sorts and keeps the order of equal *)
(* elements, although it splices the runs in place, and its result is the  *)
(* one that the model of the kernel computes by ranks; sort(), list_max(), *)
(* list_insert_ordered(), list_unique() and binary_search() do what they   *)
(* say; a 64-bit division made of 32-bit ones is exact and never traps,    *)
(* and so is the remainder of a divisor of one word;                       *)
(* memmove() copies overlapping blocks right; and the program that is      *)
(* started finds on its stack the words of its command line.               *)
LibraryRight ==
    LET fn == libcall[1]
    IN CASE fn \in {"list_sort", "sort", "list_max"} -> SortsRight(fn, libcall[2], libcall[3])
         [] fn \in {"list_insert_ordered", "binary_search", "list_unique"} ->
              OrderedRight(fn, libcall[2], libcall[3])
         [] fn \in {"udiv64", "umod64", "sdiv64", "smod64"} -> DivisionRight(fn, libcall[2], libcall[3])
         [] fn = "memmove" -> MoveRight(libcall[2], libcall[3])
         [] fn = "start_process" -> StartRight(libcall[2], libcall[3])
         [] OTHER -> TRUE

(* "Copies SIZE bytes from SRC to DST, which are allowed to overlap.       *)
(* Returns DST."                                                           *)
MemmoveReturnsDst == libcall[1] = "memmove" => libcall[3].dst = libcall[2][1]

(* "Divides unsigned 64-bit N by unsigned 64-bit D and returns the         *)
(* remainder.": also for a divisor of more than one word.                  *)
OneWordRemainder ==
    libcall[1] = "umod64" => \A n \in Doubles : libcall[3][n] = n % libcall[2]

(* "Obtains and returns a new block of at least SIZE bytes", if any.       *)
MallocHolds ==
    libcall[1] = "malloc" /\ libcall[3] > 0 =>
       libcall[3] * PageBytes - ArenaBytes >= libcall[2]

(* "Allocates and return A times B bytes initialized to zeroes", if any.   *)
CallocHolds ==
    libcall[1] = "calloc" /\ libcall[3] > 0 => libcall[3] >= libcall[2][1] * libcall[2][2]
=============================================================================
