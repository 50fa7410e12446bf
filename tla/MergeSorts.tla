------------------------------ MODULE MergeSorts -----------------------------
(***************************************************************************)
(* The merge sorts of Assignments 1 and 2: psort.c sorts the left half in  *)
(* a child process and the right half in the parent, both in POSIX shared  *)
(* memory; usort.c sorts the right half in a child, in System V shared     *)
(* memory, and the left half in place; sort.c sorts four quarters in four  *)
(* threads and merges each half in a thread of its own.                    *)
(*                                                                         *)
(* The three are told apart by the script of their main process: what it   *)
(* starts, what it waits for, what it copies and what it sorts itself.     *)
(* merge() is in the supplied merge.a; it reads its two runs and then      *)
(* writes the merged run, in two steps, so that workers on overlapping     *)
(* parts of the array would disturb each other.                            *)
(***************************************************************************)
EXTENDS Integers, Sequences, FiniteSets

CONSTANTS
    Number,        \* the values sorted
    MaxSize,       \* bound: the longest array
    PageInts       \* the ints in a page of memory (1024 on the machine)

ASSUME SortAssumption ==
    /\ Number \subseteq Int /\ MaxSize \in Nat /\ PageInts \in Nat \ {0}

Workers == 1 .. 6

VARIABLES
    program,       \* "psort", "usort" or "sort"
    input,         \* the array as it was given
    mem,           \* mem.arr, and mem.shared: the shared memory
    script,        \* the main process: what it has still to do
    work,          \* worker w: the merges it has still to do
    copied,        \* worker w: the runs merge() has read (0: the main process)
    worker,        \* worker w: "none", "running", "done" (or never created)
    sort_end       \* "no", "returned", "exit" (a worker failed to start),
                   \* "crash" (a memory fault behind the shared memory),
                   \* "unmapped" (one where there is no shared memory)

sortVars == <<program, input, mem, script, work, copied, worker, sort_end>>

right == Len(input) - 1

(* element i of a C array is element i + 1 of the sequence *)
Slice(s, l, r) == SubSeq(s, l + 1, r + 1)

-----------------------------------------------------------------------------
(* the calls of merge(arr, l, m, r) that singleProcessMergeSort() (and      *)
(* singleThreadedMergeSort(), the same code) makes, in order; the function  *)
(* recurs on the length of the part, at most MaxSize                        *)
MergeCalls[n \in 0 .. MaxSize, l \in 0 .. MaxSize] ==
    IF n <= 1 THEN <<>>
    ELSE LET r == l + n - 1
             m == (l + r) \div 2
         IN MergeCalls[m - l + 1, l] \o MergeCalls[r - m, m + 1]
              \o <<[l |-> l, m |-> m, r |-> r]>>

SortCalls(l, r) == IF l < r THEN MergeCalls[r - l + 1, l] ELSE <<>>

(* external: merge() of two runs that it has copied out *)
ShortRuns == UNION {[1 .. k -> Number] : k \in 0 .. MaxSize}
MergeRuns[a \in ShortRuns, b \in ShortRuns] ==
    IF a = <<>> THEN b
    ELSE IF b = <<>> THEN a
    ELSE IF Head(a) <= Head(b) THEN <<Head(a)>> \o MergeRuns[Tail(a), b]
    ELSE <<Head(b)>> \o MergeRuns[a, Tail(b)]

(* s with the run written back at index l *)
WriteRun(s, l, run) ==
    [k \in DOMAIN s |-> IF k - 1 \in l .. l + Len(run) - 1
                        THEN run[k - l] ELSE s[k]]

-----------------------------------------------------------------------------
(* What the main process does.  start: fork() or pthread_create(); wait:    *)
(* wait() or pthread_join(); merges: its own calls of merge(); copy: of a   *)
(* part from one memory to the other.                                       *)
Start(w, m, calls) == [op |-> "start", w |-> w, mem |-> m, calls |-> calls]
Wait(w) == [op |-> "wait", w |-> w]
Merges(m, calls) == [op |-> "merges", mem |-> m, calls |-> calls]
Copy(from, to, l, r) == [op |-> "copy", from |-> from, to |-> to, l |-> l, r |-> r]
One(l, m, r) == <<[l |-> l, m |-> m, r |-> r]>>

(* variant: wait() comes after the merge *)
PsortWaitLate(r) ==
    LET middle == r \div 2
    IN <<Copy("arr", "shared", 0, r),
         Start(1, "shared", SortCalls(0, middle)),
         Merges("shared", SortCalls(middle + 1, r)),
         Merges("shared", One(0, middle, r)),
         Wait(1),
         Copy("shared", "arr", 0, r)>>

(* psort.c: multiProcessMergeSort(arr, 0, r) *)
Psort(r) ==
    LET middle == r \div 2
    IN <<Copy("arr", "shared", 0, r),
         Start(1, "shared", SortCalls(0, middle)),
         Merges("shared", SortCalls(middle + 1, r)),
         Wait(1),
         Merges("shared", One(0, middle, r)),
         Copy("shared", "arr", 0, r)>>

(* usort.c: multiProcessMergeSort(arr, 0, r) *)
Usort(r) ==
    LET middle == r \div 2
    IN <<Copy("arr", "shared", middle + 1, r),
         Start(1, "shared", SortCalls(middle + 1, r)),
         Merges("arr", SortCalls(0, middle)),
         Wait(1),
         Copy("shared", "arr", middle + 1, r),
         Merges("arr", One(0, middle, r))>>

(* sort.c: multiThreadedMergeSort(arr, 0, r) *)
Sort(r) ==
    LET middle == r \div 2
        quarter == r \div 4
        quarter_end == r - quarter
    IN <<Start(1, "arr", SortCalls(0, quarter)),
         Start(2, "arr", SortCalls(quarter + 1, middle)),
         Start(3, "arr", SortCalls(middle + 1, quarter_end)),
         Start(4, "arr", SortCalls(quarter_end + 1, r)),
         Wait(1), Wait(2),
         Start(5, "arr", One(0, quarter, middle)),
         Wait(3), Wait(4),
         Start(6, "arr", One(middle + 1, quarter_end, r)),
         Wait(5), Wait(6),
         Merges("arr", One(0, middle, r))>>

SortInit(p, a) ==
    /\ program = p
    /\ input = a
    /\ mem = [arr |-> a, shared |-> [k \in DOMAIN a |-> 0]]
    /\ script = CASE p = "psort" -> Psort(Len(a) - 1)
                  [] p = "usort" -> Usort(Len(a) - 1)
                  [] p = "sort" -> Sort(Len(a) - 1)
    /\ work = [w \in Workers |-> [mem |-> "arr", calls |-> <<>>]]
    /\ copied = [w \in Workers \cup {0} |-> <<>>]
    /\ worker = [w \in Workers |-> "none"]
    /\ sort_end = "no"

-----------------------------------------------------------------------------
(* Shared memory is sized for right ints and comes in whole pages: index i *)
(* can be reached only if one of its pages holds it.                       *)
Mapped(i) == i < PageInts * ((right + PageInts - 1) \div PageInts)

Instr == Head(script)

(* each element of the part is read and written; an index outside the      *)
(* mapping ends the process                                                *)
CopyMapped ==
    IF \A i \in Instr.l .. Instr.r : Mapped(i)
    THEN /\ mem' = [mem EXCEPT ![Instr.to] =
              WriteRun(@, Instr.l, Slice(mem[Instr.from], Instr.l, Instr.r))]
         /\ script' = Tail(script)
         /\ UNCHANGED sort_end
    ELSE sort_end' = "crash" /\ UNCHANGED <<mem, script>>

(* the main process copies a part between the array and the shared memory. *)
(* Whether shm_open(), ftruncate() and mmap(), or shmget() and shmat(),    *)
(* have failed is not looked at: then the first access is a fault.  (The   *)
(* key -1 of a failed ftok() is as good as any.)                           *)
CopyPart ==
    /\ Instr.op = "copy"
    /\ \/ /\ Instr.to = "shared" /\ Instr.l <= Instr.r
          /\ sort_end' = "unmapped"
          /\ UNCHANGED <<mem, script>>
       \/ CopyMapped
    /\ UNCHANGED <<program, input, work, copied, worker>>

(* A child or a thread is started.  When that fails the program exits, for *)
(* the first four threads of sort.c only after trying all four.            *)
StartWorker ==
    /\ Instr.op = "start"
    /\ \/ /\ worker' = [worker EXCEPT ![Instr.w] = "running"]
          /\ work' = [work EXCEPT ![Instr.w] =
                         [mem |-> Instr.mem, calls |-> Instr.calls]]
          /\ IF Instr.w = 4 /\ \E v \in 1 .. 3 : worker[v] = "failed"
             THEN sort_end' = "exit" /\ UNCHANGED script
             ELSE script' = Tail(script) /\ UNCHANGED sort_end
       \/ /\ worker' = [worker EXCEPT ![Instr.w] = "failed"]
          /\ IF program = "sort" /\ Instr.w \in 1 .. 3
             THEN script' = Tail(script) /\ UNCHANGED sort_end
             ELSE sort_end' = "exit" /\ UNCHANGED script
          /\ UNCHANGED work
    /\ UNCHANGED <<program, input, mem, copied>>

(* wait(NULL) or pthread_join() *)
WaitWorker ==
    /\ Instr.op = "wait"
    /\ worker[Instr.w] = "done"
    /\ script' = Tail(script)
    /\ UNCHANGED <<program, input, mem, work, copied, worker, sort_end>>

(* merge(), its two steps, on the memory m: worker w has read the two runs *)
(* (copied[w] is the pair), then it writes them merged                     *)
ReadRuns(w, m, c) ==
    /\ copied[w] = <<>>
    /\ copied' = [copied EXCEPT ![w] = <<Slice(mem[m], c.l, c.m),
                                         Slice(mem[m], c.m + 1, c.r)>>]
    /\ UNCHANGED mem

WriteRuns(w, m, c) ==
    /\ copied[w] # <<>>
    /\ mem' = [mem EXCEPT ![m] =
                  WriteRun(@, c.l, MergeRuns[copied[w][1], copied[w][2]])]
    /\ copied' = [copied EXCEPT ![w] = <<>>]

(* a step of the merges that the main process does itself *)
MergeSelf ==
    /\ Instr.op = "merges"
    /\ IF Instr.calls = <<>>
       THEN script' = Tail(script) /\ UNCHANGED <<mem, copied>>
       ELSE LET c == Head(Instr.calls) IN
            \/ ReadRuns(0, Instr.mem, c) /\ UNCHANGED script
            \/ /\ WriteRuns(0, Instr.mem, c)
               /\ script' = [script EXCEPT ![1].calls = Tail(@)]
    /\ UNCHANGED <<program, input, work, worker, sort_end>>

(* multiProcessMergeSort() or multiThreadedMergeSort() returns *)
Return ==
    /\ script = <<>>
    /\ sort_end' = "returned"
    /\ UNCHANGED <<program, input, mem, script, work, copied, worker>>

(* a step of a child's or thread's merges; after the last one it exits *)
WorkerStep(w) ==
    /\ worker[w] = "running"
    /\ IF work[w].calls = <<>>
       THEN worker' = [worker EXCEPT ![w] = "done"] /\ UNCHANGED <<work, mem, copied>>
       ELSE LET c == Head(work[w].calls) IN
            \/ ReadRuns(w, work[w].mem, c) /\ UNCHANGED <<work, worker>>
            \/ /\ WriteRuns(w, work[w].mem, c)
               /\ work' = [work EXCEPT ![w].calls = Tail(@)]
               /\ UNCHANGED worker
    /\ UNCHANGED <<program, input, script, sort_end>>

SortMain ==
    /\ sort_end = "no"
    /\ \/ Return
       \/ /\ script # <<>>
          /\ CopyPart \/ StartWorker \/ WaitWorker \/ MergeSelf

SortOther(w) == sort_end = "no" /\ WorkerStep(w)

SortNext == SortMain \/ \E w \in Workers : SortOther(w)

-----------------------------------------------------------------------------
Count(s, v) == Cardinality({k \in DOMAIN s : s[k] = v})

(***************************************************************************)
(* When a sort returns, its array holds the values it was given, in order, *)
(* whatever the order in which the processes or threads did their merges;  *)
(* and no worker is still at work on it.  psort.c and usort.c ask for one  *)
(* int too little of shared memory, which shows exactly where that int     *)
(* would begin a page: the sort of an array of PageInts * k + 1 values     *)
(* ends in a memory fault (in usort.c not for a single value, which it     *)
(* never copies), and no other sort that got its memory does.              *)
(***************************************************************************)
SortRight ==
    /\ sort_end = "returned" =>
          /\ \A v \in Number : Count(mem.arr, v) = Count(input, v)
          /\ \A k \in 1 .. right : mem.arr[k] <= mem.arr[k + 1]
          /\ \A w \in Workers : worker[w] # "running"
    /\ sort_end = "crash" =>
          /\ right % PageInts = 0
          /\ program = "psort" \/ (program = "usort" /\ right > 0)
=============================================================================
