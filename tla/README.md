# A verification project for CSE130

The repository holds the programs of an operating systems course: six stand-alone
assignments and three versions of the Pintos teaching kernel, each with one lab's work in
it. This directory holds TLA+ models of those programs and of the parts of the kernel,
TLC runs that check them on small instances, and TLAPS proofs.

## Inventory

| Part | State | Operations | What is hard, and what makes it correct |
|---|---|---|---|
| Lab 2 threads (`threads/thread.c`) | status and priority of each thread, run queue, running thread | create, block, unblock, yield, exit, set_priority, timer tick | preemption at every instruction with interrupts on; a thread is on the one list its state says, and the highest-priority ready thread runs |
| Lab 2 semaphores (`semaphore.c`) | value, waiters | down, up (also from interrupt handlers) | a woken waiter races for the unit; no wakeup is lost |
| Lab 2 locks (`lock.c`) | holder, donator, each thread's donators and blocker | acquire, donate, release | all of it runs with interrupts on; exclusion, no dangling donator, donation only raises |
| Lab 2 condition variables (`condvar.c`) | queued semaphores, each on a waiter's stack | wait, signal, broadcast | wait is three steps; no lost signal, no dangling element |
| Lab 1 alarm clock (`devices/timer.c`) | ticks, wake times, the pointers of sleep_list | timer_sleep, timer_interrupt | insertion with interrupts on; never early, woken on time |
| Lab 3 processes (`userprog/process.c`) | parent, child_tid, child_exit, a semaphore in each thread's page | exec, wait, exit, load failure, exceptions | parents follow pointers into pages that are freed; a child's status reaches its own parent, exec returns |
| Lab 3 buffer cache (`filesys/cache.c`) | 64 slots with dirty and access bits, the clock hand, one lock | read, write, evict, close | slots change while the disk is busy; callers see a plain store of sectors |
| Lab 3 file system (`filesys/`), file system calls | free map, inodes on disk and in memory, root directory, open file table | create, open, read, write, close, remove, restart | a full device in the middle of an operation, removal of open files; no sector shared, files survive a restart |
| Lab 3 address spaces (`pagedir.c`, `elf.c`, `exception.c`) | page directories, frames, CR3 and TLB | load, fault, exit, switch | a switch between any two steps of an exit, failure half way through a load |
| Lab 3 threads (`thread.c`, `semaphore.c`, `lock.c`, `condvar.c`) | ready list, semaphores, locks | create, down, up, acquire, release, wait, signal, sleep, tick | preemption; round-robin fairness |
| Console (`intq.c`, `serial.c`, `kbd.c`, `input.c`) | input buffer, transmit queue, UART registers | getc, putc, flush, interrupts | interrupts between the steps of readers and writers; no byte lost, nobody sleeps through an event |
| Disks (`ide.c`, `block.c`, `partition.c`) | channel lock, completion semaphore, partitions | detect, read, write, interrupt | late, missing and uncaused interrupts; atomic requests, partitions inside their disk |
| Allocators (`palloc.c`, `malloc.c`, `bitmap.c`) | used map, arenas, free lists | get and free pages, malloc, free, realloc | pages are freed without the pool's lock; blocks are apart, nothing is lost |
| Hash table (`hash.c`) | buckets, iterator | insert, replace, delete, find, clear, apply, iterate | growing and shrinking, failing allocation; a map from keys to elements |
| Library (`list.c`, `stdlib.c`, `arithmetic.c`, `string.c`, `push_command`) | none | sorts, searches, division, memmove, strtok_r, argument passing | pointer arithmetic in place; agreement with a definition |
| Assignment 1 and 2 merge sorts | the array, shared memory | child process, six threads | order of joins and merges; sorted, nobody still at work |
| Assignment 3 manual page | seven semaphores | seven threads | paragraphs in order; semaphores destroyed after their last use |
| Assignment 3 cart manager (`cartman.c`) | one semaphore per junction, reservations in the supplied cart system | arrive, thread_routine | one thread per cart takes two semaphores of a ring; no clash, no deadlock, every cart crosses |
| Assignment 4 scheduler | ready queue, running thread, wait accounting | simulator callbacks | wait times by sums of the clock; each policy's choice |
| Assignment 5 pager | page queue | pager_request under five policies | frame limit, the right victim |
| Assignment 6 file manager | descriptors | read, write, append, copy, dir, tree | every call can fail; nothing destroyed, views faithful |

The kernel's parts call each other downwards: condition variables use locks and semaphores,
locks use semaphores, semaphores block and unblock threads, and `thread_create()` takes a
lock of its own (`tid_lock`). The timer interrupt and device interrupts enter from below.
The alarm clock sits on Lab 1's simpler round-robin scheduler. In Lab 3 system calls use
processes and files; processes use address spaces and threads; files use inodes, inodes the
buffer cache, the cache the block devices, and these the disk's interrupt. Everything
allocates from the page and block allocators. The assignments are independent programs.

## Modules

| Module | Models |
|---|---|
| `ListOps` | the two list operations whose result decides scheduling: `list_push_front()`, and `list_sort()` by the order that it gives (the merge itself is in `Library`) |
| `Threads`, `Semaphores`, `Locks`, `CondVars` | `thread.c`, `semaphore.c`, `lock.c`, `condvar.c` of Lab 2; a lock's semaphore is named by the lock, condvar_wait()'s by the waiting thread |
| `PriorityKernel`, `MCPriorityKernel`, `KernelProofs` | the four together, under client threads that call any operation whose assertions hold; all kernel properties; instances for TLC; theorems about them |
| `Alarm`, `MCAlarm`, `AlarmProofs` | Lab 1's alarm clock, one action per store of the list insertion and per iteration of the handler; theorems |
| `Cartman`, `CartmanProofs` | Assignment 3's cart manager; theorems about it |
| `Processes`, `ProcessProofs` | exec, wait and exit of Lab 3, over the pages that hold struct threads; theorems |
| `BlockStore` | abstract: a store of sectors |
| `BufferCache`, `MCBufferCache` | `cache.c`, shown and proved to implement `BlockStore` |
| `Files` | abstract: files as programs know them |
| `FileSystem` | `filesys.c`, `inode.c`, `directory.c`, `free-map.c`, `file.c` and the file calls, shown to implement `Files` |
| `ManPage`, `MergeSorts`, `Scheduler`, `Pager`, `Fileman` | the assignments' programs |
| `ProgramProofs` | theorems about `ManPage`, `Scheduler`, `Pager` and `Fileman`, each by itself |
| `Programs`, `MCPrograms` | these five and `Cartman` side by side, for one run |
| `Console`, `Disk`, `Heap`, `HashTable`, `AddressSpaces`, `RoundRobin`, `Library` | the parts of Lab 3's machine below processes and files |
| `Machine`, `MCMachine` | these seven side by side, for one run |
| `MachineProofs` | theorems about `Console`, `RoundRobin` and `Disk`, each by itself |
| `HeapProofs` | theorems about `Heap` |
| `MemoryProofs` | theorems about `BufferCache` and `AddressSpaces`, each by itself |

`Programs` and `Machine` put components side by side that do not share state: a behaviour
picks one of them (`unit`) and exercises it, so that one run checks them all without
multiplying their states. What a component uses of another is modelled inside it.

### The kernel model

There is one processor: only the thread `running` takes steps. A step is a stretch of code
with interrupts disabled, or one statement of code with them enabled. Between two steps the
time slice may run out (`Tick`), or a device handler may raise a semaphore (`InterruptUp`).
Each thread's kernel stack is abstracted to where it is (`pc`), the parameters of the
operation under way (`lk`, `sm`, `loc`, `arg`) and where lock operations return to (`ret`).

* `Schedule(st, rl)` is `schedule()` with `next_thread_to_run()`: the queue is sorted and its
  last thread runs. It takes the states and the queue the caller has just computed, so that
  `thread_yield()`, `thread_block()`, `thread_exit()` and `semaphore_up()` stay whole actions.
* `semaphore_down()` is `Down`, then `DownBlock` as often as the value is zero, then
  `DownTake`; a thread is at `"woken"` when `thread_block()` has returned to it.
* `lock_acquire()` is `TestHolder`, `PushLock`, `SetDonator`, `Compare`, `SetBlocker`,
  `Donate`/`DonateChain` (the recursion of `donate()` is a loop over `loc`), the semaphore,
  `SetHolder`. `lock_release()` is `ClearHolder`, `Revoke`, `Restore`, `AssignPriority`,
  `ResetDonator`, `ReleaseUp`.
* Undefined behaviour: reading a null pointer puts the thread at `"fault"` (the page fault is
  unexpected, is reported and happens again); a list operation on an element that is on the
  wrong list sets `halted = "corrupt"`; `list_max()` of an empty queue and the priority of a
  freed thread are nondeterministic choices. A failed assertion sets `halted = "panic"`.
* `list_sort()` is taken by its result, the stable order of the elements. Lab 2 and Lab 3 have
  the same sort, but for a test for the empty list in Lab 2; `Library` translates its natural
  merge step by step, and LibraryRight compares the two for every list up to the bound
  (`RankOrder`), so that the stability on which the order of threads depends is checked and
  not assumed.
* Abstractions: the `donators` list is a set, since only its greatest priority is read;
  `condvar_signal()`'s sort and pop are one step with its `semaphore_up()`, since the caller
  holds the lock that protects the list; a thread identifier is never reused; a thread does
  not exit while holding a lock; `palloc` failure in `thread_create()` is left out, as it
  changes nothing. Four walks of a list with interrupts on are one step each: `list_max()` of
  the ready list in `thread_set_priority()`, `list_contains()` and the insertion into
  `donators` in `lock_acquire()`, and the sort of `donators` in `lock_release()`. A time slice
  may run out before and after such a walk, not inside it: a walk over a list that changes
  under it is not covered. What is modelled of that kind, two threads between test and change
  of one list, already ends in `halted = "corrupt"`.

### The alarm clock model

`list_insert()` is three actions, one per store that another walker of the list can notice,
so that ticks fall between them; `torn` records that one did. Integers are unbounded: the
wrap of the 32-bit `waketime` after 2^31 ticks is out of the runs' reach.

### The cart manager model

`reserve()`, `cross()` and `release()` belong to the supplied cart system and are modelled
by the conditions under which `cartman.h` says the system exits: a junction that is reserved
already, and a cart that is not at the junction it names. Arrivals are unrestricted: any
cart, any track, either end. `Tracks >= 2` is assumed (with one track the code locks the
same semaphore twice).

### Processes

A parent waits on the semaphore `parent_lock` inside the child's struct thread, which is a
page that the kernel frees when the child is dead. So pages are state: what each is used
for, and what a `semaphore_down()` through a stale pointer finds there (`Poison` stands for
the 0xcc bytes of a freed page, a count that does not run out). `process_execute()` is
`Execute`, `ThreadCreate`, `SetChildTid`, `ExecDown`, `FinishExec`; `process_wait()` is
`Wait`, `WaitDown`, `Waited`; a child is `StartProcess`, then user code, then `SysExit` or
`UnknownCall`, `ProcessExit`, `ThreadExit`. The pool may be empty, a load may fail. A
program may wait for any number (`Tid`): a child, its own tid, one of a thread it has never
seen, 0 and -1. The last two matter because `child_tid` is 0 in a thread that has executed
nothing, whose `child_lock` is null, and `process_wait(0)` panics in it; and -1 after a
`thread_create()` that failed, where `child_lock` is still that of an earlier child.

A child may end without `sys_exit()`: its file cannot be loaded, or it makes an unknown call.
Then nobody writes `child_exit`. `StatusDelivered` says of such a child what the code gives, 0
or what another child of the same parent has left there, which is not the -1 of the comment
(`KilledAnswered`, under Disagreements). Page faults and other exceptions do end in
`sys_exit(-1)` (`exception.c`), and are covered by the first half of `StatusDelivered`.

### Buffer cache and file system

`BufferCache` lets threads read, write and close at the same time; a step is a disk
transfer, a turn of the clock hand, or the code between. Slots that are being filled are
told apart in the refinement mapping (`Filling`, `Store`): the value of a sector is that of
its filled slot, otherwise the disk's. `ImplementsBlockStore` is a refinement: each
operation has one step at which it takes effect.

`FileSystem` keeps the free map, the disk's words, the inodes on disk and in memory, the
directory and the open file table. An action is a whole system call: a process sleeps until
its child has ended, so no two threads are ever inside the file system. Nothing in the
kernel creates a directory, so there is one. `Reboot` is shutdown and restart. A sector has
two words, and an inode one direct block, so that files of five words use the doubly
indirect block. The root directory begins with one entry and grows with the files added to
it (`AddFile`), which may itself fail for want of a sector. `halted` tells apart how the
kernel ends: a boot that does not find the free map, a file that is too long for its inode,
a null entry of the open file table handed to `file_write()` or `file_length()`, an entry
beyond the table, and a sector that is released twice. `full` remembers that
`free_map_allocate()` has failed once: after that the zeros meant for a new indirect block
may have gone to sector 0 (`IndirectBlock`), so `SurvivesReboot` promises that a restart
finds the free map only on a device that has never been full. `ImplementsFiles` maps names,
contents and descriptors to `Files`; a call that fails half way must map to `Refuse`, a step
that changes no file.

### Programs

* `ManPage`: `manpage()` creates and joins the threads, any of whose creations may fail;
  the paragraphs are handed out in any order.
* `MergeSorts`: the three main programs are scripts (start, wait, merge, copy) over two
  memories; `merge()` is external and reads its runs in one step and writes in another.
  Shared memory is one int short in `psort.c` and `usort.c`; a page granule hides that
  except at a page border, which the model has at `PageInts`. The calls that make the shared
  memory are not looked at by the code; when one fails the first copy faults (`CopyPart`).
* `Scheduler`: the callbacks of `scheduler.c` in the order in which the simulator makes
  them within a tick; queues and the clock are external. `ByPolicy` has a clause for each of
  the four policies; for FCFS and round robin it speaks of how long each thread has been ready
  (`stretch`, which the callbacks do not have).
* `Pager`: the queue and its sort are external; `queue_sort()` may order equal elements in any
  way. `VictimByPolicy` states the victim by the history of requests, not by the queue. For
  LFU it counts uses since the page was fetched, which is what the code does; that
  `simulator.h` means the whole history is `InfiniteHistory`, which is violated.
* `Fileman`: every system call may fail, disks fill up, descriptors leak. Two failures go
  unnoticed, and `called.mishap` remembers them: the `open()` that tests whether a file exists
  fails for another reason, and the `lseek()` of `fileman_append()` fails. `FilesSafe` exempts
  exactly these two; what they do is stated by `ExistingRefused` and `AppendsAtEnd`. Directories are arbitrary
  trees for the two views. A path that does not fit `PATH_LEN` is cut and names nothing, or
  the directory itself, or an entry of it that stands before (`Openings`); the spacer of the
  tree is cut to its buffer (`spacer_new`).

### The machine's parts

* `Console`: reader threads, the serial and the keyboard interrupt, polled and queued
  output. The keyboard has one letter, the shift keys and caps lock. A reader that finds a byte
  when it gets the lock fails the assertion of `wait()`; `console_panic` says so
  (`ReadersSleep`, under Disagreements).
* `Disk`: one channel with two devices. Its device is external: it completes, fails, hangs
  and raises uncaused interrupts. Sector numbers wrap at `SectorModulus`.
* `Heap`: `malloc()`, `realloc()`, `free()` over `palloc`, step by step: bitmap scans and the
  poisoning of freed pages are several steps. `calloc()` is a `malloc()`. The bits of freed
  pages are reset in one step, although `bitmap_set_multiple()` writes them one after the
  other: a scan that sees some of them is a scan that came earlier or later for the others,
  and it flips only pages that it has seen free.
* `HashTable`: a step is a call; `rehash()` moves the elements one by one while it walks over
  the old buckets (`MoveElem`), and its allocation may fail.
* `AddressSpaces`: `elf_load()` page by page, page faults, `process_exit()` in three steps,
  and a thread switch before any of them.
* `RoundRobin`: a thread's calls are queues of steps (`todo`), each of which runs with
  interrupts off; a tick may come between any two. A ready thread waits at most one slice for
  every thread there is, the idle thread taking the place of itself: devices can make all
  threads ready at once while the idle thread has just begun its slice. `all_list` is left
  out: it is pushed to with interrupts on (`thread.c:517`) and only walked by
  `thread_foreach()`, for backtraces.
* `Library`: operators in the shape of the code, recursive where the code loops. They are
  applied to all bounded inputs and compared with definitions. Sizes given to `malloc()` and
  `calloc()` are words, so that their sums and products wrap.

Definitions marked "variant" are plausible mistakes in the code; replacing the original by
its variant makes TLC refute the property that is there to notice it.

## Runs

| Run | Shows | Distinct states |
|---|---|---|
| `kernel_sched` | main creates two threads; the three yield, exit, change priority and use a semaphore an interrupt handler also raises; two preemptions. NoLostWakeup, RunsHighest, NoOvertaking | 211,000 |
| `kernel_donation` | two client locks besides tid_lock, threads of three priorities that nest locks and raise their priority; one preemption. NeverBelowBase, LinkedOnce, DonatorAlive | 462,000 |
| `kernel_monitor` | a monitor with one condition variable, two preemptions. LockExclusion, WaitersKept | 56,000 |
| `alarm` | three threads, naps of -1 and 2 ticks, three ticks. NeverEarly, WokenOnTime, Wakes | 150,000 |
| `processes` | four threads, five pages, two exit codes: user programs whose children execute programs too, wait, exit and are killed. ParentAlive, StatusDelivered | 1,281,000 |
| `process_exec` | four threads, four pages, two exit codes. ExecReturns, with fairness | 162,000 |
| `buffer_cache` | two threads, three sectors, two slots. OneSlot, ClosedClean, ImplementsBlockStore | 2,190,000 |
| `filesystem` | two files of two values on twelve sectors, four changes. NoSharing, SurvivesReboot, ImplementsFiles | 297,000 |
| `programs` | the six kinds of programs of the assignments. ManPageRight, SortRight, ProgramsEnd; three carts on a ring of three tracks: TypeOK, NeverExits, AllReturned, NoDeadlock, EveryCartCrosses; WaitExact, ByPolicy; VictimByPolicy; FilesSafe, ViewsFaithful | 549,000 |
| `machine` | the seven parts of the machine. ConsoleExact, DiskExact, HeapSound, HashFaithful, SpacesApart, RoundRobinSound, LibraryRight | 802,000 |
| `donation_fault` | two threads besides main, two client locks, no preemption; violates NoFault (see Disagreements) | to the violation |
| `process_wait` | two threads, four pages, one exit code, with fairness; violates WaitReturns (see Disagreements) | to the violation |

**Bounds.** `MaxPreempt` bounds the time slices that run out; two suffice to put a thread
into the window of another operation and to bring a third thread into that window. Three
client threads give a holder, a waiter and a thread that overtakes it; two locks give a
chain of donation. `MaxValue` bounds how far a semaphore is raised. `MaxTicks` bounds the
clock; every nap ends within it. A ring of three tracks with three carts contains the
shortest cycle of waits; the proofs cover every other size. Five pages and four threads let
a child execute programs too and make a process page the victim of reuse; with four pages
the pool runs out at every allocation. Two slots for three sectors force eviction, of dirty
slots too, by two threads at once. Twelve sectors are filled by two files with indirect
blocks, and by the root directory, which has one entry at first and grows with the next
file. In `programs` arrays have up to five numbers (one more than a page has ints), the
pager four pages and up to three frames, the scheduler three threads, quanta of one and two
ticks and three ticks of time (`ByPolicy` and `WaitExact` are proved for any), the
file manager three descriptors and a buffer of two bytes, directories four entries and the
spacer nine bytes, which two columns of the tree without bars fit and others do not. In
`machine` queues hold two bytes, a disk has four sectors with numbers modulo eight, the pool
three pages, the hash table grows from two buckets to four and back, an address space has
four pages of two bytes (with memory for two processes, and with too little at every
allocation), words have four bits, lists up to five elements and command lines up to five
characters.

**Deadlock** is checked in the kernel, alarm and program runs: there a halted kernel, a
faulting thread and a finished program have a stuttering step of their own (`Stuck`, `Stop`,
`Over`); for the cart manager `NoDeadlock` says the same as a state predicate. It is not
checked in `processes` and `process_exec` (a machine on which every process has ended, or
waits as `process_wait` shows, stops), `buffer_cache` (the machine is switched off after
`buffer_cache_close()`), `filesystem` (a kernel that panicked), `process_wait`, and `machine`
(the bounds on calls end a behaviour). That nobody waits for ever there is part of DiskExact,
ConsoleExact and RoundRobinSound, stated on states.

**Fairness** is assumed in three modules. `Alarm`: the timer keeps interrupting and its
handler runs to its end (it runs with interrupts off), a thread on the processor executes its
next statement. The carts of `Programs`: weak fairness for every thread's next step, as the
operating system schedules every runnable thread and `cross()` returns. Weak fairness is
enough although `sem_wait()` may be disabled and enabled again: only finitely many carts
arrive. `Processes`: weak fairness for a thread's steps inside the kernel, as the round-robin
scheduler gives every ready thread its slice, and strong fairness for the end of user
programs: a program that loops for ever rightly keeps its parent waiting. The other programs
of `Programs`: weak fairness for the main program and each thread or child of `manpage` and
the sorts, which the operating system schedules. The Lab 2 kernel runs check safety only: the
priority scheduler promises no thread progress while a higher-priority one runs.

**Scope of the conditional properties.** `LinkedOnce` speaks of executions in which no time
slice has run out: with preemption the check of `list_contains()` and the `list_push_back()`
that follows are not atomic, and the model reaches corrupted lists. `RunsHighest` is what
client code can rely on whose threads do not contend for locks (`Uncontended`: nobody calls
`lock_acquire()` or `condvar_wait()`, and only one thread creates others, so that `tid_lock`
is free when it is wanted). With contention it fails: a `lock_release()` that finds its
donator preempted on the way to `semaphore_down()` gives the donation back and, the waiters'
list being empty, wakes nobody and does not yield. `WokenOnTime` and `Wakes` exempt
executions in which an insertion was interrupted, for the same reason: a torn insertion can
lose sleepers. `NeverBelowBase` exempts the step of `thread_set_priority()` itself, which
while a donation is in force changes only `priority_old`, and executions in which a time
slice has run out: a thread preempted between the comparison at `lock.c:93` and `donate()`
may lower a holder whose priority has been raised meanwhile. `ExecReturns` exempts children
that themselves hang in `process_wait()`. `StatusDelivered` says which answers a child
without `sys_exit()` may get; that they are not -1 is `KilledAnswered`, violated.
`SurvivesReboot` exempts a device that has been full from keeping its free map (`Boots`,
violated). `VictimByPolicy` counts uses since the last fetch for LFU (`InfiniteHistory`,
violated). `FilesSafe` exempts calls in which a failed `open()` or `lseek()` went unnoticed
(`ExistingRefused` and `AppendsAtEnd`, violated), and `ViewsFaithful` trees in which a path
is cut to the name of another directory (`ShownOnce`, violated). `ConsoleExact` speaks of
what is left of the console when a reader has failed its assertion, too (`ReadersSleep`,
violated). `DiskExact` exempts writes after an uncaused interrupt from being on the disk at
their return, and commands given when the driver waited for an idle controller in vain.
`SortRight` names the array sizes at which the short shared memory faults.

## Disagreements

Each of these properties states what a comment, an assertion or a test of the repository
says, and the code violates it. Two are checked by runs, `donation_fault` (NoFault) and
`process_wait` (WaitReturns). The others are definitions of the modules that no run lists: a
configuration that has the one property, instead of those of the run it is taken from, makes
TLC show a shortest execution that violates it. The second column names that configuration and
what is changed in it.

| Property | Configuration | What the code does | What it disagrees with |
|---|---|---|---|
| `NoFault` | `donation_fault.cfg`, a run | `donate()` goes on to the lock in the `blocker` of a thread that has been woken but has not taken it yet, while nobody holds it: a null holder is read (`lock.c:199`), without any preemption | `lock.c:67` "Acquires LOCK, sleeping until it becomes available if necessary" |
| `BlockerCurrent` | `donation_fault.cfg` | `blocker` (`lock.c:94`) is never cleared: a thread that has had a lock and given it back still names it, and a donation follows it | the same |
| `HolderStays` | `donation_fault.cfg`, MaxPreempt = 1 | `lock->holder` is tested at `lock.c:83` and read again later with interrupts on; the holder may release in between | the same |
| `NoPanic` | `kernel_monitor.cfg`, MaxPreempt = 0 | `condvar.c:109` sorts by the thread at the front of each waiter's semaphore, whose list is empty until the waiter has blocked: an assertion fails for a signal between two steps of `condvar_wait()` | `condvar.c:92`, which promises to wake one waiter |
| `NoInversion` | `donation_fault.cfg`, Thread = {Idle, Main, A}, Lock = {tid_lock, lockA}, NewPriorities = {1, 3}, CreatePriorities = {3} | `thread.c:423` recognises a donation by `priority_old` being different from `priority`; after one call of `thread_set_priority()` with the donated value the next one lowers the holder at once | the test priority-donate-lower1: "should not take effect until the donation is released" |
| `NoInversion` | `donation_fault.cfg`, Priorities <- TwoLevels, Calls <- NestingCalls, NewPriorities = {}, CreatePriorities = {1, 2} | `lock.c:94` sets `blocker` only in a waiter that donates; a waiter with the holder's own priority has none, so a donation it gets later does not travel on | the test priority-donate-nest: "thread H donates its priority to M, which in turn donates it to thread L" |
| `NoCrash` | `alarm.cfg` | a tick between the insertion into the list and `thread_block()` unblocks a running thread, an assertion | the test alarm-negative: "Only requirement is that it not crash" |
| `WaitReturns` | `process_wait.cfg`, a run | the child raises `parent_lock` once, which `process_execute()` takes; the second `semaphore_down()` returns only when the page it points to has been freed meanwhile | `process.c:229` "Waits for thread TID to die and returns its exit status" |
| `KilledAnswered` | `process_wait.cfg`, MaxProc = 3 | a child that ends without `sys_exit()` (its file does not load, its system call is unknown) writes no `child_exit`; the answer is 0 or an earlier child's code | `process.c:229` "terminated by the kernel ... returns -1" |
| `Boots` | `filesystem.cfg` | `inode.c:467` does not look at the result of `free_map_allocate()`: on a full device the zeros for an indirect block are written to sector 0, the free map's inode, and the next boot fails | `inode.c:466` "allocate it, and fill with zero" |
| `LongRefused` | `filesystem.cfg`, NSectors = 14, SectorSize = 1, Words = {7}, Sizes = {1}, InitialSizes = {0, 3} | a write beyond the doubly indirect block fails the assertion at `inode.c:527` | `inode.c:320` "may be less than SIZE if end of file is reached or an error occurs" |
| `BadFdRefused` | `filesystem.cfg` | the null entry of a descriptor that is not open is handed to `file_write()` | the test write-bad-fd: "must either fail silently or terminate the process with exit code -1" |
| `ZeroWriteKeeps` | `filesystem.cfg`, Names = {"sample"}, Words = {7}, Sizes = {0, 3}, InitialSizes = {3}, NSectors = 9, MaxRefs = 1, MaxChanges = 3 | `inode.c:336` computes offset + size - 1 = -1 for an empty write at the start of a file, takes it for a position beyond the end and sets the length to 0 | the test write-zero: "should return 0 without writing anything" |
| `InfiniteHistory` | `programs.cfg` | `frequency` is lost with the record of a page that is taken out (`pager.c:126`) | `simulator.h:24` "LEAST_FREQUENTLY_USED, // Infinite history" |
| `ExistingRefused` | `programs.cfg` | when the `open()` that tests for a file fails for another reason, `creat()` empties the file and the call reports success | `fileman.c:90` "-1 on error or if FILE already exists" |
| `AppendsAtEnd` | `programs.cfg` | a failed `lseek()` (`fileman.c:138`) goes unnoticed and the start of the file is overwritten | `fileman.c:126` "Append SIZE bytes from BUF to existing FNAME" |
| `ShownOnce` | `programs.cfg` | a path cut by `snprintf()` (`fileman.c:241`) names another directory, which is listed again | `fileman.c:254` "a hierachival directory view" |
| `ReadersSleep` | `machine.cfg` | a second reader of the console gets the lock when a byte is there already, and fails the assertion of `wait()` (`intq.c:91`) | `intq.c:34` "If Q is empty, sleeps until a byte is added" |
| `MemmoveReturnsDst` | `machine.cfg` | `memmove()` returns the pointer it has moved on (`string.c:45`) | `string.c:21` "Returns DST" |
| `OneWordRemainder` | `machine.cfg` | `umod64()` returns 32 bits (`arithmetic.c:131`) | `arithmetic.c:129` "Divides unsigned 64-bit N by unsigned 64-bit D and returns the remainder" |
| `MallocHolds` | `machine.cfg` | the number of pages wraps around for sizes close to 2^32 (`malloc.c:107`): one page is returned | `malloc.c:86` "a new block of at least SIZE bytes" |
| `CallocHolds` | `machine.cfg` | the check at `malloc.c:161` misses products that wrap around to more than both factors | `malloc.c:151` "allocates and return A times B bytes" |

Smaller observations made while modelling, without a property:

* Two more ways to break `NoInversion`: a waiter that loses the race for a released lock
  sleeps again and does not donate to the new holder; and `lock.c:91` overwrites
  `lock->donator` with a waiter of lower priority, so that a release of another lock computes
  the remaining donation from the wrong thread (seen with seven threads).
* `sys_open()` (`syscall.c:143`) advances `max_fd` twice and stores without a bound check; the
  model ends in `halted = "beyond the table"`. `sys_close()` and `process_exit()` never close
  the file, so a removed file's sectors stay taken. `dir_create()` (`directory.c:80`) writes
  an entry with an uninitialised `in_use` (`StackByte`).
* `ide.c:514`: `expecting_interrupt` is never reset; `wait_until_idle()` (`ide.c:435`) gives up
  after its loop and the command is issued anyway.
* `partition.c:91` reads sector 0 whatever sector it was asked for, so that an extended
  partition makes the scan go on for ever (`EndlessTable`).
* The month arithmetic of `rtc.c:85` is off for some dates.
* An empty command line leaves `argv[0]` unset; a long one overflows the stack page in
  `push_command()`.
* `thread_set_priority()` during a donation changes `priority_old` only; `thread_unblock()`
  puts a thread ahead of its equals; `waketime` is an int while ticks have 64 bits; with a
  single track the cart manager would lock one semaphore twice.

## Proofs

Each proof module states its inductive invariant (`IInv` unless named otherwise), proves
that the first states satisfy it and that every action keeps it, one lemma per action, and
derives the properties. All invariants were first checked by TLC on the runs' instances.
The theorems hold for every value of the constants that satisfies the assumptions of the
modules; a theorem about a property states it in the very form in which a run checks it.

| Theorem | Property | Inductive invariant |
|---|---|---|
| `KernelTypes`, `KernelLockExclusion`, `KernelDonatorAlive`, `KernelNoLostWakeup`, `KernelWaitersKept`, `KernelNoOvertaking`, `KernelNeverBelowBase` | `TypeOK`, and the properties of the three kernel runs | `IInv` |
| `KernelLinkedOnce` | `LinkedOnce` | `IInv` and `LinkOK` |
| `KernelRunsHighest`, assuming `Uncontended` | `RunsHighest` | `IInv`, `FreeOK` and `OrderOK` |
| `AlarmNeverEarly` | `NeverEarly` | `Base` |
| `AlarmWokenOnTime` | `WokenOnTime` | `Base` and `ListOK` |
| `ProcessParentAlive`, `ProcessStatusDelivered` | `ParentAlive`, `StatusDelivered` | `IInv`, for the second also `CodesOK` |
| `CacheOneSlot`, `CacheClosedClean` | `OneSlot`, `ClosedClean` | `IInv` |
| `CacheImplementsBlockStore` | `ImplementsBlockStore`, the refinement | `IInv`, as what the mapping needs |
| `ManPageCorrect` | `ManPageRight` | `IInv` |
| `SchedWaitExact` | `WaitExact` | `SchedInv` |
| `SchedByPolicy` | `ByPolicy`, a property of steps | `SchedInv`, `RoundInv` and `TurnInv` |
| `PagerByPolicy` | `VictimByPolicy`, a property of steps | `PagerInv` |
| `FilemanSafe` | `FilesSafe`, a property of steps | `FilesType`, and each call described by the files it ends with (`Safe`) |
| `ConsoleCorrect` | `ConsoleExact` | `ConsoleInv` |
| `RoundRobinCorrect` | `RoundRobinSound` | `ThreadInv` |
| `DiskCorrect` | `DiskExact` | `DiskInv` |
| `HeapCorrect` | `HeapSound` | `HeapInv` |
| `SpacesCorrect` | `SpacesApart` | `SpaceInv` |
| `TypeCorrect`, `SystemNeverExits`, `NothingLeftLocked`, `DeadlockFree` | `TypeOK`, `NeverExits`, `AllReturned`, `NoDeadlock` | `IInv` |

**The kernel.** `IInv` says, besides types: what each thread's stack holds at each statement
(`LocalOK`); that the run queue holds exactly the ready threads and each semaphore's list
exactly the threads asleep on it, each once (`SchedOK`); that a thread under creation is
blocked and has one creator (`CreateOK`); who owns a lock (`OwnOK`): the thread that `holder`
names, or one between `semaphore_down()` and the store to `holder`, or between clearing
`holder` and `semaphore_up()`; which stacks the queued semaphores of condition variables live
on (`CondOK`). Lock exclusion needs the last two windows: `holder` is null in both, and only
the semaphore's value, 0, keeps others out. `NoLostWakeup` is inductive only with `SchedOK`,
since an up must wake a thread that will really take the unit; the step that counts is that
each wakeup adds one unit and one awakened thread, for which the set of threads has to be
finite. `CoopOK` is the part that holds without preemption: nothing comes between the
comparison and the donation. `LinkOK` relates `donator` to the list the lockelem is on, and
exempts the one thread that is just changing both. `OrderOK` says that a ready thread has a
higher priority than the running one only where that is about to yield (`"setyield"`,
`"created"`). `NoOvertaking` is a property of steps and rests on `ListSortStable`: the queue
is sorted by a stable sort and read from its end. (That lemma unfolds the definition of
`list_sort()`; that the merge of `list.c` gives this order is checked in `Library`, not
proved.) Assumptions: `ThreadAssumption` (finitely many threads, priorities within 0..63, null
distinct from threads and labels), `SemaAssumption`, `CondAssumption`, `KernelAssumption`. Any
client code is allowed that calls operations whose assertions hold; `Uncontended` is a
hypothesis of `KernelRunsHighest` only.

**The alarm clock.** `Base` (no pointer the code follows is null, the run queue is sound)
holds whatever the interrupts do. `ListOK` is conditional on no insertion having been torn:
there is then a numbering of the elements that grows by one along `next` and falls along
`prev`; the handler's walk has passed exactly the elements of lower number, and none of
these is due. A removal during the walk is an update of the numbering.

**Processes.** A child whose `process_exit()` is still to come has its parent in
`process_execute()`, past `thread_create()`, with the semaphore in the child's own page at 0
(`FamilyOK`). This is what makes the unchecked `parent` pointer of `sys_exit()` safe and what
makes one `child_exit` field enough for children that call `sys_exit()`. It is inductive
because each page has one owner (`PagesOK`): no allocation, free or `semaphore_down()` through
a stale `child_lock` changes the semaphore of a living child. `WaitersOK` keeps the woken
threads apart from the dying one; `ToldOK` and `ResultOK` carry the status from `sys_exit()`
to the answer of `process_wait()`, which is only given when the child has announced its end.
For a child that ends without `sys_exit()` nothing is carried: `CodesOK` says that
`child_exit` never holds anything but 0, -1 and what children of the same parent have left,
for which parents must not change (`ParentStays`, `CodesStep`). The smallest free page and the
next thread exist by the well-foundedness of the numbers.

**The buffer cache.** Only the holder of the lock is inside (`Mutex`); a sector that is being
looked for is in no slot until one is claimed; a filled slot that is not dirty agrees with
the disk (`CleanInv`). For the refinement each action is shown to be a step of `BlockStore`
or to leave the mapped store alone: evictions, write-backs and fills change slots and disk
but not `Store`.

**The manual page.** `ManSpec` is the program on its own, as `Programs` runs it. One token is
passed on: the thread that shows or is to post has it, or the semaphore of the next
paragraph. The counting argument is that all paragraphs shown means all handed out, so that
no thread can still be on its way when the semaphores are destroyed. Any number of
paragraphs from two up is covered.

**The scheduler of Assignment 4.** `SchedSpec` is the scheduler with any algorithm and any
quantum. A thread is in one place (`QueueOK`), and `Sums` gives the meaning of the wait
field: the time is subtracted when a wait begins and added when it ends, so that wait plus
the present time, for a thread that waits, is what it has waited. The sort and the dispatch
inside `tick()` keep this for any order in which `queue_sort()` leaves equals. For round robin
`RoundInv` adds that a thread at place i of the queue has at most i - 1 full quanta and the
rest of the running thread's before it. For FCFS and round robin `TurnInv` says that nobody in
the queue has been ready for longer than those before it, so that its first has waited longest.
`SchedulerAssumption` asks for finitely many threads.

**The pager of Assignment 5.** `VictimByPolicy` speaks of the history of requests, the code
of the queue and what its records hold; `PagerInv` joins the two. The queue fits into the
frames and has no page twice; every page in it was fetched; and, for the algorithm that
runs, the queue is in the order of the fetches, `last_request` is the latest use, or
`frequency` counts the uses since the fetch (`Remembers`). A request moves the latest use of
its own page and of no other (`UseOfNext`, `FetchOfNext`, `UsesOfNext`). `queue_sort()` may put
the records in any order its comparator allows (`Shuffled`): the first is then the least, as
`freq_comparator()` never puts a higher frequency before a lower one, though it orders equal
ones by the time of their use. The rotation of the clock algorithms keeps the pages and
brings the first unmarked one to the front, or the first of all (`Rotated`).

**The file manager.** `fileman_read()` and the views write no file. The writing calls are
loops of `read()` and `write()`, each of which may fail or write less; a call's result is one
of its possible ends. The proof shows that each such end keeps every file that existed as a
prefix of itself, and that a copy which reports n bytes has made a new file of n bytes, except
where the last write fell short and the code does not notice (`called.full`), and, in both,
where it does not notice a failed `open()` or `lseek()` (`called.mishap`): the calls that did
are named by the property and not left out of the program.

**The console.** The two histories are what makes the properties inductive: `taken` is what the
readers got and then the buffer, `written` is what was sent and then the queue. A reader
between being woken and taking its byte still has the lock (`InputOK`), which is why one waiter
slot is enough. `OutputOK` numbers the bytes, so that a byte whose writer waits for room is
seen to be put once. `ArmedOK` says that the interrupt enable register is up to date.

**Lab 3 threads.** `CoreOK` is what the scheduler keeps: the ready list holds exactly the
ready threads, each once, and a thread at place i of it has waited so long that i - 1 full
slices and the rest of the running one end within the bound. `CallType` says that what a
thread has still to do is the rest of some call (`IsPlan`), so that a proof about a step knows
what follows it. `WaitersOK` says who sleeps and why: on the one semaphore it is about to try
again, or because it is being created, by exactly one thread. `LockOK` follows a lock's unit
through the steps in which `holder` does not name its owner. `UnitsOK` is that no unit lies
unused before sleepers; it counts the woken threads, hence finitely many threads. `SignalOK`
says that the signal for a waiter is in one place: its semaphore is queued, or somebody is
about to raise it, or it has its unit. The number of ready threads, and with it the length of
the ready list, is bounded because the list has no repetitions. `RoundRobinAssumption` keeps
the names of the kernel's own semaphores apart from the threads', which name
`condvar_wait()`'s.

**The disks.** `HoldOK` is that one request at a time is past the lock, and that while disks are
being identified, without the lock, nobody else asks for anything (`BootOK`). So the device
works on the command of the one request that is past `issue_pio_command()` (`CommandOK`), and
the last words sent to the disk are on it but for the sector of a write that is not
finished (`MediaOK`). A request that waits for an interrupt finds the device at work, the
interrupt pending, or a unit in `completion_wait`: this is why `select_sector()`, which clears
pending interrupts, loses none. An uncaused interrupt may leave a unit too many for ever, as
the driver never stops expecting interrupts; `CommandOK` holds all the same, because
`wait_while_busy()` looks at the device before any data are moved. `Exact` is what holds besides
as long as there was none: each interrupt is consumed by the request that caused it, and who
returns leaves the device idle. `HoldOK` also says that if threads wait for a free lock one
has been woken that is not in the queue. Partitions rest on `FoundInside`: both the start of
a partition and its end are below the modulus, so that their sum wraps once at most, and the
test `start + size < start` catches this. `DiskAssumption` asks for disks and table entries
within the range of `block_sector_t`, and for somebody who runs `ide_init()`.

**The allocators.** The invariant `HeapInv` gives every page one use: a thread has claimed it
(it was taken from the bitmap and is not an arena yet, or is being given back), it is an
arena, or it lies in a big block. `World` relates the claims, the blocks in threads' hands
(those they have, and the one that `free()` is about to put back), the bitmap, the headers,
the free lists and the marks; its lemmas (`TakeWorld`, `ArenaWorld`, `PutWorld`, `DropWorld`,
...) say what each change of malloc.c and palloc.c does to it, whatever the threads. Pages are
freed without the pool's lock: a thread that has found free pages still flips free ones,
because whoever has no lock only resets bits (`CallOK` for "flip"), and the pages reset are
claimed by one thread alone, so that bitmap_set_multiple() resets nobody else's. The lock of
the descriptor is held while the page of its last arena is freed, so that an empty free list
stays empty until the new arena's blocks join it. `free_cnt` is the number of blocks in
nobody's hands (`CountOK`): it reaches `blocks_per_arena` exactly when all are in the free
list, hence the loop of `list_remove()` finds each of them. Descriptors are positive numbers
and an arena of each has at least one block (`HeapAssumption`).

**The address spaces.** `SpaceSpec` is `AddressSpaces` by itself. `SpacesApart` compares the
sets of pages of two processes, which no step keeps by itself; `SpaceInv` says instead where
each page is. Every kernel page in use is in one place, a page directory (also the one that
`process_exit()` is taking down) or an entry of one, and every user page in use is in one page
table entry or in the variable `kpage` of one load (`Memory`, `Occupied`). A step takes a
page, moves it or gives it back: the lemmas `OccupyMore`, `HeldMoved`, `TableLess` and their
like say what each does to the map, whatever the processes. That no page is left in the end
follows at once: nobody has a place for it. `CpuOK` is why `process_exit()` clears the pointer
first: the processor has the directory of the running process, but never one that is being
freed, and its cache holds only entries of that directory, because nobody but the running
process changes them and a process removes none before it has activated the kernel's. `LoadOK`
follows `load_segment()`: `read_bytes` and `zero_bytes` are what is left of the segment
counted from the start of the present page (`SegmentAt`), so that each page gets the right
bytes of the file; a page that is mapped once is not mapped again, so later segments and the
stack leave it as it is. `validate_segment()` is needed twice: the sum that wraps around, and
the page below which the stack is. Assumptions (`SpacesAssumption`): some process, positive
sizes, program headers of 32-bit numbers, and the user's addresses below the modulus.

**The cart manager.** `IInv` says which semaphores a thread has (`Locked`) and which
junctions its cart has reserved (`Reserved`), given where the thread is, and that a
semaphore is 0 exactly when one thread has it. That `reserve()` finds its junction free
follows from every reserved junction being locked by the thread that reserved it. Deadlock
freedom is the classical argument: among the threads that wait for their second junction
take one whose second junction is highest; the thread that has it waits for a higher one.
The assumption is `CartmanAssumption`: any carts, any number of tracks from two up.

**Only model-checked.** The liveness properties (`EveryCartCrosses`, `Wakes`, `ExecReturns`,
`ProgramsEnd`): liveness under fairness is outside what the prover supports. `LibraryRight`,
`SortRight`, `ViewsFaithful` and `HashFaithful`: what recursive operators compute needs
induction over data, which the installed provers cannot do. `NoSharing`, `SurvivesReboot` and
`ImplementsFiles` of the file system: no proof yet.

## Not modelled

* Three copies: Labs 1, 2 and 3 contain the same devices, library, allocators and most of
  `threads/` line for line. Each is modelled once, from Lab 3 (from Lab 2 and Lab 1 where the
  lab's own work is), so most lines of the other two copies have no definition of their own.
* Boot (`loader.S`, `start.S`, `init.c`), printing (`stdio.c`, `console.c`, `vga.c`), the clock
  chip (`rtc.c`), debugging aids and statistics: straight-line code, formatting, or state
  that nothing reads.
* `vm/` of Lab 3: the lab's kernel is built in `userprog/`, whose `Make.vars` leaves it out;
  and the accessed and dirty bits of page tables, which only `vm/` reads.
* The shell scripts, tests, user programs under `examples/` and the supplied archives, which
  are modelled as far as the sources use them (definitions marked external).

## Plan

1. Done: the Lab 2 kernel, the alarm clock, the cart manager and its proofs; processes,
   buffer cache and file system with their refinements; the programs of the assignments;
   the machine below processes and files.
2. Done: proofs of every safety property of the Lab 2 kernel, the alarm clock, processes,
   the buffer cache and its refinement, the manual page, the cart manager, the scheduler,
   the pager, the console, the disks, the allocators, the address spaces and Lab 3's threads, and
   of what the file manager does to files.
3. Next proofs: the separation of sectors in `FileSystem`.
