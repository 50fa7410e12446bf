------------------------------- MODULE Threads -------------------------------
(***************************************************************************)
(* threads/thread.c of Lab 2: the thread table, the priority run queue and *)
(* the operations that move a thread between its states.                   *)
(*                                                                         *)
(* The machine has one processor, so only the thread `running' takes       *)
(* steps.  An atomic step is a stretch of code that runs with interrupts   *)
(* disabled, or one statement of code that runs with them enabled; between *)
(* two steps the timer interrupt may preempt the thread (Tick).            *)
(***************************************************************************)
EXTENDS ListOps

CONSTANTS
    Thread,        \* every thread that can exist, the idle thread included
    Idle,          \* idle_thread
    Main,          \* initial_thread
    NULL,          \* the null pointer
    Priorities,    \* the priorities used, all within PRI_MIN .. PRI_MAX
    InitPriority,  \* the priority of each thread of the initial state
    InitReady,     \* the threads Main has already created, as queued
    MaxPreempt     \* bound: number of time slices that run out

ASSUME ThreadAssumption ==
    /\ IsFiniteSet(Thread)
    /\ Idle \in Thread /\ Main \in Thread /\ Idle # Main
    /\ NULL \notin Thread \cup {"user", "tid", "unblock", "await"}
    /\ Priorities \subseteq 0 .. 63
    /\ InitPriority \in [Thread -> Priorities]
    /\ InitReady \in Seq(Thread \ {Idle, Main})
    /\ \A i, j \in DOMAIN InitReady : InitReady[i] = InitReady[j] => i = j
    /\ \A i \in DOMAIN InitReady :
          InitPriority[InitReady[i]] <= InitPriority[Main]
    /\ MaxPreempt \in Nat

VARIABLES
    running,       \* the thread whose stack the processor is on
    status,        \* struct thread: status ("UNUSED" before thread_create)
    priority,      \* struct thread: priority
    priority_old,  \* struct thread: priority_old, the priority before donation
    ready_list,    \* the run queue
    preempts,      \* time slices used up so far
    halted,        \* "no", "panic" (failed ASSERT), "corrupt" (list undefined)
    (* The kernel stack of each thread: where it is and its parameters. *)
    pc,            \* the statement the thread is at
    ret,           \* the statement lock_acquire()/lock_release() return to
    lk,            \* their parameter `lock'
    sm,            \* the parameter `sema' of semaphore_down()
    loc,           \* donate()'s parameter; the priority to be restored
    arg            \* the parameter of the operation the thread called

schedVars == <<running, status, ready_list>>
prioVars == <<priority, priority_old>>
lockArgs == <<ret, lk, sm, loc>>
threadVars == <<running, status, priority, priority_old, ready_list, preempts,
                halted, pc, ret, lk, sm, loc, arg>>

Status == {"UNUSED", "RUNNING", "READY", "BLOCKED", "DYING"}

ThreadInit ==
    /\ running = Main
    /\ status = [t \in Thread |-> IF t = Main THEN "RUNNING"
                                  ELSE IF t = Idle THEN "BLOCKED"
                                  ELSE IF Contains(InitReady, t) THEN "READY"
                                  ELSE "UNUSED"]
    /\ priority = InitPriority
    /\ priority_old = InitPriority
    /\ ready_list = InitReady
    /\ preempts = 0
    /\ halted = "no"
    /\ pc = [t \in Thread |-> IF t = Idle THEN "idle" ELSE "user"]
    /\ ret = [t \in Thread |-> NULL]
    /\ lk = [t \in Thread |-> NULL]
    /\ sm = [t \in Thread |-> NULL]
    /\ loc = [t \in Thread |-> NULL]
    /\ arg = [t \in Thread |-> NULL]

-----------------------------------------------------------------------------
(* Thread t is on the processor, at statement l. *)
At(t, l) == halted = "no" /\ running = t /\ pc[t] = l

Goto(t, l) == pc' = [pc EXCEPT ![t] = l]

(***************************************************************************)
(* A dereferenced null pointer faults.  The page fault has no handler:     *)
(* unexpected_interrupt() returns and the instruction faults again, so the *)
(* thread never gets past it but can still be preempted.                   *)
(***************************************************************************)
Fault(t) == Goto(t, "fault")

(***************************************************************************)
(* schedule(), next_thread_to_run() and thread_schedule_tail().  st and rl *)
(* are the states and the run queue once the current thread has left the   *)
(* RUNNING state.  The queue is sorted and its last thread runs next; the  *)
(* idle thread, never queued, runs when there is no other.                 *)
(***************************************************************************)
Schedule(st, rl) ==
    LET sorted == list_sort(rl, priority)
        next == IF rl = <<>> THEN Idle ELSE Last(sorted)
    IN  /\ running' = next
        /\ status' = [st EXCEPT ![next] = "RUNNING"]
        /\ ready_list' = IF rl = <<>> THEN rl ELSE Front(sorted)

(* thread_yield() by t, given the states and the run queue at its call *)
thread_yield(t, st, rl) ==
    Schedule([st EXCEPT ![t] = "READY"],
             IF t = Idle THEN rl ELSE PushFront(rl, t))

(* thread_block() by t *)
thread_block(t) == Schedule([status EXCEPT ![t] = "BLOCKED"], ready_list)

(* the run queue and the states after thread_unblock(w) *)
QueueWith(w) == Append(ready_list, w)
StatusWith(w) == [status EXCEPT ![w] = "READY"]

-----------------------------------------------------------------------------
(* thread_yield() called by a thread's own code *)
Yield(t) ==
    /\ At(t, "user")
    /\ thread_yield(t, status, ready_list)
    /\ UNCHANGED <<prioVars, preempts, halted, pc, lockArgs, arg>>

(***************************************************************************)
(* timer_interrupt(), thread_tick() and the tail of intr_handler(): the    *)
(* time slice of the current thread runs out and it yields.  A tick that   *)
(* does not end the slice changes nothing here.  Interrupts are disabled   *)
(* when thread_block() returns to semaphore_down(), at "woken".            *)
(***************************************************************************)
Tick(t) ==
    /\ halted = "no" /\ running = t
    /\ pc[t] \notin {"woken", "idle"}
    /\ preempts < MaxPreempt
    /\ preempts' = preempts + 1
    /\ thread_yield(t, status, ready_list)
    /\ UNCHANGED <<prioVars, halted, pc, lockArgs, arg>>

(***************************************************************************)
(* idle(): an interrupt ends hlt and the idle thread lets someone else     *)
(* run.  With no thread ready it is scheduled again.                       *)
(***************************************************************************)
IdleStep ==
    /\ At(Idle, "idle")
    /\ thread_block(Idle)
    /\ UNCHANGED <<prioVars, preempts, halted, pc, lockArgs, arg>>

(* thread_exit() *)
Exit(t) ==
    /\ At(t, "user")
    /\ Goto(t, "exited")
    /\ Schedule([status EXCEPT ![t] = "DYING"], ready_list)
    /\ UNCHANGED <<prioVars, preempts, halted, lockArgs, arg>>

(***************************************************************************)
(* thread_set_priority(): the test for a donation, the two assignments,    *)
(* and the comparison with the run queue.  list_max() of an empty queue    *)
(* returns its tail, which is in no thread: what is compared is undefined. *)
(***************************************************************************)
SetPriority(t, p) ==
    /\ At(t, "user")
    /\ Goto(t, IF priority_old[t] = priority[t] THEN "setboth" ELSE "setold")
    /\ arg' = [arg EXCEPT ![t] = p]
    /\ UNCHANGED <<schedVars, prioVars, preempts, halted, lockArgs>>

SetBoth(t) ==
    /\ At(t, "setboth")
    /\ priority' = [priority EXCEPT ![t] = arg[t]]
    /\ priority_old' = [priority_old EXCEPT ![t] = arg[t]]
    /\ Goto(t, "setyield")
    /\ UNCHANGED <<schedVars, preempts, halted, lockArgs, arg>>

SetOld(t) ==
    /\ At(t, "setold")
    /\ priority_old' = [priority_old EXCEPT ![t] = arg[t]]
    /\ Goto(t, "user")
    /\ arg' = [arg EXCEPT ![t] = NULL]
    /\ UNCHANGED <<schedVars, priority, preempts, halted, lockArgs>>

MustYieldTo(rl, p) == \E i \in DOMAIN rl : p < priority[rl[i]]

SetYield(t) ==
    /\ At(t, "setyield")
    /\ \E yields \in BOOLEAN :
          /\ ready_list # <<>> => yields = MustYieldTo(ready_list, arg[t])
          /\ IF yields THEN thread_yield(t, status, ready_list)
                       ELSE UNCHANGED schedVars
    /\ Goto(t, "user")
    /\ arg' = [arg EXCEPT ![t] = NULL]
    /\ UNCHANGED <<prioVars, preempts, halted, lockArgs>>

-----------------------------------------------------------------------------
(***************************************************************************)
(* thread_create(): init_thread() makes the thread BLOCKED, allocate_tid() *)
(* takes and releases tid_lock, thread_unblock() queues the thread, and    *)
(* then, with interrupts enabled, its priority is compared with the        *)
(* creator's.  By then the new thread may have exited and been freed: the  *)
(* outcome of that comparison is undefined.                                *)
(***************************************************************************)
Create(t, c, p, tid_lock) ==
    /\ At(t, "user")
    /\ status[c] = "UNUSED"
    /\ status' = [status EXCEPT ![c] = "BLOCKED"]
    /\ priority' = [priority EXCEPT ![c] = p]
    /\ priority_old' = [priority_old EXCEPT ![c] = p]
    /\ arg' = [arg EXCEPT ![t] = c]
    /\ lk' = [lk EXCEPT ![t] = tid_lock]
    /\ ret' = [ret EXCEPT ![t] = "tid"]
    /\ Goto(t, "acquire")
    /\ UNCHANGED <<running, ready_list, preempts, halted, sm, loc>>

(* tid = next_tid++, then lock_release(&tid_lock) *)
AllocateTid(t, tid_lock) ==
    /\ At(t, "tid")
    /\ lk' = [lk EXCEPT ![t] = tid_lock]
    /\ ret' = [ret EXCEPT ![t] = "unblock"]
    /\ Goto(t, "release")
    /\ UNCHANGED <<schedVars, prioVars, preempts, halted, sm, loc, arg>>

CreateUnblock(t) ==
    /\ At(t, "unblock")
    /\ ready_list' = QueueWith(arg[t])
    /\ status' = StatusWith(arg[t])
    /\ Goto(t, "created")
    /\ UNCHANGED <<running, prioVars, preempts, halted, lockArgs, arg>>

CreateYield(t) ==
    /\ At(t, "created")
    /\ \E yields \in BOOLEAN :
          /\ status[arg[t]] # "DYING"
                => yields = (priority[t] < priority[arg[t]])
          /\ IF yields THEN thread_yield(t, status, ready_list)
                       ELSE UNCHANGED schedVars
    /\ Goto(t, "user")
    /\ arg' = [arg EXCEPT ![t] = NULL]
    /\ UNCHANGED <<prioVars, preempts, halted, lockArgs>>

=============================================================================
