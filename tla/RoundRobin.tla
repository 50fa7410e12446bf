----------------------------- MODULE RoundRobin ------------------------------
(***************************************************************************)
(* The kernel threads of Lab 3: the round-robin scheduler of its thread.c, *)
(* driven by the timer interrupt, with its semaphores, locks and condition *)
(* variables, which unlike Lab 2's know no priorities.  A thread can be    *)
(* preempted between any two steps; a step is what runs with interrupts    *)
(* off.  What a thread has still to do of its calls is a sequence of steps *)
(* (todo).  all_list, which only a debugging aid walks, is left out.       *)
(***************************************************************************)
EXTENDS Integers, Sequences, FiniteSets

CONSTANTS
    KThread, Main, Idle,   \* Main is the first thread; Idle is not in KThread
    Unheld,                \* the holder of a free lock (NULL)
    TIME_SLICE, SleepTicks,
    MaxValue,              \* how high the clients raise their semaphore
    MaxKernelCalls         \* how many calls they make

ASSUME RoundRobinAssumption ==
    /\ Main \in KThread /\ Idle \notin KThread /\ Unheld \notin KThread
    /\ IsFiniteSet(KThread) /\ KThread \cap {"sema", "lock", "tid_lock"} = {}
    /\ TIME_SLICE \in Nat \ {0} /\ SleepTicks \in Nat

VARIABLES
    current, status, ready_list, thread_ticks,
    todo,                  \* the steps each thread has still to do
    value, waiters,        \* the semaphores
    holder,                \* the locks' holders
    cond_waiters,          \* cond->waiters: whose semaphores are queued
    asleep,                \* the ticks timer_sleep() has still to wait
    awake,                 \* an interrupt has ended the idle thread's hlt
    kcalls,                \* how many calls were made
    delay                  \* observation: ticks a thread has been ready for

threadVars == <<current, status, ready_list, thread_ticks, todo, value, waiters, holder,
                cond_waiters, asleep, awake, kcalls, delay>>

(* the clients' semaphore, the semaphore inside each lock, and the one on  *)
(* the stack of each thread that waits for the condition variable          *)
LockName == {"lock", "tid_lock"}
SemName == {"sema"} \cup LockName \cup KThread

RoundRobinInit ==
    /\ current = Main
    /\ status = [t \in KThread \cup {Idle} |->
                    IF t = Main THEN "RUNNING" ELSE IF t = Idle THEN "BLOCKED" ELSE "none"]
    /\ ready_list = <<>> /\ thread_ticks = 0
    /\ todo = [t \in KThread |-> <<>>]
    /\ value = [s \in SemName |-> IF s \in LockName THEN 1 ELSE 0]
    /\ waiters = [s \in SemName |-> <<>>]
    /\ holder = [l \in LockName |-> Unheld]
    /\ cond_waiters = <<>>
    /\ asleep = [t \in KThread |-> 0]
    /\ awake = FALSE
    /\ kcalls = 0
    /\ delay = [t \in KThread |-> 0]

-----------------------------------------------------------------------------
(* The calls, as the steps they consist of. *)
lock_acquire(l) == <<<<"down", l>>, <<"hold", l>>>>
lock_release(l) == <<<<"drop", l>>, <<"up", l>>>>
condvar_wait(t) ==
    <<<<"queue", t>>>> \o lock_release("lock") \o <<<<"down", t>>>> \o lock_acquire("lock")
thread_create(t) ==       \* once the page t was allocated and initialized
    lock_acquire("tid_lock") \o lock_release("tid_lock") \o <<<<"unblock", t>>>>

(* the client calls that thread t may make *)
Calls(t) ==
    {<<<<"down", "sema">>>>, <<<<"yield", t>>>>, <<<<"sleep", t>>>>, <<<<"create", t>>>>}
      \cup (IF value["sema"] < MaxValue THEN {<<<<"up", "sema">>>>} ELSE {})
      \cup (IF holder["lock"] = t
            THEN {lock_release("lock"), condvar_wait(t),
                  <<<<"signal", "once">>>>, <<<<"signal", "all">>>>}
            ELSE {lock_acquire("lock"), <<<<"exit", t>>>>})

(* a thread that has nothing to do makes a call; timer_sleep() reads ticks *)
KernelCall(t) ==
    /\ current = t /\ todo[t] = <<>> /\ kcalls < MaxKernelCalls
    /\ kcalls' = kcalls + 1
    /\ \E c \in Calls(t) :
          /\ todo' = [todo EXCEPT ![t] = c]
          /\ asleep' = IF c[1][1] = "sleep" THEN [asleep EXCEPT ![t] = SleepTicks] ELSE asleep
    /\ UNCHANGED <<current, status, ready_list, thread_ticks, value, waiters, holder,
                   cond_waiters, awake>>

-----------------------------------------------------------------------------
(* schedule(): next_thread_to_run(), then thread_schedule_tail() in the    *)
(* thread it has switched to, for the statuses st and the queue q          *)
Schedule(st, q) ==
    LET next == IF q = <<>> THEN Idle ELSE Head(q)
    IN /\ current' = next
       /\ status' = [st EXCEPT ![next] = "RUNNING"]
       /\ ready_list' = IF q = <<>> THEN q ELSE Tail(q)
       /\ thread_ticks' = 0

SameThread == UNCHANGED <<current, thread_ticks>>

(* thread_unblock(), for the status and the queue as they were *)
thread_unblock(t) ==
    /\ status' = [status EXCEPT ![t] = "READY"]
    /\ ready_list' = Append(ready_list, t)

(* variant: the thread that yields goes to the front of the queue *)
YieldToFront(st, q, t) ==
    Schedule([st EXCEPT ![t] = "READY"], IF t = Idle THEN q ELSE <<t>> \o q)

(* thread_yield() in thread t; the idle thread is never queued *)
thread_yield(st, q, t) ==
    Schedule([st EXCEPT ![t] = "READY"], IF t = Idle THEN q ELSE Append(q, t))

Next1(t, op) == current = t /\ todo[t] # <<>> /\ Head(todo[t])[1] = op
Arg(t) == Head(todo[t])[2]
Done(t) == todo' = [todo EXCEPT ![t] = Tail(@)]

(* semaphore_down(): with no unit the thread sleeps; when it runs again it *)
(* tries again, still with interrupts off (a "retry")                      *)
semaphore_down(t) ==
    /\ Next1(t, "down") \/ Next1(t, "retry")
    /\ LET s == Arg(t) IN
       IF value[s] = 0
       THEN /\ waiters' = [waiters EXCEPT ![s] = Append(@, t)]
            /\ Schedule([status EXCEPT ![t] = "BLOCKED"], ready_list)
            /\ todo' = [todo EXCEPT ![t][1] = <<"retry", s>>]
            /\ UNCHANGED value
       ELSE /\ value' = [value EXCEPT ![s] = @ - 1]
            /\ Done(t) /\ SameThread
            /\ UNCHANGED <<status, ready_list, waiters>>
    /\ UNCHANGED <<holder, cond_waiters, asleep, awake, kcalls>>

(* semaphore_up() of s *)
Up(s) ==
    /\ value' = [value EXCEPT ![s] = @ + 1]
    /\ IF waiters[s] = <<>> THEN UNCHANGED <<waiters, status, ready_list>>
       ELSE /\ thread_unblock(Head(waiters[s]))
            /\ waiters' = [waiters EXCEPT ![s] = Tail(@)]

semaphore_up(t) ==
    /\ Next1(t, "up")
    /\ Up(Arg(t))
    /\ Done(t) /\ SameThread
    /\ UNCHANGED <<holder, cond_waiters, asleep, awake, kcalls>>

(* lock->holder is set after the semaphore was taken and cleared before it *)
(* is raised                                                               *)
SetHolder(t) ==
    /\ Next1(t, "hold") \/ Next1(t, "drop")
    /\ holder' = [holder EXCEPT ![Arg(t)] = IF Next1(t, "hold") THEN t ELSE Unheld]
    /\ Done(t) /\ SameThread
    /\ UNCHANGED <<status, ready_list, value, waiters, cond_waiters, asleep, awake, kcalls>>

(* condvar_wait() queues a new semaphore of value 0 *)
QueueWaiter(t) ==
    /\ Next1(t, "queue")
    /\ cond_waiters' = Append(cond_waiters, t)
    /\ value' = [value EXCEPT ![t] = 0]
    /\ Done(t) /\ SameThread
    /\ UNCHANGED <<status, ready_list, waiters, holder, asleep, awake, kcalls>>

(* condvar_signal() takes a semaphore off the queue and then raises it;    *)
(* condvar_broadcast() does that until the queue is empty                  *)
condvar_signal(t) ==
    /\ Next1(t, "signal")
    /\ IF cond_waiters = <<>> THEN Done(t) /\ UNCHANGED cond_waiters
       ELSE /\ cond_waiters' = Tail(cond_waiters)
            /\ todo' = [todo EXCEPT ![t] = <<<<"up", Head(cond_waiters)>>>> \o
                           IF Arg(t) = "all" THEN @ ELSE Tail(@)]
    /\ SameThread
    /\ UNCHANGED <<status, ready_list, value, waiters, holder, asleep, awake, kcalls>>

(* thread_create() begins with a page for the new thread, or returns       *)
(* TID_ERROR; it ends by making the thread ready                           *)
InitThread(t) ==
    /\ Next1(t, "create")
    /\ \/ \E u \in KThread :
             /\ status[u] = "none"
             /\ status' = [status EXCEPT ![u] = "BLOCKED"]
             /\ todo' = [todo EXCEPT ![t] = thread_create(u) \o Tail(@)]
       \/ Done(t) /\ UNCHANGED status
    /\ SameThread
    /\ UNCHANGED <<ready_list, value, waiters, holder, cond_waiters, asleep, awake, kcalls>>

UnblockThread(t) ==
    /\ Next1(t, "unblock")
    /\ thread_unblock(Arg(t))
    /\ Done(t) /\ SameThread
    /\ UNCHANGED <<value, waiters, holder, cond_waiters, asleep, awake, kcalls>>

(* a call of thread_yield(), or timer_sleep(), which yields until its time *)
(* has passed                                                              *)
YieldOrSleep(t) ==
    /\ Next1(t, "yield") \/ Next1(t, "sleep")
    /\ IF Next1(t, "yield") \/ asleep[t] > 0
       THEN thread_yield(status, ready_list, t)
       ELSE SameThread /\ UNCHANGED <<status, ready_list>>
    /\ IF Next1(t, "yield") \/ asleep[t] = 0 THEN Done(t) ELSE UNCHANGED todo
    /\ UNCHANGED <<value, waiters, holder, cond_waiters, asleep, awake, kcalls>>

(* thread_exit(); the next thread frees the page, which Main's is not *)
thread_exit(t) ==
    /\ Next1(t, "exit")
    /\ Schedule([status EXCEPT ![t] = IF t = Main THEN "DYING" ELSE "none"], ready_list)
    /\ Done(t)
    /\ UNCHANGED <<value, waiters, holder, cond_waiters, asleep, awake, kcalls>>

(* idle(): after an interrupt the idle thread lets others run; when there  *)
(* is nobody it halts again                                                *)
idle ==
    /\ current = Idle /\ awake
    /\ awake' = FALSE
    /\ Schedule([status EXCEPT ![Idle] = "BLOCKED"], ready_list)
    /\ UNCHANGED <<todo, value, waiters, holder, cond_waiters, asleep, kcalls>>

-----------------------------------------------------------------------------
InterruptsOn == \A t \in KThread : ~Next1(t, "retry")

(* intr_handler() for the timer: timer_interrupt(), thread_tick(), and, if *)
(* the time slice is over, thread_yield() on return                        *)
timer_interrupt ==
    /\ InterruptsOn
    /\ asleep' = [t \in KThread |-> IF asleep[t] > 0 THEN asleep[t] - 1 ELSE 0]
    /\ awake' = (awake \/ current = Idle)
    /\ IF thread_ticks + 1 >= TIME_SLICE
       THEN thread_yield(status, ready_list, current)
       ELSE /\ thread_ticks' = thread_ticks + 1
            /\ UNCHANGED <<current, status, ready_list>>
    /\ UNCHANGED <<todo, value, waiters, holder, cond_waiters, kcalls>>

(* the handler of a device raises the semaphore that a thread waits on *)
DeviceInterrupt ==
    /\ InterruptsOn /\ value["sema"] < MaxValue /\ kcalls < MaxKernelCalls
    /\ kcalls' = kcalls + 1
    /\ Up("sema")
    /\ awake' = (awake \/ current = Idle)
    /\ SameThread
    /\ UNCHANGED <<todo, holder, cond_waiters, asleep>>

(* n ticks pass for the threads that stay ready *)
Ticks(n) ==
    delay' = [t \in KThread |->
                IF status[t] = "READY" /\ status'[t] = "READY" THEN delay[t] + n ELSE 0]

ThreadStep(t) ==
    /\ \/ semaphore_down(t) \/ semaphore_up(t) \/ SetHolder(t)
       \/ QueueWaiter(t) \/ condvar_signal(t) \/ InitThread(t) \/ UnblockThread(t)
       \/ YieldOrSleep(t) \/ thread_exit(t)
    /\ Ticks(0)

Tick == timer_interrupt /\ Ticks(1)

IdleStep == idle /\ Ticks(0)

RoundRobinNext ==
    \/ \E t \in KThread : ThreadStep(t) \/ (KernelCall(t) /\ Ticks(0))
    \/ Tick \/ IdleStep
    \/ (DeviceInterrupt /\ Ticks(0))

-----------------------------------------------------------------------------
Occurrences(t, q) == Cardinality({i \in DOMAIN q : q[i] = t})
Waiting(t) == {s \in SemName : Occurrences(t, waiters[s]) > 0}
Creates(u, t) == \E i \in DOMAIN todo[u] : todo[u][i] = <<"unblock", t>>

(* sharedelem is on exactly the list that the thread's status names *)
OnItsList ==
    \A t \in KThread :
       /\ (status[t] = "RUNNING") <=> (current = t)
       /\ Occurrences(t, ready_list) = IF status[t] = "READY" THEN 1 ELSE 0
       /\ \A s \in SemName : Occurrences(t, waiters[s]) <= 1
       /\ Waiting(t) # {} => status[t] = "BLOCKED" /\ Cardinality(Waiting(t)) = 1
       /\ status[t] = "BLOCKED" =>
             (Waiting(t) # {}) # (\E u \in KThread : status[u] # "none" /\ Creates(u, t))

(* the threads between taking the lock's unit and giving it back *)
Inside(l) ==
    {t \in KThread : \/ holder[l] = t
                     \/ todo[t] # <<>> /\ Head(todo[t]) \in {<<"hold", l>>, <<"up", l>>}}

LockedOnce == \A l \in LockName : value[l] + Cardinality(Inside(l)) = 1

(* threads that were woken for s and have not tried again *)
Woken(s) ==
    {t \in KThread : /\ status[t] \in {"READY", "RUNNING"}
                     /\ todo[t] # <<>> /\ Head(todo[t]) = <<"retry", s>>}

NoUnitLost == \A s \in SemName : waiters[s] # <<>> => value[s] <= Cardinality(Woken(s))

(* a thread that waits for the condition variable has its semaphore queued *)
(* or raised, or somebody is about to raise it                             *)
SignalKept ==
    \A t \in KThread : waiters[t] # <<>> =>
       \/ Occurrences(t, cond_waiters) = 1
       \/ \E u \in KThread : todo[u] # <<>> /\ Head(todo[u]) = <<"up", t>>

(* No preemption, at any point of thread_create(), semaphore_down(), a     *)
(* lock or a condition variable's call, breaks the scheduler of Lab 3:     *)
(* every thread is on the one list its status names, although all lists    *)
(* share sharedelem; at most one thread is between taking and giving back  *)
(* a lock; no unit of a semaphore sits unused before sleeping waiters, and *)
(* no signal is lost; and a ready thread waits no longer than one time     *)
(* slice for each other thread, the idle thread included: devices may make *)
(* all threads ready while the idle thread has its slice.                  *)
RoundRobinSound ==
    /\ OnItsList /\ LockedOnce /\ NoUnitLost /\ SignalKept
    /\ \A t \in KThread : delay[t] <= TIME_SLICE * Cardinality(KThread)
=============================================================================
