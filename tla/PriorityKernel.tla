--------------------------- MODULE PriorityKernel ----------------------------
(***************************************************************************)
(* The thread system of Lab 2 as a whole: threads, semaphores, locks and   *)
(* condition variables under client threads that call any operation whose  *)
(* precondition (the assertions at its head) holds.                        *)
(***************************************************************************)
EXTENDS CondVars

CONSTANTS
    tid_lock,      \* thread.c's lock on next_tid
    Calls,         \* the operations the code of each thread uses
    NewPriorities, \* the arguments it gives thread_set_priority()
    CreatePriorities,  \* the priorities it creates threads with
    IntrSema       \* the client semaphores raised by interrupt handlers

ASSUME KernelAssumption ==
    /\ tid_lock \in Lock
    /\ Calls \in [Thread -> SUBSET
                   {"yield", "exit", "set_priority", "create", "down", "up",
                    "acquire", "release", "wait", "signal", "broadcast"}]
    /\ NewPriorities \subseteq Priorities
    /\ CreatePriorities \subseteq Priorities
    /\ IntrSema \subseteq ClientSema

vars == <<threadVars, semaVars, lockVars, cond_waiters>>

Init == ThreadInit /\ SemaInit /\ LockInit /\ CondInit

(* Client code uses every lock but thread.c's own. *)
ClientLock == Lock \ {tid_lock}

(* what the operations of one module leave alone in the modules above it *)
ThreadFrame == UNCHANGED <<semaVars, lockVars, cond_waiters>>
SemaFrame == UNCHANGED <<lockVars, cond_waiters>>
LockFrame == UNCHANGED cond_waiters

(* A thread does not exit while it holds a lock. *)
HoldsNone(t) == \A l \in Lock : ~Holds(t, l)

ThreadStep(t) ==
    \/ "yield" \in Calls[t] /\ Yield(t) /\ ThreadFrame
    \/ "exit" \in Calls[t] /\ HoldsNone(t) /\ Exit(t) /\ ThreadFrame
    \/ \E p \in NewPriorities :
          "set_priority" \in Calls[t] /\ SetPriority(t, p) /\ ThreadFrame
    \/ SetBoth(t) /\ ThreadFrame
    \/ SetOld(t) /\ ThreadFrame
    \/ SetYield(t) /\ ThreadFrame
    \/ \E c \in Thread, p \in CreatePriorities :
          "create" \in Calls[t] /\ Create(t, c, p, tid_lock) /\ ThreadFrame
    \/ AllocateTid(t, tid_lock) /\ ThreadFrame
    \/ CreateUnblock(t) /\ ThreadFrame
    \/ CreateYield(t) /\ ThreadFrame
    \/ Tick(t) /\ ThreadFrame

SemaStep(t) ==
    \/ \E s \in ClientSema : "down" \in Calls[t] /\ Down(t, s) /\ SemaFrame
    \/ \E s \in ClientSema : "up" \in Calls[t] /\ Up(t, s) /\ SemaFrame
    \/ \E s \in IntrSema : InterruptUp(t, s) /\ SemaFrame
    \/ DownBlock(t) /\ SemaFrame
    \/ DownTake(t) /\ SemaFrame

AcquireStep(t) ==
    \/ \E l \in ClientLock : "acquire" \in Calls[t] /\ Acquire(t, l) /\ LockFrame
    \/ TestHolder(t) /\ LockFrame
    \/ PushLock(t) /\ LockFrame
    \/ SetDonator(t) /\ LockFrame
    \/ Compare(t) /\ LockFrame
    \/ SetBlocker(t) /\ LockFrame
    \/ Donate(t) /\ LockFrame
    \/ DonateChain(t) /\ LockFrame
    \/ SetHolder(t) /\ LockFrame

ReleaseStep(t) ==
    \/ \E l \in ClientLock : "release" \in Calls[t] /\ Release(t, l) /\ LockFrame
    \/ ClearHolder(t) /\ LockFrame
    \/ Revoke(t) /\ LockFrame
    \/ Restore(t) /\ LockFrame
    \/ AssignPriority(t) /\ LockFrame
    \/ ResetDonator(t) /\ LockFrame
    \/ ReleaseUp(t) /\ LockFrame

CondStep(t) ==
    \/ \E c \in CondVar : "wait" \in Calls[t] /\ Wait(t, c)
    \/ \E c \in CondVar : "signal" \in Calls[t] /\ Signal(t, c)
    \/ \E c \in CondVar : "broadcast" \in Calls[t] /\ Broadcast(t, c)
    \/ Await(t)
    \/ Reacquire(t)
    \/ BroadcastStep(t)

(* A thread that faulted faults again; a halted machine stays halted. *)
Stuck ==
    /\ halted # "no" \/ pc[running] = "fault"
    /\ UNCHANGED vars

Next ==
    \/ \E t \in Thread : \/ ThreadStep(t)
                         \/ SemaStep(t)
                         \/ AcquireStep(t)
                         \/ ReleaseStep(t)
                         \/ CondStep(t)
    \/ IdleStep /\ ThreadFrame
    \/ Stuck

Spec == Init /\ [][Next]_vars

-----------------------------------------------------------------------------
Labels == {"user", "idle", "exited", "fault", "setboth", "setold", "setyield",
           "tid", "unblock", "created", "down", "woken", "acquire", "push",
           "donator", "compare", "blocker", "donate", "chain", "holder",
           "release", "revoke", "restore", "assign", "reset", "up", "await",
           "reacquire", "broadcast"}

(***************************************************************************)
(* Type invariant of the whole thread system.                              *)
(***************************************************************************)
TypeOK ==
    /\ running \in Thread
    /\ status \in [Thread -> Status]
    /\ priority \in [Thread -> Priorities]
    /\ priority_old \in [Thread -> Priorities]
    /\ ready_list \in Seq(Thread)
    /\ preempts \in 0 .. MaxPreempt
    /\ halted \in {"no", "panic", "corrupt"}
    /\ pc \in [Thread -> Labels]
    /\ ret \in [Thread -> {"user", "tid", "unblock", "await", NULL}]
    /\ lk \in [Thread -> Lock \cup {NULL}]
    /\ sm \in [Thread -> Sema \cup {NULL}]
    /\ loc \in [Thread -> Lock \cup Priorities \cup {NULL}]
    /\ arg \in [Thread -> Thread \cup Lock \cup CondVar \cup Priorities
                            \cup {NULL}]
    /\ value \in [Sema -> Nat]
    /\ waiters \in [Sema -> Seq(Thread)]
    /\ holder \in [Lock -> Thread \cup {NULL}]
    /\ donator \in [Lock -> Thread \cup {NULL}]
    /\ donators \in [Thread -> SUBSET Lock]
    /\ blocker \in [Thread -> Lock \cup {NULL}]
    /\ cond_waiters \in [CondVar -> Seq(Thread)]

-----------------------------------------------------------------------------
(* The threads that own lock l: its recorded holder, and a thread that is  *)
(* between taking the lock's semaphore and recording itself, or between    *)
(* clearing the record and raising the semaphore.                          *)
InFlight == {"holder", "revoke", "restore", "assign", "reset", "up"}

Owners(l) ==
    {t \in Thread : holder[l] = t \/ (lk[t] = l /\ pc[t] \in InFlight)}

(***************************************************************************)
(* LockExclusion: lock_acquire() hands a lock to one thread at a time.  No *)
(* two threads own a lock, and its semaphore is down while it is owned,    *)
(* however acquisitions, releases, donations and preemptions interleave.   *)
(***************************************************************************)
LockExclusion ==
    \A l \in Lock :
        /\ value[l] <= 1
        /\ Owners(l) # {} => value[l] = 0
        /\ \A t, u \in Owners(l) : t = u

(***************************************************************************)
(* OneList: a thread's sharedelem is on at most one list (the comment on   *)
(* struct thread): the run queue holds exactly the READY threads, each     *)
(* once, and a BLOCKED thread that thread_create() has finished with is on *)
(* exactly one semaphore's waiters, once.                                  *)
(***************************************************************************)
BeingCreated(c) ==
    \E t \in Thread :
        /\ arg[t] = c
        /\ \/ pc[t] \in {"tid", "unblock"}
           \/ ret[t] \in {"tid", "unblock"}

Places(t) ==
    {<<"ready", i>> : i \in {j \in DOMAIN ready_list : ready_list[j] = t}}
    \cup UNION {{<<s, i>> : i \in {j \in DOMAIN waiters[s] : waiters[s][j] = t}}
                  : s \in Sema}

OneList ==
    \A t \in Thread \ {Idle} :
        LET waiting == status[t] = "BLOCKED" /\ ~BeingCreated(t)
        IN  /\ Cardinality(Places(t)) = IF status[t] = "READY" \/ waiting
                                        THEN 1 ELSE 0
            /\ (\E i \in DOMAIN ready_list : ready_list[i] = t)
                 <=> status[t] = "READY"

(***************************************************************************)
(* NoLostWakeup: a semaphore with waiters never keeps a positive value     *)
(* that nobody is about to take: each unit of it was put there together    *)
(* with a wakeup that has not yet come back to semaphore_down()'s test.    *)
(***************************************************************************)
Awakened(s) ==
    {t \in Thread : pc[t] = "woken" /\ sm[t] = s
                      /\ status[t] \in {"READY", "RUNNING"}}

NoLostWakeup ==
    \A s \in Sema : waiters[s] # <<>> => value[s] <= Cardinality(Awakened(s))

(***************************************************************************)
(* DonatorAlive: lock->donator is never a dangling pointer.  The thread it *)
(* names is still waiting for that lock or owns it, so lock_donator_less() *)
(* and lock_release() never read the priority of a thread that is gone.    *)
(***************************************************************************)
Acquiring == {"compare", "blocker", "donate", "chain", "down", "woken"}

DonatorAlive ==
    \A l \in Lock :
        donator[l] # NULL =>
            \/ donator[l] \in Owners(l)
            \/ lk[donator[l]] = l /\ pc[donator[l]] \in Acquiring \cup {"fault"}

(***************************************************************************)
(* RunsHighest: the thread whose own code is running has the greatest      *)
(* priority of the threads that could run: semaphore_up(), thread_create() *)
(* and thread_set_priority() all yield in time.  This is what client code  *)
(* that is Uncontended can rely on: where threads wait for locks, a        *)
(* release that finds its donator preempted on the way to sleep lowers the *)
(* priority and wakes nobody.                                              *)
(***************************************************************************)
Uncontended ==
    /\ \A t \in Thread : Calls[t] \cap {"acquire", "wait"} = {}
    /\ \A t, u \in Thread : "create" \in Calls[t] \cap Calls[u] => t = u

RunsHighest ==
    halted = "no" /\ pc[running] = "user" =>
        \A t \in Thread : status[t] = "READY" => priority[t] <= priority[running]

(***************************************************************************)
(* NoOvertaking: threads of one priority take turns.  A thread is never    *)
(* dispatched from the run queue past one of the same priority that is     *)
(* queued behind it (the queue is emptied from the back).                  *)
(***************************************************************************)
NoOvertaking ==
    [][\A i, j \in DOMAIN ready_list :
         i < j /\ priority[ready_list[i]] = priority[ready_list[j]] =>
            running' # ready_list[i]]_vars

(***************************************************************************)
(* WaiterLive: a semaphore queued on a condition variable lives on the     *)
(* stack of a thread that is still inside condvar_wait() and has not been  *)
(* signalled, and it is queued once.                                       *)
(***************************************************************************)
WaiterLive ==
    \A c \in CondVar : \A i \in DOMAIN cond_waiters[c] :
        LET t == cond_waiters[c][i]
        IN  /\ status[t] # "DYING"
            /\ value[t] = 0
            /\ ret[t] = "await" \/ pc[t] = "await" \/ sm[t] = t
            /\ \A j \in DOMAIN cond_waiters[c] :
                  cond_waiters[c][j] = t => i = j

(***************************************************************************)
(* WaitersKept: no thread that sleeps in a semaphore, a lock or a          *)
(* condition variable is forgotten.  Whatever interrupts semaphore_down(), *)
(* condvar_wait() or condvar_signal(), each thread is on the one list that *)
(* its status names (OneList), although all lists share sharedelem; units  *)
(* of a semaphore are not left before sleeping threads (NoLostWakeup); and *)
(* what a condition variable has queued is still there (WaiterLive).       *)
(***************************************************************************)
WaitersKept == OneList /\ NoLostWakeup /\ WaiterLive

(***************************************************************************)
(* NeverBelowBase: donation only raises.  As long as no time slice has run *)
(* out, no step of lock_acquire(), donate() or lock_release() takes a      *)
(* thread below its own priority; only thread_set_priority(), which sets   *)
(* that priority, can.  A thread preempted between the comparison in       *)
(* lock_acquire() and donate() may find a holder that has meanwhile been   *)
(* given more, and lower it.                                               *)
(***************************************************************************)
NeverBelowBase ==
    [][preempts' = 0 =>
         \A t \in Thread :
            priority[t] >= priority_old[t] /\ UNCHANGED priority_old[t] =>
               priority'[t] >= priority_old[t]]_vars

(***************************************************************************)
(* NoInversion: while client code runs, the holder of a lock has at least  *)
(* the priority of every thread that waits for the lock: the donation that *)
(* lock_acquire() makes lasts until lock_release().                        *)
(***************************************************************************)
NoInversion ==
    halted = "no" /\ pc[running] = "user" =>
        \A l \in Lock : \A i \in DOMAIN waiters[l] :
            holder[l] # NULL => priority[holder[l]] >= priority[waiters[l][i]]

(***************************************************************************)
(* NoFault: no operation of the thread system follows a null pointer.      *)
(* Violated without any preemption, by the chain of donate() (lock.c:199): *)
(* the thread that would be donated to was woken for a lock that another   *)
(* took and released before it ran, so its blocker has no holder.          *)
(***************************************************************************)
NoFault == \A t \in Thread : pc[t] # "fault"

\* the thread that a thread in donate() has donated to
LoanedTo(t) == IF loc[t] = NULL THEN NULL ELSE holder[loc[t]]

(***************************************************************************)
(* BlockerCurrent: where donate() follows thread->blocker to a lock that   *)
(* nobody holds, that thread is at least still waiting for the lock.       *)
(* Violated: lock_acquire() sets blocker and nothing clears it, so the     *)
(* lock may be one it got and gave back before.                            *)
(***************************************************************************)
BlockerCurrent ==
    \A t \in Thread : pc[t] = "fault" /\ LoanedTo(t) # NULL =>
        lk[LoanedTo(t)] = blocker[LoanedTo(t)]

(***************************************************************************)
(* HolderStays: the holder that lock_acquire() has tested (lock.c:83) is   *)
(* still there when it is looked at again.  Violated when the thread loses *)
(* the processor between the two and the holder releases the lock.         *)
(***************************************************************************)
HolderStays == \A t \in Thread : pc[t] = "fault" => loc[t] # NULL

(***************************************************************************)
(* NoPanic: no assertion of the thread system fails.                       *)
(***************************************************************************)
NoPanic == halted # "panic"

(***************************************************************************)
(* LinkedOnce: as long as no time slice has run out, every lockelem is on  *)
(* one donators list at most, and lock->donator says whether it is on one: *)
(* no list_push_back() of a linked element and no list_remove() of an      *)
(* unlinked one, however a lock changes hands with waiters left.           *)
(***************************************************************************)
LinkedOnce == preempts = 0 => halted # "corrupt"

=============================================================================
