------------------------------ MODULE CondVars -------------------------------
(***************************************************************************)
(* threads/condvar.c of Lab 2: Mesa-style condition variables.  Each wait  *)
(* queues a semaphore that lives on the waiting thread's stack; the        *)
(* semaphore is named by that thread.                                      *)
(***************************************************************************)
EXTENDS Locks

CONSTANTS
    CondVar,       \* the condition variables
    CondLock       \* the one lock each is associated with

ASSUME CondAssumption == CondLock \in [CondVar -> Lock]

VARIABLE cond_waiters   \* struct condvar: waiters

CondInit == cond_waiters = [c \in CondVar |-> <<>>]

-----------------------------------------------------------------------------
(* condvar_wait(): semaphore_init(&waiter, 0), list_push_back(), then      *)
(* lock_release(), semaphore_down(&waiter), lock_acquire().                *)
Wait(t, c) ==
    /\ At(t, "user")
    /\ Holds(t, CondLock[c])
    /\ value' = [value EXCEPT ![t] = 0]
    /\ waiters' = [waiters EXCEPT ![t] = <<>>]
    /\ cond_waiters' = [cond_waiters EXCEPT ![c] = Append(@, t)]
    /\ arg' = [arg EXCEPT ![t] = CondLock[c]]
    /\ CallRelease(t, CondLock[c], "await")
    /\ UNCHANGED <<schedVars, prioVars, preempts, halted, sm, loc, lockVars>>

Await(t) ==
    /\ At(t, "await")
    /\ sm' = [sm EXCEPT ![t] = t]
    /\ Goto(t, "down")
    /\ UNCHANGED <<schedVars, prioVars, preempts, halted, ret, lk, loc, arg,
                   semaVars, lockVars, cond_waiters>>

Reacquire(t) ==
    /\ At(t, "reacquire")
    /\ arg' = [arg EXCEPT ![t] = NULL]
    /\ CallAcquire(t, arg[t], "user")
    /\ UNCHANGED <<schedVars, prioVars, preempts, halted, sm, loc, semaVars,
                   lockVars, cond_waiters>>

(***************************************************************************)
(* condvar_signal() by t, which holds the lock.  Sorting two or more       *)
(* waiters compares the first thread of each one's semaphore: list_front() *)
(* asserts that there is one, but a waiter that has released the lock and  *)
(* was preempted before semaphore_down() is not on its semaphore yet.      *)
(***************************************************************************)
NotYetDown(c) ==
    \E i \in DOMAIN cond_waiters[c] : waiters[cond_waiters[c][i]] = <<>>

(* variant: list_back() instead of list_pop_back() *)
condvar_signal_unpopped(t, c) ==
    IF Len(cond_waiters[c]) > 1 /\ NotYetDown(c)
    THEN halted' = "panic" /\ UNCHANGED <<schedVars, semaVars, cond_waiters>>
    ELSE LET sorted == list_sort(cond_waiters[c], priority)
         IN  /\ semaphore_up(t, Last(sorted))
             /\ cond_waiters' = [cond_waiters EXCEPT ![c] = sorted]
             /\ UNCHANGED halted

condvar_signal(t, c) ==
    IF Len(cond_waiters[c]) > 1 /\ NotYetDown(c)
    THEN halted' = "panic" /\ UNCHANGED <<schedVars, semaVars, cond_waiters>>
    ELSE LET sorted == list_sort(cond_waiters[c], priority)
         IN  /\ semaphore_up(t, Last(sorted))
             /\ cond_waiters' = [cond_waiters EXCEPT ![c] = Front(sorted)]
             /\ UNCHANGED halted

Signal(t, c) ==
    /\ At(t, "user")
    /\ Holds(t, CondLock[c])
    /\ cond_waiters[c] # <<>>
    /\ condvar_signal(t, c)
    /\ UNCHANGED <<prioVars, preempts, pc, lockArgs, arg, lockVars>>

(* condvar_broadcast(): signals while there is a waiter *)
Broadcast(t, c) ==
    /\ At(t, "user")
    /\ Holds(t, CondLock[c])
    /\ cond_waiters[c] # <<>>
    /\ arg' = [arg EXCEPT ![t] = c]
    /\ Goto(t, "broadcast")
    /\ UNCHANGED <<schedVars, prioVars, preempts, halted, lockArgs, semaVars,
                   lockVars, cond_waiters>>

BroadcastStep(t) ==
    /\ At(t, "broadcast")
    /\ IF cond_waiters[arg[t]] = <<>>
       THEN /\ Goto(t, "user")
            /\ arg' = [arg EXCEPT ![t] = NULL]
            /\ UNCHANGED <<schedVars, halted, semaVars, cond_waiters>>
       ELSE condvar_signal(t, arg[t]) /\ UNCHANGED <<pc, arg>>
    /\ UNCHANGED <<prioVars, preempts, lockArgs, lockVars>>

=============================================================================
