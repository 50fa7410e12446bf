-------------------------------- MODULE Locks --------------------------------
(***************************************************************************)
(* threads/lock.c of Lab 2: locks with priority donation.  Apart from the  *)
(* semaphore operations, lock_acquire() and lock_release() run with        *)
(* interrupts enabled, one step per statement.  The order of a thread's    *)
(* donators list decides nothing (only its greatest priority is used), so  *)
(* the list is a set.                                                      *)
(***************************************************************************)
EXTENDS Semaphores

VARIABLES
    holder,        \* struct lock: holder
    donator,       \* struct lock: donator
    donators,      \* struct thread: donators, the locks with a donator
    blocker        \* struct thread: blocker

lockVars == <<holder, donator, donators, blocker>>

LockInit ==
    /\ holder = [l \in Lock |-> NULL]
    /\ donator = [l \in Lock |-> NULL]
    /\ donators = [t \in Thread |-> {}]
    /\ blocker = [t \in Thread |-> NULL]

(* lock_held_by_current_thread(l), called by t *)
Holds(t, l) == holder[l] = t

(* what a statement of this module that only moves on leaves alone *)
Elsewhere == UNCHANGED <<schedVars, preempts, semaVars, ret, lk, arg>>

-----------------------------------------------------------------------------
(***************************************************************************)
(* lock_acquire(lk[t])                                                     *)
(***************************************************************************)
CallAcquire(t, l, next) ==
    /\ lk' = [lk EXCEPT ![t] = l]
    /\ ret' = [ret EXCEPT ![t] = next]
    /\ Goto(t, "acquire")

GoDown(t) == Goto(t, "down") /\ sm' = [sm EXCEPT ![t] = lk[t]]

(* variant: the lock is pushed without the list_contains() test *)
TestHolderOnly(t) ==
    /\ At(t, "acquire")
    /\ IF holder[lk[t]] = NULL
       THEN GoDown(t)
       ELSE Goto(t, "push") /\ UNCHANGED sm
    /\ UNCHANGED <<prioVars, halted, loc, lockVars>> /\ Elsewhere

(* if (lock->holder != NULL) ... list_contains(...) *)
TestHolder(t) ==
    /\ At(t, "acquire")
    /\ LET h == holder[lk[t]]
       IN  IF h = NULL
           THEN GoDown(t)
           ELSE /\ Goto(t, IF lk[t] \in donators[h] THEN "donator" ELSE "push")
                /\ UNCHANGED sm
    /\ UNCHANGED <<prioVars, halted, loc, lockVars>> /\ Elsewhere

(***************************************************************************)
(* list_push_back(&lock->holder->donators, &lock->lockelem).  The holder   *)
(* may have released the lock since the test, and an element that is       *)
(* already on a list must not be inserted in another.                      *)
(***************************************************************************)
PushLock(t) ==
    /\ At(t, "push")
    /\ LET h == holder[lk[t]]
       IN  IF h = NULL
           THEN Fault(t) /\ UNCHANGED <<halted, donators>>
           ELSE IF \E u \in Thread : lk[t] \in donators[u]
           THEN halted' = "corrupt" /\ UNCHANGED <<pc, donators>>
           ELSE /\ donators' = [donators EXCEPT ![h] = @ \cup {lk[t]}]
                /\ Goto(t, "donator")
                /\ UNCHANGED halted
    /\ UNCHANGED <<prioVars, sm, loc, holder, donator, blocker>> /\ Elsewhere

SetDonator(t) ==
    /\ At(t, "donator")
    /\ donator' = [donator EXCEPT ![lk[t]] = t]
    /\ Goto(t, "compare")
    /\ UNCHANGED <<prioVars, halted, sm, loc, holder, donators, blocker>>
    /\ Elsewhere

(* variant: the priority is donated without the comparison *)
DonateAnyway(t) ==
    /\ At(t, "compare")
    /\ Goto(t, IF holder[lk[t]] = NULL THEN "fault" ELSE "blocker")
    /\ UNCHANGED <<prioVars, halted, sm, loc, lockVars>> /\ Elsewhere

Compare(t) ==
    /\ At(t, "compare")
    /\ LET h == holder[lk[t]]
       IN  IF h = NULL THEN Fault(t) /\ UNCHANGED sm
           ELSE IF priority[t] > priority[h]
           THEN Goto(t, "blocker") /\ UNCHANGED sm
           ELSE GoDown(t)
    /\ UNCHANGED <<prioVars, halted, loc, lockVars>> /\ Elsewhere

SetBlocker(t) ==
    /\ At(t, "blocker")
    /\ blocker' = [blocker EXCEPT ![t] = lk[t]]
    /\ loc' = [loc EXCEPT ![t] = lk[t]]
    /\ Goto(t, "donate")
    /\ UNCHANGED <<prioVars, halted, sm, holder, donator, donators>>
    /\ Elsewhere

(* donate(loc[t]): lock->holder->priority = thread_current()->priority *)
Donate(t) ==
    /\ At(t, "donate")
    /\ LET h == holder[loc[t]]
       IN  IF h = NULL THEN Fault(t) /\ UNCHANGED priority
           ELSE /\ priority' = [priority EXCEPT ![h] = priority[t]]
                /\ Goto(t, "chain")
    /\ UNCHANGED <<priority_old, halted, sm, loc, lockVars>> /\ Elsewhere

(* donate(loc[t]): the test for a holder that is itself blocked *)
DonateChain(t) ==
    /\ At(t, "chain")
    /\ LET h == holder[loc[t]]
           b == IF h = NULL THEN NULL ELSE blocker[h]
       IN  IF h = NULL \/ (b # NULL /\ holder[b] = NULL)
           THEN Fault(t) /\ UNCHANGED <<sm, loc>>
           ELSE IF b # NULL /\ priority[holder[b]] < priority[t]
           THEN /\ loc' = [loc EXCEPT ![t] = b]
                /\ Goto(t, "donate")
                /\ UNCHANGED sm
           ELSE /\ loc' = [loc EXCEPT ![t] = NULL]
                /\ GoDown(t)
    /\ UNCHANGED <<prioVars, halted, lockVars>> /\ Elsewhere

(* lock->holder = thread_current() *)
SetHolder(t) ==
    /\ At(t, "holder")
    /\ holder' = [holder EXCEPT ![lk[t]] = t]
    /\ lk' = [lk EXCEPT ![t] = NULL]
    /\ ret' = [ret EXCEPT ![t] = NULL]
    /\ Goto(t, ret[t])
    /\ UNCHANGED <<schedVars, prioVars, preempts, halted, semaVars, sm, loc,
                   arg, donator, donators, blocker>>

-----------------------------------------------------------------------------
(***************************************************************************)
(* lock_release(lk[t])                                                     *)
(***************************************************************************)
CallRelease(t, l, next) ==
    /\ lk' = [lk EXCEPT ![t] = l]
    /\ ret' = [ret EXCEPT ![t] = next]
    /\ Goto(t, "release")

(* variant: a release that forgets the donation *)
ClearHolderOnly(t) ==
    /\ At(t, "release")
    /\ holder' = [holder EXCEPT ![lk[t]] = NULL]
    /\ Goto(t, "up")
    /\ UNCHANGED <<prioVars, halted, sm, loc, donator, donators, blocker>>
    /\ Elsewhere

ClearHolder(t) ==
    /\ At(t, "release")
    /\ holder' = [holder EXCEPT ![lk[t]] = NULL]
    /\ Goto(t, "revoke")
    /\ UNCHANGED <<prioVars, halted, sm, loc, donator, donators, blocker>>
    /\ Elsewhere

(***************************************************************************)
(* if (lock->donator != NULL) list_remove(&lock->lockelem), donator = NULL *)
(* list_remove() takes the lock off whichever list it is on; if it is on   *)
(* none the result is undefined.                                           *)
(***************************************************************************)
Revoke(t) ==
    /\ At(t, "revoke")
    /\ IF donator[lk[t]] = NULL
       THEN Goto(t, "reset") /\ UNCHANGED <<halted, donator, donators>>
       ELSE IF \A u \in Thread : lk[t] \notin donators[u]
       THEN halted' = "corrupt" /\ UNCHANGED <<pc, donator, donators>>
       ELSE /\ donators' = [u \in Thread |-> donators[u] \ {lk[t]}]
            /\ donator' = [donator EXCEPT ![lk[t]] = NULL]
            /\ Goto(t, "restore")
            /\ UNCHANGED halted
    /\ UNCHANGED <<prioVars, sm, loc, holder, blocker>> /\ Elsewhere

(***************************************************************************)
(* The priority that is left once a lock's donation is revoked: the        *)
(* greatest of the remaining donators' and the thread's own.  A lock still *)
(* on the list that has no donator is dereferenced all the same.           *)
(***************************************************************************)
DonatedTo(t) == {priority[donator[l]] : l \in donators[t]}

RestoredPriority(t) == Max(DonatedTo(t) \cup {priority_old[t]})

Restore(t) ==
    /\ At(t, "restore")
    /\ IF \E l \in donators[t] : donator[l] = NULL
       THEN Fault(t) /\ UNCHANGED loc
       ELSE /\ loc' = [loc EXCEPT ![t] = RestoredPriority(t)]
            /\ Goto(t, "assign")
    /\ UNCHANGED <<prioVars, halted, sm, lockVars>> /\ Elsewhere

AssignPriority(t) ==
    /\ At(t, "assign")
    /\ priority' = [priority EXCEPT ![t] = loc[t]]
    /\ loc' = [loc EXCEPT ![t] = NULL]
    /\ Goto(t, "reset")
    /\ UNCHANGED <<priority_old, halted, sm, lockVars>> /\ Elsewhere

ResetDonator(t) ==
    /\ At(t, "reset")
    /\ donator' = [donator EXCEPT ![lk[t]] = NULL]
    /\ Goto(t, "up")
    /\ UNCHANGED <<prioVars, halted, sm, loc, holder, donators, blocker>>
    /\ Elsewhere

ReleaseUp(t) ==
    /\ At(t, "up")
    /\ semaphore_up(t, lk[t])
    /\ lk' = [lk EXCEPT ![t] = NULL]
    /\ ret' = [ret EXCEPT ![t] = NULL]
    /\ Goto(t, ret[t])
    /\ UNCHANGED <<prioVars, preempts, halted, sm, loc, arg, lockVars>>

-----------------------------------------------------------------------------
(* Client code: a lock is not taken twice, and only its holder releases it *)
(* (the assertions of lock_acquire() and lock_release()).                  *)
Acquire(t, l) ==
    /\ At(t, "user")
    /\ ~Holds(t, l)
    /\ CallAcquire(t, l, "user")
    /\ UNCHANGED <<schedVars, prioVars, preempts, halted, semaVars, sm, loc,
                   arg, lockVars>>

Release(t, l) ==
    /\ At(t, "user")
    /\ Holds(t, l)
    /\ CallRelease(t, l, "user")
    /\ UNCHANGED <<schedVars, prioVars, preempts, halted, semaVars, sm, loc,
                   arg, lockVars>>

=============================================================================
