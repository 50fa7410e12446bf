----------------------------- MODULE Semaphores ------------------------------
(***************************************************************************)
(* threads/semaphore.c of Lab 2: counting semaphores whose waiters are     *)
(* woken in priority order.  Sema holds every semaphore of the system: the *)
(* ones client code declares, the one inside each lock (named by the lock) *)
(* and the one condvar_wait() keeps on a thread's stack (named by the      *)
(* thread).                                                                *)
(***************************************************************************)
EXTENDS Threads

CONSTANTS
    ClientSema,    \* the semaphores client code declares
    Lock,          \* the locks, tid_lock included
    InitValue,     \* the value given to each client semaphore
    MaxValue       \* bound: value a client semaphore is raised to

ASSUME SemaAssumption ==
    /\ NULL \notin ClientSema \cup Lock
    /\ ClientSema \cap Lock = {} /\ Thread \cap (ClientSema \cup Lock) = {}
    /\ InitValue \in [ClientSema -> Nat]
    /\ MaxValue \in Nat

Sema == ClientSema \cup Lock \cup Thread

VARIABLES
    value,         \* struct semaphore: value
    waiters        \* struct semaphore: waiters

semaVars == <<value, waiters>>

SemaInit ==
    /\ value = [s \in Sema |-> IF s \in ClientSema THEN InitValue[s]
                               ELSE IF s \in Lock THEN 1 ELSE 0]
    /\ waiters = [s \in Sema |-> <<>>]

-----------------------------------------------------------------------------
(***************************************************************************)
(* semaphore_up() by t, which runs with interrupts disabled from start to  *)
(* end: the waiters are sorted, the last one is unblocked, and the caller  *)
(* yields to it if it has the lower priority.                              *)
(***************************************************************************)
WokenBy(s) == Last(list_sort(waiters[s], priority))

(* variant: the caller goes on instead of yielding *)
semaphore_up_without_yield(t, s) ==
    /\ value' = [value EXCEPT ![s] = @ + 1]
    /\ IF waiters[s] = <<>>
       THEN UNCHANGED <<schedVars, waiters>>
       ELSE /\ waiters' = [waiters EXCEPT ![s] = Front(list_sort(@, priority))]
            /\ ready_list' = QueueWith(WokenBy(s))
            /\ status' = StatusWith(WokenBy(s))
            /\ UNCHANGED running

(* variant: only a waiter that the caller must yield to is woken *)
semaphore_up_wakes_higher(t, s) ==
    /\ value' = [value EXCEPT ![s] = @ + 1]
    /\ IF waiters[s] = <<>> \/ priority[WokenBy(s)] <= priority[t]
       THEN UNCHANGED <<schedVars, waiters>>
       ELSE /\ waiters' = [waiters EXCEPT ![s] = Front(list_sort(@, priority))]
            /\ thread_yield(t, StatusWith(WokenBy(s)), QueueWith(WokenBy(s)))

semaphore_up(t, s) ==
    /\ value' = [value EXCEPT ![s] = @ + 1]
    /\ IF waiters[s] = <<>>
       THEN UNCHANGED <<schedVars, waiters>>
       ELSE LET to_run == WokenBy(s)
            IN  /\ waiters' = [waiters EXCEPT
                                 ![s] = Front(list_sort(@, priority))]
                /\ IF priority[to_run] > priority[t]
                   THEN thread_yield(t, StatusWith(to_run), QueueWith(to_run))
                   ELSE /\ ready_list' = QueueWith(to_run)
                        /\ status' = StatusWith(to_run)
                        /\ UNCHANGED running

(***************************************************************************)
(* semaphore_down(): the loop runs with interrupts disabled.  While the    *)
(* value is zero the thread queues itself and blocks; it is at "woken"     *)
(* when thread_block() returns and the value is tested again.              *)
(***************************************************************************)
InDown(t) == halted = "no" /\ running = t /\ pc[t] \in {"down", "woken"}

DownBlock(t) ==
    /\ InDown(t)
    /\ value[sm[t]] = 0
    /\ waiters' = [waiters EXCEPT ![sm[t]] = PushFront(@, t)]
    /\ thread_block(t)
    /\ Goto(t, "woken")
    /\ UNCHANGED <<prioVars, preempts, halted, lockArgs, arg, value>>

(* where semaphore_down() returns to: lock_acquire(), condvar_wait() or a  *)
(* client                                                                  *)
AfterDown(t) == IF sm[t] \in Lock THEN "holder"
                ELSE IF sm[t] = t THEN "reacquire" ELSE "user"

(* variant: if instead of while, so a woken thread does not test again *)
DownTakeOnceWoken(t) ==
    /\ InDown(t)
    /\ value[sm[t]] > 0 \/ pc[t] = "woken"
    /\ value' = [value EXCEPT ![sm[t]] = IF @ = 0 THEN 0 ELSE @ - 1]
    /\ sm' = [sm EXCEPT ![t] = NULL]
    /\ Goto(t, AfterDown(t))
    /\ UNCHANGED <<schedVars, prioVars, preempts, halted, ret, lk, loc, arg,
                   waiters>>

DownTake(t) ==
    /\ InDown(t)
    /\ value[sm[t]] > 0
    /\ value' = [value EXCEPT ![sm[t]] = @ - 1]
    /\ sm' = [sm EXCEPT ![t] = NULL]
    /\ Goto(t, AfterDown(t))
    /\ UNCHANGED <<schedVars, prioVars, preempts, halted, ret, lk, loc, arg,
                   waiters>>

-----------------------------------------------------------------------------
(* A client calls semaphore_down(s). *)
Down(t, s) ==
    /\ At(t, "user")
    /\ sm' = [sm EXCEPT ![t] = s]
    /\ Goto(t, "down")
    /\ UNCHANGED <<schedVars, prioVars, preempts, halted, ret, lk, loc, arg,
                   semaVars>>

(* A client calls semaphore_up(s). *)
Up(t, s) ==
    /\ At(t, "user")
    /\ value[s] < MaxValue
    /\ semaphore_up(t, s)
    /\ UNCHANGED <<prioVars, preempts, halted, pc, lockArgs, arg>>

(***************************************************************************)
(* A device interrupt handler calls semaphore_up(s) while t is current.    *)
(* If the thread it wakes has the higher priority it calls thread_yield(), *)
(* which asserts that it is not in interrupt context.                      *)
(***************************************************************************)
InterruptUp(t, s) ==
    /\ halted = "no" /\ running = t /\ pc[t] # "woken"
    /\ value[s] < MaxValue
    /\ IF waiters[s] # <<>> /\ priority[WokenBy(s)] > priority[t]
       THEN halted' = "panic" /\ UNCHANGED <<schedVars, semaVars>>
       ELSE semaphore_up(t, s) /\ UNCHANGED halted
    /\ UNCHANGED <<prioVars, preempts, pc, lockArgs, arg>>

=============================================================================
