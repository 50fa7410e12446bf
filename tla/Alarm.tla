-------------------------------- MODULE Alarm --------------------------------
(***************************************************************************)
(* The alarm clock of Lab 1: timer_sleep() and timer_interrupt() of        *)
(* devices/timer.c over the round-robin scheduler of threads/thread.c.     *)
(*                                                                         *)
(* timer_sleep() inserts the thread into sleep_list with interrupts        *)
(* enabled, so the timer interrupt can arrive between any two stores of    *)
(* list_insert(): the list is modelled by its next and prev pointers.  The *)
(* interrupt handler runs with interrupts disabled, one step per iteration *)
(* of its loop.                                                            *)
(***************************************************************************)
EXTENDS Integers, Sequences, FiniteSets

CONSTANTS
    Thread,        \* every thread but the idle thread
    Idle,          \* idle_thread
    Main,          \* initial_thread
    Created,       \* the threads Main has created, in that order
    HEAD, TAIL,    \* the sentinels of sleep_list
    NULL,          \* no element
    Naps,          \* the arguments given to timer_sleep()
    MaxTicks       \* bound: number of timer interrupts

ASSUME AlarmAssumption ==
    /\ Idle \notin Thread /\ Main \in Thread
    /\ Created \in Seq(Thread \ {Main})
    /\ \A t \in Thread \ {Main} : \E i \in DOMAIN Created : Created[i] = t
    /\ Len(Created) = Cardinality(Thread) - 1
    /\ {HEAD, TAIL, NULL} \cap (Thread \cup {Idle}) = {}
    /\ HEAD # TAIL /\ HEAD # NULL /\ TAIL # NULL
    /\ Naps \subseteq Int
    /\ MaxTicks \in Nat

Elem == Thread \cup {HEAD, TAIL}

VARIABLES
    ticks,         \* timer.c: ticks
    waketime,      \* struct thread: waketime
    next, prev,    \* the pointers of sleep_list's elements
    before,        \* list_insert(): before, for each thread
    running, status, ready_list,
    pc,            \* where each thread is in timer_sleep()
    cursor,        \* timer_interrupt(): e, or NULL outside the handler
    torn,          \* an interrupt came in the middle of list_insert()
    halted         \* an assertion has failed

listVars == <<next, prev, before>>
schedVars == <<running, status, ready_list>>
vars == <<ticks, waketime, next, prev, before, running, status, ready_list,
          pc, cursor, torn, halted>>

Init ==
    /\ ticks = 0
    /\ waketime = [t \in Thread |-> 0]
    /\ next = [e \in Elem |-> IF e = HEAD THEN TAIL ELSE NULL]
    /\ prev = [e \in Elem |-> IF e = TAIL THEN HEAD ELSE NULL]
    /\ before = [t \in Thread |-> NULL]
    /\ running = Main
    /\ status = [t \in Thread |-> IF t = Main THEN "RUNNING" ELSE "READY"]
    /\ ready_list = Created
    /\ pc = [t \in Thread |-> "user"]
    /\ cursor = NULL
    /\ torn = FALSE
    /\ halted = FALSE

-----------------------------------------------------------------------------
(* Thread t runs statement l, outside the interrupt handler. *)
At(t, l) == ~halted /\ cursor = NULL /\ running = t /\ pc[t] = l

Goto(t, l) == pc' = [pc EXCEPT ![t] = l]

(* schedule(): the head of the run queue, or the idle thread, runs next *)
Schedule(st, rl) ==
    IF rl = <<>>
    THEN running' = Idle /\ status' = st /\ ready_list' = rl
    ELSE /\ running' = Head(rl)
         /\ status' = [st EXCEPT ![Head(rl)] = "RUNNING"]
         /\ ready_list' = Tail(rl)

(***************************************************************************)
(* timer_sleep(n)                                                          *)
(***************************************************************************)
Sleep(t, n) ==
    /\ At(t, "user")
    /\ ticks + n <= MaxTicks /\ ticks < MaxTicks
    /\ waketime' = [waketime EXCEPT ![t] = ticks + n]
    /\ Goto(t, "push")
    /\ UNCHANGED <<ticks, listVars, schedVars, cursor, torn, halted>>

(* list_push_front(): list_begin(), then list_insert() store by store *)
ListBegin(t) ==
    /\ At(t, "push")
    /\ before' = [before EXCEPT ![t] = next[HEAD]]
    /\ Goto(t, "link1")
    /\ UNCHANGED <<ticks, waketime, next, prev, schedVars, cursor, torn, halted>>

(* elem->prev = before->prev; elem->next = before *)
LinkSelf(t) ==
    /\ At(t, "link1")
    /\ prev' = [prev EXCEPT ![t] = prev[before[t]]]
    /\ next' = [next EXCEPT ![t] = before[t]]
    /\ Goto(t, "link2")
    /\ UNCHANGED <<ticks, waketime, before, schedVars, cursor, torn, halted>>

(* before->prev->next = elem *)
LinkNext(t) ==
    /\ At(t, "link2")
    /\ next' = [next EXCEPT ![prev[before[t]]] = t]
    /\ Goto(t, "link3")
    /\ UNCHANGED <<ticks, waketime, prev, before, schedVars, cursor, torn, halted>>

(* variant: the second half of list_insert() is left out *)
LinkPrevSkipped(t) ==
    /\ At(t, "link3")
    /\ before' = [before EXCEPT ![t] = NULL]
    /\ Goto(t, "block")
    /\ UNCHANGED <<ticks, waketime, next, prev, schedVars, cursor, torn, halted>>

(* before->prev = elem *)
LinkPrev(t) ==
    /\ At(t, "link3")
    /\ prev' = [prev EXCEPT ![before[t]] = t]
    /\ before' = [before EXCEPT ![t] = NULL]
    /\ Goto(t, "block")
    /\ UNCHANGED <<ticks, waketime, next, schedVars, cursor, torn, halted>>

(* intr_disable(); thread_block() *)
Block(t) ==
    /\ At(t, "block")
    /\ Goto(t, "asleep")
    /\ Schedule([status EXCEPT ![t] = "BLOCKED"], ready_list)
    /\ UNCHANGED <<ticks, waketime, listVars, cursor, torn, halted>>

(* timer_sleep() returns once the thread has been woken and scheduled *)
Return(t) ==
    /\ At(t, "asleep")
    /\ Goto(t, "user")
    /\ UNCHANGED <<ticks, waketime, listVars, schedVars, cursor, torn, halted>>

(* idle(): runs a thread that an interrupt has made ready *)
IdleStep ==
    /\ ~halted /\ cursor = NULL /\ running = Idle
    /\ ready_list # <<>>
    /\ Schedule(status, ready_list)
    /\ UNCHANGED <<ticks, waketime, listVars, pc, cursor, torn, halted>>

-----------------------------------------------------------------------------
(***************************************************************************)
(* timer_interrupt().  Interrupts are disabled from thread_block() until   *)
(* timer_sleep() returns, at "asleep".                                     *)
(***************************************************************************)
Inserting(t) == pc[t] \in {"link1", "link2", "link3"}

TickBegin ==
    /\ ~halted /\ cursor = NULL
    /\ running # Idle => pc[running] # "asleep"
    /\ ticks < MaxTicks
    /\ ticks' = ticks + 1
    /\ cursor' = next[HEAD]
    /\ torn' = (torn \/ \E t \in Thread : Inserting(t))
    /\ UNCHANGED <<waketime, listVars, schedVars, pc, halted>>

(* variant: a thread is woken one tick early *)
IsDueEarly(t) == waketime[t] <= ticks + 1

IsDue(t) == waketime[t] <= ticks

(* variant: the loop stops at the first thread that is not due *)
TickScanStops ==
    /\ ~halted /\ cursor \in Thread
    /\ IF ~IsDue(cursor)
       THEN cursor' = TAIL /\ UNCHANGED <<status, ready_list, next, prev>>
       ELSE /\ status' = [status EXCEPT ![cursor] = "READY"]
            /\ ready_list' = Append(ready_list, cursor)
            /\ next' = [next EXCEPT ![prev[cursor]] = next[cursor]]
            /\ prev' = [prev EXCEPT ![next[cursor]] = prev[cursor]]
            /\ cursor' = next[cursor]
    /\ UNCHANGED <<ticks, waketime, before, running, pc, torn, halted>>

(***************************************************************************)
(* One iteration of the loop: thread_unblock(), which asserts that the     *)
(* thread is blocked, then list_remove(), for a thread whose time has come *)
(***************************************************************************)
TickScan ==
    /\ ~halted /\ cursor \in Thread
    /\ IF ~IsDue(cursor)
       THEN UNCHANGED <<status, ready_list, next, prev, halted>>
       ELSE IF status[cursor] # "BLOCKED"
       THEN halted' = TRUE /\ UNCHANGED <<status, ready_list, next, prev>>
       ELSE /\ status' = [status EXCEPT ![cursor] = "READY"]
            /\ ready_list' = Append(ready_list, cursor)
            /\ next' = [next EXCEPT ![prev[cursor]] = next[cursor]]
            /\ prev' = [prev EXCEPT ![next[cursor]] = prev[cursor]]
            /\ UNCHANGED halted
    /\ cursor' = next[cursor]
    /\ UNCHANGED <<ticks, waketime, before, running, pc, torn>>

(* thread_tick(): the current thread yields if its time slice is over *)
TickEnd(slice_over) ==
    /\ ~halted /\ cursor = TAIL
    /\ cursor' = NULL
    /\ IF slice_over /\ running # Idle
       THEN Schedule([status EXCEPT ![running] = "READY"],
                     Append(ready_list, running))
       ELSE UNCHANGED schedVars
    /\ UNCHANGED <<ticks, waketime, listVars, pc, torn, halted>>

-----------------------------------------------------------------------------
ThreadStep(t) ==
    \/ ListBegin(t)
    \/ LinkSelf(t)
    \/ LinkNext(t)
    \/ LinkPrev(t)
    \/ Block(t)
    \/ Return(t)

(* The bound on ticks has been reached, or the kernel has panicked. *)
Stop == (halted \/ ticks = MaxTicks) /\ UNCHANGED vars

Next ==
    \/ \E t \in Thread, n \in Naps : Sleep(t, n)
    \/ \E t \in Thread : ThreadStep(t)
    \/ IdleStep
    \/ TickBegin
    \/ TickScan
    \/ \E slice_over \in BOOLEAN : TickEnd(slice_over)
    \/ Stop

(***************************************************************************)
(* The timer keeps interrupting, and the handler runs to its end.          *)
(***************************************************************************)
Fairness ==
    /\ WF_vars(TickBegin)
    /\ WF_vars(TickScan)
    /\ WF_vars(\E slice_over \in BOOLEAN : TickEnd(slice_over))
    /\ WF_vars(IdleStep)
    /\ \A t \in Thread : WF_vars(ThreadStep(t))

Spec == Init /\ [][Next]_vars /\ Fairness

-----------------------------------------------------------------------------
(* Type invariant. *)
TypeOK ==
    /\ ticks \in 0 .. MaxTicks
    /\ waketime \in [Thread -> Int]
    /\ next \in [Elem -> Elem \cup {NULL}]
    /\ prev \in [Elem -> Elem \cup {NULL}]
    /\ before \in [Thread -> Elem \cup {NULL}]
    /\ running \in Thread \cup {Idle}
    /\ status \in [Thread -> {"RUNNING", "READY", "BLOCKED"}]
    /\ ready_list \in Seq(Thread)
    /\ pc \in [Thread -> {"user", "push", "link1", "link2", "link3", "block",
                          "asleep"}]
    /\ cursor \in Elem \cup {NULL}
    /\ torn \in BOOLEAN /\ halted \in BOOLEAN

(***************************************************************************)
(* NeverEarly: timer_sleep(n) never returns before n ticks have passed,    *)
(* even when the insertion into sleep_list was interrupted.                *)
(***************************************************************************)
NeverEarly ==
    \A t \in Thread :
        pc[t] = "asleep" /\ status[t] # "BLOCKED" => waketime[t] <= ticks

(***************************************************************************)
(* WokenOnTime: as long as no insertion was interrupted, timer_interrupt() *)
(* has woken every thread that is due by the time its loop ends, although  *)
(* the loop removes elements of the list it walks.                         *)
(***************************************************************************)
WokenOnTime ==
    ~torn /\ ~halted /\ cursor = TAIL =>
        \A t \in Thread : status[t] = "BLOCKED" => ~IsDue(t)

(***************************************************************************)
(* Wakes: a thread that is asleep while the clock still runs is eventually *)
(* woken, unless an insertion was interrupted or the kernel panicked.  No  *)
(* nap ends after MaxTicks, so the last tick finds every sleeper due.      *)
(***************************************************************************)
Wakes ==
    \A t \in Thread :
        status[t] = "BLOCKED" /\ ticks < MaxTicks ~>
            status[t] # "BLOCKED" \/ torn \/ halted

(***************************************************************************)
(* NoCrash: timer_sleep() does not crash the kernel, whatever its argument *)
(* (the requirement of the test alarm-negative).                           *)
(***************************************************************************)
NoCrash == ~halted

=============================================================================
