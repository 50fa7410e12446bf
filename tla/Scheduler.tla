------------------------------ MODULE Scheduler ------------------------------
(***************************************************************************)
(* Assignment4/scheduler.c: a scheduler made of callbacks.  The simulator  *)
(* (supplied, simulator.a) calls it when something happens; the scheduler  *)
(* picks a thread with sim_dispatch() and keeps each thread's waiting time *)
(* by adding and subtracting sim_time() as the thread starts and stops     *)
(* waiting.                                                                *)
(*                                                                         *)
(* The simulator is external.  A clock tick is modelled as three phases:   *)
(* arrivals and starts of I/O ("arrive"), tick() ("tick"), and what the    *)
(* running thread and the devices do in the rest of the tick ("cpu"),      *)
(* which the program dates sim_time() + 1.                                 *)
(***************************************************************************)
EXTENDS Integers, Sequences, FiniteSets

CONSTANTS
    Job,           \* the threads of the simulation
    Priority,      \* their priorities (0 is the highest)
    Quanta,        \* the quanta the scheduler is started with
    MaxTime,       \* bound: the last tick of the simulation
    NoJob          \* NULL

ASSUME SchedulerAssumption ==
    /\ IsFiniteSet(Job) /\ Priority \in [Job -> Nat] /\ NoJob \notin Job
    /\ Quanta \subseteq Nat \ {0} /\ MaxTime \in Nat

Algorithms == {"FIRST_COME_FIRST_SERVED", "ROUND_ROBIN",
               "NON_PREEMPTIVE_PRIORITY", "PREEMPTIVE_PRIORITY", "other"}

VARIABLES
    a_type, gquantum,        \* the arguments of scheduler()
    ready,                   \* the ready queue
    running,                 \* the thread on the CPU
    wrapper,                 \* its twrapper_t: wait, arrive, end, tick
    report,                  \* what stats() returned
    sim_time, phase,         \* the simulator: the clock ...
    place,                   \* ... and where each thread is: "new", "sched",
                             \* "queued" and "served" (I/O), "done"
    waited,                  \* observation: the ticks each thread has waited
    stretch                  \* observation: of those, the last ones in a row

schedVars == <<a_type, gquantum, ready, running, wrapper, report,
               sim_time, phase, place, waited, stretch>>

SchedInit(a, q) ==
    /\ a_type = a /\ gquantum = q
    /\ ready = <<>>
    /\ running = NoJob
    /\ wrapper = [t \in Job |-> [wait |-> 0, arrive |-> 0, end |-> 0, tick |-> 0]]
    /\ report = [t \in Job |-> [waiting_time |-> 0, turnaround_time |-> 0]]
    /\ sim_time = 0 /\ phase = "arrive"
    /\ place = [t \in Job |-> "new"]
    /\ waited = [t \in Job |-> 0]
    /\ stretch = [t \in Job |-> 0]

-----------------------------------------------------------------------------
Members(q) == {q[k] : k \in DOMAIN q}

(* external: queue_sort() leaves the queue in any ascending order *)
Sortings(q) ==
    {s \in [DOMAIN q -> Members(q)] :
        /\ Members(s) = Members(q)
        /\ \A k \in 2 .. Len(q) : Priority[s[k - 1]] <= Priority[s[k]]}

(* wait += n and wait -= n, and tick = n *)
AddWait(w, t, n) == [w EXCEPT ![t].wait = @ + n]
SetTick(w, t, n) == [w EXCEPT ![t].tick = n]

(* sys_exec(): a thread is ready for the first time *)
sys_exec(t) ==
    /\ phase = "arrive"
    /\ place[t] = "new"
    /\ wrapper' = [wrapper EXCEPT ![t] =
                      [wait |-> 0 - sim_time, arrive |-> sim_time,
                       end |-> 0, tick |-> gquantum]]
    /\ ready' = Append(ready, t)
    /\ place' = [place EXCEPT ![t] = "sched"]
    /\ UNCHANGED <<a_type, gquantum, running, report, sim_time, phase, waited, stretch>>

(* io_starting(): the I/O of a thread leaves its queue *)
io_starting(t) ==
    /\ phase = "arrive"
    /\ place[t] = "queued"
    /\ wrapper' = AddWait(wrapper, t, sim_time)
    /\ place' = [place EXCEPT ![t] = "served"]
    /\ UNCHANGED <<a_type, gquantum, ready, running, report, sim_time, phase, waited, stretch>>

(* run_thread() leaves queue, CPU and wrappers as q, r and w *)
Dispatch(q, r, w) == [ready |-> q, running |-> r, wrapper |-> AddWait(w, r, sim_time)]

(* return from run_thread() with nothing changed but the order of the queue *)
Keep(q) == [ready |-> q, running |-> running, wrapper |-> wrapper]

(* the head of queue q replaces the running thread, which starts to wait *)
Switch(q, w) ==
    Dispatch(Append(Tail(q), running), Head(q), AddWait(w, running, 0 - sim_time))

(* the four policies of run_thread(), called with a ready queue that is    *)
(* not empty: the outcomes possible                                        *)
NonPreemptivePriority ==
    IF running = NoJob
    THEN {Dispatch(Tail(q), Head(q), wrapper) : q \in Sortings(ready)}
    ELSE {Keep(ready)}

(* variant: the thread that loses the CPU is not charged *)
PreemptUncharged ==
    IF running = NoJob
    THEN {Dispatch(Tail(q), Head(q), wrapper) : q \in Sortings(ready)}
    ELSE {IF Priority[Head(q)] < Priority[running]
          THEN Dispatch(Append(Tail(q), running), Head(q), wrapper)
          ELSE Keep(q) : q \in Sortings(ready)}

PreemptivePriority ==
    IF running = NoJob
    THEN {Dispatch(Tail(q), Head(q), wrapper) : q \in Sortings(ready)}
    ELSE {IF Priority[Head(q)] < Priority[running]
          THEN Switch(q, wrapper) ELSE Keep(q) : q \in Sortings(ready)}

FirstComeFirstServed ==
    IF running = NoJob THEN {Dispatch(Tail(ready), Head(ready), wrapper)}
    ELSE {Keep(ready)}

(* variant: a thread keeps the CPU for one tick more than its quantum *)
RoundRobinLate ==
    LET renewed == SetTick(wrapper, Head(ready), gquantum) IN
    IF running = NoJob THEN {Dispatch(Tail(ready), Head(ready), renewed)}
    ELSE IF wrapper[running].tick < 0 THEN {Switch(ready, renewed)}
    ELSE {Keep(ready)}

RoundRobin ==
    LET renewed == SetTick(wrapper, Head(ready), gquantum) IN
    IF running = NoJob THEN {Dispatch(Tail(ready), Head(ready), renewed)}
    ELSE IF wrapper[running].tick <= 0 THEN {Switch(ready, renewed)}
    ELSE {Keep(ready)}

run_thread ==
    CASE a_type = "NON_PREEMPTIVE_PRIORITY" -> NonPreemptivePriority
      [] a_type = "PREEMPTIVE_PRIORITY" -> PreemptivePriority
      [] a_type = "FIRST_COME_FIRST_SERVED" -> FirstComeFirstServed
      [] a_type = "ROUND_ROBIN" -> RoundRobin
      [] OTHER -> {Keep(ready)}

(* the part of tick() after run_thread(): under round robin a tick is used *)
UseTick(s) ==
    IF a_type = "ROUND_ROBIN" /\ s.running # NoJob
    THEN [ready |-> s.ready, running |-> s.running,
          wrapper |-> SetTick(s.wrapper, s.running, s.wrapper[s.running].tick - 1)]
    ELSE s

(* tick() *)
tick ==
    /\ phase = "tick"
    /\ \E s \in IF ready # <<>> THEN run_thread
                ELSE IF running # NoJob /\ wrapper[running].tick <= 0
                THEN {[ready |-> ready, running |-> running,
                       wrapper |-> SetTick(wrapper, running, gquantum)]}
                ELSE {Keep(ready)} :
          LET u == UseTick(s)
              waits == Members(u.ready) \cup {t \in Job : place[t] = "queued"}
          IN /\ ready' = u.ready /\ running' = u.running /\ wrapper' = u.wrapper
             /\ waited' = [t \in Job |-> waited[t] + (IF t \in waits THEN 1 ELSE 0)]
             /\ stretch' = [t \in Job |-> IF t \in Members(u.ready)
                                          THEN stretch[t] + 1 ELSE 0]
    /\ phase' = "cpu"
    /\ UNCHANGED <<a_type, gquantum, report, sim_time, place>>

(* sys_exit(): the running thread has completed *)
sys_exit ==
    /\ phase = "cpu" /\ running # NoJob
    /\ wrapper' = [wrapper EXCEPT ![running].end = sim_time + 1]
    /\ place' = [place EXCEPT ![running] = "done"]
    /\ running' = NoJob
    /\ UNCHANGED <<a_type, gquantum, ready, report, sim_time, phase, waited, stretch>>

(* sys_read(), and sys_write(), which calls it: the running thread asks for I/O *)
sys_read ==
    /\ phase = "cpu" /\ running # NoJob
    /\ wrapper' = AddWait(wrapper, running, 0 - (sim_time + 1))
    /\ place' = [place EXCEPT ![running] = "queued"]
    /\ running' = NoJob
    /\ UNCHANGED <<a_type, gquantum, ready, report, sim_time, phase, waited, stretch>>

(* io_complete(): the thread is ready again *)
io_complete(t) ==
    /\ phase = "cpu" /\ place[t] = "served"
    /\ wrapper' = AddWait(wrapper, t, 0 - (sim_time + 1))
    /\ ready' = Append(ready, t)
    /\ place' = [place EXCEPT ![t] = "sched"]
    /\ UNCHANGED <<a_type, gquantum, running, report, sim_time, phase, waited, stretch>>

(* external: the simulator goes on to tick(), and to the next tick *)
Advance ==
    /\ \/ phase = "arrive" /\ phase' = "tick" /\ UNCHANGED sim_time
       \/ phase = "cpu" /\ sim_time < MaxTime
          /\ phase' = "arrive" /\ sim_time' = sim_time + 1
    /\ UNCHANGED <<a_type, gquantum, ready, running, wrapper, report, place, waited, stretch>>

(* stats(): each thread's waiting and turnaround time, when all are done *)
stats ==
    /\ phase = "cpu" /\ \A t \in Job : place[t] = "done"
    /\ report' = [t \in Job |->
                    [waiting_time |-> wrapper[t].wait,
                     turnaround_time |-> wrapper[t].end - wrapper[t].arrive]]
    /\ phase' = "over"
    /\ UNCHANGED <<a_type, gquantum, ready, running, wrapper, sim_time, place, waited, stretch>>

SchedNext ==
    \/ \E t \in Job : sys_exec(t) \/ io_starting(t) \/ io_complete(t)
    \/ tick \/ sys_exit \/ sys_read \/ Advance \/ stats

-----------------------------------------------------------------------------
(* the first tick that is not yet counted in waited *)
Now == IF phase = "cpu" THEN sim_time + 1 ELSE sim_time

Waits(t) == place[t] = "queued" \/ t \in Members(ready)

(***************************************************************************)
(* The sums of sim_time() are the waiting times: at every moment, and      *)
(* whatever sequence of dispatches, preemptions and I/O a thread has been  *)
(* through, the field wait (with the wait that is still going on) is the   *)
(* number of ticks the thread spent neither on the CPU nor in an I/O       *)
(* operation; and that is what stats() reports.                            *)
(***************************************************************************)
WaitExact ==
    /\ phase # "over" =>
          \A t \in Job : place[t] # "new" =>
             wrapper[t].wait + (IF Waits(t) THEN Now ELSE 0) = waited[t]
    /\ phase = "over" =>
          \A t \in Job : report[t].waiting_time = waited[t]

(***************************************************************************)
(* Every decision of tick() follows the policy.  A thread that is ready is *)
(* left waiting only for a running thread that may go before it: any one   *)
(* under a policy that does not preempt, one of no lower priority under    *)
(* PREEMPTIVE_PRIORITY; the non-preemptive policies take no running thread *)
(* off the CPU.  Under FIRST_COME_FIRST_SERVED and ROUND_ROBIN whoever     *)
(* gets the CPU has been ready for as long as anybody; and under           *)
(* ROUND_ROBIN nobody waits longer than a quantum for each of the other    *)
(* threads.                                                                *)
(***************************************************************************)
ByPolicy ==
    [][phase = "tick" /\ phase' = "cpu" /\ a_type # "other" =>
         /\ ready # <<>> => running' # NoJob
         /\ a_type \in {"FIRST_COME_FIRST_SERVED", "NON_PREEMPTIVE_PRIORITY"} =>
               (running # NoJob => running' = running)
         /\ a_type = "PREEMPTIVE_PRIORITY" =>
               \A t \in Members(ready') : Priority[running'] <= Priority[t]
         /\ a_type = "NON_PREEMPTIVE_PRIORITY" /\ running = NoJob =>
               \A t \in Members(ready') : Priority[running'] <= Priority[t]
         /\ a_type \in {"FIRST_COME_FIRST_SERVED", "ROUND_ROBIN"} /\ running' # running =>
               \A t \in Members(ready) : stretch[t] <= stretch[running']
         /\ a_type = "ROUND_ROBIN" =>
               \A t \in Job : stretch'[t] <= gquantum * (Cardinality(Job) - 1)
      ]_schedVars
=============================================================================
