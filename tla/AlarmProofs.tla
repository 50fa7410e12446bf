----------------------------- MODULE AlarmProofs -----------------------------
(***************************************************************************)
(* Proofs about the alarm clock of Lab 1, for any number of threads, any   *)
(* naps and any number of ticks: no thread is woken early, even when an    *)
(* interrupt tore an insertion apart, and as long as none did the loop of  *)
(* timer_interrupt() misses no thread that is due.                         *)
(***************************************************************************)
EXTENDS Alarm, FiniteSetTheorems, TLAPS

(* no pointer that the code follows is null, torn insertions or not *)
Pointers ==
    /\ next[HEAD] \in Elem
    /\ \A e \in Elem : next[e] \in Thread => next[next[e]] \in Elem
    /\ \A t \in Thread : Inserting(t) =>
          /\ before[t] \in Elem
          /\ before[t] \in Thread => next[before[t]] \in Elem
    /\ \A t \in Thread : pc[t] \in {"link2", "link3"} => next[t] \in Elem
    /\ cursor \in Thread => next[cursor] \in Elem

(* the run queue: threads that are ready, each once *)
Queue(st, rl) ==
    /\ rl \in Seq(Thread)
    /\ \A i \in 1 .. Len(rl) : st[rl[i]] = "READY"
    /\ \A i, j \in 1 .. Len(rl) : rl[i] = rl[j] => i = j

SchedOK ==
    /\ Queue(status, ready_list)
    /\ running # Idle => status[running] = "RUNNING"
    /\ \A t \in Thread : status[t] = "BLOCKED" => pc[t] = "asleep"

Base == TypeOK /\ Pointers /\ SchedOK /\ NeverEarly

Labels == {"user", "push", "link1", "link2", "link3", "block", "asleep"}

-----------------------------------------------------------------------------
(* The threads created by Main are different threads. *)
LEMMA CreatedOnce ==
    \A i, j \in 1 .. Len(Created) : Created[i] = Created[j] => i = j
<1> DEFINE n == Len(Created)
           S == Thread \ {Main}
<1>1. /\ n \in Nat /\ Created \in [1 .. n -> S]
      /\ \A t \in S : \E i \in 1 .. n : Created[i] = t
  BY AlarmAssumption
<1>2. Created \in Surjection(1 .. n, S)
  BY <1>1 DEF Surjection
<1>3. IsFiniteSet(1 .. n) /\ Cardinality(1 .. n) = n
  <2>1. 1 \in Int /\ n \in Int /\ (IF 1 > n THEN 0 ELSE n - 1 + 1) = n
    BY <1>1
  <2> HIDE DEF n
  <2>2. QED
    BY <2>1, FS_Interval, Zenon
<1>4. IsFiniteSet(S)
  BY <1>2, <1>3, FS_Surjection
<1>5. IsFiniteSet(Thread) /\ Cardinality(S) = Cardinality(Thread) - 1
  <2>1. Main \notin S /\ S \cup {Main} = Thread
    BY AlarmAssumption
  <2>2. IsFiniteSet(Thread)
    BY <1>4, <2>1, FS_AddElement
  <2>3. QED
    BY <2>2, AlarmAssumption, FS_RemoveElement
<1>6. Cardinality(S) = n
  BY <1>5, AlarmAssumption
<1>7. Created \in Injection(1 .. n, S)
  BY <1>2, <1>3, <1>4, <1>6, FS_SurjSameCardinalityImpliesInj
<1>8. QED
  BY <1>7 DEF Injection, IsInjective

(* The first state satisfies the basic invariant. *)
LEMMA InitBase == Init => Base
<1> SUFFICES ASSUME Init PROVE Base
  OBVIOUS
<1>1. TypeOK
  <2>1. ready_list \in Seq(Thread)
    BY AlarmAssumption DEF Init
  <2>2. /\ next \in [Elem -> Elem \cup {NULL}] /\ prev \in [Elem -> Elem \cup {NULL}]
        /\ before \in [Thread -> Elem \cup {NULL}]
    BY DEF Init, Elem
  <2>3. /\ waketime \in [Thread -> Int] /\ ticks \in 0 .. MaxTicks
        /\ status \in [Thread -> {"RUNNING", "READY", "BLOCKED"}]
        /\ pc \in [Thread -> Labels]
    BY AlarmAssumption DEF Init, Labels
  <2>4. QED
    BY <2>1, <2>2, <2>3, AlarmAssumption DEF Init, TypeOK, Labels
<1>2. Pointers
  BY AlarmAssumption DEF Init, Pointers, Elem, Inserting
<1>3. SchedOK
  BY AlarmAssumption, CreatedOnce DEF Init, SchedOK, Queue
<1>4. QED
  BY <1>1, <1>2, <1>3 DEF Base, Init, NeverEarly

(***************************************************************************)
(* schedule() keeps the run queue in order, starts a ready thread or the   *)
(* idle thread, and blocks or unblocks nobody.                             *)
(***************************************************************************)
LEMMA ScheduleOK ==
    ASSUME NEW st \in [Thread -> {"RUNNING", "READY", "BLOCKED"}], NEW rl,
           Queue(st, rl), Schedule(st, rl)
    PROVE  /\ running' \in Thread \cup {Idle}
           /\ running' # Idle => status'[running'] = "RUNNING"
           /\ status' \in [Thread -> {"RUNNING", "READY", "BLOCKED"}]
           /\ Queue(status', ready_list')
           /\ \A t \in Thread : status'[t] = "BLOCKED" <=> st[t] = "BLOCKED"
<1>1. CASE rl = <<>>
  BY <1>1 DEF Schedule, Queue
<1>2. CASE rl # <<>>
  <2>1. /\ rl \in Seq(Thread) /\ Len(rl) \in Nat /\ Len(rl) >= 1
        /\ Head(rl) = rl[1] /\ rl[1] \in Thread /\ st[rl[1]] = "READY"
        /\ Tail(rl) \in Seq(Thread) /\ Len(Tail(rl)) = Len(rl) - 1
        /\ \A i \in 1 .. Len(rl) - 1 : Tail(rl)[i] = rl[i + 1]
    BY <1>2 DEF Queue
  <2>2. /\ running' = rl[1] /\ status' = [st EXCEPT ![rl[1]] = "RUNNING"]
        /\ ready_list' = Tail(rl)
    BY <1>2, <2>1 DEF Schedule
  <2>3. \A i \in 1 .. Len(rl) - 1 : rl[i + 1] \in Thread /\ rl[i + 1] # rl[1] /\ st[rl[i + 1]] = "READY"
    BY <2>1 DEF Queue
  <2>4. Queue(status', ready_list')
    BY <2>1, <2>2, <2>3 DEF Queue
  <2>5. QED
    BY <2>1, <2>2, <2>4
<1>3. QED
  BY <1>1, <1>2

(* A thread that is not ready can join the run queue. *)
LEMMA QueueAppend ==
    ASSUME NEW st \in [Thread -> {"RUNNING", "READY", "BLOCKED"}], NEW rl,
           Queue(st, rl), NEW t \in Thread, st[t] # "READY"
    PROVE  Queue([st EXCEPT ![t] = "READY"], Append(rl, t))
<1>1. rl \in Seq(Thread) /\ Len(rl) \in Nat /\ \A i \in 1 .. Len(rl) : rl[i] \in Thread /\ rl[i] # t
  BY DEF Queue
<1>2. /\ Append(rl, t) \in Seq(Thread) /\ Len(Append(rl, t)) = Len(rl) + 1
      /\ \A i \in 1 .. Len(rl) : Append(rl, t)[i] = rl[i]
      /\ Append(rl, t)[Len(rl) + 1] = t
  BY <1>1
<1>3. QED
  BY <1>1, <1>2 DEF Queue

-----------------------------------------------------------------------------
(***************************************************************************)
(* The steps of the running thread: it moves to l, and the others stay.    *)
(***************************************************************************)
LEMMA ThreadBase ==
    ASSUME Base, NEW t \in Thread, NEW k, NEW l \in Labels, At(t, k), Goto(t, l),
           UNCHANGED <<schedVars, ticks>>,
           \A u \in Thread \ {t} : waketime'[u] = waketime[u],
           l = "asleep" => k = "asleep" /\ UNCHANGED waketime
    PROVE  /\ pc[t] = k /\ pc'[t] = l /\ pc' \in [Thread -> Labels]
           /\ \A u \in Thread \ {t} : pc'[u] = pc[u]
           /\ SchedOK' /\ NeverEarly'
<1>1. /\ running = t /\ pc[t] = k /\ pc'[t] = l /\ pc' \in [Thread -> Labels]
      /\ \A u \in Thread \ {t} : pc'[u] = pc[u]
  BY DEF At, Goto, Base, TypeOK, Labels
<1>2. status[t] = "RUNNING" /\ UNCHANGED <<running, status, ready_list, ticks>>
  BY <1>1, AlarmAssumption DEF Base, SchedOK, schedVars
<1>3. SchedOK'
  BY <1>1, <1>2 DEF Base, SchedOK, Queue
<1>4. NeverEarly'
  BY <1>1, <1>2 DEF Base, NeverEarly
<1>5. QED
  BY <1>1, <1>3, <1>4

(* timer_sleep() sets the wake time *)
LEMMA SleepBase ==
    ASSUME Base, NEW t \in Thread, NEW n \in Naps, Sleep(t, n)
    PROVE  Base'
<1>1. /\ At(t, "user") /\ Goto(t, "push") /\ UNCHANGED <<schedVars, ticks>>
      /\ UNCHANGED <<next, prev, before, running, status, ready_list, cursor, torn, halted>>
      /\ waketime' = [waketime EXCEPT ![t] = ticks + n]
  BY DEF Sleep, listVars, schedVars
<1>2. /\ waketime' \in [Thread -> Int]
      /\ \A u \in Thread \ {t} : waketime'[u] = waketime[u]
  BY <1>1, AlarmAssumption DEF Base, TypeOK
<1>3. /\ pc[t] = "user" /\ pc'[t] = "push" /\ pc' \in [Thread -> Labels]
      /\ \A u \in Thread \ {t} : pc'[u] = pc[u]
      /\ SchedOK' /\ NeverEarly'
  BY <1>1, <1>2, ThreadBase DEF Labels
<1>4. TypeOK'
  BY <1>1, <1>2, <1>3 DEF Base, TypeOK, Labels
<1>5. Pointers'
  BY <1>1, <1>3 DEF Base, Pointers, Inserting
<1>6. QED
  BY <1>3, <1>4, <1>5 DEF Base

(* list_push_front() reads the first element *)
LEMMA ListBeginBase ==
    ASSUME Base, NEW t \in Thread, ListBegin(t)
    PROVE  Base'
<1>1. /\ At(t, "push") /\ Goto(t, "link1") /\ UNCHANGED <<schedVars, ticks>>
      /\ UNCHANGED <<next, prev, waketime, running, status, ready_list, cursor, torn, halted>>
      /\ before' = [before EXCEPT ![t] = next[HEAD]]
  BY DEF ListBegin, schedVars
<1>2. /\ pc[t] = "push" /\ pc'[t] = "link1" /\ pc' \in [Thread -> Labels]
      /\ \A u \in Thread \ {t} : pc'[u] = pc[u]
      /\ SchedOK' /\ NeverEarly'
  BY <1>1, ThreadBase DEF Labels
<1>3. before' \in [Thread -> Elem \cup {NULL}] /\ before'[t] = next[HEAD]
      /\ \A u \in Thread \ {t} : before'[u] = before[u]
  BY <1>1 DEF Base, TypeOK, Elem
<1>4. TypeOK'
  BY <1>1, <1>2, <1>3 DEF Base, TypeOK, Labels
<1>5. HEAD \in Elem
  BY DEF Elem
<1>6. Pointers'
  BY <1>1, <1>2, <1>3, <1>5 DEF Base, Pointers, Inserting
<1>7. QED
  BY <1>2, <1>4, <1>6 DEF Base

(* list_insert(): the element's own pointers *)
LEMMA LinkSelfBase ==
    ASSUME Base, NEW t \in Thread, LinkSelf(t)
    PROVE  Base'
<1>1. /\ At(t, "link1") /\ Goto(t, "link2") /\ UNCHANGED <<schedVars, ticks>>
      /\ UNCHANGED <<before, waketime, running, status, ready_list, cursor, torn, halted>>
      /\ prev' = [prev EXCEPT ![t] = prev[before[t]]]
      /\ next' = [next EXCEPT ![t] = before[t]]
      /\ cursor = NULL
  BY DEF LinkSelf, schedVars, At
<1>2. /\ pc[t] = "link1" /\ pc'[t] = "link2" /\ pc' \in [Thread -> Labels]
      /\ \A u \in Thread \ {t} : pc'[u] = pc[u]
      /\ SchedOK' /\ NeverEarly'
  BY <1>1, ThreadBase DEF Labels
<1>3. t \in Elem /\ HEAD \in Elem /\ t # HEAD /\ Thread \subseteq Elem
  BY AlarmAssumption DEF Elem
<1>4. /\ before[t] \in Elem
      /\ before[t] \in Thread => next[before[t]] \in Elem
  BY <1>2 DEF Base, Pointers, Inserting
<1>5. /\ next' \in [Elem -> Elem \cup {NULL}] /\ prev' \in [Elem -> Elem \cup {NULL}]
      /\ next'[t] = before[t] /\ \A e \in Elem \ {t} : next'[e] = next[e]
  BY <1>1, <1>3, <1>4 DEF Base, TypeOK
<1>6. TypeOK'
  BY <1>1, <1>2, <1>5 DEF Base, TypeOK, Labels
<1>7. \A e \in Elem : next[e] \in Elem => next'[e] \in Elem
  BY <1>4, <1>5
<1>8. cursor' \notin Thread
  BY <1>1, AlarmAssumption
<1>9. Pointers'
  BY <1>1, <1>2, <1>3, <1>4, <1>5, <1>7, <1>8 DEF Base, Pointers, Inserting
<1>10. QED
  BY <1>2, <1>6, <1>9 DEF Base

(* list_insert(): the pointer of the predecessor *)
LEMMA LinkNextBase ==
    ASSUME Base, NEW t \in Thread, LinkNext(t)
    PROVE  Base'
<1>1. /\ At(t, "link2") /\ Goto(t, "link3") /\ UNCHANGED <<schedVars, ticks>>
      /\ UNCHANGED <<before, prev, waketime, running, status, ready_list, cursor, torn, halted>>
      /\ next' = [next EXCEPT ![prev[before[t]]] = t]
      /\ cursor = NULL
  BY DEF LinkNext, schedVars, At
<1>2. /\ pc[t] = "link2" /\ pc'[t] = "link3" /\ pc' \in [Thread -> Labels]
      /\ \A u \in Thread \ {t} : pc'[u] = pc[u]
      /\ SchedOK' /\ NeverEarly'
  BY <1>1, ThreadBase DEF Labels
<1>3. t \in Elem /\ HEAD \in Elem /\ Thread \subseteq Elem
  BY DEF Elem
<1>4. /\ next[t] \in Elem
      /\ \A e \in Elem : next'[e] = next[e] \/ next'[e] = t
      /\ next' \in [Elem -> Elem \cup {NULL}]
  BY <1>1, <1>2, <1>3 DEF Base, TypeOK, Pointers
<1>5. TypeOK'
  BY <1>1, <1>2, <1>4 DEF Base, TypeOK, Labels
<1>6. \A e \in Elem : next[e] \in Elem => next'[e] \in Elem
  BY <1>3, <1>4
<1>7. cursor' \notin Thread
  BY <1>1, AlarmAssumption
<1>8. Pointers'
  BY <1>1, <1>2, <1>3, <1>4, <1>6, <1>7 DEF Base, Pointers, Inserting
<1>9. QED
  BY <1>2, <1>5, <1>8 DEF Base

(* list_insert(): the pointer of the successor *)
LEMMA LinkPrevBase ==
    ASSUME Base, NEW t \in Thread, LinkPrev(t)
    PROVE  Base'
<1>1. /\ At(t, "link3") /\ Goto(t, "block") /\ UNCHANGED <<schedVars, ticks>>
      /\ UNCHANGED <<next, waketime, running, status, ready_list, cursor, torn, halted>>
      /\ prev' = [prev EXCEPT ![before[t]] = t]
      /\ before' = [before EXCEPT ![t] = NULL]
  BY DEF LinkPrev, schedVars
<1>2. /\ pc[t] = "link3" /\ pc'[t] = "block" /\ pc' \in [Thread -> Labels]
      /\ \A u \in Thread \ {t} : pc'[u] = pc[u]
      /\ SchedOK' /\ NeverEarly'
  BY <1>1, ThreadBase DEF Labels
<1>3. /\ before' \in [Thread -> Elem \cup {NULL}]
      /\ \A u \in Thread \ {t} : before'[u] = before[u]
      /\ prev' \in [Elem -> Elem \cup {NULL}]
  BY <1>1 DEF Base, TypeOK, Elem
<1>4. TypeOK'
  BY <1>1, <1>2, <1>3 DEF Base, TypeOK, Labels
<1>5. Pointers'
  BY <1>1, <1>2, <1>3 DEF Base, Pointers, Inserting
<1>6. QED
  BY <1>2, <1>4, <1>5 DEF Base

(* thread_block() at the end of timer_sleep() *)
LEMMA BlockBase ==
    ASSUME Base, NEW t \in Thread, Block(t)
    PROVE  Base' /\ \A u \in Thread : status'[u] = "BLOCKED" <=> u = t \/ status[u] = "BLOCKED"
<1> DEFINE st == [status EXCEPT ![t] = "BLOCKED"]
<1>1. /\ running = t /\ pc[t] = "block" /\ pc' = [pc EXCEPT ![t] = "asleep"]
      /\ Schedule(st, ready_list)
      /\ UNCHANGED <<ticks, waketime, next, prev, before, cursor, torn, halted>>
  BY DEF Block, At, Goto, listVars
<1>2. st \in [Thread -> {"RUNNING", "READY", "BLOCKED"}] /\ status[t] = "RUNNING"
  BY <1>1, AlarmAssumption DEF Base, TypeOK, SchedOK
<1>3. /\ st[t] = "BLOCKED" /\ \A u \in Thread \ {t} : st[u] = status[u]
      /\ Queue(st, ready_list)
  BY <1>2 DEF Base, TypeOK, SchedOK, Queue
<1> HIDE DEF st
<1>4. /\ running' \in Thread \cup {Idle}
      /\ running' # Idle => status'[running'] = "RUNNING"
      /\ status' \in [Thread -> {"RUNNING", "READY", "BLOCKED"}]
      /\ Queue(status', ready_list')
      /\ \A u \in Thread : status'[u] = "BLOCKED" <=> st[u] = "BLOCKED"
  BY <1>1, <1>2, <1>3, ScheduleOK
<1>5. /\ pc'[t] = "asleep" /\ \A u \in Thread \ {t} : pc'[u] = pc[u]
      /\ pc' \in [Thread -> Labels]
  BY <1>1 DEF Base, TypeOK, Labels
<1>6. TypeOK'
  BY <1>1, <1>4, <1>5 DEF Base, TypeOK, Labels, Queue
<1>7. Pointers'
  BY <1>1, <1>5 DEF Base, Pointers, Inserting
<1>8. SchedOK'
  BY <1>3, <1>4, <1>5 DEF Base, SchedOK
<1>9. NeverEarly'
  BY <1>1, <1>3, <1>4, <1>5 DEF Base, NeverEarly
<1>10. QED
  BY <1>3, <1>4, <1>6, <1>7, <1>8, <1>9 DEF Base

(* a woken thread returns from timer_sleep() *)
LEMMA ReturnBase ==
    ASSUME Base, NEW t \in Thread, Return(t)
    PROVE  Base'
<1>1. /\ At(t, "asleep") /\ Goto(t, "user") /\ UNCHANGED <<schedVars, ticks>>
      /\ UNCHANGED <<next, prev, before, waketime, running, status, ready_list, cursor, torn, halted>>
  BY DEF Return, schedVars, listVars
<1>2. /\ pc[t] = "asleep" /\ pc'[t] = "user" /\ pc' \in [Thread -> Labels]
      /\ \A u \in Thread \ {t} : pc'[u] = pc[u]
      /\ SchedOK' /\ NeverEarly'
  BY <1>1, ThreadBase DEF Labels
<1>3. TypeOK'
  BY <1>1, <1>2 DEF Base, TypeOK, Labels
<1>4. Pointers'
  BY <1>1, <1>2 DEF Base, Pointers, Inserting
<1>5. QED
  BY <1>2, <1>3, <1>4 DEF Base

(* the idle thread gives way to a ready one *)
LEMMA IdleBase ==
    ASSUME Base, IdleStep
    PROVE  Base' /\ \A u \in Thread : status'[u] = "BLOCKED" <=> status[u] = "BLOCKED"
<1>1. /\ Schedule(status, ready_list)
      /\ UNCHANGED <<ticks, waketime, next, prev, before, pc, cursor, torn, halted>>
  BY DEF IdleStep, listVars
<1>2. /\ running' \in Thread \cup {Idle}
      /\ running' # Idle => status'[running'] = "RUNNING"
      /\ status' \in [Thread -> {"RUNNING", "READY", "BLOCKED"}]
      /\ Queue(status', ready_list')
      /\ \A u \in Thread : status'[u] = "BLOCKED" <=> status[u] = "BLOCKED"
  BY <1>1, ScheduleOK DEF Base, TypeOK, SchedOK
<1>3. TypeOK'
  BY <1>1, <1>2 DEF Base, TypeOK, Queue
<1>4. Pointers'
  BY <1>1 DEF Base, Pointers, Inserting
<1>5. SchedOK' /\ NeverEarly'
  BY <1>1, <1>2 DEF Base, SchedOK, NeverEarly
<1>6. QED
  BY <1>2, <1>3, <1>4, <1>5 DEF Base

(* timer_interrupt() begins its walk. *)
LEMMA TickBeginBase ==
    ASSUME Base, TickBegin
    PROVE  Base'
<1>1. /\ ticks < MaxTicks /\ ticks' = ticks + 1 /\ cursor' = next[HEAD]
      /\ torn' \in BOOLEAN
      /\ UNCHANGED <<waketime, next, prev, before, running, status, ready_list, pc, halted>>
  BY DEF TickBegin, listVars, schedVars
<1>2. ticks \in Int /\ ticks' \in 0 .. MaxTicks
  BY <1>1, AlarmAssumption DEF Base, TypeOK
<1>3. HEAD \in Elem /\ cursor' \in Elem
  BY <1>1 DEF Base, Pointers, Elem
<1>4. TypeOK'
  BY <1>1, <1>2, <1>3 DEF Base, TypeOK
<1>5. Pointers'
  BY <1>1, <1>3 DEF Base, Pointers, Inserting
<1>6. SchedOK'
  BY <1>1 DEF Base, SchedOK, Queue
<1>7. NeverEarly'
  <2>1. \A t \in Thread : waketime[t] \in Int
    BY DEF Base, TypeOK
  <2>2. QED
    BY <1>1, <1>2, <2>1 DEF Base, NeverEarly
<1>8. QED
  BY <1>4, <1>5, <1>6, <1>7 DEF Base

(* A thread that timer_interrupt() wakes: it was blocked, and it is due. *)
Wake ==
    /\ ~halted /\ cursor \in Thread /\ IsDue(cursor) /\ status[cursor] = "BLOCKED"
    /\ status' = [status EXCEPT ![cursor] = "READY"]
    /\ ready_list' = Append(ready_list, cursor)
    /\ next' = [next EXCEPT ![prev[cursor]] = next[cursor]]
    /\ prev' = [prev EXCEPT ![next[cursor]] = prev[cursor]]
    /\ cursor' = next[cursor]
    /\ UNCHANGED <<ticks, waketime, before, running, pc, torn, halted>>

(* One that it leaves alone, or whose state it asserts in vain. *)
Pass ==
    /\ ~halted /\ cursor \in Thread
    /\ IsDue(cursor) => halted'
    /\ halted' \in BOOLEAN
    /\ cursor' = next[cursor]
    /\ UNCHANGED <<status, ready_list, next, prev, ticks, waketime, before, running, pc, torn>>

(* An iteration of the handler wakes a thread or passes it by. *)
LEMMA ScanCases == TypeOK /\ TickScan => Wake \/ Pass
  BY DEF TypeOK, TickScan, Wake, Pass

(* the handler removes a due thread and unblocks it *)
LEMMA WakeBase ==
    ASSUME Base, Wake
    PROVE  Base'
<1>1. /\ next[cursor] \in Elem /\ cursor' \in Elem /\ cursor' = next[cursor]
      /\ cursor' \in Thread => next[cursor'] \in Elem
      /\ Thread \subseteq Elem /\ HEAD \in Elem
      /\ cursor \in Elem /\ prev[cursor] \in Elem \cup {NULL}
  BY DEF Wake, Base, TypeOK, Pointers, Elem
<1>2. /\ next' \in [Elem -> Elem \cup {NULL}] /\ prev' \in [Elem -> Elem \cup {NULL}]
      /\ \A e \in Elem : next'[e] = next[e] \/ next'[e] = next[cursor]
  BY <1>1 DEF Wake, Base, TypeOK
<1>3. Queue(status', ready_list') /\ status' \in [Thread -> {"RUNNING", "READY", "BLOCKED"}]
  BY QueueAppend DEF Wake, Base, TypeOK, SchedOK
<1>4. TypeOK'
  BY <1>1, <1>2, <1>3 DEF Wake, Base, TypeOK, Queue
<1>5. /\ \A e \in Elem : next[e] \in Elem => next'[e] \in Elem
  BY <1>1, <1>2
<1>6. Pointers'
  <2>1. next'[HEAD] \in Elem
    BY <1>1, <1>5 DEF Base, Pointers
  <2>2. \A e \in Elem : next'[e] \in Thread => next'[next'[e]] \in Elem
    BY <1>1, <1>2, <1>5 DEF Base, Pointers
  <2>3. cursor' \in Thread => next'[cursor'] \in Elem
    BY <1>1, <1>5
  <2>4. QED
    BY <1>1, <1>5, <2>1, <2>2, <2>3 DEF Base, Pointers, Inserting, Wake
<1>7. SchedOK'
  <2>1. running # Idle => running # cursor
    BY DEF Wake, Base, SchedOK
  <2>2. QED
    BY <1>3, <2>1 DEF Wake, Base, TypeOK, SchedOK
<1>8. NeverEarly'
  BY DEF Wake, IsDue, Base, TypeOK, NeverEarly
<1>9. QED
  BY <1>4, <1>6, <1>7, <1>8 DEF Base

(* the handler goes on to the next element *)
LEMMA PassBase ==
    ASSUME Base, Pass
    PROVE  Base'
<1>1. next[cursor] \in Elem /\ Thread \subseteq Elem
  BY DEF Pass, Base, Pointers, Elem
<1>2. TypeOK'
  BY <1>1 DEF Pass, Base, TypeOK
<1>3. Pointers'
  BY <1>1 DEF Pass, Base, Pointers, Inserting
<1>4. SchedOK' /\ NeverEarly'
  BY DEF Pass, Base, SchedOK, Queue, NeverEarly
<1>5. QED
  BY <1>2, <1>3, <1>4 DEF Base

(* the handler has reached the end of the list *)
LEMMA TickEndBase ==
    ASSUME Base, NEW slice_over \in BOOLEAN, TickEnd(slice_over)
    PROVE  Base' /\ \A u \in Thread : status'[u] = "BLOCKED" <=> status[u] = "BLOCKED"
<1>1. /\ cursor' = NULL
      /\ UNCHANGED <<ticks, waketime, next, prev, before, pc, torn, halted>>
  BY DEF TickEnd, listVars
<1>2. /\ running' \in Thread \cup {Idle}
      /\ running' # Idle => status'[running'] = "RUNNING"
      /\ status' \in [Thread -> {"RUNNING", "READY", "BLOCKED"}]
      /\ Queue(status', ready_list')
      /\ \A u \in Thread : status'[u] = "BLOCKED" <=> status[u] = "BLOCKED"
  <2>1. CASE slice_over /\ running # Idle
    <3> DEFINE st == [status EXCEPT ![running] = "READY"]
    <3>1. running \in Thread /\ status[running] = "RUNNING"
      BY <2>1 DEF Base, TypeOK, SchedOK
    <3>2. /\ st \in [Thread -> {"RUNNING", "READY", "BLOCKED"}]
          /\ \A u \in Thread : st[u] = "BLOCKED" <=> status[u] = "BLOCKED"
      BY <3>1 DEF Base, TypeOK
    <3>3. Queue(st, Append(ready_list, running))
      BY <3>1, QueueAppend DEF Base, TypeOK, SchedOK
    <3>4. Schedule(st, Append(ready_list, running))
      BY <2>1 DEF TickEnd
    <3> HIDE DEF st
    <3>5. QED
      BY <3>2, <3>3, <3>4, ScheduleOK
  <2>2. CASE ~(slice_over /\ running # Idle)
    BY <2>2 DEF TickEnd, schedVars, Base, TypeOK, SchedOK
  <2>3. QED
    BY <2>1, <2>2
<1>3. TypeOK'
  BY <1>1, <1>2 DEF Base, TypeOK, Queue
<1>4. Pointers'
  BY <1>1, AlarmAssumption DEF Base, Pointers, Inserting
<1>5. SchedOK' /\ NeverEarly'
  BY <1>1, <1>2 DEF Base, SchedOK, NeverEarly
<1>6. QED
  BY <1>2, <1>3, <1>4, <1>5 DEF Base

(* Every step keeps the basic invariant. *)
LEMMA NextBase == Base /\ [Next]_vars => Base'
<1> SUFFICES ASSUME Base, [Next]_vars PROVE Base'
  OBVIOUS
<1>1. CASE UNCHANGED vars
  BY <1>1 DEF vars, Base, TypeOK, Pointers, Inserting, SchedOK, Queue, NeverEarly
<1>2. CASE \E t \in Thread, n \in Naps : Sleep(t, n)
  BY <1>2, SleepBase
<1>3. CASE \E t \in Thread : ThreadStep(t)
  BY <1>3, ListBeginBase, LinkSelfBase, LinkNextBase, LinkPrevBase, BlockBase, ReturnBase
  DEF ThreadStep
<1>4. CASE IdleStep
  BY <1>4, IdleBase
<1>5. CASE TickBegin
  BY <1>5, TickBeginBase
<1>6. CASE TickScan
  BY <1>6, ScanCases, WakeBase, PassBase DEF Base
<1>7. CASE \E slice_over \in BOOLEAN : TickEnd(slice_over)
  BY <1>7, TickEndBase
<1>8. QED
  BY <1>1, <1>2, <1>3, <1>4, <1>5, <1>6, <1>7 DEF Next, Stop

(* The basic invariant holds throughout. *)
LEMMA AlwaysBase == Spec => []Base
  BY InitBase, NextBase, PTL DEF Spec

(***************************************************************************)
(* NeverEarly: timer_sleep(n) never returns before n ticks have passed,    *)
(* even when the insertion into sleep_list was interrupted.                *)
(***************************************************************************)
THEOREM AlarmNeverEarly == Spec => []NeverEarly
<1>1. Base => NeverEarly
  BY DEF Base
<1>2. QED
  BY <1>1, AlwaysBase, PTL

-----------------------------------------------------------------------------
(***************************************************************************)
(* sleep_list while no insertion was interrupted.  The position r of an    *)
(* element grows by one along next, so the loop of timer_interrupt(),      *)
(* which follows next, has passed every element of a lower position.       *)
(***************************************************************************)
Listed == {t \in Thread : pc[t] = "block" \/ status[t] = "BLOCKED"}

Chain(L, nx, pv, r) ==
    /\ \A e \in L \cup {HEAD} :
          nx[e] \in L \cup {TAIL} /\ pv[nx[e]] = e /\ r[nx[e]] = r[e] + 1
    /\ \A e \in L \cup {TAIL} : pv[e] \in L \cup {HEAD} /\ nx[pv[e]] = e
    /\ \A e \in L : r[HEAD] < r[e] /\ r[e] < r[TAIL]
    /\ r[HEAD] < r[TAIL]
    /\ \A e, f \in L : r[e] = r[f] => e = f

(* the next pointers, without the one that leads to an element whose       *)
(* insertion is not complete                                               *)
Fwd == IF running \in Thread /\ pc[running] = "link3"
       THEN [next EXCEPT ![HEAD] = before[running]]
       ELSE next

(* how far the insertion of thread t has come *)
Inserted(t) ==
    /\ pc[t] \in {"link1", "link2"} => before[t] = next[HEAD]
    /\ pc[t] \in {"link2", "link3"} => next[t] = before[t] /\ prev[t] = HEAD
    /\ pc[t] = "link3" => next[HEAD] = t

(* no thread that the loop has passed is due *)
Scanned(r) ==
    cursor # NULL =>
        /\ cursor \in Listed \cup {TAIL}
        /\ \A t \in Listed : r[t] < r[cursor] => ~IsDue(t)

Untorn ==
    /\ \A t \in Thread : Inserting(t) => running = t /\ cursor = NULL /\ Inserted(t)
    /\ \E r \in [Elem -> Int] : Chain(Listed, Fwd, prev, r) /\ Scanned(r)

ListOK == ~torn /\ ~halted => Untorn

(* A list that has the same pointers is the same list. *)
LEMMA ChainFrame ==
    ASSUME NEW L \in SUBSET Thread, NEW nx, NEW pv, NEW r, Chain(L, nx, pv, r), NEW nx2, NEW pv2,
           \A e \in L \cup {HEAD} : nx2[e] = nx[e],
           \A e \in L \cup {TAIL} : pv2[e] = pv[e]
    PROVE  Chain(L, nx2, pv2, r)
  BY DEF Chain

(* list_push_front() of an element that is not in the list *)
Pushed(L, nx, pv, t, nx2, pv2) ==
    /\ t \in Thread \ L
    /\ nx2[HEAD] = t /\ nx2[t] = nx[HEAD] /\ \A e \in L : nx2[e] = nx[e]
    /\ pv2[t] = HEAD /\ pv2[nx[HEAD]] = t
    /\ \A e \in (L \cup {TAIL}) \ {nx[HEAD]} : pv2[e] = pv[e]

(* list_remove() of the element c *)
Removed(L, nx, pv, c, nx2, pv2) ==
    /\ c \in L
    /\ nx2[pv[c]] = nx[c] /\ \A e \in (L \cup {HEAD}) \ {pv[c]} : nx2[e] = nx[e]
    /\ pv2[nx[c]] = pv[c] /\ \A e \in (L \cup {TAIL}) \ {nx[c]} : pv2[e] = pv[e]

(* what is before the successor of c by the positions r2 is before c by r *)
SameBefore(L, nx, c, r, r2) ==
    \A e \in L \ {c} : r2[e] < r2[nx[c]] => r[e] < r[c]

(* The element is in front of the others. *)
LEMMA ChainInsert ==
    ASSUME NEW L \in SUBSET Thread, NEW nx, NEW pv, NEW r \in [Elem -> Int], Chain(L, nx, pv, r),
           NEW t, NEW nx2, NEW pv2, Pushed(L, nx, pv, t, nx2, pv2)
    PROVE  \E r2 \in [Elem -> Int] : Chain(L \cup {t}, nx2, pv2, r2)
<1> USE DEF Pushed
<1> DEFINE r2 == [e \in Elem |-> IF e = HEAD THEN r[HEAD] - 1
                                 ELSE IF e = t THEN r[HEAD] ELSE r[e]]
<1>1. /\ HEAD \in Elem /\ TAIL \in Elem /\ t \in Elem /\ L \subseteq Elem
      /\ HEAD # TAIL /\ t # HEAD /\ t # TAIL /\ HEAD \notin L /\ TAIL \notin L
  BY AlarmAssumption DEF Elem
<1>2. /\ r2 \in [Elem -> Int] /\ r2[HEAD] = r[HEAD] - 1 /\ r2[t] = r[HEAD]
      /\ \A e \in L \cup {TAIL} : r2[e] = r[e]
      /\ \A e \in Elem : r[e] \in Int
  BY <1>1
<1> HIDE DEF r2
<1>3. /\ nx[HEAD] \in L \cup {TAIL} /\ r[nx[HEAD]] = r[HEAD] + 1
      /\ \A e \in L : nx[e] \in L \cup {TAIL} /\ r[nx[e]] = r[e] + 1 /\ pv[nx[e]] = e
      /\ pv[nx[HEAD]] = HEAD
      /\ \A e \in L \cup {TAIL} : pv[e] \in L \cup {HEAD} /\ nx[pv[e]] = e
      /\ \A e \in L : r[HEAD] < r[e] /\ r[e] < r[TAIL]
      /\ r[HEAD] < r[TAIL]
      /\ \A e, f \in L : r[e] = r[f] => e = f
  BY DEF Chain
<1>4. \A e \in L : nx[e] # nx[HEAD]
  BY <1>1, <1>3
<1>5. \A e \in L \cup {t, HEAD} :
         /\ nx2[e] \in L \cup {t} \cup {TAIL} /\ pv2[nx2[e]] = e
         /\ r2[nx2[e]] = r2[e] + 1
  <2>1. nx2[HEAD] = t /\ pv2[t] = HEAD /\ r2[t] = r2[HEAD] + 1
    BY <1>1, <1>2
  <2>2. nx2[t] = nx[HEAD] /\ pv2[nx[HEAD]] = t /\ r2[nx[HEAD]] = r2[t] + 1
    BY <1>2, <1>3
  <2>3. ASSUME NEW e \in L
        PROVE  /\ nx2[e] \in L \cup {TAIL} /\ pv2[nx2[e]] = e
               /\ r2[nx2[e]] = r2[e] + 1
    BY <1>2, <1>3, <1>4
  <2>4. QED
    BY <1>3, <2>1, <2>2, <2>3
<1>6. \A e \in L \cup {t, TAIL} : pv2[e] \in L \cup {t} \cup {HEAD} /\ nx2[pv2[e]] = e
  <2> SUFFICES ASSUME NEW e \in L \cup {t, TAIL}
               PROVE  pv2[e] \in L \cup {t} \cup {HEAD} /\ nx2[pv2[e]] = e
    OBVIOUS
  <2>1. CASE e = t \/ e = nx[HEAD]
    BY <2>1
  <2>2. CASE e # t /\ e # nx[HEAD]
    <3>1. e \in L \cup {TAIL} /\ pv2[e] = pv[e] /\ pv[e] \in L \cup {HEAD} /\ nx[pv[e]] = e
      BY <1>3, <2>2
    <3>2. pv[e] \in L
      BY <2>2, <3>1
    <3>3. QED
      BY <3>1, <3>2
  <2>3. QED
    BY <2>1, <2>2
<1>7. /\ \A e \in L \cup {t} : r2[HEAD] < r2[e] /\ r2[e] < r2[TAIL]
      /\ r2[HEAD] < r2[TAIL]
  BY <1>1, <1>2, <1>3
<1>8. \A e, f \in L \cup {t} : r2[e] = r2[f] => e = f
  BY <1>1, <1>2, <1>3
<1>9. Chain(L \cup {t}, nx2, pv2, r2)
  BY <1>5, <1>6, <1>7, <1>8 DEF Chain
<1>10. QED
  BY <1>2, <1>9

(* The others stay in their order, and the loop goes on behind c. *)
LEMMA ChainRemove ==
    ASSUME NEW L \in SUBSET Thread, NEW nx, NEW pv, NEW r \in [Elem -> Int], Chain(L, nx, pv, r),
           NEW c, NEW nx2, NEW pv2, Removed(L, nx, pv, c, nx2, pv2)
    PROVE  \E r2 \in [Elem -> Int] :
              Chain(L \ {c}, nx2, pv2, r2) /\ SameBefore(L, nx, c, r, r2)
<1> USE DEF Removed
<1> DEFINE r2 == [e \in Elem |-> IF r[e] > r[c] THEN r[e] - 1 ELSE r[e]]
<1>1. /\ HEAD \in Elem /\ TAIL \in Elem /\ c \in Elem /\ L \subseteq Elem
      /\ HEAD # TAIL /\ c # HEAD /\ c # TAIL /\ HEAD \notin L /\ TAIL \notin L
  BY AlarmAssumption DEF Elem
<1>2. /\ r2 \in [Elem -> Int]
      /\ \A e \in Elem : r[e] \in Int /\ r2[e] = IF r[e] > r[c] THEN r[e] - 1 ELSE r[e]
  BY <1>1
<1> HIDE DEF r2
<1>3. /\ \A e \in L \cup {HEAD} : nx[e] \in L \cup {TAIL} /\ r[nx[e]] = r[e] + 1 /\ pv[nx[e]] = e
      /\ \A e \in L \cup {TAIL} : pv[e] \in L \cup {HEAD} /\ nx[pv[e]] = e
      /\ \A e \in L : r[HEAD] < r[e] /\ r[e] < r[TAIL]
      /\ r[HEAD] < r[TAIL]
      /\ \A e, f \in L : r[e] = r[f] => e = f
  BY DEF Chain
<1>4. /\ nx[c] \in L \cup {TAIL} /\ r[nx[c]] = r[c] + 1 /\ pv[nx[c]] = c
      /\ pv[c] \in L \cup {HEAD} /\ nx[pv[c]] = c /\ r[c] = r[pv[c]] + 1
      /\ nx[c] # c /\ pv[c] # c /\ r[c] \in Int /\ r[pv[c]] \in Int
  BY <1>1, <1>2, <1>3
<1>5. \A e \in (L \cup {HEAD, TAIL}) \ {c} : r[e] \in Int /\ r[e] # r[c]
  BY <1>1, <1>2, <1>3
<1>6. \A e \in (L \ {c}) \cup {HEAD} :
         /\ nx2[e] \in (L \ {c}) \cup {TAIL} /\ pv2[nx2[e]] = e
         /\ r2[nx2[e]] = r2[e] + 1
  <2> SUFFICES ASSUME NEW e \in (L \ {c}) \cup {HEAD}
               PROVE  /\ nx2[e] \in (L \ {c}) \cup {TAIL} /\ pv2[nx2[e]] = e
                      /\ r2[nx2[e]] = r2[e] + 1
    OBVIOUS
  <2>1. CASE e = pv[c]
    <3>1. nx2[e] = nx[c] /\ pv2[nx[c]] = e
      BY <2>1
    <3>2. r2[nx[c]] = r[c] /\ r2[e] = r[c] - 1
      BY <1>1, <1>2, <1>4, <2>1
    <3>3. QED
      <4>1. nx[c] \in (L \ {c}) \cup {TAIL} /\ r2[nx[c]] = r2[e] + 1
        BY <1>4, <3>2
      <4>2. QED
        BY <3>1, <4>1
  <2>2. CASE e # pv[c]
    <3>1. /\ nx2[e] = nx[e] /\ nx[e] \in L \cup {TAIL} /\ pv[nx[e]] = e
          /\ r[nx[e]] = r[e] + 1
      BY <1>3, <2>2
    <3>2. nx[e] # c /\ nx[e] # nx[c]
      BY <1>1, <1>4, <2>2, <3>1
    <3>3. pv2[nx[e]] = e
      BY <3>1, <3>2
    <3>4. r[e] \in Int /\ r[e] # r[c] /\ r[nx[e]] # r[c] /\ e \in Elem /\ nx[e] \in Elem
      BY <1>1, <1>5, <3>1, <3>2
    <3>5. r2[nx[e]] = r2[e] + 1
      BY <1>2, <1>4, <3>1, <3>4
    <3>6. QED
      BY <3>1, <3>2, <3>3, <3>5
  <2>3. QED
    BY <2>1, <2>2
<1>7. \A e \in (L \ {c}) \cup {TAIL} : pv2[e] \in (L \ {c}) \cup {HEAD} /\ nx2[pv2[e]] = e
  <2> SUFFICES ASSUME NEW e \in (L \ {c}) \cup {TAIL}
               PROVE  pv2[e] \in (L \ {c}) \cup {HEAD} /\ nx2[pv2[e]] = e
    OBVIOUS
  <2>1. CASE e = nx[c]
    BY <1>1, <1>4, <2>1
  <2>2. CASE e # nx[c]
    <3>1. pv2[e] = pv[e] /\ pv[e] \in L \cup {HEAD} /\ nx[pv[e]] = e
      BY <1>3, <2>2
    <3>2. pv[e] # c /\ pv[e] # pv[c]
      BY <1>1, <1>4, <2>2, <3>1
    <3>3. QED
      BY <3>1, <3>2
  <2>3. QED
    BY <2>1, <2>2
<1>8. /\ \A e \in L \ {c} : r2[HEAD] < r2[e] /\ r2[e] < r2[TAIL]
      /\ r2[HEAD] < r2[TAIL]
  <2>1. r2[HEAD] = r[HEAD] /\ r2[TAIL] = r[TAIL] - 1 /\ r[HEAD] < r[c] /\ r[c] < r[TAIL]
        /\ r[HEAD] \in Int /\ r[TAIL] \in Int
    BY <1>1, <1>2, <1>3
  <2>2. ASSUME NEW e \in L \ {c} PROVE r2[HEAD] < r2[e] /\ r2[e] < r2[TAIL]
    BY <1>1, <1>2, <1>3, <1>5, <2>1
  <2>3. QED
    BY <1>4, <2>1, <2>2
<1>9. \A e, f \in L \ {c} : r2[e] = r2[f] => e = f
  <2> SUFFICES ASSUME NEW e \in L \ {c}, NEW f \in L \ {c}, r2[e] = r2[f] PROVE e = f
    OBVIOUS
  <2>1. r[e] \in Int /\ r[f] \in Int /\ r[c] \in Int /\ r[e] # r[c] /\ r[f] # r[c]
    BY <1>4, <1>5
  <2>2. r[e] = r[f]
    BY <1>1, <1>2, <2>1
  <2>3. QED
    BY <1>3, <2>2
<1>10. \A e \in L \ {c} : r2[e] < r2[nx[c]] => r[e] < r[c]
  <2> SUFFICES ASSUME NEW e \in L \ {c}, r2[e] < r2[nx[c]] PROVE r[e] < r[c]
    OBVIOUS
  <2>1. r2[nx[c]] = r[c] /\ e \in Elem
    BY <1>1, <1>2, <1>4
  <2>2. QED
    BY <1>2, <1>4, <1>5, <2>1
<1>11. Chain(L \ {c}, nx2, pv2, r2)
  BY <1>6, <1>7, <1>8, <1>9 DEF Chain
<1>12. QED
  BY <1>2, <1>10, <1>11 DEF SameBefore

-----------------------------------------------------------------------------
(***************************************************************************)
(* The steps of the running thread leave the list as it is, up to the one  *)
(* that completes an insertion.                                            *)
(***************************************************************************)
LEMMA KeepChain ==
    ASSUME Untorn, UNCHANGED Listed, cursor' = NULL,
           \A e \in Listed \cup {HEAD} : Fwd'[e] = Fwd[e],
           \A e \in Listed \cup {TAIL} : prev'[e] = prev[e]
    PROVE  \E r \in [Elem -> Int] : Chain(Listed, Fwd, prev, r)' /\ Scanned(r)'
<1>1. PICK r \in [Elem -> Int] : Chain(Listed, Fwd, prev, r)
  BY DEF Untorn
<1>2. Listed \in SUBSET Thread
  BY DEF Listed
<1>3. Chain(Listed, Fwd', prev', r)
  BY <1>1, <1>2, ChainFrame
<1>4. Chain(Listed, Fwd, prev, r)'
  BY <1>3
<1>5. Scanned(r)'
  BY DEF Scanned
<1>6. QED
  BY <1>1, <1>4, <1>5

(* a thread that is about to insert or is inserting itself is not listed *)
LEMMA NotListed ==
    ASSUME Base, NEW t \in Thread, pc[t] \notin {"block", "asleep"}
    PROVE  t \notin Listed
  BY DEF Base, SchedOK, Listed

(* timer_sleep() leaves the list alone. *)
LEMMA SleepList ==
    ASSUME Base, ListOK, NEW t \in Thread, NEW n \in Naps, Sleep(t, n)
    PROVE  ListOK'
<1> SUFFICES ASSUME ~torn', ~halted' PROVE Untorn'
  BY DEF ListOK
<1>1. /\ UNCHANGED <<next, prev, before, running, status, cursor, torn, halted>>
      /\ running = t /\ cursor = NULL /\ pc[t] = "user" /\ pc' = [pc EXCEPT ![t] = "push"]
  BY DEF Sleep, listVars, schedVars, At, Goto
<1>2. Untorn
  BY <1>1 DEF ListOK
<1>3. pc'[t] = "push" /\ \A u \in Thread \ {t} : pc'[u] = pc[u]
  BY <1>1 DEF Base, TypeOK
<1>4. UNCHANGED Listed /\ UNCHANGED Fwd
  BY <1>1, <1>3 DEF Listed, Fwd
<1>5. \A u \in Thread : Inserting(u)' => (running = u /\ cursor = NULL /\ Inserted(u))'
  BY <1>1, <1>2, <1>3 DEF Untorn, Inserting, Inserted
<1>6. QED
  BY <1>1, <1>2, <1>4, <1>5, KeepChain DEF Untorn

(* reading the first element leaves the list alone *)
LEMMA ListBeginList ==
    ASSUME Base, ListOK, NEW t \in Thread, ListBegin(t)
    PROVE  ListOK'
<1> SUFFICES ASSUME ~torn', ~halted' PROVE Untorn'
  BY DEF ListOK
<1>1. /\ UNCHANGED <<next, prev, running, status, cursor, torn, halted>>
      /\ running = t /\ cursor = NULL /\ pc[t] = "push" /\ pc' = [pc EXCEPT ![t] = "link1"]
      /\ before' = [before EXCEPT ![t] = next[HEAD]]
  BY DEF ListBegin, schedVars, At, Goto
<1>2. Untorn
  BY <1>1 DEF ListOK
<1>3. /\ pc'[t] = "link1" /\ \A u \in Thread \ {t} : pc'[u] = pc[u]
      /\ before'[t] = next[HEAD]
  BY <1>1 DEF Base, TypeOK
<1>4. UNCHANGED Listed /\ UNCHANGED Fwd
  BY <1>1, <1>3 DEF Listed, Fwd
<1>5. \A u \in Thread : Inserting(u)' => (running = u /\ cursor = NULL /\ Inserted(u))'
  BY <1>1, <1>2, <1>3 DEF Untorn, Inserting, Inserted
<1>6. QED
  BY <1>1, <1>2, <1>4, <1>5, KeepChain DEF Untorn

(* the first store of an insertion keeps the list *)
LEMMA LinkSelfList ==
    ASSUME Base, ListOK, NEW t \in Thread, LinkSelf(t)
    PROVE  ListOK'
<1> SUFFICES ASSUME ~torn', ~halted' PROVE Untorn'
  BY DEF ListOK
<1>1. /\ UNCHANGED <<before, running, status, cursor, torn, halted>>
      /\ running = t /\ cursor = NULL /\ pc[t] = "link1" /\ pc' = [pc EXCEPT ![t] = "link2"]
      /\ prev' = [prev EXCEPT ![t] = prev[before[t]]]
      /\ next' = [next EXCEPT ![t] = before[t]]
  BY DEF LinkSelf, schedVars, At, Goto
<1>2. Untorn
  BY <1>1 DEF ListOK
<1>3. /\ pc'[t] = "link2" /\ \A u \in Thread \ {t} : pc'[u] = pc[u]
      /\ t \notin Listed /\ t # HEAD /\ t # TAIL /\ HEAD \in Elem /\ TAIL \in Elem
      /\ Listed \subseteq Elem
  BY <1>1, NotListed, AlarmAssumption DEF Base, TypeOK, Elem, Listed
<1>4. UNCHANGED Listed
  BY <1>1, <1>3 DEF Listed
<1>5. Fwd' = next' /\ Fwd = next
  BY <1>1, <1>3 DEF Fwd
<1>6. /\ \A e \in Elem \ {t} : next'[e] = next[e] /\ prev'[e] = prev[e]
      /\ next'[t] = before[t] /\ prev'[t] = prev[before[t]]
  BY <1>1 DEF Base, TypeOK, Elem
<1>7. before[t] = next[HEAD] /\ prev[before[t]] = HEAD
  BY <1>1, <1>2, <1>5 DEF Untorn, Inserting, Inserted, Chain
<1>8. \A u \in Thread : Inserting(u)' => (running = u /\ cursor = NULL /\ Inserted(u))'
  BY <1>1, <1>2, <1>3, <1>6, <1>7 DEF Untorn, Inserting, Inserted
<1>9. QED
  BY <1>1, <1>2, <1>3, <1>4, <1>5, <1>6, <1>8, KeepChain DEF Untorn

(* the second store of an insertion keeps the list *)
LEMMA LinkNextList ==
    ASSUME Base, ListOK, NEW t \in Thread, LinkNext(t)
    PROVE  ListOK'
<1> SUFFICES ASSUME ~torn', ~halted' PROVE Untorn'
  BY DEF ListOK
<1>1. /\ UNCHANGED <<before, prev, running, status, cursor, torn, halted>>
      /\ running = t /\ cursor = NULL /\ pc[t] = "link2" /\ pc' = [pc EXCEPT ![t] = "link3"]
      /\ next' = [next EXCEPT ![prev[before[t]]] = t]
  BY DEF LinkNext, schedVars, At, Goto
<1>2. Untorn
  BY <1>1 DEF ListOK
<1>3. /\ pc'[t] = "link3" /\ \A u \in Thread \ {t} : pc'[u] = pc[u]
      /\ t \notin Listed /\ t # HEAD /\ HEAD \in Elem /\ Listed \subseteq Elem /\ HEAD \notin Listed
      /\ t \in Elem
  BY <1>1, NotListed, AlarmAssumption DEF Base, TypeOK, Elem, Listed
<1>4. UNCHANGED Listed
  BY <1>1, <1>3 DEF Listed
<1>5. Fwd' = [next' EXCEPT ![HEAD] = before[t]] /\ Fwd = next
  BY <1>1, <1>3 DEF Fwd
<1>6. /\ before[t] = next[HEAD] /\ next[t] = before[t] /\ prev[t] = HEAD
      /\ prev[before[t]] = HEAD
  BY <1>1, <1>2, <1>5 DEF Untorn, Inserting, Inserted, Chain
<1>7. /\ next'[HEAD] = t /\ \A e \in Elem \ {HEAD} : next'[e] = next[e]
      /\ next' \in [Elem -> Elem \cup {NULL}]
  BY <1>1, <1>3, <1>6 DEF Base, TypeOK
<1>8. \A e \in Elem : Fwd'[e] = Fwd[e]
  BY <1>3, <1>5, <1>6, <1>7
<1>9. \A u \in Thread : Inserting(u)' => (running = u /\ cursor = NULL /\ Inserted(u))'
  BY <1>1, <1>2, <1>3, <1>6, <1>7 DEF Untorn, Inserting, Inserted
<1>10. QED
  BY <1>1, <1>2, <1>3, <1>4, <1>8, <1>9, KeepChain DEF Untorn

(* the last store of an insertion leaves a list with one more element *)
LEMMA LinkPrevList ==
    ASSUME Base, ListOK, NEW t \in Thread, LinkPrev(t)
    PROVE  ListOK'
<1> SUFFICES ASSUME ~torn', ~halted' PROVE Untorn'
  BY DEF ListOK
<1>1. /\ UNCHANGED <<next, running, status, cursor, torn, halted>>
      /\ running = t /\ cursor = NULL /\ pc[t] = "link3" /\ pc' = [pc EXCEPT ![t] = "block"]
      /\ prev' = [prev EXCEPT ![before[t]] = t]
      /\ before' = [before EXCEPT ![t] = NULL]
  BY DEF LinkPrev, schedVars, At, Goto
<1>2. Untorn
  BY <1>1 DEF ListOK
<1>3. /\ pc'[t] = "block" /\ \A u \in Thread \ {t} : pc'[u] = pc[u]
      /\ t \notin Listed /\ t # HEAD /\ t # TAIL /\ HEAD \in Elem /\ TAIL \in Elem
      /\ Listed \subseteq Elem /\ HEAD \notin Listed /\ t \in Elem
  BY <1>1, NotListed, AlarmAssumption DEF Base, TypeOK, Elem, Listed
<1>4. Listed' = Listed \cup {t}
  BY <1>1, <1>3 DEF Listed
<1>5. Fwd' = next /\ Fwd = [next EXCEPT ![HEAD] = before[t]]
  BY <1>1, <1>3 DEF Fwd
<1>6. next[HEAD] = t /\ next[t] = before[t] /\ prev[t] = HEAD
  BY <1>1, <1>2 DEF Untorn, Inserting, Inserted
<1>7. PICK r \in [Elem -> Int] : Chain(Listed, Fwd, prev, r)
  BY <1>2 DEF Untorn
<1>8. /\ Fwd[HEAD] = before[t] /\ \A e \in Elem \ {HEAD} : Fwd[e] = next[e]
  BY <1>3, <1>5 DEF Base, TypeOK
<1>9. before[t] \in Listed \cup {TAIL} /\ before[t] # t /\ before[t] \in Elem
  BY <1>3, <1>7, <1>8 DEF Chain
<1>10. /\ prev'[before[t]] = t /\ \A e \in Elem \ {before[t]} : prev'[e] = prev[e]
  BY <1>1, <1>9 DEF Base, TypeOK
<1>11. prev'[t] = HEAD /\ Listed \in SUBSET Thread /\ t \in Thread \ Listed
  BY <1>3, <1>6, <1>9, <1>10 DEF Listed
<1>12. \E r2 \in [Elem -> Int] : Chain(Listed \cup {t}, Fwd', prev', r2)
  <2>1. Pushed(Listed, Fwd, prev, t, Fwd', prev')
    BY <1>3, <1>5, <1>6, <1>8, <1>10, <1>11 DEF Pushed
  <2>2. QED
    BY <1>7, <1>11, <2>1, ChainInsert
<1>13. \A r2 : Scanned(r2)'
  BY <1>1 DEF Scanned
<1>14. \A u \in Thread : ~Inserting(u)'
  BY <1>1, <1>2, <1>3 DEF Untorn, Inserting
<1>15. QED
  BY <1>4, <1>12, <1>13, <1>14 DEF Untorn

(***************************************************************************)
(* A step that may change the running thread while no thread is inserting. *)
(***************************************************************************)
LEMMA SwitchList ==
    ASSUME Untorn, \A u \in Thread : ~Inserting(u), \A u \in Thread : ~Inserting(u)',
           UNCHANGED <<Listed, next, prev>>, cursor' = NULL
    PROVE  Untorn'
<1>1. Fwd = next /\ Fwd' = next
  BY DEF Fwd, Inserting
<1>2. QED
  BY <1>1, KeepChain DEF Untorn

(* the thread that blocks is on the list *)
LEMMA BlockList ==
    ASSUME Base, ListOK, NEW t \in Thread, Block(t)
    PROVE  ListOK'
<1> SUFFICES ASSUME ~torn', ~halted' PROVE Untorn'
  BY DEF ListOK
<1>1. /\ UNCHANGED <<next, prev, cursor, torn, halted>>
      /\ running = t /\ cursor = NULL /\ pc[t] = "block" /\ pc' = [pc EXCEPT ![t] = "asleep"]
  BY DEF Block, listVars, At, Goto
<1>2. Untorn
  BY <1>1 DEF ListOK
<1>3. /\ pc'[t] = "asleep" /\ \A u \in Thread \ {t} : pc'[u] = pc[u]
      /\ \A u \in Thread : status'[u] = "BLOCKED" <=> u = t \/ status[u] = "BLOCKED"
  BY <1>1, BlockBase DEF Base, TypeOK
<1>4. UNCHANGED Listed
  BY <1>1, <1>3 DEF Listed
<1>5. \A u \in Thread : ~Inserting(u) /\ ~Inserting(u)'
  BY <1>1, <1>2, <1>3 DEF Untorn, Inserting
<1>6. QED
  BY <1>1, <1>2, <1>4, <1>5, SwitchList

(* a woken thread is off the list *)
LEMMA ReturnList ==
    ASSUME Base, ListOK, NEW t \in Thread, Return(t)
    PROVE  ListOK'
<1> SUFFICES ASSUME ~torn', ~halted' PROVE Untorn'
  BY DEF ListOK
<1>1. /\ UNCHANGED <<next, prev, status, cursor, torn, halted>>
      /\ running = t /\ cursor = NULL /\ pc[t] = "asleep" /\ pc' = [pc EXCEPT ![t] = "user"]
  BY DEF Return, listVars, schedVars, At, Goto
<1>2. Untorn
  BY <1>1 DEF ListOK
<1>3. pc'[t] = "user" /\ \A u \in Thread \ {t} : pc'[u] = pc[u]
  BY <1>1 DEF Base, TypeOK
<1>4. UNCHANGED Listed
  BY <1>1, <1>3 DEF Listed
<1>5. \A u \in Thread : ~Inserting(u) /\ ~Inserting(u)'
  BY <1>1, <1>2, <1>3 DEF Untorn, Inserting
<1>6. QED
  BY <1>1, <1>2, <1>4, <1>5, SwitchList

(* the idle thread leaves the list alone *)
LEMMA IdleList ==
    ASSUME Base, ListOK, IdleStep
    PROVE  ListOK'
<1> SUFFICES ASSUME ~torn', ~halted' PROVE Untorn'
  BY DEF ListOK
<1>1. /\ UNCHANGED <<next, prev, pc, cursor, torn, halted>>
      /\ running = Idle /\ cursor = NULL
  BY DEF IdleStep, listVars
<1>2. Untorn
  BY <1>1 DEF ListOK
<1>3. \A u \in Thread : status'[u] = "BLOCKED" <=> status[u] = "BLOCKED"
  BY IdleBase
<1>4. UNCHANGED Listed
  BY <1>1, <1>3 DEF Listed
<1>5. \A u \in Thread : ~Inserting(u) /\ ~Inserting(u)'
  BY <1>1, <1>2, AlarmAssumption DEF Untorn, Inserting
<1>6. QED
  BY <1>1, <1>2, <1>4, <1>5, SwitchList

(* the end of the walk leaves the list alone *)
LEMMA TickEndList ==
    ASSUME Base, ListOK, NEW slice_over \in BOOLEAN, TickEnd(slice_over)
    PROVE  ListOK'
<1> SUFFICES ASSUME ~torn', ~halted' PROVE Untorn'
  BY DEF ListOK
<1>1. /\ UNCHANGED <<next, prev, pc, torn, halted>>
      /\ cursor = TAIL /\ cursor' = NULL
  BY DEF TickEnd, listVars
<1>2. Untorn
  BY <1>1 DEF ListOK
<1>3. \A u \in Thread : status'[u] = "BLOCKED" <=> status[u] = "BLOCKED"
  BY TickEndBase
<1>4. UNCHANGED Listed
  BY <1>1, <1>3 DEF Listed
<1>5. \A u \in Thread : ~Inserting(u) /\ ~Inserting(u)'
  BY <1>1, <1>2, AlarmAssumption DEF Untorn, Inserting
<1>6. QED
  BY <1>1, <1>2, <1>4, <1>5, SwitchList

-----------------------------------------------------------------------------
(***************************************************************************)
(* The handler: it starts at the front of the list, and every iteration    *)
(* passes one element.                                                     *)
(***************************************************************************)
LEMMA TickBeginList ==
    ASSUME Base, ListOK, TickBegin
    PROVE  ListOK'
<1> SUFFICES ASSUME ~torn', ~halted' PROVE Untorn'
  BY DEF ListOK
<1>1. /\ UNCHANGED <<next, prev, before, running, status, pc, halted>>
      /\ cursor' = next[HEAD] /\ ~torn /\ \A t \in Thread : ~Inserting(t)
  BY DEF TickBegin, listVars, schedVars
<1>2. Untorn
  BY <1>1 DEF ListOK
<1>3. UNCHANGED Listed /\ Fwd = next /\ Fwd' = next
  BY <1>1 DEF Listed, Fwd, Inserting
<1>4. PICK r \in [Elem -> Int] : Chain(Listed, next, prev, r)
  BY <1>2, <1>3 DEF Untorn
<1>5. Chain(Listed, Fwd, prev, r)'
  BY <1>1, <1>3, <1>4
<1>6. /\ next[HEAD] \in Listed \cup {TAIL} /\ r[next[HEAD]] = r[HEAD] + 1
      /\ \A t \in Listed : r[HEAD] < r[t]
  BY <1>4 DEF Chain
<1>7. r[HEAD] \in Int /\ \A t \in Listed : r[t] \in Int
  BY <1>4 DEF Elem, Listed
<1>8. \A t \in Listed : ~(r[t] < r[next[HEAD]])
  BY <1>6, <1>7
<1>9. Scanned(r)'
  BY <1>1, <1>3, <1>6, <1>8 DEF Scanned
<1>10. QED
  BY <1>1, <1>4, <1>5, <1>9 DEF Untorn, Inserting

(* passing by an element keeps what lies behind the cursor *)
LEMMA PassList ==
    ASSUME Base, ListOK, Pass
    PROVE  ListOK'
<1> SUFFICES ASSUME ~torn', ~halted' PROVE Untorn'
  BY DEF ListOK
<1>1. /\ UNCHANGED <<next, prev, before, running, status, pc, waketime, ticks>>
      /\ cursor \in Thread /\ cursor' = next[cursor] /\ ~IsDue(cursor) /\ cursor # NULL
      /\ ~torn /\ ~halted
  BY AlarmAssumption DEF Pass
<1>2. Untorn
  BY <1>1 DEF ListOK
<1>3. \A u \in Thread : ~Inserting(u) /\ ~Inserting(u)'
  BY <1>1, <1>2 DEF Untorn, Inserting
<1>4. UNCHANGED Listed /\ Fwd = next /\ Fwd' = next
  BY <1>1, <1>3 DEF Listed, Fwd, Inserting
<1>5. PICK r \in [Elem -> Int] : Chain(Listed, next, prev, r) /\ Scanned(r)
  BY <1>2, <1>4 DEF Untorn
<1>6. Chain(Listed, Fwd, prev, r)'
  BY <1>1, <1>4, <1>5
<1>7. cursor \in Listed /\ cursor # TAIL /\ \A t \in Listed : r[t] < r[cursor] => ~IsDue(t)
  BY <1>1, <1>5, AlarmAssumption DEF Scanned
<1>8. /\ next[cursor] \in Listed \cup {TAIL} /\ r[next[cursor]] = r[cursor] + 1
      /\ \A t \in Listed : r[t] = r[cursor] => t = cursor
      /\ \A t \in Listed : r[t] \in Int
  BY <1>5, <1>7 DEF Chain, Listed, Elem
<1>9. \A t \in Listed : r[t] < r[next[cursor]] => ~IsDue(t)
  <2> SUFFICES ASSUME NEW t \in Listed, r[t] < r[cursor] + 1 PROVE ~IsDue(t)
    BY <1>8
  <2>1. r[t] < r[cursor] \/ r[t] = r[cursor]
    BY <1>7, <1>8
  <2>2. QED
    BY <1>1, <1>7, <1>8, <2>1
<1>10. Scanned(r)'
  BY <1>1, <1>4, <1>8, <1>9 DEF Scanned, IsDue
<1>11. QED
  BY <1>3, <1>5, <1>6, <1>10 DEF Untorn

(* a removal leaves a list with one element less *)
LEMMA WakeList ==
    ASSUME Base, ListOK, Wake
    PROVE  ListOK'
<1> SUFFICES ASSUME ~torn', ~halted' PROVE Untorn'
  BY DEF ListOK
<1> DEFINE c == cursor
<1>1. /\ UNCHANGED <<before, running, pc, waketime, ticks>>
      /\ c \in Thread /\ cursor' = next[c] /\ c # NULL /\ status[c] = "BLOCKED"
      /\ status' = [status EXCEPT ![c] = "READY"]
      /\ next' = [next EXCEPT ![prev[c]] = next[c]]
      /\ prev' = [prev EXCEPT ![next[c]] = prev[c]]
      /\ ~torn /\ ~halted
  BY AlarmAssumption DEF Wake
<1>2. Untorn
  BY <1>1 DEF ListOK
<1>3. \A u \in Thread : ~Inserting(u) /\ ~Inserting(u)'
  BY <1>1, <1>2 DEF Untorn, Inserting
<1>4. /\ pc[c] = "asleep" /\ status'[c] = "READY"
      /\ \A u \in Thread \ {c} : status'[u] = status[u]
  BY <1>1 DEF Base, TypeOK, SchedOK
<1>5. Listed' = Listed \ {c} /\ c \in Listed /\ Listed \in SUBSET Thread
  BY <1>1, <1>4 DEF Listed
<1>6. Fwd = next /\ Fwd' = next'
  BY <1>1, <1>3 DEF Fwd, Inserting
<1>7. PICK r \in [Elem -> Int] : Chain(Listed, next, prev, r) /\ Scanned(r)
  BY <1>2, <1>6 DEF Untorn
<1>8. \A t \in Listed : r[t] < r[c] => ~IsDue(t)
  BY <1>1, <1>7 DEF Scanned
<1>9. /\ next[c] \in Listed \cup {TAIL} /\ next[c] # c /\ next[c] \in Elem
      /\ prev[c] \in Listed \cup {HEAD} /\ prev[c] \in Elem
  <2>1. /\ next[c] \in Listed \cup {TAIL} /\ prev[c] \in Listed \cup {HEAD}
        /\ r[next[c]] = r[c] + 1 /\ r[c] \in Int
    BY <1>5, <1>7 DEF Chain, Listed, Elem
  <2>2. QED
    BY <2>1 DEF Listed, Elem
<1>10. /\ next'[prev[c]] = next[c] /\ prev'[next[c]] = prev[c]
       /\ \A e \in Elem \ {prev[c]} : next'[e] = next[e]
       /\ \A e \in Elem \ {next[c]} : prev'[e] = prev[e]
  BY <1>1, <1>9 DEF Base, TypeOK
<1>11. Listed \subseteq Elem /\ HEAD \in Elem /\ TAIL \in Elem
  BY DEF Listed, Elem
<1> HIDE DEF c
<1>12. PICK r2 \in [Elem -> Int] :
         Chain(Listed \ {c}, next', prev', r2) /\ SameBefore(Listed, next, c, r, r2)
  <2>1. Removed(Listed, next, prev, c, next', prev')
    BY <1>5, <1>10, <1>11 DEF Removed
  <2>2. QED
    BY <1>5, <1>7, <2>1, ChainRemove
<1>13. Chain(Listed, Fwd, prev, r2)'
  BY <1>5, <1>6, <1>12
<1>14. Scanned(r2)'
  BY <1>1, <1>5, <1>8, <1>9, <1>12 DEF Scanned, IsDue, SameBefore
<1>15. QED
  BY <1>3, <1>12, <1>13, <1>14 DEF Untorn

(* The list is empty at first. *)
LEMMA InitList == Init => ListOK
<1> SUFFICES ASSUME Init PROVE Untorn
  BY DEF ListOK
<1>1. Listed = {} /\ Fwd = next /\ cursor = NULL /\ \A t \in Thread : ~Inserting(t)
  BY AlarmAssumption DEF Init, Listed, Fwd, Inserting
<1> DEFINE r == [e \in Elem |-> IF e = HEAD THEN 0 ELSE 1]
<1>2. r \in [Elem -> Int] /\ r[HEAD] = 0 /\ r[TAIL] = 1
  BY AlarmAssumption DEF Elem
<1> HIDE DEF r
<1>3. next[HEAD] = TAIL /\ prev[TAIL] = HEAD
  BY AlarmAssumption DEF Init, Elem
<1>4. Chain(Listed, Fwd, prev, r)
  BY <1>1, <1>2, <1>3 DEF Chain
<1>5. QED
  BY <1>1, <1>2, <1>4 DEF Untorn, Scanned

(* Every step keeps the list linked. *)
LEMMA NextList == Base /\ ListOK /\ [Next]_vars => ListOK'
<1> SUFFICES ASSUME Base, ListOK, [Next]_vars PROVE ListOK'
  OBVIOUS
<1>1. CASE UNCHANGED vars
  <2>1. /\ UNCHANGED <<torn, halted, running, cursor, pc, before, next, prev, Listed, Fwd, ticks, waketime>>
    BY <1>1 DEF vars, Listed, Fwd
  <2>2. QED
    BY <2>1 DEF ListOK, Untorn, Inserting, Inserted, Chain, Scanned, IsDue
<1>2. CASE \E t \in Thread, n \in Naps : Sleep(t, n)
  BY <1>2, SleepList
<1>3. CASE \E t \in Thread : ThreadStep(t)
  BY <1>3, ListBeginList, LinkSelfList, LinkNextList, LinkPrevList, BlockList, ReturnList
  DEF ThreadStep
<1>4. CASE IdleStep
  BY <1>4, IdleList
<1>5. CASE TickBegin
  BY <1>5, TickBeginList
<1>6. CASE TickScan
  BY <1>6, ScanCases, WakeList, PassList DEF Base
<1>7. CASE \E slice_over \in BOOLEAN : TickEnd(slice_over)
  BY <1>7, TickEndList
<1>8. QED
  BY <1>1, <1>2, <1>3, <1>4, <1>5, <1>6, <1>7 DEF Next, Stop

(***************************************************************************)
(* WokenOnTime: as long as no insertion was interrupted, timer_interrupt() *)
(* has woken every thread that is due by the time its loop ends, although  *)
(* the loop removes elements of the list it walks.                         *)
(***************************************************************************)
THEOREM AlarmWokenOnTime == Spec => []WokenOnTime
<1>1. Spec => [](Base /\ ListOK)
  BY InitBase, InitList, NextBase, NextList, PTL DEF Spec
<1>2. ListOK => WokenOnTime
  <2> SUFFICES ASSUME ListOK, ~torn, ~halted, cursor = TAIL, NEW t \in Thread,
                      status[t] = "BLOCKED"
               PROVE  ~IsDue(t)
    BY DEF WokenOnTime
  <2>1. PICK r \in [Elem -> Int] : Chain(Listed, Fwd, prev, r) /\ Scanned(r)
    BY DEF ListOK, Untorn
  <2>2. t \in Listed /\ cursor # NULL
    BY AlarmAssumption DEF Listed
  <2>3. QED
    BY <2>1, <2>2 DEF Chain, Scanned
<1>3. QED
  BY <1>1, <1>2, PTL
=============================================================================
