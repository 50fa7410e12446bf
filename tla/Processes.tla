------------------------------ MODULE Processes ------------------------------
(***************************************************************************)
(* User processes of Lab 3: process_execute(), start_process(),            *)
(* process_wait(), process_exit() and sys_exit(), over the thread_create() *)
(* and thread_exit() of that lab.                                          *)
(*                                                                         *)
(* A parent waits on the semaphore parent_lock inside the child's struct   *)
(* thread, that is inside a page the kernel frees when the child is dead.  *)
(* Pages of the kernel pool are therefore part of the state: what a page   *)
(* is used for, and what a semaphore_down() through a pointer to it finds. *)
(***************************************************************************)
EXTENDS Integers, Sequences, FiniteSets, FiniteSetsExt

CONSTANTS
  MaxProc,    \* threads ever created, the initial thread (1) included
  NPages,     \* pages of the kernel pool
  Codes       \* exit codes user programs use

ASSUME ProcessesAssumption ==
  MaxProc \in Nat \ {0} /\ NPages \in Nat /\ Codes \subseteq Nat

Proc == 1..MaxProc
Main == 1
Page == 1..NPages
NULL == 0
TID_ERROR == -1
Tid == Proc \cup {NULL, TID_ERROR}     \* what process_wait() may be asked for
IdlePage == NPages + 1     \* the struct thread of the idle thread
Poison == 2                \* the value read from 0xcc bytes: never counts down to 0
Alive == -3                \* not ended
Killed == -2               \* ended by thread_exit() without sys_exit()
\* command lines: a program without and with arguments, a file that is no
\* program, no file at all
CommandLines == {"program", "program args", "data", "missing"}
Loads == {"program", "program args"}
Opens == {"program", "data"}    \* the whole command line names a file

VARIABLES
  pc,          \* where each thread is
  cmd,         \* the command line it was started with, or executes
  target,      \* the tid it waits for
  parent,      \* t->parent
  tpage,       \* the page of its struct thread
  cmdline,     \* the page of its command line
  pagedir,     \* the page of its page directory, or NULL
  child_tid, child_exit, child_lock,
  tid,         \* the local variable of process_execute()
  use,         \* what each page is used for
  value,       \* value of the semaphore at parent_lock's place in each page
  waiters,     \* and its list of waiters
  halted,      \* "no", "panic" or "corrupt"
  ended,       \* history: how each process ended
  result       \* history: what the last process_wait() returned, until the next call

procs == <<pc, cmd, target, parent, tpage, cmdline, pagedir, tid>>
family == <<child_tid, child_exit, child_lock>>
pages == <<use, value, waiters>>
history == <<ended, result>>
vars == <<procs, family, pages, halted, history>>

None == [tid |-> 0, status |-> 0]

Init ==
  /\ pc = [p \in Proc |-> IF p = Main THEN "user" ELSE "none"]
  /\ cmd = [p \in Proc |-> "none"]
  /\ target = [p \in Proc |-> NULL]
  /\ parent = [p \in Proc |-> NULL]
  /\ tpage = [p \in Proc |-> NULL]
  /\ cmdline = [p \in Proc |-> NULL]
  /\ pagedir = [p \in Proc |-> NULL]
  /\ tid = [p \in Proc |-> NULL]
  /\ child_tid = [p \in Proc |-> IF p = Main THEN TID_ERROR ELSE 0]
  /\ child_exit = [p \in Proc |-> 0]
  /\ child_lock = [p \in Proc |-> IF p = Main THEN IdlePage ELSE NULL]
  /\ use = [g \in Page |-> "free"]
  /\ value = [g \in Page \cup {IdlePage} |-> 0]
  /\ waiters = [g \in Page \cup {IdlePage} |-> <<>>]
  /\ halted = "no"
  /\ ended = [p \in Proc |-> Alive]
  /\ result = None

Free == {g \in Page : use[g] = "free"}
\* bitmap_scan_and_flip(): the first free page
GetPage == Min(Free)
Created == {p \in Proc : pc[p] # "none"}
Fresh == Min(Proc \ Created)

Goto(p, l) == pc' = [pc EXCEPT ![p] = l]
Runs(p, l) == halted = "no" /\ pc[p] = l

-----------------------------------------------------------------------------
(* process_execute() and thread_create()                                    *)

\* where process_execute() returns to: run_task() or sys_exec()
AfterExecute(p) == IF p = Main THEN "waiting" ELSE "opening"

\* sys_exec() in a user process, run_task() in the initial thread: the copy of
\* the command line takes a page, or TID_ERROR is returned
Execute(p, file) ==
  /\ Runs(p, "user")
  /\ Created # Proc
  /\ IF Free = {}
     THEN /\ tid' = [tid EXCEPT ![p] = TID_ERROR]
          /\ Goto(p, AfterExecute(p))
          /\ UNCHANGED <<cmdline, use>>
     ELSE /\ cmdline' = [cmdline EXCEPT ![p] = GetPage]
          /\ use' = [use EXCEPT ![GetPage] = "cmdline"]
          /\ Goto(p, "create")
          /\ UNCHANGED tid
  /\ cmd' = [cmd EXCEPT ![p] = file]
  /\ result' = None
  /\ UNCHANGED <<target, parent, tpage, pagedir, family, value, waiters, halted, ended>>

\* thread_create(): a zeroed page becomes the struct thread of the child, whose
\* parent_lock the parent remembers
ThreadCreate(p) ==
  /\ Runs(p, "create")
  /\ Created # Proc
  /\ IF Free = {}
     THEN /\ tid' = [tid EXCEPT ![p] = TID_ERROR]
          /\ Goto(p, "created")
          /\ UNCHANGED <<cmd, target, parent, tpage, cmdline, child_tid, child_lock, pages>>
     ELSE LET c == Fresh IN
          /\ pc' = [pc EXCEPT ![p] = "created", ![c] = "start"]
          /\ tid' = [tid EXCEPT ![p] = c]
          /\ cmd' = [cmd EXCEPT ![c] = cmd[p]]
          /\ parent' = [parent EXCEPT ![c] = p]
          /\ tpage' = [tpage EXCEPT ![c] = GetPage]
          /\ cmdline' = [cmdline EXCEPT ![c] = cmdline[p], ![p] = NULL]
          /\ use' = [use EXCEPT ![GetPage] = "thread"]
          /\ value' = [value EXCEPT ![GetPage] = 0]
          /\ waiters' = [waiters EXCEPT ![GetPage] = <<>>]
          /\ child_tid' = [child_tid EXCEPT ![p] = TID_ERROR]
          /\ child_lock' = [child_lock EXCEPT ![p] = GetPage]
  /\ UNCHANGED <<target, pagedir, child_exit, halted, ended, result>>

\* process_execute() after thread_create() has returned
SetChildTid(p) ==
  /\ Runs(p, "created")
  /\ child_tid' = [child_tid EXCEPT ![p] = tid[p]]
  /\ Goto(p, "exec_down")
  /\ UNCHANGED <<cmd, target, parent, tpage, cmdline, pagedir, tid, child_exit, child_lock,
                 pages, halted, history>>

-----------------------------------------------------------------------------
(* semaphore_down(thread_current()->child_lock)                             *)

\* the semaphore is where the pointer points, whatever the page is used for now
Down(p, here, blocked, there) ==
  LET g == child_lock[p]
      list == g = IdlePage \/ use[g] = "thread"
  IN /\ Runs(p, here)
     /\ \/ /\ g = NULL                               \* ASSERT (sema != NULL)
           /\ halted' = "panic"
           /\ UNCHANGED <<pc, value, waiters>>
        \/ /\ g # NULL
           /\ value[g] = 0 /\ list
           /\ waiters' = [waiters EXCEPT ![g] = Append(@, p)]
           /\ Goto(p, blocked)
           /\ UNCHANGED <<value, halted>>
        \/ /\ g # NULL
           /\ value[g] = 0 /\ ~list                  \* not a list at all
           /\ halted' = "corrupt"
           /\ UNCHANGED <<pc, value, waiters>>
        \/ /\ g # NULL
           /\ value[g] > 0
           /\ value' = [value EXCEPT ![g] = IF @ = Poison THEN @ ELSE @ - 1]
           /\ Goto(p, there)
           /\ UNCHANGED <<waiters, halted>>
     /\ UNCHANGED <<cmd, target, parent, tpage, cmdline, pagedir, tid, family, use, history>>

ExecDownSkipped(p) ==
  /\ Runs(p, "exec_down")
  /\ Goto(p, AfterExecute(p))
  /\ UNCHANGED <<cmd, target, parent, tpage, cmdline, pagedir, tid, family, pages, halted,
                 history>>

ExecDown(p) == Down(p, "exec_down", "exec_down_blocked", AfterExecute(p))
WaitDown(p) == Down(p, "wait_down", "wait_down_blocked", "waited")

\* filesys_open() of sys_exec(): memory for its objects may need a page, and the
\* bytes it leaves there are arbitrary
FinishExec(p) ==
  /\ Runs(p, "opening")
  /\ Goto(p, "user")
  /\ tid' = [tid EXCEPT ![p] = IF cmd[p] \in Opens THEN @ ELSE TID_ERROR]
  /\ \/ UNCHANGED <<use, value>>
     \/ /\ Free # {}
        /\ use' = [use EXCEPT ![GetPage] = "arena"]
        /\ \E v \in {0, Poison} : value' = [value EXCEPT ![GetPage] = v]
  /\ cmd' = [cmd EXCEPT ![p] = "none"]
  /\ UNCHANGED <<target, parent, tpage, cmdline, pagedir, family, waiters, halted, ended,
                 result>>

-----------------------------------------------------------------------------
(* process_wait()                                                           *)

WaitResult(t, status) == result' = [tid |-> t, status |-> status]

\* any number may be waited for: in a process that has had no child 0 is the tid
\* of the latest one, and child_lock is null
Wait(p, t) ==
  /\ \/ p # Main /\ Runs(p, "user")
     \/ p = Main /\ Runs(p, "waiting") /\ t = tid[p]   \* run_task()
  /\ cmd' = [cmd EXCEPT ![p] = "none"]
  /\ \/ /\ child_tid[p] = t
        /\ target' = [target EXCEPT ![p] = t]
        /\ Goto(p, "wait_down")
        /\ UNCHANGED result
     \/ /\ child_tid[p] # t
        /\ WaitResult(t, -1)
        /\ Goto(p, "user")
        /\ UNCHANGED target
  /\ UNCHANGED <<parent, tpage, cmdline, pagedir, tid, family, pages, halted,
                 ended>>

Waited(p) ==
  /\ Runs(p, "waited")
  /\ WaitResult(target[p], child_exit[p])
  /\ target' = [target EXCEPT ![p] = NULL]
  /\ child_exit' = [child_exit EXCEPT ![p] = -1]
  /\ Goto(p, "user")
  /\ UNCHANGED <<cmd, parent, tpage, cmdline, pagedir, tid, child_tid, child_lock,
                 pages, halted, ended>>

-----------------------------------------------------------------------------
(* start_process() and the end of a process                                 *)

\* elf_load() needs a page directory and an executable; the command line is freed
StartProcess(c) ==
  LET dir == Free # {}
      loaded == dir /\ cmd[c] \in Loads
  IN /\ Runs(c, "start")
     /\ pagedir' = [pagedir EXCEPT ![c] = IF dir THEN GetPage ELSE NULL]
     /\ use' = [g \in Page |-> IF g = cmdline[c] THEN "free"
                               ELSE IF dir /\ g = GetPage THEN "pagedir" ELSE use[g]]
     \* freed bytes are overwritten; a page directory has zeros there
     /\ value' = [g \in DOMAIN value |-> IF g = cmdline[c] THEN Poison
                                         ELSE IF dir /\ g = GetPage THEN 0 ELSE value[g]]
     /\ cmd' = [cmd EXCEPT ![c] = "none"]
     /\ cmdline' = [cmdline EXCEPT ![c] = NULL]
     /\ Goto(c, IF loaded THEN "user" ELSE "exiting")
     /\ ended' = [ended EXCEPT ![c] = IF loaded THEN @ ELSE Killed]
     /\ UNCHANGED <<target, parent, tpage, tid, family, waiters, halted, result>>

\* a killed process that leaves the status alone
SysExitSilent(c, code) ==
  /\ c # Main
  /\ Runs(c, "user")
  /\ child_exit' = IF code = -1 THEN child_exit
                   ELSE [child_exit EXCEPT ![parent[c]] = code]
  /\ ended' = [ended EXCEPT ![c] = code]
  /\ Goto(c, "exiting")
  /\ UNCHANGED <<cmd, target, parent, tpage, cmdline, pagedir, tid, child_tid, child_lock,
                 pages, halted, result>>

\* sys_exit(): also of a process killed by an exception or a bad address (-1)
SysExit(c, code) ==
  /\ c # Main
  /\ Runs(c, "user")
  /\ child_exit' = [child_exit EXCEPT ![parent[c]] = code]
  /\ ended' = [ended EXCEPT ![c] = code]
  /\ Goto(c, "exiting")
  /\ UNCHANGED <<cmd, target, parent, tpage, cmdline, pagedir, tid, child_tid, child_lock,
                 pages, halted, result>>

\* an unknown system call: thread_exit() with no word to the parent
UnknownCall(c) ==
  /\ c # Main
  /\ Runs(c, "user")
  /\ ended' = [ended EXCEPT ![c] = Killed]
  /\ Goto(c, "exiting")
  /\ UNCHANGED <<cmd, target, parent, tpage, cmdline, pagedir, tid, family, pages, halted,
                 result>>

Wake(p) == IF pc[p] = "exec_down_blocked" THEN "exec_down" ELSE "wait_down"

\* without the semaphore_up()
ProcessExitSilent(c) ==
  /\ Runs(c, "exiting")
  /\ use' = [h \in Page |-> IF h = pagedir[c] THEN "free" ELSE use[h]]
  /\ pagedir' = [pagedir EXCEPT ![c] = NULL]
  /\ Goto(c, "dying")
  /\ UNCHANGED <<cmd, target, parent, tpage, cmdline, tid, family, value, waiters, halted,
                 history>>

\* process_exit(): the page directory is freed and the parent is released
ProcessExit(c) ==
  LET g == tpage[c] IN
  /\ Runs(c, "exiting")
  /\ use' = [h \in Page |-> IF h = pagedir[c] THEN "free" ELSE use[h]]
  /\ value' = [h \in DOMAIN value |->
                IF h = g THEN value[g] + 1
                ELSE IF h = pagedir[c] THEN Poison ELSE value[h]]
  /\ pagedir' = [pagedir EXCEPT ![c] = NULL]
  /\ IF waiters[g] = <<>>
     THEN Goto(c, "dying") /\ UNCHANGED waiters
     ELSE LET p == Head(waiters[g]) IN
          /\ pc' = [pc EXCEPT ![c] = "dying", ![p] = Wake(p)]
          /\ waiters' = [waiters EXCEPT ![g] = Tail(@)]
  /\ UNCHANGED <<cmd, target, parent, tpage, cmdline, tid, family, halted, history>>

\* the rest of thread_exit(): the next thread frees the page of the dead one
ThreadExit(c) ==
  /\ Runs(c, "dying")
  /\ use' = [use EXCEPT ![tpage[c]] = "free"]
  /\ value' = [value EXCEPT ![tpage[c]] = Poison]
  /\ Goto(c, "dead")
  /\ UNCHANGED <<cmd, target, parent, tpage, cmdline, pagedir, tid, family, waiters, halted, history>>

-----------------------------------------------------------------------------
Step(p) ==
  \/ \E file \in CommandLines : Execute(p, file)
  \/ ThreadCreate(p)
  \/ SetChildTid(p)
  \/ ExecDown(p)
  \/ WaitDown(p)
  \/ FinishExec(p)
  \/ \E t \in Tid : Wait(p, t)
  \/ Waited(p)
  \/ StartProcess(p)
  \/ \E code \in Codes \cup {-1} : SysExit(p, code)
  \/ UnknownCall(p)
  \/ ProcessExit(p)
  \/ ThreadExit(p)

Next == \E p \in Proc : Step(p)

\* Every runnable thread is scheduled, and user programs end.
UserEnds(p) == \E code \in Codes \cup {-1} : SysExit(p, code)
KernelStep(p) ==
  \/ ThreadCreate(p) \/ SetChildTid(p) \/ ExecDown(p) \/ WaitDown(p) \/ FinishExec(p)
  \/ Waited(p) \/ StartProcess(p) \/ ProcessExit(p) \/ ThreadExit(p)
  \/ (p = Main /\ \E t \in Tid : Wait(p, t))
Fairness == \A p \in Proc : WF_vars(KernelStep(p)) /\ SF_vars(UserEnds(p))

Spec == Init /\ [][Next]_vars /\ Fairness

-----------------------------------------------------------------------------
Outcomes == Codes \cup {-1}
Blocked == {"exec_down_blocked", "wait_down_blocked"}

\* The states of threads, pages and semaphores have the shape the kernel gives
\* them: a page has one owner, and a semaphore never counts below zero.
TypeOK ==
  /\ pc \in [Proc -> {"none", "user", "create", "created", "exec_down", "opening",
                     "waiting", "wait_down", "waited", "start", "exiting", "dying",
                     "dead"} \cup Blocked]
  /\ use \in [Page -> {"free", "cmdline", "thread", "pagedir", "arena"}]
  /\ value \in [Page \cup {IdlePage} -> 0..Poison]
  /\ halted \in {"no", "panic", "corrupt"}
  /\ \A p \in Proc : parent[p] \in {NULL} \cup (Created \ {p})
  /\ \A p, q \in Proc \ {Main} :
       {p, q} \subseteq {r \in Created : pc[r] # "dead"} /\ p # q => tpage[p] # tpage[q]

\* sys_exit() writes its code to thread_current()->parent->child_exit with no
\* check: the parent of a process that has not announced its end is never dying
\* or dead, its struct thread still being a thread.
ParentAlive ==
  \A c \in Created \ {Main} :
    pc[c] \notin {"dying", "dead"} => pc[parent[c]] \notin {"none", "dying", "dead"}

\* the codes that children of p have left
CodesLeft(p) == {ended[c] : c \in {c \in Proc : parent[c] = p /\ ended[c] \in Outcomes}}

\* An answer of process_wait() other than -1 is about a child that has ended.  For one
\* that ended by sys_exit(), killed by a bad address included, it is that child's own
\* code; for one that the kernel ended without sys_exit() (its file could not be
\* loaded, or the system call is unknown) it is 0 or what another child of the same
\* parent has left (see KilledAnswered), but nothing from outside the family.
StatusDelivered ==
  LET t == result.tid IN
  t \in Proc /\ result.status # -1 =>
    \/ ended[t] \in Outcomes /\ result.status = ended[t]
    \/ ended[t] = Killed /\ result.status \in {0} \cup CodesLeft(parent[t])

\* process.c:229: for a child "terminated by the kernel" process_wait() returns -1.
\* Violated: nothing is written to child_exit then, and the answer is 0, or the code
\* of an earlier child.
KilledAnswered ==
  result.tid \in Proc /\ ended[result.tid] = Killed => result.status = -1

\* process_execute() returns once its child thread exists: the child's
\* process_exit() releases the parent, however the child ends.  Excepted are a
\* child that itself hangs in process_wait() or process_execute() and a kernel
\* that has stopped.
ExecReturns ==
  \A p \in Proc :
    pc[p] = "created" /\ tid[p] # TID_ERROR
      ~> \/ pc[p] = AfterExecute(p)
         \/ halted # "no"
         \/ \E q \in Proc : pc[q] = "wait_down_blocked" \/ (pc[q] = "exec_down_blocked" /\ tid[q] = TID_ERROR)

\* "Waits for thread TID to die and returns its exit status": a process_wait()
\* for a process that is dead returns.
WaitReturns ==
  \A p \in Proc :
    pc[p] = "wait_down" /\ target[p] \in Proc /\ ended[target[p]] # Alive
      ~> pc[p] = "user" \/ halted # "no"
=============================================================================
