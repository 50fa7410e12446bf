---------------------------- MODULE ProcessProofs -----------------------------
(***************************************************************************)
(* Proofs about the user processes of Lab 3, for any number of processes   *)
(* and pages and any exit codes.  Why the unchecked pointers hold: a child *)
(* that has not announced its end has its parent waiting for it in         *)
(* process_execute(), on the semaphore inside the child's own page.        *)
(***************************************************************************)
EXTENDS Processes, WellFoundedInduction, TLAPS

Labels == {"none", "user", "create", "created", "exec_down", "opening", "waiting",
           "wait_down", "waited", "start", "exiting", "dying", "dead"} \cup Blocked

(* what the variables hold *)
TypedProcs ==
  /\ pc \in [Proc -> Labels] /\ tid \in [Proc -> Tid] /\ target \in [Proc -> Tid]
  /\ parent \in [Proc -> Proc \cup {NULL}]

TypedMemory ==
  /\ tpage \in [Proc -> Page \cup {NULL}] /\ cmdline \in [Proc -> Page \cup {NULL}]
  /\ pagedir \in [Proc -> Page \cup {NULL}]
  /\ child_lock \in [Proc -> Page \cup {IdlePage, NULL}]

TypedPages ==
  /\ use \in [Page -> {"free", "cmdline", "thread", "pagedir", "arena"}]
  /\ value \in [Page \cup {IdlePage} -> 0 .. Poison]
  /\ waiters \in [Page \cup {IdlePage} -> Seq(Proc)]

TypedNews ==
  /\ child_tid \in [Proc -> Tid] /\ child_exit \in [Proc -> Int]
  /\ halted \in {"no", "panic", "corrupt"}
  /\ ended \in [Proc -> Outcomes \cup {Alive, Killed}]
  /\ result \in [tid : Tid, status : Int]

Typed == TypedProcs /\ TypedMemory /\ TypedPages /\ TypedNews

(* Pages have one owner, which knows what they are for. *)
HasThread(c) == c # Main /\ pc[c] \notin {"none", "dead"}
HasLine(p) == pc[p] \in {"create", "start"}
HasDir(p) == pagedir[p] # NULL

PagesOK ==
  /\ \A c \in Proc : HasThread(c) => tpage[c] \in Page /\ use[tpage[c]] = "thread"
  /\ \A p \in Proc : HasLine(p) => cmdline[p] \in Page /\ use[cmdline[p]] = "cmdline"
  /\ \A p \in Proc : HasDir(p) => use[pagedir[p]] = "pagedir"
  /\ \A c, d \in Proc : HasThread(c) /\ HasThread(d) /\ tpage[c] = tpage[d] => c = d
  /\ \A p, q \in Proc : HasLine(p) /\ HasLine(q) /\ cmdline[p] = cmdline[q] => p = q
  /\ \A p, q \in Proc : HasDir(p) /\ HasDir(q) /\ pagedir[p] = pagedir[q] => p = q

(* Who sleeps on a semaphore is on its list once, and remembers the page. *)
WaitersOK ==
  \A g \in Page \cup {IdlePage} :
    /\ \A i \in 1 .. Len(waiters[g]) : /\ pc[waiters[g][i]] \in Blocked
                                       /\ child_lock[waiters[g][i]] = g
    /\ \A i, j \in 1 .. Len(waiters[g]) : waiters[g][i] = waiters[g][j] => i = j

(* a child whose process_exit() is still to come *)
Unannounced(c) == c # Main /\ pc[c] \notin {"none", "dying", "dead"}

Executing == {"created", "exec_down", "exec_down_blocked"}

(* The parent of such a child is in process_execute(), after thread_create(). *)
HeldBy(c, p) ==
  /\ p \in Proc \ {c} /\ pc[p] \in Executing /\ tid[p] = c
  /\ child_lock[p] = tpage[c] /\ value[tpage[c]] = 0

FamilyOK ==
  /\ pc[Main] \notin {"none", "start", "exiting", "dying", "dead"} /\ parent[Main] = NULL
  /\ \A c \in Proc : Unannounced(c) => HeldBy(c, parent[c])
  /\ \A c \in Proc : pc[c] = "none" => \A p \in Proc : parent[p] # c
  /\ \A c \in Proc : ended[c] = Alive <=> pc[c] \notin {"exiting", "dying", "dead"}

(* What p has been told of the end of its child c is true. *)
Told(p, c) ==
  /\ parent[c] = p /\ pc[c] # "none"
  /\ ended[c] \in Outcomes => child_exit[p] \in {ended[c], -1}

ToldOK ==
  /\ \A p \in Proc : child_tid[p] \in Proc => Told(p, child_tid[p])
  /\ \A p \in Proc : pc[p] = "created" /\ tid[p] \in Proc =>
                        child_tid[p] = TID_ERROR /\ Told(p, tid[p])
  /\ \A p \in Proc : pc[p] \in {"exec_down", "exec_down_blocked"} => child_tid[p] = tid[p]
  /\ \A p \in Proc : pc[p] \in {"wait_down", "wait_down_blocked", "waited"} =>
                        target[p] = child_tid[p]

ResultOK ==
  result.tid \in Proc /\ result.status # -1 =>
    /\ ended[result.tid] # Alive
    /\ ended[result.tid] \in Outcomes => result.status = ended[result.tid]

IInv == Typed /\ PagesOK /\ WaitersOK /\ FamilyOK /\ ToldOK /\ ResultOK

(* What stands in child_exit, and what process_wait() has answered from it, is *)
(* what children of the same parent have left.                                 *)
CodesOK ==
  /\ \A p \in Proc : child_exit[p] \in {0, -1} \cup CodesLeft(p)
  /\ result.tid \in Proc /\ result.status # -1 =>
       result.status \in {0} \cup CodesLeft(parent[result.tid])

-----------------------------------------------------------------------------
(* the order of the natural numbers, as a relation *)
Less == OpToRel(<, Nat)

(* what the relation Less holds *)
LEMMA LessHolds ==
    ASSUME NEW m \in Nat, NEW n \in Nat, m < n
    PROVE  <<m, n>> \in Less
<1>1. <<m, n>> \in Nat \X Nat
  OBVIOUS
<1>2. <<m, n>>[1] < <<m, n>>[2]
  OBVIOUS
<1>3. QED
  BY <1>1, <1>2, Zenon DEF Less, OpToRel

(* A set of numbers has a least element. *)
LEMMA Least ==
    ASSUME NEW S, S \subseteq Nat, S # {}
    PROVE  Min(S) \in S
<1>1. IsWellFoundedOn(Less, Nat)
  BY NatLessThanWellFounded, Zenon DEF Less
<1>2. PICK m \in S : \A n \in S : ~(<<n, m>> \in Less)
  BY <1>1, WFMin
<1>3. \A n \in S : m <= n
  <2> TAKE n \in S
  <2>1. ~(n < m)
    BY <1>2, LessHolds
  <2>2. QED
    BY <2>1
<1>4. QED
  BY <1>3 DEF Min

(* palloc_get_page() returns a page that was free. *)
LEMMA GetPageFree ==
    ASSUME Free # {}
    PROVE  GetPage \in Page /\ use[GetPage] = "free"
<1>1. Free \subseteq Nat
  BY ProcessesAssumption DEF Free, Page
<1>2. GetPage \in Free
  BY <1>1, Least DEF GetPage
<1>3. QED
  BY <1>2 DEF Free

(* thread_create() makes a thread that was not there. *)
LEMMA FreshNew ==
    ASSUME Created # Proc
    PROVE  Fresh \in Proc /\ pc[Fresh] = "none"
<1>1. Proc \ Created \subseteq Nat
  BY ProcessesAssumption DEF Proc
<1>2. Proc \ Created # {}
  BY DEF Created
<1>3. Fresh \in Proc \ Created
  BY <1>1, <1>2, Least DEF Fresh
<1>4. QED
  BY <1>3 DEF Created

-----------------------------------------------------------------------------
(* numbers that are neither processes nor pages *)
LEMMA Outsiders ==
    /\ Main \in Proc /\ NULL \notin Proc /\ TID_ERROR \notin Proc
    /\ NULL \notin Page /\ IdlePage \notin Page /\ IdlePage # NULL
    /\ Outcomes \subseteq Int /\ Alive \notin Outcomes /\ Killed \notin Outcomes
BY ProcessesAssumption
   DEF Main, Proc, NULL, TID_ERROR, Page, IdlePage, Outcomes, Alive, Killed

(* The first state satisfies the inductive invariant. *)
LEMMA InitIInv == Init => IInv
<1> SUFFICES ASSUME Init PROVE IInv
  OBVIOUS
<1>1. Typed
  BY Outsiders DEF Init, Typed, TypedProcs, TypedMemory, TypedPages, TypedNews, Labels, Blocked, Tid, None, TID_ERROR, Poison, NULL
<1>2. PagesOK
  BY Outsiders DEF Init, PagesOK, HasThread, HasLine, HasDir
<1>3. WaitersOK
  BY DEF Init, WaitersOK
<1>4. FamilyOK
  BY Outsiders DEF Init, FamilyOK, Unannounced, Alive
<1>5. ToldOK
  BY Outsiders DEF Init, ToldOK, NULL
<1>6. ResultOK
  BY Outsiders DEF Init, ResultOK, None, NULL
<1>7. QED
  BY <1>1, <1>2, <1>3, <1>4, <1>5, <1>6 DEF IInv

(* process_execute() up to its copy of the command line *)
LEMMA ExecuteKeeps ==
    ASSUME IInv, NEW p \in Proc, NEW file \in CommandLines, Execute(p, file)
    PROVE  IInv'
<1>1. /\ TypedProcs /\ TypedMemory /\ TypedPages /\ TypedNews
      /\ PagesOK /\ WaitersOK /\ FamilyOK /\ ToldOK /\ ResultOK
  BY DEF IInv, Typed
<1>2. /\ pc[p] = "user"
      /\ result' = None
      /\ UNCHANGED <<target, parent, tpage, pagedir, child_tid, child_exit, child_lock,
                     value, waiters, halted, ended>>
  BY DEF Execute, Runs, family
<1>3. \E l \in {"waiting", "opening", "create"} :
        /\ pc' = [pc EXCEPT ![p] = l]
        /\ \/ /\ l # "create"
              /\ tid' = [tid EXCEPT ![p] = TID_ERROR]
              /\ UNCHANGED <<cmdline, use>>
           \/ /\ l = "create" /\ Free # {}
              /\ cmdline' = [cmdline EXCEPT ![p] = GetPage]
              /\ use' = [use EXCEPT ![GetPage] = "cmdline"]
              /\ UNCHANGED tid
  BY DEF Execute, Goto, AfterExecute
<1>4. PICK l \in {"waiting", "opening", "create"} :
        /\ pc' = [pc EXCEPT ![p] = l]
        /\ \/ /\ l # "create"
              /\ tid' = [tid EXCEPT ![p] = TID_ERROR]
              /\ UNCHANGED <<cmdline, use>>
           \/ /\ l = "create" /\ Free # {}
              /\ cmdline' = [cmdline EXCEPT ![p] = GetPage]
              /\ use' = [use EXCEPT ![GetPage] = "cmdline"]
              /\ UNCHANGED tid
  BY <1>3
<1>5. TypedProcs'
  BY <1>1, <1>2, <1>4 DEF TypedProcs, Labels, Tid
<1>6. TypedMemory'
  BY <1>1, <1>2, <1>4, GetPageFree DEF TypedMemory
<1>7. TypedPages'
  BY <1>1, <1>2, <1>4, GetPageFree DEF TypedPages
<1>8. TypedNews'
  BY <1>1, <1>2 DEF TypedNews, None, Tid, NULL
<1>9. PagesOK'
  BY <1>1, <1>2, <1>4, <1>5, <1>6, <1>7, GetPageFree
     DEF TypedProcs, TypedMemory, TypedPages, PagesOK, HasThread, HasLine, HasDir
<1>10. WaitersOK'
  BY <1>1, <1>2, <1>4 DEF TypedProcs, WaitersOK, Blocked
<1>11. FamilyOK'
  <2>1. \A c \in Proc : Unannounced(c)' => HeldBy(c, parent[c])'
    BY <1>1, <1>2, <1>4 DEF TypedProcs, FamilyOK, Unannounced, HeldBy, Executing
  <2>2. QED
    BY <1>1, <1>2, <1>4, <2>1 DEF TypedProcs, FamilyOK
<1>12. ToldOK'
  BY <1>1, <1>2, <1>4 DEF TypedProcs, ToldOK, Told
<1>13. ResultOK'
  BY <1>2, Outsiders DEF ResultOK, None, NULL
<1>14. QED
  BY <1>5, <1>6, <1>7, <1>8, <1>9, <1>10, <1>11, <1>12, <1>13 DEF IInv, Typed

(* thread_create(), from process_execute() *)
LEMMA ThreadCreateKeeps ==
    ASSUME IInv, NEW p \in Proc, ThreadCreate(p)
    PROVE  IInv'
<1>1. /\ TypedProcs /\ TypedMemory /\ TypedPages /\ TypedNews
      /\ PagesOK /\ WaitersOK /\ FamilyOK /\ ToldOK /\ ResultOK
  BY DEF IInv, Typed
<1>2. /\ pc[p] = "create"
      /\ UNCHANGED <<target, pagedir, child_exit, halted, ended, result>>
  BY DEF ThreadCreate, Runs
<1>3. ResultOK'
  BY <1>1, <1>2 DEF ResultOK
<1>4. CASE Free = {}
  <2>1. /\ pc' = [pc EXCEPT ![p] = "created"]
        /\ tid' = [tid EXCEPT ![p] = TID_ERROR]
        /\ UNCHANGED <<parent, tpage, cmdline, child_tid, child_lock, use, value, waiters>>
    BY <1>4 DEF ThreadCreate, Goto, pages
  <2>2. TypedProcs'
    BY <1>1, <1>2, <2>1 DEF TypedProcs, Labels, Tid
  <2>3. TypedMemory' /\ TypedPages' /\ TypedNews'
    BY <1>1, <1>2, <2>1 DEF TypedMemory, TypedPages, TypedNews
  <2>4. PagesOK'
    BY <1>1, <1>2, <2>1 DEF TypedProcs, PagesOK, HasThread, HasLine, HasDir
  <2>5. WaitersOK'
    BY <1>1, <1>2, <2>1 DEF TypedProcs, WaitersOK, Blocked
  <2>6. FamilyOK'
    <3>1. \A c \in Proc : Unannounced(c)' => HeldBy(c, parent[c])'
      BY <1>1, <1>2, <2>1 DEF TypedProcs, FamilyOK, Unannounced, HeldBy, Executing
    <3>2. QED
      BY <1>1, <1>2, <2>1, <3>1 DEF TypedProcs, FamilyOK
  <2>7. ToldOK'
    BY <1>1, <1>2, <2>1, Outsiders DEF TypedProcs, ToldOK, Told
  <2>8. QED
    BY <1>3, <2>2, <2>3, <2>4, <2>5, <2>6, <2>7 DEF IInv, Typed
<1>5. CASE Free # {}
  <2>1. PICK c \in Proc, g \in Page :
          /\ pc[c] = "none" /\ use[g] = "free"
          /\ c = Fresh /\ g = GetPage
    BY <1>5, GetPageFree, FreshNew DEF ThreadCreate
  <2>2. /\ c # p
        /\ pc' = [pc EXCEPT ![p] = "created", ![c] = "start"]
        /\ tid' = [tid EXCEPT ![p] = c]
        /\ parent' = [parent EXCEPT ![c] = p]
        /\ tpage' = [tpage EXCEPT ![c] = g]
        /\ cmdline' = [cmdline EXCEPT ![c] = cmdline[p], ![p] = NULL]
        /\ use' = [use EXCEPT ![g] = "thread"]
        /\ value' = [value EXCEPT ![g] = 0]
        /\ waiters' = [waiters EXCEPT ![g] = <<>>]
        /\ child_tid' = [child_tid EXCEPT ![p] = TID_ERROR]
        /\ child_lock' = [child_lock EXCEPT ![p] = g]
    BY <1>2, <1>5, <2>1 DEF ThreadCreate
  <2>3. TypedProcs'
    BY <1>1, <1>2, <2>1, <2>2 DEF TypedProcs, Labels, Tid
  <2>4. TypedMemory'
    BY <1>1, <1>2, <2>1, <2>2 DEF TypedMemory
  <2>5. TypedPages'
    BY <1>1, <2>1, <2>2 DEF TypedPages, Poison
  <2>6. TypedNews'
    BY <1>1, <1>2, <2>1, <2>2 DEF TypedNews, Tid
  <2>7. PagesOK'
    <3>1. /\ \A d \in Proc : HasThread(d)' => (d = c \/ HasThread(d))
          /\ \A d \in Proc : HasLine(d)' => (d = c \/ (HasLine(d) /\ d # p))
          /\ HasLine(p) /\ \A d \in Proc : HasDir(d)' => HasDir(d)
      BY <1>1, <1>2, <2>1, <2>2 DEF TypedProcs, HasThread, HasLine, HasDir
    <3>2. /\ \A d \in Proc : tpage'[d] = IF d = c THEN g ELSE tpage[d]
          /\ cmdline'[c] = cmdline[p]
          /\ \A d \in Proc \ {c, p} : cmdline'[d] = cmdline[d]
          /\ \A h \in Page : use'[h] = IF h = g THEN "thread" ELSE use[h]
      BY <1>1, <2>1, <2>2 DEF TypedMemory, TypedPages
    <3>3. QED
      BY <1>1, <1>2, <2>1, <3>1, <3>2 DEF PagesOK, TypedMemory, HasDir
  <2>8. WaitersOK'
    BY <1>1, <1>2, <2>1, <2>2
       DEF TypedProcs, TypedPages, TypedMemory, WaitersOK, Blocked
  <2>9. FamilyOK'
    <3>1. \A d \in Proc : Unannounced(d)' => HeldBy(d, parent[d])'
      BY <1>1, <1>2, <2>1, <2>2
         DEF TypedProcs, TypedPages, TypedMemory, FamilyOK, Unannounced, HeldBy, Executing,
             PagesOK, HasThread
    <3>2. QED
      BY <1>1, <1>2, <2>1, <2>2, <3>1, Outsiders DEF TypedProcs, FamilyOK
  <2>10. ToldOK'
    <3>1. Told(p, c)'
      BY <1>1, <1>2, <2>1, <2>2, Outsiders DEF TypedProcs, Told, FamilyOK
    <3>2. \A q, d \in Proc : Told(q, d) => Told(q, d)'
      BY <1>1, <1>2, <2>1, <2>2 DEF TypedProcs, Told
    <3>3. /\ \A q \in Proc \ {p} : child_tid'[q] = child_tid[q] /\ tid'[q] = tid[q]
          /\ child_tid'[p] = TID_ERROR /\ tid'[p] = c /\ pc'[p] = "created"
          /\ \A q \in Proc \ {p, c} : pc'[q] = pc[q]
          /\ pc'[c] = "start"
      BY <1>1, <1>2, <2>1, <2>2 DEF TypedProcs, TypedNews
    <3>4. QED
      BY <1>1, <1>2, <3>1, <3>2, <3>3, Outsiders DEF ToldOK
  <2>11. QED
    BY <1>3, <2>3, <2>4, <2>5, <2>6, <2>7, <2>8, <2>9, <2>10 DEF IInv, Typed
<1>6. QED
  BY <1>4, <1>5

(* process_execute() once its child is there *)
LEMMA SetChildTidKeeps ==
    ASSUME IInv, NEW p \in Proc, SetChildTid(p)
    PROVE  IInv'
<1>1. /\ TypedProcs /\ TypedMemory /\ TypedPages /\ TypedNews
      /\ PagesOK /\ WaitersOK /\ FamilyOK /\ ToldOK /\ ResultOK
  BY DEF IInv, Typed
<1>2. /\ pc[p] = "created"
      /\ pc' = [pc EXCEPT ![p] = "exec_down"]
      /\ child_tid' = [child_tid EXCEPT ![p] = tid[p]]
      /\ UNCHANGED <<target, parent, tpage, cmdline, pagedir, tid, child_exit, child_lock,
                     use, value, waiters, halted, ended, result>>
  BY DEF SetChildTid, Runs, Goto, pages, history
<1>3. TypedProcs' /\ TypedMemory' /\ TypedPages'
  BY <1>1, <1>2 DEF TypedProcs, TypedMemory, TypedPages, Labels
<1>4. TypedNews'
  BY <1>1, <1>2 DEF TypedNews, TypedProcs
<1>5. PagesOK'
  BY <1>1, <1>2 DEF TypedProcs, PagesOK, HasThread, HasLine, HasDir
<1>6. WaitersOK'
  BY <1>1, <1>2 DEF TypedProcs, WaitersOK, Blocked
<1>7. FamilyOK'
  <2>1. \A c \in Proc : Unannounced(c)' => HeldBy(c, parent[c])'
    BY <1>1, <1>2 DEF TypedProcs, FamilyOK, Unannounced, HeldBy, Executing
  <2>2. QED
    BY <1>1, <1>2, <2>1 DEF TypedProcs, FamilyOK
<1>8. ToldOK'
  BY <1>1, <1>2 DEF TypedProcs, TypedNews, ToldOK, Told
<1>9. ResultOK'
  BY <1>1, <1>2 DEF ResultOK
<1>10. QED
  BY <1>3, <1>4, <1>5, <1>6, <1>7, <1>8, <1>9 DEF IInv, Typed

(* The semaphore_down() of process_execute() and of process_wait().  It goes *)
(* on only where the semaphore counts, which that of a child that has not    *)
(* announced its end does not.                                               *)
LEMMA DownKeeps ==
    ASSUME IInv, NEW p \in Proc, NEW here, NEW blocked, NEW there,
           \/ /\ here = "exec_down" /\ blocked = "exec_down_blocked"
              /\ there \in {"waiting", "opening"}
           \/ here = "wait_down" /\ blocked = "wait_down_blocked" /\ there = "waited",
           Down(p, here, blocked, there)
    PROVE  IInv'
<1>1. /\ TypedProcs /\ TypedMemory /\ TypedPages /\ TypedNews
      /\ PagesOK /\ WaitersOK /\ FamilyOK /\ ToldOK /\ ResultOK
  BY DEF IInv, Typed
<1>2. PICK g \in Page \cup {IdlePage, NULL} : g = child_lock[p]
  BY <1>1 DEF TypedMemory
<1>3. /\ pc[p] = here
      /\ UNCHANGED <<target, parent, tpage, cmdline, pagedir, tid, child_tid, child_exit,
                     child_lock, use, ended, result>>
  BY DEF Down, Runs, family, history
<1>4. \/ halted' \in {"panic", "corrupt"} /\ UNCHANGED <<pc, value, waiters>>
      \/ /\ g # NULL
         /\ pc' = [pc EXCEPT ![p] = blocked]
         /\ waiters' = [waiters EXCEPT ![g] = Append(@, p)]
         /\ UNCHANGED <<value, halted>>
      \/ /\ g # NULL /\ value[g] > 0
         /\ pc' = [pc EXCEPT ![p] = there]
         /\ value' = [value EXCEPT ![g] = IF @ = Poison THEN @ ELSE @ - 1]
         /\ UNCHANGED <<waiters, halted>>
  BY <1>2 DEF Down, Goto
<1>5. ResultOK' /\ TypedMemory'
  BY <1>1, <1>3 DEF ResultOK, TypedMemory
<1>6. CASE halted' \in {"panic", "corrupt"} /\ UNCHANGED <<pc, value, waiters>>
  <2>1. TypedProcs' /\ TypedPages' /\ TypedNews'
    BY <1>1, <1>3, <1>6 DEF TypedProcs, TypedPages, TypedNews
  <2>2. PagesOK' /\ WaitersOK'
    BY <1>1, <1>3, <1>6 DEF PagesOK, HasThread, HasLine, HasDir, WaitersOK
  <2>3. FamilyOK' /\ ToldOK'
    BY <1>1, <1>3, <1>6 DEF FamilyOK, Unannounced, HeldBy, ToldOK, Told
  <2>4. QED
    BY <1>5, <2>1, <2>2, <2>3 DEF IInv, Typed
<1>7. CASE /\ g # NULL
           /\ pc' = [pc EXCEPT ![p] = blocked]
           /\ waiters' = [waiters EXCEPT ![g] = Append(@, p)]
           /\ UNCHANGED <<value, halted>>
  <2>1. TypedProcs' /\ TypedNews'
    BY <1>1, <1>3, <1>7 DEF TypedProcs, TypedNews, Labels, Blocked
  <2>2. TypedPages'
    BY <1>1, <1>3, <1>7 DEF TypedPages
  <2>3. PagesOK'
    BY <1>1, <1>3, <1>7 DEF TypedProcs, PagesOK, HasThread, HasLine, HasDir
  <2>4. WaitersOK'
    <3> SUFFICES ASSUME NEW h \in Page \cup {IdlePage}
                 PROVE  /\ \A i \in 1 .. Len(waiters'[h]) :
                             /\ pc'[waiters'[h][i]] \in Blocked
                             /\ child_lock'[waiters'[h][i]] = h
                        /\ \A i, j \in 1 .. Len(waiters'[h]) :
                             waiters'[h][i] = waiters'[h][j] => i = j
      BY DEF WaitersOK
    <3>1. waiters[h] \in Seq(Proc) /\ waiters \in [Page \cup {IdlePage} -> Seq(Proc)]
      BY <1>1 DEF TypedPages
    <3>2. \A i \in 1 .. Len(waiters[h]) : waiters[h][i] \in Proc /\ waiters[h][i] # p
      BY <1>1, <1>3, <3>1 DEF WaitersOK, Blocked
    <3>3. \A i \in 1 .. Len(waiters[h]) : pc'[waiters[h][i]] \in Blocked
      BY <1>1, <1>7, <3>2 DEF WaitersOK, TypedProcs
    <3>4. pc'[p] \in Blocked
      BY <1>1, <1>7 DEF TypedProcs, Blocked
    <3>5. CASE h # g
      BY <1>1, <1>3, <1>7, <3>1, <3>3, <3>5 DEF WaitersOK
    <3>6. CASE h = g
      <4>1. waiters'[h] = Append(waiters[h], p)
        BY <1>7, <3>1, <3>6
      <4>2. /\ Len(waiters'[h]) = Len(waiters[h]) + 1
            /\ \A i \in 1 .. Len(waiters[h]) : waiters'[h][i] = waiters[h][i]
            /\ waiters'[h][Len(waiters[h]) + 1] = p
        BY <3>1, <4>1
      <4>3. \A i \in 1 .. Len(waiters'[h]) :
              i \in 1 .. Len(waiters[h]) \/ i = Len(waiters[h]) + 1
        BY <3>1, <4>2
      <4>4. \A i \in 1 .. Len(waiters[h]) : child_lock'[waiters[h][i]] = h
        BY <1>1, <1>3 DEF WaitersOK
      <4>5. \A i, j \in 1 .. Len(waiters[h]) : waiters[h][i] = waiters[h][j] => i = j
        BY <1>1 DEF WaitersOK
      <4>6. child_lock'[p] = h
        BY <1>2, <1>3, <3>6
      <4>7. \A i \in 1 .. Len(waiters'[h]) : /\ pc'[waiters'[h][i]] \in Blocked
                                            /\ child_lock'[waiters'[h][i]] = h
        BY <3>3, <3>4, <4>2, <4>3, <4>4, <4>6
      <4>8. \A i, j \in 1 .. Len(waiters'[h]) : waiters'[h][i] = waiters'[h][j] => i = j
        <5> TAKE i, j \in 1 .. Len(waiters'[h])
        <5>1. /\ i \in 1 .. Len(waiters[h]) \/ i = Len(waiters[h]) + 1
              /\ j \in 1 .. Len(waiters[h]) \/ j = Len(waiters[h]) + 1
          BY <4>3
        <5>2. QED
          BY <3>2, <4>2, <4>5, <5>1
      <4>9. QED
        BY <4>7, <4>8
    <3>7. QED
      BY <3>5, <3>6
  <2>5. FamilyOK'
    <3>1. \A c \in Proc : Unannounced(c)' => HeldBy(c, parent[c])'
      BY <1>1, <1>3, <1>7 DEF TypedProcs, FamilyOK, Unannounced, HeldBy, Executing
    <3>2. QED
      BY <1>1, <1>3, <1>7, <3>1 DEF TypedProcs, FamilyOK
  <2>6. ToldOK'
    BY <1>1, <1>3, <1>7 DEF TypedProcs, ToldOK, Told
  <2>7. QED
    BY <1>5, <2>1, <2>2, <2>3, <2>4, <2>5, <2>6 DEF IInv, Typed
<1>8. CASE /\ g # NULL /\ value[g] > 0
           /\ pc' = [pc EXCEPT ![p] = there]
           /\ value' = [value EXCEPT ![g] = IF @ = Poison THEN @ ELSE @ - 1]
           /\ UNCHANGED <<waiters, halted>>
  <2>1. TypedProcs' /\ TypedNews'
    BY <1>1, <1>3, <1>8 DEF TypedProcs, TypedNews, Labels
  <2>2. TypedPages'
    BY <1>1, <1>3, <1>8 DEF TypedPages, Poison
  <2>3. PagesOK'
    BY <1>1, <1>3, <1>8 DEF TypedProcs, PagesOK, HasThread, HasLine, HasDir
  <2>4. WaitersOK'
    BY <1>1, <1>3, <1>8 DEF TypedProcs, WaitersOK, Blocked
  <2>5. FamilyOK'
    <3>1. \A c \in Proc : Unannounced(c) => tpage[c] # g /\ tpage[c] \in Page
      BY <1>1, <1>8 DEF FamilyOK, HeldBy, PagesOK, HasThread, Unannounced
    <3>2. \A c \in Proc : Unannounced(c) => value'[tpage[c]] = value[tpage[c]]
      BY <1>1, <1>8, <3>1 DEF TypedPages
    <3>3. \A c \in Proc : Unannounced(c) => parent[c] # p
      BY <1>1, <1>2, <3>1 DEF FamilyOK, HeldBy
    <3>4. \A c \in Proc : Unannounced(c)' => HeldBy(c, parent[c])'
      BY <1>1, <1>3, <1>8, <3>2, <3>3 DEF TypedProcs, FamilyOK, Unannounced, HeldBy
    <3>5. QED
      BY <1>1, <1>3, <1>8, <3>4 DEF TypedProcs, FamilyOK
  <2>6. ToldOK'
    BY <1>1, <1>3, <1>8 DEF TypedProcs, ToldOK, Told
  <2>7. QED
    BY <1>5, <2>1, <2>2, <2>3, <2>4, <2>5, <2>6 DEF IInv, Typed
<1>9. QED
  BY <1>4, <1>6, <1>7, <1>8

(* sys_exec() after process_execute() *)
LEMMA FinishExecKeeps ==
    ASSUME IInv, NEW p \in Proc, FinishExec(p)
    PROVE  IInv'
<1>1. /\ TypedProcs /\ TypedMemory /\ TypedPages /\ TypedNews
      /\ PagesOK /\ WaitersOK /\ FamilyOK /\ ToldOK /\ ResultOK
  BY DEF IInv, Typed
<1>2. /\ pc[p] = "opening"
      /\ pc' = [pc EXCEPT ![p] = "user"]
      /\ UNCHANGED <<target, parent, tpage, cmdline, pagedir, child_tid, child_exit,
                     child_lock, waiters, halted, ended, result>>
  BY DEF FinishExec, Runs, Goto, family
<1>3. UNCHANGED tid \/ tid' = [tid EXCEPT ![p] = TID_ERROR]
  BY <1>1 DEF FinishExec, TypedProcs
<1>4. \/ UNCHANGED <<use, value>>
      \/ \E g \in Page, v \in {0, Poison} :
           /\ use[g] = "free"
           /\ use' = [use EXCEPT ![g] = "arena"] /\ value' = [value EXCEPT ![g] = v]
  BY GetPageFree DEF FinishExec
<1>5. TypedProcs'
  BY <1>1, <1>2, <1>3 DEF TypedProcs, Labels, Tid
<1>6. TypedMemory' /\ TypedNews'
  BY <1>1, <1>2 DEF TypedMemory, TypedNews
<1>7. TypedPages'
  <2>1. CASE UNCHANGED <<use, value>>
    BY <1>1, <1>2, <2>1 DEF TypedPages
  <2>2. CASE \E g \in Page, v \in {0, Poison} :
               /\ use[g] = "free"
               /\ use' = [use EXCEPT ![g] = "arena"] /\ value' = [value EXCEPT ![g] = v]
    <3>1. PICK g \in Page, v \in {0, Poison} :
            use' = [use EXCEPT ![g] = "arena"] /\ value' = [value EXCEPT ![g] = v]
      BY <2>2
    <3>2. v \in 0 .. Poison
      BY DEF Poison
    <3>3. QED
      BY <1>1, <1>2, <3>1, <3>2 DEF TypedPages
  <2>3. QED
    BY <1>4, <2>1, <2>2
<1>8. /\ \A h \in Page : use[h] # "free" => use'[h] = use[h] /\ value'[h] = value[h]
      /\ \A q \in Proc \ {p} : tid'[q] = tid[q]
  BY <1>1, <1>3, <1>4 DEF TypedPages, TypedProcs
<1>9. PagesOK'
  BY <1>1, <1>2, <1>8 DEF TypedProcs, TypedMemory, PagesOK, HasThread, HasLine, HasDir
<1>10. WaitersOK'
  BY <1>1, <1>2 DEF TypedProcs, WaitersOK, Blocked
<1>11. FamilyOK'
  <2>1. \A c \in Proc : Unannounced(c) => value'[tpage[c]] = value[tpage[c]]
    BY <1>1, <1>8 DEF PagesOK, HasThread, Unannounced
  <2>2. \A c \in Proc : Unannounced(c)' => HeldBy(c, parent[c])'
    BY <1>1, <1>2, <1>8, <2>1 DEF TypedProcs, FamilyOK, Unannounced, HeldBy, Executing
  <2>3. QED
    BY <1>1, <1>2, <2>2 DEF TypedProcs, FamilyOK
<1>12. ToldOK'
  BY <1>1, <1>2, <1>8 DEF TypedProcs, ToldOK, Told
<1>13. ResultOK'
  BY <1>1, <1>2 DEF ResultOK
<1>14. QED
  BY <1>5, <1>6, <1>7, <1>9, <1>10, <1>11, <1>12, <1>13 DEF IInv, Typed

(* process_wait(), up to the semaphore of the child *)
LEMMA WaitKeeps ==
    ASSUME IInv, NEW p \in Proc, NEW t \in Tid, Wait(p, t)
    PROVE  IInv'
<1>1. /\ TypedProcs /\ TypedMemory /\ TypedPages /\ TypedNews
      /\ PagesOK /\ WaitersOK /\ FamilyOK /\ ToldOK /\ ResultOK
  BY DEF IInv, Typed
<1>2. /\ pc[p] \in {"user", "waiting"}
      /\ UNCHANGED <<parent, tpage, cmdline, pagedir, tid, child_tid, child_exit,
                     child_lock, use, value, waiters, halted, ended>>
  BY DEF Wait, Runs, family, pages
<1>3. \/ /\ child_tid[p] = t
         /\ target' = [target EXCEPT ![p] = t]
         /\ pc' = [pc EXCEPT ![p] = "wait_down"]
         /\ UNCHANGED result
      \/ /\ result' = [tid |-> t, status |-> -1]
         /\ pc' = [pc EXCEPT ![p] = "user"]
         /\ UNCHANGED target
  BY DEF Wait, Goto, WaitResult
<1> PICK l \in {"user", "wait_down"} : pc' = [pc EXCEPT ![p] = l]
  BY <1>3
<1>4. TypedProcs'
  BY <1>1, <1>2, <1>3 DEF TypedProcs, Labels, Tid
<1>5. TypedMemory' /\ TypedPages'
  BY <1>1, <1>2 DEF TypedMemory, TypedPages
<1>6. TypedNews'
  <2>1. result' \in [tid : Tid, status : Int]
    BY <1>1, <1>3 DEF TypedNews, Tid
  <2>2. QED
    BY <1>1, <1>2, <2>1 DEF TypedNews
<1>7. PagesOK'
  BY <1>1, <1>2, <1>3 DEF TypedProcs, PagesOK, HasThread, HasLine, HasDir
<1>8. WaitersOK'
  BY <1>1, <1>2 DEF TypedProcs, WaitersOK, Blocked
<1>9. FamilyOK'
  <2>1. \A c \in Proc : Unannounced(c)' => HeldBy(c, parent[c])'
    BY <1>1, <1>2 DEF TypedProcs, FamilyOK, Unannounced, HeldBy, Executing
  <2>2. QED
    BY <1>1, <1>2, <2>1 DEF TypedProcs, FamilyOK
<1>10. ToldOK'
  BY <1>1, <1>2, <1>3 DEF TypedProcs, ToldOK, Told
<1>11. ResultOK'
  BY <1>1, <1>2, <1>3 DEF ResultOK
<1>12. QED
  BY <1>4, <1>5, <1>6, <1>7, <1>8, <1>9, <1>10, <1>11 DEF IInv, Typed

(* The answer of process_wait(): the caller is not in process_execute(), so *)
(* its child has announced its end.                                         *)
LEMMA WaitedKeeps ==
    ASSUME IInv, NEW p \in Proc, Waited(p)
    PROVE  IInv'
<1>1. /\ TypedProcs /\ TypedMemory /\ TypedPages /\ TypedNews
      /\ PagesOK /\ WaitersOK /\ FamilyOK /\ ToldOK /\ ResultOK
  BY DEF IInv, Typed
<1>2. /\ pc[p] = "waited"
      /\ pc' = [pc EXCEPT ![p] = "user"]
      /\ target' = [target EXCEPT ![p] = NULL]
      /\ child_exit' = [child_exit EXCEPT ![p] = -1]
      /\ result' = [tid |-> target[p], status |-> child_exit[p]]
      /\ UNCHANGED <<parent, tpage, cmdline, pagedir, tid, child_tid, child_lock, use,
                     value, waiters, halted, ended>>
  BY DEF Waited, Runs, Goto, WaitResult, pages
<1>3. TypedProcs'
  BY <1>1, <1>2 DEF TypedProcs, Labels, Tid
<1>4. TypedMemory' /\ TypedPages'
  BY <1>1, <1>2 DEF TypedMemory, TypedPages
<1>5. TypedNews'
  <2>1. result' \in [tid : Tid, status : Int] /\ child_exit' \in [Proc -> Int]
    BY <1>1, <1>2 DEF TypedNews, TypedProcs
  <2>2. QED
    BY <1>1, <1>2, <2>1 DEF TypedNews
<1>6. PagesOK'
  BY <1>1, <1>2 DEF TypedProcs, PagesOK, HasThread, HasLine, HasDir
<1>7. WaitersOK'
  BY <1>1, <1>2 DEF TypedProcs, WaitersOK, Blocked
<1>8. FamilyOK'
  <2>1. \A c \in Proc : Unannounced(c)' => HeldBy(c, parent[c])'
    BY <1>1, <1>2 DEF TypedProcs, FamilyOK, Unannounced, HeldBy, Executing
  <2>2. QED
    BY <1>1, <1>2, <2>1 DEF TypedProcs, FamilyOK
<1>9. ToldOK'
  <2>1. \A q, d \in Proc : Told(q, d) => Told(q, d)'
    BY <1>1, <1>2 DEF TypedProcs, TypedNews, Told
  <2>2. QED
    BY <1>1, <1>2, <2>1 DEF ToldOK, TypedProcs
<1>10. ResultOK'
  <2> SUFFICES ASSUME target[p] \in Proc
               PROVE  /\ ended[target[p]] # Alive
                      /\ ended[target[p]] \in Outcomes =>
                           child_exit[p] \in {ended[target[p]], -1}
    BY <1>2 DEF ResultOK
  <2>1. target[p] = child_tid[p] /\ Told(p, target[p])
    BY <1>1, <1>2 DEF ToldOK
  <2>2. target[p] # Main
    BY <1>1, <2>1, Outsiders DEF Told, FamilyOK
  <2>3. ~ Unannounced(target[p])
    BY <1>1, <1>2, <2>1 DEF FamilyOK, HeldBy, Told, Executing
  <2>4. QED
    BY <1>1, <2>1, <2>2, <2>3 DEF Told, Unannounced, FamilyOK
<1>11. QED
  BY <1>3, <1>4, <1>5, <1>6, <1>7, <1>8, <1>9, <1>10 DEF IInv, Typed

(* start_process(): the pages it takes and gives back are nobody else's. *)
LEMMA StartProcessKeeps ==
    ASSUME IInv, NEW c \in Proc, StartProcess(c)
    PROVE  IInv'
<1>1. /\ TypedProcs /\ TypedMemory /\ TypedPages /\ TypedNews
      /\ PagesOK /\ WaitersOK /\ FamilyOK /\ ToldOK /\ ResultOK
  BY DEF IInv, Typed
<1>2. /\ pc[c] = "start"
      /\ cmdline' = [cmdline EXCEPT ![c] = NULL]
      /\ UNCHANGED <<target, parent, tpage, tid, child_tid, child_exit, child_lock,
                     waiters, halted, result>>
  BY DEF StartProcess, Runs, family
<1>3. PICK l \in {"user", "exiting"} :
        /\ pc' = [pc EXCEPT ![c] = l]
        /\ ended' = [ended EXCEPT ![c] = IF l = "user" THEN @ ELSE Killed]
  BY DEF StartProcess, Goto
<1>4. cmdline[c] \in Page /\ use[cmdline[c]] = "cmdline" /\ c # Main /\ ended[c] = Alive
  BY <1>1, <1>2 DEF PagesOK, HasLine, FamilyOK
<1>5. PICK g \in Page \cup {NULL} :
        /\ g # NULL => use[g] = "free"
        /\ pagedir' = [pagedir EXCEPT ![c] = g]
        /\ use' = [h \in Page |-> IF h = cmdline[c] THEN "free"
                                  ELSE IF h = g THEN "pagedir" ELSE use[h]]
        /\ value' = [h \in DOMAIN value |-> IF h = cmdline[c] THEN Poison
                                            ELSE IF h = g THEN 0 ELSE value[h]]
  <2>1. CASE Free # {}
    <3>1. GetPage \in Page /\ GetPage # NULL /\ use[GetPage] = "free"
      BY <2>1, GetPageFree, Outsiders
    <3>2. /\ pagedir' = [pagedir EXCEPT ![c] = GetPage]
          /\ use' = [h \in Page |-> IF h = cmdline[c] THEN "free"
                                    ELSE IF h = GetPage THEN "pagedir" ELSE use[h]]
          /\ value' = [h \in DOMAIN value |-> IF h = cmdline[c] THEN Poison
                                              ELSE IF h = GetPage THEN 0 ELSE value[h]]
      BY <2>1 DEF StartProcess
    <3>3. QED
      BY <3>1, <3>2
  <2>2. CASE Free = {}
    <3>1. pagedir' = [pagedir EXCEPT ![c] = NULL]
      BY <2>2 DEF StartProcess
    <3>2. use' = [h \in Page |-> IF h = cmdline[c] THEN "free"
                                 ELSE IF h = NULL THEN "pagedir" ELSE use[h]]
      BY <2>2, Outsiders DEF StartProcess
    <3>3. \A h \in DOMAIN value : h # NULL
      BY <1>1, Outsiders DEF TypedPages
    <3>4. value' = [h \in DOMAIN value |-> IF h = cmdline[c] THEN Poison
                                           ELSE IF h = NULL THEN 0 ELSE value[h]]
      BY <2>2, <3>3 DEF StartProcess
    <3>5. QED
      BY <3>1, <3>2, <3>4
  <2>3. QED
    BY <2>1, <2>2
<1>6. TypedProcs'
  BY <1>1, <1>2, <1>3 DEF TypedProcs, Labels
<1>7. TypedMemory'
  BY <1>1, <1>2, <1>5 DEF TypedMemory
<1>8. TypedPages'
  BY <1>1, <1>2, <1>5 DEF TypedPages, Poison
<1>9. TypedNews'
  <2>1. ended' \in [Proc -> Outcomes \cup {Alive, Killed}]
    BY <1>1, <1>3 DEF TypedNews
  <2>2. QED
    BY <1>1, <1>2, <2>1 DEF TypedNews
<1>10. /\ \A h \in Page : h # cmdline[c] /\ h # g =>
                            use'[h] = use[h] /\ value'[h] = value[h]
       /\ g # NULL => use'[g] = "pagedir"
  BY <1>1, <1>4, <1>5 DEF TypedPages
<1>11. PagesOK'
  <2>1. /\ \A d \in Proc : HasThread(d)' => HasThread(d)
        /\ \A d \in Proc : HasLine(d)' => HasLine(d) /\ d # c /\ cmdline'[d] = cmdline[d]
        /\ HasLine(c)
        /\ \A d \in Proc \ {c} : pagedir'[d] = pagedir[d]
        /\ pagedir'[c] = g
    BY <1>1, <1>2, <1>3, <1>5 DEF TypedProcs, TypedMemory, HasThread, HasLine
  <2>2. /\ \A d \in Proc : HasThread(d)' => tpage'[d] \in Page /\ use'[tpage'[d]] = "thread"
        /\ \A d \in Proc : HasLine(d)' =>
                             cmdline'[d] \in Page /\ use'[cmdline'[d]] = "cmdline"
    BY <1>1, <1>2, <1>4, <1>5, <1>10, <2>1, Outsiders DEF PagesOK
  <2>3. \A d \in Proc : HasDir(d)' => use'[pagedir'[d]] = "pagedir"
    BY <1>1, <1>2, <1>4, <1>5, <1>10, <2>1 DEF PagesOK, HasDir, TypedMemory
  <2>4. \A d, e \in Proc : HasDir(d)' /\ HasDir(e)' /\ pagedir'[d] = pagedir'[e] => d = e
    BY <1>1, <1>5, <2>1 DEF PagesOK, HasDir
  <2>5. QED
    BY <1>1, <1>2, <2>1, <2>2, <2>3, <2>4 DEF PagesOK
<1>12. WaitersOK'
  BY <1>1, <1>2, <1>3 DEF TypedProcs, WaitersOK, Blocked
<1>13. FamilyOK'
  <2>1. \A d \in Proc : Unannounced(d) => value'[tpage[d]] = value[tpage[d]]
    BY <1>1, <1>4, <1>5, <1>10, Outsiders DEF PagesOK, HasThread, Unannounced
  <2>2. \A d \in Proc : Unannounced(d)' => HeldBy(d, parent[d])'
    BY <1>1, <1>2, <1>3, <2>1 DEF TypedProcs, FamilyOK, Unannounced, HeldBy, Executing
  <2>3. \A d \in Proc : ended'[d] = Alive <=> pc'[d] \notin {"exiting", "dying", "dead"}
    BY <1>1, <1>2, <1>3, <1>4 DEF TypedProcs, TypedNews, FamilyOK, Alive, Killed
  <2>4. QED
    BY <1>1, <1>2, <1>3, <1>4, <2>2, <2>3 DEF TypedProcs, FamilyOK
<1>14. ToldOK'
  <2>1. \A q, d \in Proc : Told(q, d) => Told(q, d)'
    BY <1>1, <1>2, <1>3, Outsiders DEF TypedProcs, TypedNews, Told
  <2>2. QED
    BY <1>1, <1>2, <1>3, <2>1 DEF ToldOK, TypedProcs
<1>15. ResultOK'
  BY <1>1, <1>2, <1>3, <1>4 DEF ResultOK, TypedNews
<1>16. QED
  BY <1>6, <1>7, <1>8, <1>9, <1>11, <1>12, <1>13, <1>14, <1>15 DEF IInv, Typed

(* sys_exit(): the parent it writes to is waiting for this very child. *)
LEMMA SysExitKeeps ==
    ASSUME IInv, NEW c \in Proc, NEW code \in Codes \cup {-1}, SysExit(c, code)
    PROVE  IInv'
<1>1. /\ TypedProcs /\ TypedMemory /\ TypedPages /\ TypedNews
      /\ PagesOK /\ WaitersOK /\ FamilyOK /\ ToldOK /\ ResultOK
  BY DEF IInv, Typed
<1>2. /\ pc[c] = "user" /\ c # Main
      /\ pc' = [pc EXCEPT ![c] = "exiting"]
      /\ child_exit' = [child_exit EXCEPT ![parent[c]] = code]
      /\ ended' = [ended EXCEPT ![c] = code]
      /\ UNCHANGED <<target, parent, tpage, cmdline, pagedir, tid, child_tid, child_lock,
                     use, value, waiters, halted, result>>
  BY DEF SysExit, Runs, Goto, pages
<1>3. HeldBy(c, parent[c]) /\ ended[c] = Alive /\ code \in Outcomes
  BY <1>1, <1>2 DEF FamilyOK, Unannounced, Outcomes
<1>4. TypedProcs' /\ TypedMemory' /\ TypedPages'
  BY <1>1, <1>2 DEF TypedProcs, TypedMemory, TypedPages, Labels
<1>5. TypedNews'
  <2>1. child_exit' \in [Proc -> Int]
    BY <1>1, <1>2, <1>3, Outsiders DEF TypedNews
  <2>2. ended' \in [Proc -> Outcomes \cup {Alive, Killed}]
    BY <1>1, <1>2, <1>3 DEF TypedNews
  <2>3. QED
    BY <1>1, <1>2, <2>1, <2>2 DEF TypedNews
<1>6. PagesOK'
  BY <1>1, <1>2 DEF TypedProcs, PagesOK, HasThread, HasLine, HasDir
<1>7. WaitersOK'
  BY <1>1, <1>2 DEF TypedProcs, WaitersOK, Blocked
<1>8. FamilyOK'
  <2>1. \A d \in Proc : Unannounced(d)' => HeldBy(d, parent[d])'
    BY <1>1, <1>2 DEF TypedProcs, FamilyOK, Unannounced, HeldBy, Executing
  <2>2. \A d \in Proc : ended'[d] = Alive <=> pc'[d] \notin {"exiting", "dying", "dead"}
    BY <1>1, <1>2, <1>3, Outsiders DEF TypedProcs, TypedNews, FamilyOK
  <2>3. QED
    BY <1>1, <1>2, <2>1, <2>2 DEF TypedProcs, FamilyOK
<1>9. ToldOK'
  <2>1. PICK p \in Proc \ {c} : p = parent[c]
    BY <1>3 DEF HeldBy
  <2>2. /\ pc[p] \in Executing /\ tid[p] = c
        /\ pc'[p] = pc[p] /\ child_exit'[p] = code
        /\ child_tid[p] \in {c, TID_ERROR}
    BY <1>1, <1>2, <1>3, <2>1 DEF HeldBy, Executing, ToldOK, TypedProcs, TypedNews
  <2>3. Told(p, c)'
    BY <1>1, <1>2, <2>1, <2>2 DEF Told, TypedNews, TypedProcs
  <2>4. \A q \in Proc \ {p}, d \in Proc : Told(q, d) => Told(q, d)'
    BY <1>1, <1>2, <2>1 DEF Told, TypedNews, TypedProcs
  <2>5. \A q \in Proc : q # c => pc'[q] = pc[q]
    BY <1>1, <1>2 DEF TypedProcs
  <2>6. pc'[c] = "exiting"
    BY <1>1, <1>2 DEF TypedProcs
  <2>7. QED
    BY <1>1, <1>2, <2>1, <2>2, <2>3, <2>4, <2>5, <2>6, Outsiders
       DEF ToldOK, Executing
<1>10. ResultOK'
  BY <1>1, <1>2, <1>3 DEF ResultOK, TypedNews
<1>11. QED
  BY <1>4, <1>5, <1>6, <1>7, <1>8, <1>9, <1>10 DEF IInv, Typed

(* thread_exit() of an unknown system call *)
LEMMA UnknownCallKeeps ==
    ASSUME IInv, NEW c \in Proc, UnknownCall(c)
    PROVE  IInv'
<1>1. /\ TypedProcs /\ TypedMemory /\ TypedPages /\ TypedNews
      /\ PagesOK /\ WaitersOK /\ FamilyOK /\ ToldOK /\ ResultOK
  BY DEF IInv, Typed
<1>2. /\ pc[c] = "user" /\ c # Main
      /\ pc' = [pc EXCEPT ![c] = "exiting"]
      /\ ended' = [ended EXCEPT ![c] = Killed]
      /\ UNCHANGED <<target, parent, tpage, cmdline, pagedir, tid, child_tid, child_exit,
                     child_lock, use, value, waiters, halted, result>>
  BY DEF UnknownCall, Runs, Goto, pages, family
<1>3. ended[c] = Alive
  BY <1>1, <1>2 DEF FamilyOK
<1>4. TypedProcs' /\ TypedMemory' /\ TypedPages'
  BY <1>1, <1>2 DEF TypedProcs, TypedMemory, TypedPages, Labels
<1>5. TypedNews'
  <2>1. ended' \in [Proc -> Outcomes \cup {Alive, Killed}]
    BY <1>1, <1>2 DEF TypedNews
  <2>2. QED
    BY <1>1, <1>2, <2>1 DEF TypedNews
<1>6. PagesOK'
  BY <1>1, <1>2 DEF TypedProcs, PagesOK, HasThread, HasLine, HasDir
<1>7. WaitersOK'
  BY <1>1, <1>2 DEF TypedProcs, WaitersOK, Blocked
<1>8. FamilyOK'
  <2>1. \A d \in Proc : Unannounced(d)' => HeldBy(d, parent[d])'
    BY <1>1, <1>2 DEF TypedProcs, FamilyOK, Unannounced, HeldBy, Executing
  <2>2. \A d \in Proc : ended'[d] = Alive <=> pc'[d] \notin {"exiting", "dying", "dead"}
    BY <1>1, <1>2, <1>3 DEF TypedProcs, TypedNews, FamilyOK, Alive, Killed
  <2>3. QED
    BY <1>1, <1>2, <2>1, <2>2 DEF TypedProcs, FamilyOK
<1>9. ToldOK'
  <2>1. \A q, d \in Proc : Told(q, d) => Told(q, d)'
    BY <1>1, <1>2, Outsiders DEF TypedProcs, TypedNews, Told
  <2>2. QED
    BY <1>1, <1>2, <2>1 DEF ToldOK, TypedProcs
<1>10. ResultOK'
  BY <1>1, <1>2, <1>3 DEF ResultOK, TypedNews
<1>11. QED
  BY <1>4, <1>5, <1>6, <1>7, <1>8, <1>9, <1>10 DEF IInv, Typed

(* process_exit(): the page directory goes, and the first waiter is woken. *)
LEMMA ProcessExitKeeps ==
    ASSUME IInv, NEW c \in Proc, ProcessExit(c)
    PROVE  IInv'
<1>1. /\ TypedProcs /\ TypedMemory /\ TypedPages /\ TypedNews
      /\ PagesOK /\ WaitersOK /\ FamilyOK /\ ToldOK /\ ResultOK
  BY DEF IInv, Typed
<1>2. /\ pc[c] = "exiting"
      /\ pagedir' = [pagedir EXCEPT ![c] = NULL]
      /\ UNCHANGED <<target, parent, tpage, cmdline, tid, child_tid, child_exit,
                     child_lock, halted, ended, result>>
  BY DEF ProcessExit, Runs, family, history
<1>3. c # Main /\ Unannounced(c) /\ HeldBy(c, parent[c])
  BY <1>1, <1>2 DEF FamilyOK, Unannounced
<1>4. PICK g \in Page : g = tpage[c] /\ use[g] = "thread" /\ value[g] = 0
  BY <1>1, <1>2, <1>3 DEF PagesOK, HasThread, HeldBy
<1>5. /\ use' = [h \in Page |-> IF h = pagedir[c] THEN "free" ELSE use[h]]
      /\ value' = [h \in DOMAIN value |->
                    IF h = g THEN 1 ELSE IF h = pagedir[c] THEN Poison ELSE value[h]]
  BY <1>4 DEF ProcessExit
<1>6. \/ pc' = [pc EXCEPT ![c] = "dying"] /\ UNCHANGED waiters
      \/ /\ waiters[g] # <<>>
         /\ pc' = [pc EXCEPT ![c] = "dying", ![Head(waiters[g])] = Wake(Head(waiters[g]))]
         /\ waiters' = [waiters EXCEPT ![g] = Tail(@)]
  BY <1>4 DEF ProcessExit, Goto
<1>7. waiters \in [Page \cup {IdlePage} -> Seq(Proc)] /\ waiters[g] \in Seq(Proc)
  BY <1>1 DEF TypedPages
<1>8. waiters[g] # <<>> =>
        /\ Head(waiters[g]) \in Proc \ {c} /\ Head(waiters[g]) = waiters[g][1]
        /\ pc[Head(waiters[g])] \in Blocked
  BY <1>1, <1>2, <1>7 DEF WaitersOK, Blocked
\* only c and the thread it wakes move
<1>9. /\ pc' \in [Proc -> Labels] /\ pc'[c] = "dying"
      /\ \A q \in Proc \ {c} :
           \/ pc'[q] = pc[q]
           \/ pc[q] = "exec_down_blocked" /\ pc'[q] = "exec_down"
           \/ pc[q] = "wait_down_blocked" /\ pc'[q] = "wait_down"
  <2>1. CASE pc' = [pc EXCEPT ![c] = "dying"] /\ UNCHANGED waiters
    BY <1>1, <2>1 DEF TypedProcs, Labels
  <2>2. CASE /\ waiters[g] # <<>>
             /\ pc' = [pc EXCEPT ![c] = "dying",
                                 ![Head(waiters[g])] = Wake(Head(waiters[g]))]
    <3>1. PICK w \in Proc \ {c} : w = Head(waiters[g]) /\ pc[w] \in Blocked
      BY <1>8, <2>2
    <3>2. pc' = [pc EXCEPT ![c] = "dying", ![w] = Wake(w)]
      BY <2>2, <3>1
    <3>3. QED
      BY <1>1, <3>1, <3>2 DEF TypedProcs, Labels, Wake, Blocked
  <2>3. QED
    BY <1>6, <2>1, <2>2
<1>10. TypedProcs' /\ TypedNews'
  BY <1>1, <1>2, <1>9 DEF TypedProcs, TypedNews
<1>11. TypedMemory'
  BY <1>1, <1>2 DEF TypedMemory
<1>12. TypedPages'
  <2>1. waiters' \in [Page \cup {IdlePage} -> Seq(Proc)]
    <3>1. waiters[g] # <<>> => Tail(waiters[g]) \in Seq(Proc)
      BY <1>7
    <3>2. QED
      BY <1>6, <1>7, <3>1
  <2>2. QED
    BY <1>1, <1>5, <2>1 DEF TypedPages, Poison
<1>13. \A h \in Page : h # pagedir[c] =>
         use'[h] = use[h] /\ (h # g => value'[h] = value[h])
  BY <1>1, <1>5 DEF TypedPages
<1>14. \A d \in Proc : /\ HasThread(d) => tpage[d] # pagedir[c] /\ (d # c => tpage[d] # g)
                       /\ HasLine(d) => cmdline[d] # pagedir[c]
  <2>1. HasThread(c)
    BY <1>2, <1>3 DEF HasThread
  <2>2. pagedir[c] \in Page => use[pagedir[c]] = "pagedir"
    BY <1>1, Outsiders DEF PagesOK, HasDir
  <2>3. QED
    BY <1>1, <1>4, <2>1, <2>2 DEF PagesOK
<1>15. PagesOK'
  <2>1. /\ \A d \in Proc : HasThread(d)' => HasThread(d)
        /\ \A d \in Proc : HasLine(d)' => HasLine(d)
    BY <1>2, <1>3, <1>9 DEF HasThread, HasLine
  <2>2. \A d \in Proc : HasDir(d)' => d # c /\ HasDir(d) /\ pagedir'[d] = pagedir[d]
    BY <1>1, <1>2 DEF HasDir, TypedMemory
  <2>3. \A d \in Proc : HasDir(d)' => use'[pagedir'[d]] = "pagedir"
    <3> TAKE d \in Proc
    <3> HAVE HasDir(d)'
    <3>1. /\ d # c /\ HasDir(d) /\ pagedir'[d] = pagedir[d]
          /\ pagedir[d] \in Page /\ use[pagedir[d]] = "pagedir"
      BY <1>1, <2>2 DEF PagesOK, HasDir, TypedMemory
    <3>2. pagedir[d] # pagedir[c]
      BY <1>1, <3>1 DEF PagesOK, HasDir
    <3>3. QED
      BY <1>13, <3>1, <3>2
  <2>4. QED
    BY <1>1, <1>2, <1>13, <1>14, <2>1, <2>2, <2>3 DEF PagesOK
<1>16. WaitersOK'
  <2>1. CASE pc' = [pc EXCEPT ![c] = "dying"] /\ UNCHANGED waiters
    BY <1>1, <1>2, <2>1 DEF WaitersOK, TypedProcs, Blocked
  <2>2. CASE /\ waiters[g] # <<>>
             /\ pc' = [pc EXCEPT ![c] = "dying",
                                 ![Head(waiters[g])] = Wake(Head(waiters[g]))]
             /\ waiters' = [waiters EXCEPT ![g] = Tail(@)]
    <3>1. PICK w \in Proc \ {c} : w = Head(waiters[g]) /\ w = waiters[g][1]
      BY <1>8, <2>2
    <3>2. \A q \in Proc : pc[q] \in Blocked /\ q # w => pc'[q] \in Blocked
      BY <1>1, <1>2, <2>2, <3>1 DEF TypedProcs, Blocked
    <3>3. child_lock[w] = g
      BY <1>1, <1>7, <2>2, <3>1 DEF WaitersOK
    <3> SUFFICES ASSUME NEW h \in Page \cup {IdlePage}
                 PROVE  /\ \A i \in 1 .. Len(waiters'[h]) :
                             /\ pc'[waiters'[h][i]] \in Blocked
                             /\ child_lock'[waiters'[h][i]] = h
                        /\ \A i, j \in 1 .. Len(waiters'[h]) :
                             waiters'[h][i] = waiters'[h][j] => i = j
      BY DEF WaitersOK
    <3>4. /\ waiters[h] \in Seq(Proc)
          /\ \A i \in 1 .. Len(waiters[h]) : /\ waiters[h][i] \in Proc
                                             /\ pc[waiters[h][i]] \in Blocked
                                             /\ child_lock'[waiters[h][i]] = h
          /\ \A i, j \in 1 .. Len(waiters[h]) : waiters[h][i] = waiters[h][j] => i = j
      BY <1>1, <1>2, <1>7 DEF WaitersOK
    <3>5. CASE h # g
      <4>1. waiters'[h] = waiters[h]
        BY <1>7, <2>2, <3>5
      <4>2. \A i \in 1 .. Len(waiters[h]) : waiters[h][i] # w
        BY <1>2, <3>3, <3>4, <3>5
      <4>3. QED
        BY <3>2, <3>4, <4>1, <4>2
    <3>6. CASE h = g
      <4>1. waiters'[h] = Tail(waiters[h])
        BY <1>7, <2>2, <3>6
      <4>2. /\ Len(waiters'[h]) = Len(waiters[h]) - 1
            /\ \A i \in 1 .. Len(waiters'[h]) :
                 i + 1 \in 1 .. Len(waiters[h]) /\ waiters'[h][i] = waiters[h][i + 1]
        <5>1. PICK s \in Seq(Proc) : s = waiters[h]
          BY <3>4
        <5>2. s # <<>>
          BY <2>2, <3>6, <5>1
        <5>3. /\ Len(Tail(s)) = Len(s) - 1
              /\ \A i \in 1 .. Len(Tail(s)) :
                   i + 1 \in 1 .. Len(s) /\ Tail(s)[i] = s[i + 1]
          BY <5>2
        <5>4. QED
          BY <4>1, <5>1, <5>3
      <4>3. \A i \in 1 .. Len(waiters'[h]) : waiters[h][i + 1] # w
        BY <3>1, <3>4, <3>6, <4>2
      <4>4. QED
        BY <3>2, <3>4, <4>2, <4>3
    <3>7. QED
      BY <3>5, <3>6
  <2>3. QED
    BY <1>6, <2>1, <2>2
<1>17. FamilyOK'
  <2>1. \A d \in Proc : Unannounced(d)' => d # c /\ Unannounced(d)
    BY <1>9 DEF Unannounced
  <2>2. \A d \in Proc : Unannounced(d)' => value'[tpage[d]] = value[tpage[d]]
    BY <1>1, <1>13, <1>14, <2>1 DEF PagesOK, Unannounced, HasThread
  <2>3. \A q \in Proc : pc[q] \in Executing => pc'[q] \in Executing
    BY <1>2, <1>9 DEF Executing
  <2>4. \A d \in Proc : Unannounced(d)' => HeldBy(d, parent[d])'
    BY <1>1, <1>2, <2>1, <2>2, <2>3 DEF FamilyOK, HeldBy
  <2>5. QED
    BY <1>1, <1>2, <1>3, <1>9, <2>4, Outsiders DEF FamilyOK
<1>18. ToldOK'
  BY <1>1, <1>2, <1>9 DEF ToldOK, Told
<1>19. ResultOK'
  BY <1>1, <1>2 DEF ResultOK
<1>20. QED
  BY <1>10, <1>11, <1>12, <1>15, <1>16, <1>17, <1>18, <1>19 DEF IInv, Typed

(* The page of a dead thread is freed when nobody else's thread is there. *)
LEMMA ThreadExitKeeps ==
    ASSUME IInv, NEW c \in Proc, ThreadExit(c)
    PROVE  IInv'
<1>1. /\ TypedProcs /\ TypedMemory /\ TypedPages /\ TypedNews
      /\ PagesOK /\ WaitersOK /\ FamilyOK /\ ToldOK /\ ResultOK
  BY DEF IInv, Typed
<1>2. /\ pc[c] = "dying" /\ pc' = [pc EXCEPT ![c] = "dead"]
      /\ use' = [use EXCEPT ![tpage[c]] = "free"]
      /\ value' = [value EXCEPT ![tpage[c]] = Poison]
      /\ UNCHANGED <<target, parent, tpage, cmdline, pagedir, tid, child_tid, child_exit,
                     child_lock, waiters, halted, ended, result>>
  BY DEF ThreadExit, Runs, Goto, family, history
<1>3. HasThread(c) /\ tpage[c] \in Page /\ use[tpage[c]] = "thread"
  BY <1>1, <1>2 DEF FamilyOK, PagesOK, HasThread
<1>4. TypedProcs' /\ TypedMemory' /\ TypedNews'
  BY <1>1, <1>2 DEF TypedProcs, TypedMemory, TypedNews, Labels
<1>5. TypedPages'
  BY <1>1, <1>2, <1>3 DEF TypedPages, Poison
<1>6. \A h \in Page : h # tpage[c] => use'[h] = use[h] /\ value'[h] = value[h]
  BY <1>1, <1>2 DEF TypedPages
<1>7. PagesOK'
  <2>1. /\ \A d \in Proc : HasThread(d)' => d # c /\ HasThread(d)
        /\ \A d \in Proc : HasLine(d)' => HasLine(d)
        /\ \A d \in Proc : HasDir(d)' => HasDir(d)
    BY <1>1, <1>2 DEF TypedProcs, HasThread, HasLine, HasDir
  <2>2. QED
    BY <1>1, <1>2, <1>3, <1>6, <2>1 DEF PagesOK, TypedMemory, HasDir
<1>8. WaitersOK'
  BY <1>1, <1>2 DEF TypedProcs, WaitersOK, Blocked
<1>9. FamilyOK'
  <2>1. \A d \in Proc : Unannounced(d) => value'[tpage[d]] = value[tpage[d]]
    BY <1>1, <1>2, <1>3, <1>6 DEF PagesOK, Unannounced, HasThread
  <2>2. \A d \in Proc : Unannounced(d)' => HeldBy(d, parent[d])'
    BY <1>1, <1>2, <2>1 DEF TypedProcs, FamilyOK, Unannounced, HeldBy, Executing
  <2>3. QED
    BY <1>1, <1>2, <1>3, <2>2 DEF TypedProcs, FamilyOK, HasThread
<1>10. ToldOK'
  BY <1>1, <1>2 DEF TypedProcs, ToldOK, Told
<1>11. ResultOK'
  BY <1>1, <1>2 DEF ResultOK
<1>12. QED
  BY <1>4, <1>5, <1>7, <1>8, <1>9, <1>10, <1>11 DEF IInv, Typed

-----------------------------------------------------------------------------
(* Every step keeps the inductive invariant. *)
LEMMA NextIInv == IInv /\ [Next]_vars => IInv'
<1> SUFFICES ASSUME IInv, [Next]_vars PROVE IInv'
  OBVIOUS
<1>1. CASE UNCHANGED vars
  <2>1. Typed /\ PagesOK /\ WaitersOK /\ FamilyOK /\ ToldOK /\ ResultOK
    BY DEF IInv
  <2>2. UNCHANGED <<pc, target, parent, tpage, cmdline, pagedir, tid, child_tid, child_exit,
                    child_lock, use, value, waiters, halted, ended, result>>
    BY <1>1 DEF vars, procs, family, pages, history
  <2>3. Typed'
    BY <2>1, <2>2 DEF Typed, TypedProcs, TypedMemory, TypedPages, TypedNews
  <2>4. PagesOK' /\ WaitersOK'
    BY <2>1, <2>2 DEF PagesOK, HasThread, HasLine, HasDir, WaitersOK
  <2>5. FamilyOK' /\ ToldOK' /\ ResultOK'
    BY <2>1, <2>2 DEF FamilyOK, Unannounced, HeldBy, ToldOK, Told, ResultOK
  <2>6. QED
    BY <2>3, <2>4, <2>5 DEF IInv
<1>2. CASE Next
  <2>1. PICK p \in Proc : Step(p)
    BY <1>2 DEF Next
  <2>2. CASE ExecDown(p)
    BY <2>2, DownKeeps DEF ExecDown, AfterExecute
  <2>3. CASE WaitDown(p)
    BY <2>3, DownKeeps DEF WaitDown
  <2>4. CASE (\E file \in CommandLines : Execute(p, file)) \/ ThreadCreate(p) \/ SetChildTid(p)
    BY <2>4, ExecuteKeeps, ThreadCreateKeeps, SetChildTidKeeps
  <2>5. CASE \/ FinishExec(p)
             \/ \E t \in Tid : Wait(p, t)
             \/ Waited(p)
    BY <2>5, FinishExecKeeps, WaitKeeps, WaitedKeeps
  <2>6. CASE \/ StartProcess(p)
             \/ \E code \in Codes \cup {-1} : SysExit(p, code)
             \/ UnknownCall(p)
    BY <2>6, StartProcessKeeps, SysExitKeeps, UnknownCallKeeps
  <2>7. CASE ProcessExit(p) \/ ThreadExit(p)
    BY <2>7, ProcessExitKeeps, ThreadExitKeeps
  <2>8. QED
    BY <2>1, <2>2, <2>3, <2>4, <2>5, <2>6, <2>7 DEF Step
<1>3. QED
  BY <1>1, <1>2

(* A process that was created keeps its parent. *)
LEMMA ParentStays ==
    ASSUME IInv, NEW p \in Proc, Step(p), NEW c \in Proc, pc[c] # "none"
    PROVE  parent'[c] = parent[c]
<1>1. CASE ThreadCreate(p)
  BY <1>1, FreshNew DEF ThreadCreate, IInv, Typed, TypedProcs
<1>2. CASE ~ThreadCreate(p)
  <2>1. UNCHANGED parent
    BY <1>2 DEF Step, Execute, SetChildTid, ExecDown, WaitDown, Down, FinishExec, Wait, Waited,
                StartProcess, SysExit, UnknownCall, ProcessExit, ThreadExit
  <2>2. QED
    BY <2>1
<1>3. QED
  BY <1>1, <1>2

(* What a step does to the codes: one that is left stays, a new one is of a child *)
(* that stays its parent's, and the answers come from the parent's child_exit.    *)
LEMMA CodesStep ==
    ASSUME IInv, NEW p \in Proc, Step(p)
    PROVE  /\ \A c \in Proc : ended[c] \in Outcomes =>
                               ended'[c] = ended[c] /\ parent'[c] = parent[c]
           /\ \/ UNCHANGED child_exit
              \/ child_exit' = [child_exit EXCEPT ![p] = -1]
              \/ /\ child_exit' = [child_exit EXCEPT ![parent[p]] = ended'[p]]
                 /\ ended'[p] \in Outcomes /\ parent'[p] = parent[p]
           /\ \/ UNCHANGED result
              \/ result'.tid = 0
              \/ result'.status = -1
              \/ /\ result' = [tid |-> target[p], status |-> child_exit[p]]
                 /\ target[p] \in Proc => parent[target[p]] = p
                 /\ UNCHANGED <<ended, parent>>
<1>1. Typed /\ FamilyOK /\ ToldOK
  BY DEF IInv
<1>2. CASE \/ ExecDown(p) \/ WaitDown(p) \/ SetChildTid(p) \/ FinishExec(p)
           \/ ProcessExit(p) \/ ThreadExit(p)
  <2>1. UNCHANGED <<ended, parent, child_exit, result>>
    BY <1>2 DEF ExecDown, WaitDown, Down, SetChildTid, FinishExec, ProcessExit, ThreadExit,
                family, history
  <2>2. QED
    BY <2>1
<1>3. CASE \E file \in CommandLines : Execute(p, file)
  <2>1. UNCHANGED <<ended, parent, child_exit>> /\ result' = None
    BY <1>3 DEF Execute, family
  <2>2. QED
    BY <2>1 DEF None
<1>4. CASE ThreadCreate(p)
  <2>1. UNCHANGED <<ended, child_exit, result>>
    BY <1>4 DEF ThreadCreate
  <2>2. \/ UNCHANGED parent
        \/ \E c \in Proc : pc[c] = "none" /\ parent' = [parent EXCEPT ![c] = p]
    BY <1>4, FreshNew DEF ThreadCreate
  <2>3. \A c \in Proc : pc[c] = "none" => ended[c] \notin Outcomes
    BY <1>1, Outsiders DEF FamilyOK
  <2>4. QED
    BY <1>1, <2>1, <2>2, <2>3 DEF Typed, TypedProcs
<1>5. CASE \E t \in Tid : Wait(p, t)
  <2>1. UNCHANGED <<ended, parent, child_exit>>
    BY <1>5 DEF Wait, family
  <2>2. UNCHANGED result \/ result'.status = -1
    BY <1>5 DEF Wait, WaitResult
  <2>3. QED
    BY <2>1, <2>2
<1>6. CASE Waited(p)
  <2>1. /\ UNCHANGED <<ended, parent>> /\ child_exit' = [child_exit EXCEPT ![p] = -1]
        /\ result' = [tid |-> target[p], status |-> child_exit[p]]
    BY <1>6 DEF Waited, WaitResult
  <2>2. target[p] \in Proc => parent[target[p]] = p
    BY <1>1, <1>6 DEF Waited, Runs, ToldOK, Told
  <2>3. QED
    BY <2>1, <2>2
<1>7. CASE StartProcess(p) \/ UnknownCall(p)
  <2>1. /\ UNCHANGED <<parent, child_exit, result>> /\ ended[p] = Alive
        /\ ended' = [ended EXCEPT ![p] = @] \/ ended' = [ended EXCEPT ![p] = Killed]
    BY <1>1, <1>7 DEF StartProcess, UnknownCall, Runs, FamilyOK, family
  <2>2. QED
    BY <1>1, <2>1, Outsiders DEF Typed, TypedNews
<1>8. CASE \E code \in Codes \cup {-1} : SysExit(p, code)
  <2>1. PICK code \in Outcomes : SysExit(p, code)
    BY <1>8 DEF Outcomes
  <2>2. /\ UNCHANGED <<parent, result>> /\ ended[p] = Alive
        /\ child_exit' = [child_exit EXCEPT ![parent[p]] = code]
        /\ ended' = [ended EXCEPT ![p] = code]
    BY <1>1, <2>1 DEF SysExit, Runs, FamilyOK
  <2>3. QED
    BY <1>1, <2>1, <2>2, Outsiders DEF Typed, TypedNews
<1>9. QED
  BY <1>2, <1>3, <1>4, <1>5, <1>6, <1>7, <1>8 DEF Step

(* so every code a parent sees is one that a child of its own has left *)
LEMMA CodesKept == IInv /\ CodesOK /\ [Next]_vars => CodesOK'
<1> SUFFICES ASSUME IInv, CodesOK, [Next]_vars PROVE CodesOK'
  OBVIOUS
<1>1. CASE UNCHANGED vars
  BY <1>1 DEF CodesOK, CodesLeft, vars, procs, family, history
<1>2. CASE Next
  <2> DEFINE New(q) == {ended'[c] : c \in {c \in Proc : parent'[c] = q /\ ended'[c] \in Outcomes}}
  <2>1. PICK p \in Proc : Step(p)
    BY <1>2 DEF Next
  <2>2. Typed /\ Typed'
    BY <1>2, NextIInv DEF IInv
  <2>3. \A c \in Proc : ended[c] \in Outcomes => ended'[c] = ended[c] /\ parent'[c] = parent[c]
    BY <2>1, CodesStep
  <2>4. \A q : CodesLeft(q) \subseteq New(q)
    BY <2>3 DEF CodesLeft
  <2>5. \A c \in Proc : ended'[c] \in Outcomes => ended'[c] \in New(parent'[c])
    OBVIOUS
  <2> HIDE DEF New
  <2>6. \A q \in Proc : child_exit'[q] \in {0, -1} \cup New(q)
    <3>1. \A q \in Proc : \/ child_exit'[q] = child_exit[q]
                           \/ child_exit'[q] = -1
                           \/ /\ q = parent'[p] /\ ended'[p] \in Outcomes
                              /\ child_exit'[q] = ended'[p]
      BY <2>1, <2>2, CodesStep DEF Typed, TypedNews
    <3>2. QED
      BY <2>1, <2>4, <2>5, <3>1 DEF CodesOK
  <2>7. result'.tid \in Proc /\ result'.status # -1 =>
          result'.status \in {0} \cup New(parent'[result'.tid])
    <3> SUFFICES ASSUME result'.tid \in Proc, result'.status # -1
                 PROVE  result'.status \in {0} \cup New(parent'[result'.tid])
      OBVIOUS
    <3>1. CASE UNCHANGED result
      <4>1. ended[result.tid] # Alive /\ pc[result.tid] # "none"
        BY <3>1 DEF IInv, ResultOK, FamilyOK
      <4>2. parent'[result.tid] = parent[result.tid]
        BY <2>1, <3>1, <4>1, ParentStays
      <4>3. QED
        BY <2>4, <3>1, <4>2 DEF CodesOK
    <3>2. CASE /\ result' = [tid |-> target[p], status |-> child_exit[p]]
               /\ target[p] \in Proc => parent[target[p]] = p
               /\ UNCHANGED <<ended, parent>>
      BY <2>4, <3>2 DEF CodesOK
    <3>3. QED
      BY <2>1, <3>1, <3>2, CodesStep, Outsiders DEF NULL
  <2>8. QED
    BY <2>6, <2>7 DEF CodesOK, CodesLeft, New
<1>3. QED
  BY <1>1, <1>2

(* The inductive invariant, of which the theorems are consequences. *)
LEMMA ProcessInvariant == Spec => []IInv
BY InitIInv, NextIInv, PTL DEF Spec

(* The pointer t->parent that sys_exit() writes through leads to a living *)
(* thread: the parent has not left process_execute().                     *)
THEOREM ProcessParentAlive == Spec => []ParentAlive
<1>1. IInv => ParentAlive
  BY DEF IInv, FamilyOK, Unannounced, HeldBy, Executing, ParentAlive, Created
<1>2. QED
  BY <1>1, ProcessInvariant, PTL

(* process_wait() answers -1, or for a child that has ended: the very code it left, *)
(* if it ended by sys_exit(); for one the kernel ended without a word, 0 or what      *)
(* another child of the same parent has left, never anything else.  It holds          *)
(* however the processes interleave and the pages of dead threads are used again.     *)
THEOREM ProcessStatusDelivered == Spec => []StatusDelivered
<1>1. Init => CodesOK
  BY Outsiders DEF Init, CodesOK, None, NULL, TID_ERROR
<1>2. Spec => []CodesOK
  BY <1>1, CodesKept, ProcessInvariant, PTL DEF Spec
<1>3. IInv /\ CodesOK => StatusDelivered
  BY Outsiders DEF IInv, Typed, TypedNews, ResultOK, CodesOK, StatusDelivered
<1>4. QED
  BY <1>2, <1>3, ProcessInvariant, PTL

=============================================================================
