---------------------------- MODULE ProgramProofs ---------------------------
(***************************************************************************)
(* Proofs about the programs of assignments 3 to 6, for every value of     *)
(* their constants: the manual page is in order and complete however its   *)
(* threads are scheduled (ManPageCorrect); the CPU scheduler reports the   *)
(* waiting times it should and decides by its policy (SchedWaitExact,      *)
(* SchedByPolicy); the pager takes out the page that its algorithm picks   *)
(* by the requests it remembers, for each of the five (PagerByPolicy); and *)
(* the file manager destroys no data and reports only whole copies, unless *)
(* it mistakes one failure for another (FilemanSafe).                      *)
(***************************************************************************)
EXTENDS ManPage, Scheduler, Pager, Fileman, FiniteSetTheorems, SequenceTheorems,
        WellFoundedInduction, TLAPS

(***************************************************************************)
(* The manual page.                                                        *)
(***************************************************************************)

(* the program on its own, as it is part of Programs *)
ManSpec == ManInit /\ [][ManNext]_manVars

Shown == Len(page)

MainOK ==
    \/ man_main \in {<<"returned">>, <<"exit">>}
    \/ \E i \in Paragraph : man_main = <<"create", i>> \/ man_main = <<"join", i>>

TypeOK ==
    /\ MainOK
    /\ man_pc \in [Paragraph -> {"none", "start", "wait", "show", "post", "posted",
                                 "destroy", "exited"}]
    /\ pid \in [Paragraph -> Paragraph \cup {-1}]
    /\ lock_list \in [Paragraph -> {0, 1}]
    /\ destroyed \subseteq Paragraph
    /\ page \in Seq(Paragraph)

(* a thread has a paragraph once it has asked for one, and no two have the *)
(* same; the paragraphs on the page have been handed out                   *)
HandedOut ==
    /\ \A i \in Paragraph : pid[i] = -1 <=> man_pc[i] \in {"none", "start"}
    /\ \A i, j \in Paragraph : pid[i] = pid[j] /\ pid[i] # -1 => i = j
    /\ \A q \in 0 .. Shown - 1 : \E i \in Paragraph : pid[i] = q

(* where a thread is with regard to the end of the page *)
InOrder(i) ==
    /\ man_pc[i] = "wait" => pid[i] >= Shown
    /\ man_pc[i] = "show" => pid[i] = Shown
    /\ man_pc[i] = "post" => pid[i] = Shown - 1 /\ Shown < THREAD_NUM
    /\ man_pc[i] = "destroy" => Shown = THREAD_NUM
    /\ man_pc[i] \in {"posted", "exited"} => pid[i] < Shown

(* there is one token: the thread that shows or is to post has it, or the  *)
(* semaphore of the next paragraph                                         *)
OneToken ==
    /\ \A p \in Paragraph : lock_list[p] = 1 => p = Shown /\ Shown > 0
    /\ \A i \in Paragraph : man_pc[i] \in {"show", "post"} =>
          /\ \A p \in Paragraph : lock_list[p] = 0
          /\ \A j \in Paragraph : man_pc[j] \in {"show", "post"} => i = j

(* the threads manpage() has still to create, and those it has joined *)
Joined ==
    /\ \A k \in Paragraph : man_main = <<"create", k>> =>
          \A i \in Paragraph : i >= k => man_pc[i] = "none"
    /\ \A k \in Paragraph : man_main = <<"join", k>> =>
          \A i \in Paragraph : i < k => man_pc[i] = "exited"
    /\ man_main = <<"returned">> => \A i \in Paragraph : man_pc[i] = "exited"

IInv ==
    /\ TypeOK
    /\ HandedOut
    /\ \A i \in Paragraph : InOrder(i)
    /\ OneToken
    /\ Joined
    /\ page = [k \in 1 .. Len(page) |-> k - 1]
    /\ destroyed # {} => Shown = THREAD_NUM

(* The first state satisfies the inductive invariant. *)
LEMMA InitIInv == ManInit => IInv
  BY ManAssumption
  DEF ManInit, IInv, TypeOK, MainOK, HandedOut, InOrder, OneToken, Joined, Paragraph, Shown

(* Once every paragraph has been handed out, every thread has one. *)
LEMMA AllHandedOut ==
    ASSUME IInv, \A i \in Paragraph : pid[i] # -1
    PROVE  \A p \in Paragraph : \E i \in Paragraph : pid[i] = p
<1>1. pid \in Injection(Paragraph, Paragraph)
  BY DEF IInv, TypeOK, HandedOut, Injection, IsInjective
<1>2. IsFiniteSet(Paragraph)
  BY ManAssumption, FS_Interval DEF Paragraph
<1>3. pid \in Surjection(Paragraph, Paragraph)
  BY <1>1, <1>2, FS_Injection
<1>4. QED
  BY <1>3 DEF Surjection

(* And when they all appear on the page, no thread is still to ask. *)
LEMMA NoneLeft ==
    ASSUME IInv, Shown = THREAD_NUM, NEW i \in Paragraph
    PROVE  pid[i] # -1
<1> SUFFICES ASSUME pid[i] = -1 PROVE FALSE
  OBVIOUS
<1>1. \A q \in Paragraph : \E j \in Paragraph : pid[j] = q
  BY DEF IInv, HandedOut, Paragraph
<1> DEFINE who == [q \in Paragraph |-> CHOOSE j \in Paragraph : pid[j] = q]
<1>2. \A q \in Paragraph : who[q] \in Paragraph /\ pid[who[q]] = q
  BY <1>1
<1> HIDE DEF who
<1>3. \A q \in Paragraph : q # -1
  BY DEF Paragraph
<1>4. who \in [Paragraph -> Paragraph \ {i}]
  BY <1>2, <1>3 DEF who
<1>5. who \in Injection(Paragraph, Paragraph \ {i})
  BY <1>2, <1>4 DEF Injection, IsInjective
<1>6. /\ IsFiniteSet(Paragraph) /\ Cardinality(Paragraph) \in Nat
      /\ IsFiniteSet(Paragraph \ {i})
      /\ Cardinality(Paragraph \ {i}) = Cardinality(Paragraph) - 1
  <2>1. IsFiniteSet(Paragraph)
    BY ManAssumption, FS_Interval DEF Paragraph
  <2>2. QED
    BY <2>1, FS_RemoveElement, FS_CardinalityType
<1>7. Cardinality(Paragraph) <= Cardinality(Paragraph \ {i})
  BY <1>5, <1>6, FS_Injection
<1>8. QED
  BY <1>6, <1>7

-----------------------------------------------------------------------------
(* manpage() creates a thread *)
LEMMA CreateIInv ==
    ASSUME IInv, CreateThread
    PROVE  IInv'
<1>1. PICK k \in Paragraph : man_main = <<"create", k>>
  BY DEF CreateThread, IInv, TypeOK, MainOK
<1>2. UNCHANGED <<pid, lock_list, destroyed, page>>
  BY DEF CreateThread
<1>3. CASE /\ man_pc' = [man_pc EXCEPT ![k] = "start"]
           /\ man_main' = IF k + 1 < THREAD_NUM THEN <<"create", k + 1>> ELSE <<"join", 0>>
  <2>1. man_pc[k] = "none"
    BY <1>1 DEF IInv, Joined, Paragraph
  <2>2. MainOK'
    BY <1>3, ManAssumption DEF MainOK, Paragraph
  <2>3. TypeOK'
    BY <1>2, <1>3, <2>2 DEF IInv, TypeOK
  <2>4. HandedOut' /\ (\A i \in Paragraph : InOrder(i)') /\ OneToken'
    BY <1>2, <1>3, <2>1 DEF IInv, TypeOK, HandedOut, InOrder, OneToken, Shown
  <2>5. Joined'
    <3>1. CASE k + 1 < THREAD_NUM
      BY <1>1, <1>3, <3>1 DEF IInv, TypeOK, Joined, Paragraph
    <3>2. CASE ~(k + 1 < THREAD_NUM)
      BY <1>1, <1>3, <3>2 DEF IInv, TypeOK, Joined, Paragraph
    <3>3. QED
      BY <3>1, <3>2
  <2>6. QED
    BY <1>2, <2>3, <2>4, <2>5 DEF IInv, Shown
<1>4. CASE man_main' = <<"exit">> /\ UNCHANGED man_pc
  <2>1. TypeOK' /\ Joined'
    BY <1>2, <1>4 DEF IInv, TypeOK, MainOK, Joined
  <2>2. QED
    BY <1>2, <1>4, <2>1 DEF IInv, HandedOut, InOrder, OneToken, Shown
<1>5. QED
  BY <1>1, <1>3, <1>4 DEF CreateThread

(* manpage() joins a thread *)
LEMMA JoinIInv ==
    ASSUME IInv, JoinThread
    PROVE  IInv'
<1>1. PICK k \in Paragraph : man_main = <<"join", k>>
  BY DEF JoinThread, IInv, TypeOK, MainOK
<1>2. /\ UNCHANGED <<man_pc, pid, lock_list, destroyed, page>>
      /\ man_pc[k] = "exited"
      /\ man_main' = IF k + 1 < THREAD_NUM THEN <<"join", k + 1>> ELSE <<"returned">>
  BY <1>1 DEF JoinThread
<1>3. MainOK'
  <2>1. CASE k + 1 < THREAD_NUM
    <3>1. k + 1 \in Paragraph /\ man_main' = <<"join", k + 1>>
      BY <1>2, <2>1, ManAssumption DEF Paragraph
    <3>2. QED
      BY <3>1 DEF MainOK
  <2>2. CASE ~(k + 1 < THREAD_NUM)
    BY <1>2, <2>2 DEF MainOK
  <2>3. QED
    BY <2>1, <2>2
<1>4. TypeOK'
  BY <1>2, <1>3 DEF IInv, TypeOK
<1>5. \A i \in Paragraph : i < k => man_pc[i] = "exited"
  BY <1>1 DEF IInv, Joined
<1>6. Joined'
  <2>1. CASE k + 1 < THREAD_NUM
    <3>1. man_main' = <<"join", k + 1>> /\ \A i \in Paragraph : i < k + 1 => man_pc'[i] = "exited"
      BY <1>2, <1>5, <2>1 DEF Paragraph
    <3>2. QED
      BY <3>1 DEF Joined
  <2>2. CASE ~(k + 1 < THREAD_NUM)
    <3>1. \A i \in Paragraph : i = k \/ i < k
      BY <2>2, ManAssumption DEF Paragraph
    <3>2. man_main' = <<"returned">> /\ \A i \in Paragraph : man_pc'[i] = "exited"
      BY <1>2, <1>5, <2>2, <3>1
    <3>3. QED
      BY <3>2 DEF Joined
  <2>3. QED
    BY <2>1, <2>2
<1>7. QED
  BY <1>2, <1>4, <1>6 DEF IInv, HandedOut, InOrder, OneToken, Shown

(* A step of a thread leaves the other threads where they are. *)
LEMMA ThreadFrame ==
    ASSUME IInv, NEW i \in Paragraph, NEW l, man_pc' = [man_pc EXCEPT ![i] = l],
           man_pc[i] \notin {"none", "exited"}, UNCHANGED man_main
    PROVE  /\ man_pc'[i] = l
           /\ \A j \in Paragraph \ {i} : man_pc'[j] = man_pc[j]
           /\ MainOK' /\ Joined'
  BY DEF IInv, TypeOK, MainOK, Joined, Paragraph

(* a thread asks which paragraph is its own *)
LEMMA GetIInv ==
    ASSUME IInv, NEW i \in Paragraph, GetParagraph(i)
    PROVE  IInv'
<1>1. PICK p \in Paragraph \ {pid[j] : j \in Paragraph} :
         /\ pid' = [pid EXCEPT ![i] = p]
         /\ man_pc' = [man_pc EXCEPT ![i] = IF p = 0 THEN "show" ELSE "wait"]
  BY DEF GetParagraph
<1>2. /\ man_pc[i] = "start"
      /\ UNCHANGED <<man_main, lock_list, destroyed, page>>
  BY DEF GetParagraph
<1>3. /\ man_pc'[i] = IF p = 0 THEN "show" ELSE "wait"
      /\ \A j \in Paragraph \ {i} : man_pc'[j] = man_pc[j]
      /\ MainOK' /\ Joined'
  BY <1>1, <1>2, ThreadFrame
<1>4. /\ pid[i] = -1 /\ pid'[i] = p /\ p # -1
      /\ \A j \in Paragraph \ {i} : pid'[j] = pid[j] /\ pid[j] # p
  BY <1>1, <1>2 DEF IInv, TypeOK, HandedOut, Paragraph
<1>5. Shown \in Nat /\ Shown' = Shown /\ p \in Nat /\ p >= Shown
  <2>1. Shown \in Nat /\ Shown' = Shown /\ p \in Nat
    BY <1>2 DEF IInv, TypeOK, Shown, Paragraph
  <2>2. QED
    BY <2>1, <1>1 DEF IInv, HandedOut
<1>6. TypeOK'
  BY <1>1, <1>2, <1>3 DEF IInv, TypeOK
<1>7. HandedOut'
  BY <1>3, <1>4, <1>5 DEF IInv, HandedOut
<1>8. \A j \in Paragraph : InOrder(j)'
  BY <1>3, <1>4, <1>5 DEF IInv, InOrder
<1>9. OneToken'
  <2>1. CASE p = 0
    <3>1. Shown = 0
      BY <1>5, <2>1
    <3>2. \A q \in Paragraph : lock_list[q] = 0
      BY <3>1 DEF IInv, TypeOK, OneToken
    <3>3. \A j \in Paragraph \ {i} : man_pc[j] \notin {"show", "post"}
      <4> SUFFICES ASSUME NEW j \in Paragraph \ {i} PROVE man_pc[j] \notin {"show", "post"}
        OBVIOUS
      <4>1. pid[j] # 0
        BY <1>4, <2>1
      <4>2. InOrder(j)
        BY DEF IInv
      <4>3. man_pc[j] # "show"
        BY <3>1, <4>1, <4>2 DEF InOrder
      <4>4. man_pc[j] = "post" => pid[j] = -1
        BY <3>1, <4>2 DEF InOrder
      <4>5. QED
        BY <4>3, <4>4 DEF IInv, HandedOut
    <3>4. QED
      BY <1>2, <1>3, <1>5, <3>1, <3>2, <3>3 DEF IInv, OneToken
  <2>2. CASE p # 0
    BY <1>2, <1>3, <1>5, <2>2 DEF IInv, OneToken
  <2>3. QED
    BY <2>1, <2>2
<1>10. QED
  BY <1>2, <1>3, <1>5, <1>6, <1>7, <1>8, <1>9 DEF IInv

(* it waits for its turn *)
LEMMA SemWaitIInv ==
    ASSUME IInv, NEW i \in Paragraph, SemWait(i)
    PROVE  IInv'
<1>1. /\ man_pc[i] = "wait" /\ pid[i] \in Paragraph /\ lock_list[pid[i]] = 1
      /\ UNCHANGED <<man_main, pid, destroyed, page>>
      /\ man_pc' = [man_pc EXCEPT ![i] = "show"]
      /\ Shown' = Shown
  BY DEF SemWait, IInv, TypeOK, HandedOut, Shown
<1>2. /\ man_pc'[i] = "show"
      /\ \A j \in Paragraph \ {i} : man_pc'[j] = man_pc[j]
      /\ MainOK' /\ Joined'
  BY <1>1, ThreadFrame
<1>3. /\ lock_list' = [lock_list EXCEPT ![pid[i]] = 0]
      /\ lock_list'[pid[i]] = 0
      /\ \A q \in Paragraph \ {pid[i]} : lock_list'[q] = lock_list[q]
  BY <1>1 DEF SemWait, IInv, TypeOK
<1>4. pid[i] = Shown /\ \A q \in Paragraph : lock_list'[q] = 0
  BY <1>1, <1>3 DEF IInv, TypeOK, OneToken
<1>5. TypeOK'
  BY <1>1, <1>2, <1>3 DEF IInv, TypeOK
<1>6. HandedOut' /\ \A j \in Paragraph : InOrder(j)'
  BY <1>1, <1>2, <1>4 DEF IInv, HandedOut, InOrder
<1>7. \A j \in Paragraph : man_pc[j] \notin {"show", "post"}
  BY <1>1 DEF IInv, OneToken
<1>8. OneToken'
  BY <1>2, <1>4, <1>7 DEF OneToken
<1>9. QED
  BY <1>1, <1>2, <1>5, <1>6, <1>8 DEF IInv

(* it shows its paragraph *)
LEMMA ShowIInv ==
    ASSUME IInv, NEW i \in Paragraph, ShowParagraph(i)
    PROVE  IInv'
<1>1. /\ man_pc[i] = "show" /\ pid[i] = Shown /\ pid[i] \in Paragraph
      /\ UNCHANGED <<man_main, pid, lock_list, destroyed>>
      /\ man_pc' = [man_pc EXCEPT ![i] = IF pid[i] = THREAD_NUM - 1 THEN "destroy" ELSE "post"]
      /\ page' = Append(page, Shown)
  BY DEF ShowParagraph, IInv, TypeOK, HandedOut, InOrder
<1>2. /\ man_pc'[i] = IF pid[i] = THREAD_NUM - 1 THEN "destroy" ELSE "post"
      /\ \A j \in Paragraph \ {i} : man_pc'[j] = man_pc[j]
      /\ MainOK' /\ Joined'
  BY <1>1, ThreadFrame
<1>3. /\ Shown \in Nat /\ Shown' = Shown + 1 /\ Shown < THREAD_NUM
      /\ page' \in Seq(Paragraph)
      /\ page' = [k \in 1 .. Len(page') |-> k - 1]
  <2>1. page \in Seq(Paragraph) /\ Len(page) = Shown /\ Shown \in Paragraph
    BY <1>1 DEF IInv, TypeOK, Shown
  <2>2. page = [k \in 1 .. Len(page) |-> k - 1]
    BY DEF IInv
  <2>3. page' \in Seq(Paragraph) /\ Len(page') = Len(page) + 1
    BY <1>1, <2>1
  <2>4. \A k \in 1 .. Len(page) + 1 : page'[k] = k - 1
    BY <1>1, <2>1, <2>2
  <2>5. page' = [k \in 1 .. Len(page') |-> k - 1]
    <3>1. DOMAIN page' = 1 .. Len(page') /\ page' = [k \in DOMAIN page' |-> page'[k]]
      BY <2>3
    <3>2. \A k \in DOMAIN page' : page'[k] = k - 1
      BY <2>3, <2>4, <3>1
    <3>3. QED
      BY <3>1, <3>2, Zenon
  <2>6. QED
    BY <2>1, <2>3, <2>5, ManAssumption DEF Shown, Paragraph
<1>4. TypeOK'
  BY <1>1, <1>2, <1>3 DEF IInv, TypeOK
<1>5. HandedOut'
  BY <1>1, <1>2, <1>3, ManAssumption DEF IInv, HandedOut
<1>6. \A j \in Paragraph \ {i} : man_pc[j] \notin {"show", "post"}
  BY <1>1 DEF IInv, OneToken
<1>7. \A j \in Paragraph : InOrder(j)'
  <2> SUFFICES ASSUME NEW j \in Paragraph PROVE InOrder(j)'
    OBVIOUS
  <2>1. CASE j = i
    BY <1>1, <1>2, <1>3, <2>1, ManAssumption DEF InOrder, Paragraph
  <2>2. CASE j # i
    <3>1. InOrder(j) /\ pid[j] \in Paragraph \cup {-1} /\ man_pc'[j] = man_pc[j] /\ pid'[j] = pid[j]
      BY <1>1, <1>2, <2>2 DEF IInv, TypeOK
    <3>2. man_pc[j] # "destroy"
      BY <1>3, <3>1 DEF InOrder
    <3>3. pid[j] # Shown
      BY <1>1, <2>2, ManAssumption DEF IInv, HandedOut, Paragraph
    <3>4. QED
      BY <1>3, <1>6, <2>2, <3>1, <3>2, <3>3 DEF InOrder, Paragraph
  <2>3. QED
    BY <2>1, <2>2
<1>8. OneToken'
  BY <1>1, <1>2, <1>3, <1>6 DEF IInv, OneToken
<1>9. destroyed = {}
  BY <1>3, ManAssumption DEF IInv
<1>10. QED
  BY <1>1, <1>2, <1>3, <1>4, <1>5, <1>7, <1>8, <1>9 DEF IInv

(* it lets the next one go *)
LEMMA PostIInv ==
    ASSUME IInv, NEW i \in Paragraph, SemPost(i)
    PROVE  IInv'
<1>1. /\ man_pc[i] = "post" /\ pid[i] \in Paragraph /\ pid[i] = Shown - 1
      /\ Shown < THREAD_NUM /\ Shown \in Nat /\ Shown > 0 /\ Shown' = Shown
      /\ UNCHANGED <<man_main, pid, destroyed, page>>
      /\ man_pc' = [man_pc EXCEPT ![i] = "posted"]
  BY DEF SemPost, IInv, TypeOK, HandedOut, InOrder, Shown, Paragraph
<1>2. /\ man_pc'[i] = "posted"
      /\ \A j \in Paragraph \ {i} : man_pc'[j] = man_pc[j]
      /\ MainOK' /\ Joined'
  BY <1>1, ThreadFrame
<1>3. Shown \in Paragraph /\ \A q \in Paragraph : lock_list[q] = 0
  BY <1>1, ManAssumption DEF IInv, OneToken, Paragraph
<1>4. lock_list' = [lock_list EXCEPT ![Shown] = 1]
  <2>1. pid[i] + 1 = Shown
    BY <1>1
  <2>2. lock_list[Shown] + 1 = 1
    BY <1>3
  <2>3. lock_list' = [lock_list EXCEPT ![pid[i] + 1] = lock_list[pid[i] + 1] + 1]
    BY DEF SemPost
  <2>4. QED
    BY <2>1, <2>2, <2>3
<1>5. TypeOK'
  BY <1>1, <1>2, <1>3, <1>4 DEF IInv, TypeOK
<1>6. HandedOut' /\ \A j \in Paragraph : InOrder(j)'
  BY <1>1, <1>2 DEF IInv, HandedOut, InOrder
<1>7. \A j \in Paragraph \ {i} : man_pc[j] \notin {"show", "post"}
  BY <1>1 DEF IInv, OneToken
<1>8. OneToken'
  BY <1>1, <1>2, <1>3, <1>4, <1>7 DEF IInv, TypeOK, OneToken
<1>9. QED
  BY <1>1, <1>2, <1>5, <1>6, <1>8 DEF IInv

(* sem_post() returns *)
LEMMA ReturnIInv ==
    ASSUME IInv, NEW i \in Paragraph, PostReturn(i)
    PROVE  IInv'
<1>1. /\ man_pc[i] = "posted" /\ Shown' = Shown
      /\ UNCHANGED <<man_main, pid, lock_list, destroyed, page>>
      /\ man_pc' = [man_pc EXCEPT ![i] = "exited"]
  BY DEF PostReturn, Shown
<1>2. /\ man_pc'[i] = "exited"
      /\ \A j \in Paragraph \ {i} : man_pc'[j] = man_pc[j]
      /\ MainOK' /\ Joined'
  BY <1>1, ThreadFrame
<1>3. TypeOK'
  BY <1>1, <1>2 DEF IInv, TypeOK
<1>4. HandedOut' /\ (\A j \in Paragraph : InOrder(j)') /\ OneToken'
  BY <1>1, <1>2 DEF IInv, HandedOut, InOrder, OneToken
<1>5. QED
  BY <1>1, <1>2, <1>3, <1>4 DEF IInv

(* the last thread destroys the semaphores *)
LEMMA DestroyIInv ==
    ASSUME IInv, NEW i \in Paragraph, Destroy(i)
    PROVE  IInv'
<1>1. PICK p \in Paragraph :
        /\ destroyed' = destroyed \cup {p}
        /\ man_pc' = [man_pc EXCEPT ![i] =
                         IF p = THREAD_NUM - 1 THEN "exited" ELSE "destroy"]
  BY DEF Destroy
<1>2. /\ man_pc[i] = "destroy" /\ Shown = THREAD_NUM /\ Shown' = Shown
      /\ UNCHANGED <<man_main, pid, lock_list, page>>
  BY DEF Destroy, IInv, InOrder, Shown
<1>3. /\ man_pc'[i] = IF p = THREAD_NUM - 1 THEN "exited" ELSE "destroy"
      /\ \A j \in Paragraph \ {i} : man_pc'[j] = man_pc[j]
      /\ MainOK' /\ Joined'
  BY <1>1, <1>2, ThreadFrame
<1>4. TypeOK'
  BY <1>1, <1>2, <1>3 DEF IInv, TypeOK
<1>5. pid[i] < THREAD_NUM
  BY ManAssumption DEF IInv, TypeOK, Paragraph
<1>6. HandedOut' /\ (\A j \in Paragraph : InOrder(j)') /\ OneToken'
  BY <1>2, <1>3, <1>5 DEF IInv, HandedOut, InOrder, OneToken
<1>7. QED
  BY <1>2, <1>3, <1>4, <1>6 DEF IInv

(* Every step keeps the inductive invariant. *)
LEMMA NextIInv == IInv /\ [ManNext]_manVars => IInv'
<1> SUFFICES ASSUME IInv, [ManNext]_manVars PROVE IInv'
  OBVIOUS
<1>1. CASE UNCHANGED manVars
  BY <1>1 DEF manVars, IInv, TypeOK, MainOK, HandedOut, InOrder, OneToken, Joined, Shown
<1>2. CASE ManNext
  BY <1>2, CreateIInv, JoinIInv, GetIInv, SemWaitIInv, ShowIInv, PostIInv, ReturnIInv,
     DestroyIInv
  DEF ManNext, ManMain, ManOther, ManThread
<1>3. QED
  BY <1>1, <1>2

(* The inductive invariant holds throughout. *)
LEMMA ManIInv == ManSpec => []IInv
  BY InitIInv, NextIInv, PTL DEF ManSpec

-----------------------------------------------------------------------------
(***************************************************************************)
(* ManPageRight: the paragraphs appear in order, manpage() returns only    *)
(* with the page complete and every thread gone, and no semaphore is       *)
(* waited for or posted once it was destroyed.                             *)
(***************************************************************************)
THEOREM ManPageCorrect == ManSpec => []ManPageRight
<1>1. IInv => ManPageRight
  <2> SUFFICES ASSUME IInv PROVE ManPageRight
    OBVIOUS
  <2>1. page = [k \in 1 .. Len(page) |-> k - 1]
    BY DEF IInv
  <2>2. man_main = <<"returned">> =>
           (\A i \in Paragraph : man_pc[i] = "exited") /\ Len(page) = THREAD_NUM
    <3> SUFFICES ASSUME man_main = <<"returned">>
                 PROVE  (\A i \in Paragraph : man_pc[i] = "exited") /\ Len(page) = THREAD_NUM
      OBVIOUS
    <3>1. \A i \in Paragraph : man_pc[i] = "exited"
      BY DEF IInv, Joined
    <3>2. \A i \in Paragraph : pid[i] # -1 /\ pid[i] < Shown
      BY <3>1 DEF IInv, HandedOut, InOrder
    <3>3. THREAD_NUM - 1 \in Paragraph
      BY ManAssumption DEF Paragraph
    <3>4. THREAD_NUM - 1 < Shown
      BY <3>2, <3>3, AllHandedOut
    <3>5. Shown <= THREAD_NUM
      <4>1. Shown \in Nat
        BY DEF IInv, TypeOK, Shown
      <4>2. ASSUME Shown > THREAD_NUM PROVE FALSE
        <5>1. THREAD_NUM \in 0 .. Shown - 1
          BY <4>1, <4>2, ManAssumption
        <5>2. PICK i \in Paragraph : pid[i] = THREAD_NUM
          BY <5>1 DEF IInv, HandedOut
        <5>3. QED
          BY <5>2, ManAssumption DEF IInv, TypeOK, Paragraph
      <4>3. QED
        BY <4>1, <4>2, ManAssumption
    <3>6. QED
      <4>1. Shown \in Nat
        BY DEF IInv, TypeOK, Shown
      <4>2. Shown = THREAD_NUM
        BY <3>4, <3>5, <4>1, ManAssumption
      <4>3. QED
        BY <3>1, <4>2 DEF Shown
  <2>3. ASSUME NEW i \in Paragraph, destroyed # {}
        PROVE  man_pc[i] \notin {"wait", "post", "start"}
    <3>1. Shown = THREAD_NUM
      BY <2>3 DEF IInv
    <3>2. pid[i] # -1
      BY <3>1, NoneLeft
    <3>3. pid[i] \in Paragraph /\ pid[i] < Shown
      BY <3>1, <3>2, ManAssumption DEF IInv, TypeOK, Paragraph
    <3>4. QED
      <4>1. InOrder(i) /\ (pid[i] = -1 <=> man_pc[i] \in {"none", "start"})
        BY DEF IInv, HandedOut
      <4>2. THREAD_NUM \in Nat /\ pid[i] \in Nat
        BY <3>3, ManAssumption DEF Paragraph
      <4>3. man_pc[i] # "start"
        BY <3>2, <4>1
      <4>4. man_pc[i] # "wait" /\ man_pc[i] # "post"
        BY <3>1, <3>3, <4>1, <4>2 DEF InOrder
      <4>5. QED
        BY <4>3, <4>4
  <2>4. QED
    BY <2>1, <2>2, <2>3 DEF ManPageRight
<1>2. QED
  BY <1>1, ManIInv, PTL

-----------------------------------------------------------------------------
(***************************************************************************)
(* The scheduler.                                                          *)
(***************************************************************************)

SchedSpec ==
    /\ \E alg \in Algorithms, q \in Quanta : SchedInit(alg, q)
    /\ [][SchedNext]_schedVars

Distinct(q) == \A i, j \in 1 .. Len(q) : q[i] = q[j] => i = j

Wrappers == [Job -> [wait : Int, arrive : Int, end : Int, tick : Int]]

Where == {"new", "sched", "queued", "served", "done"}

SchedType ==
    /\ a_type \in Algorithms /\ gquantum \in Nat \ {0}
    /\ ready \in Seq(Job) /\ running \in Job \cup {NoJob}
    /\ wrapper \in Wrappers
    /\ sim_time \in Nat /\ phase \in {"arrive", "tick", "cpu", "over"}
    /\ place \in [Job -> Where]
    /\ waited \in [Job -> Nat] /\ stretch \in [Job -> Nat]

(* a thread is in one place: on the CPU, or once in the ready queue, or    *)
(* with the simulator                                                      *)
QueueOK(q, r) ==
    /\ q \in Seq(Job) /\ Distinct(q)
    /\ r \in Job \cup {NoJob}
    /\ \A i \in 1 .. Len(q) : place[q[i]] = "sched" /\ q[i] # r
    /\ r # NoJob => place[r] = "sched"

(* wait says what was waited, with q as the ready queue and n as the time  *)
Sums(q, w, n) ==
    \A t \in Job : place[t] # "new" =>
       w[t].wait + (IF place[t] = "queued" \/ t \in Members(q) THEN n ELSE 0) = waited[t]

SchedInv ==
    /\ SchedType
    /\ QueueOK(ready, running)
    /\ \A t \in Job : place[t] = "new" => waited[t] = 0
    /\ phase # "over" => Sums(ready, wrapper, Now)
    /\ phase = "over" => \A t \in Job : report[t].waiting_time = waited[t]

(* The members of a queue, by position. *)
LEMMA MembersOf ==
    ASSUME NEW q \in Seq(Job)
    PROVE  Members(q) = {q[k] : k \in 1 .. Len(q)} /\ Members(q) \subseteq Job
  BY DEF Members

(* A thread appended to a queue is a member of it. *)
LEMMA MembersAppend ==
    ASSUME NEW q \in Seq(Job), NEW t \in Job
    PROVE  Append(q, t) \in Seq(Job) /\ Members(Append(q, t)) = Members(q) \cup {t}
<1>1. /\ Append(q, t) \in Seq(Job) /\ Len(Append(q, t)) = Len(q) + 1 /\ Len(q) \in Nat
      /\ \A i \in 1 .. Len(q) : Append(q, t)[i] = q[i]
      /\ Append(q, t)[Len(q) + 1] = t
  OBVIOUS
<1>2. \A x : x \in Members(Append(q, t)) <=> \E k \in 1 .. Len(q) + 1 : Append(q, t)[k] = x
  BY <1>1, MembersOf
<1>3. \A x : x \in Members(q) <=> \E k \in 1 .. Len(q) : q[k] = x
  BY MembersOf
<1>4. ASSUME NEW x
      PROVE  x \in Members(Append(q, t)) <=> x \in Members(q) \cup {t}
  <2>1. CASE x = t
    BY <1>1, <1>2, <2>1
  <2>2. CASE x # t
    <3>1. \A k \in 1 .. Len(q) + 1 : Append(q, t)[k] = x => k \in 1 .. Len(q) /\ q[k] = x
      BY <1>1, <2>2
    <3> QED
      BY <1>1, <1>2, <1>3, <2>2, <3>1
  <2> QED
    BY <2>1, <2>2
<1> QED
  BY <1>1, <1>4

(* the head of a queue of distinct threads leaves it *)
LEMMA MembersTail ==
    ASSUME NEW q \in Seq(Job), q # <<>>, Distinct(q)
    PROVE  /\ Head(q) = q[1] /\ Head(q) \in Job /\ Len(q) \in Nat \ {0}
           /\ Tail(q) \in Seq(Job) /\ Distinct(Tail(q)) /\ Len(Tail(q)) = Len(q) - 1
           /\ \A i \in 1 .. Len(Tail(q)) : Tail(q)[i] = q[i + 1] /\ i + 1 \in 1 .. Len(q)
           /\ Members(Tail(q)) = Members(q) \ {Head(q)}
<1>1. /\ Head(q) = q[1] /\ Head(q) \in Job /\ Len(q) \in Nat \ {0}
      /\ Tail(q) \in Seq(Job) /\ Len(Tail(q)) = Len(q) - 1
      /\ \A i \in 1 .. Len(Tail(q)) : Tail(q)[i] = q[i + 1] /\ i + 1 \in 1 .. Len(q)
  OBVIOUS
<1>2. Distinct(Tail(q))
  <2>1. ASSUME NEW i \in 1 .. Len(Tail(q)), NEW j \in 1 .. Len(Tail(q)), Tail(q)[i] = Tail(q)[j]
        PROVE  i = j
    <3>1. q[i + 1] = q[j + 1] /\ i + 1 \in 1 .. Len(q) /\ j + 1 \in 1 .. Len(q)
      BY <1>1, <2>1
    <3>2. i + 1 = j + 1
      BY <3>1 DEF Distinct
    <3> QED
      BY <3>2
  <2> QED
    BY <2>1 DEF Distinct
<1>3. \A x : x \in Members(Tail(q)) <=> \E k \in 1 .. Len(q) - 1 : Tail(q)[k] = x
  <2> DEFINE p == Tail(q)
  <2>1. p \in Seq(Job) /\ Len(p) = Len(q) - 1
    BY <1>1
  <2> HIDE DEF p
  <2>2. \A x : x \in Members(p) <=> \E k \in 1 .. Len(q) - 1 : p[k] = x
    BY <2>1, MembersOf
  <2> QED
    BY <2>2 DEF p
<1>4. \A x : x \in Members(q) <=> \E k \in 1 .. Len(q) : q[k] = x
  BY MembersOf
<1>5. ASSUME NEW x, x \in Members(Tail(q))
      PROVE  x \in Members(q) /\ x # Head(q)
  <2>1. PICK k \in 1 .. Len(q) - 1 : Tail(q)[k] = x
    BY <1>3, <1>5
  <2>2. q[k + 1] = x /\ k + 1 \in 1 .. Len(q) /\ 1 \in 1 .. Len(q) /\ k + 1 # 1
    BY <1>1, <2>1
  <2>3. x # q[1]
    BY <2>2 DEF Distinct
  <2> QED
    BY <1>1, <1>4, <2>2, <2>3
<1>6. ASSUME NEW x, x \in Members(q), x # Head(q)
      PROVE  x \in Members(Tail(q))
  <2>1. PICK k \in 1 .. Len(q) : q[k] = x
    BY <1>4, <1>6
  <2>2. k # 1
    BY <1>1, <1>6, <2>1
  <2>3. k - 1 \in 1 .. Len(q) - 1 /\ Tail(q)[k - 1] = x
    BY <1>1, <2>1, <2>2
  <2> QED
    BY <1>3, <2>3
<1> QED
  BY <1>1, <1>2, <1>5, <1>6

(* Appending a thread that is not in the queue keeps its threads distinct. *)
LEMMA DistinctAppend ==
    ASSUME NEW q \in Seq(Job), Distinct(q), NEW t \in Job, t \notin Members(q)
    PROVE  Distinct(Append(q, t))
<1>1. /\ Len(Append(q, t)) = Len(q) + 1 /\ Len(q) \in Nat
      /\ \A i \in 1 .. Len(q) : Append(q, t)[i] = q[i] /\ q[i] # t
      /\ Append(q, t)[Len(q) + 1] = t
  BY MembersOf
<1> QED
  BY <1>1 DEF Distinct

(* a queue of distinct threads, as a bijection *)
LEMMA DistinctLen ==
    ASSUME NEW q \in Seq(Job), Distinct(q)
    PROVE  /\ IsFiniteSet(Members(q)) /\ Cardinality(Members(q)) = Len(q)
           /\ Len(q) <= Cardinality(Job)
<1>1. Len(q) \in Nat /\ DOMAIN q = 1 .. Len(q) /\ q \in [1 .. Len(q) -> Members(q)]
  BY DEF Members
<1>2. q \in Surjection(1 .. Len(q), Members(q))
  BY <1>1 DEF Surjection, Members
<1>3. q \in Injection(1 .. Len(q), Members(q))
  BY <1>1 DEF Injection, IsInjective, Distinct
<1>4. IsFiniteSet(1 .. Len(q)) /\ Cardinality(1 .. Len(q)) = Len(q)
  BY <1>1, FS_Interval
<1>5. IsFiniteSet(Members(q)) /\ Cardinality(Members(q)) = Len(q)
  BY <1>2, <1>3, <1>4, FS_Surjection
<1>6. Members(q) \in SUBSET Job
  BY MembersOf
<1>7. Cardinality(Members(q)) <= Cardinality(Job)
  BY <1>6, FS_Subset, SchedulerAssumption
<1> QED
  BY <1>5, <1>7

(* queue_sort() keeps the threads of the queue *)
LEMMA Sorted ==
    ASSUME NEW q \in Seq(Job), Distinct(q), NEW s \in Sortings(q)
    PROVE  s \in Seq(Job) /\ Len(s) = Len(q) /\ Distinct(s) /\ Members(s) = Members(q)
<1>1. Len(q) \in Nat /\ DOMAIN q = 1 .. Len(q)
  OBVIOUS
<1>2. s \in [1 .. Len(q) -> Members(q)] /\ Members(s) = Members(q) /\ DOMAIN s = 1 .. Len(q)
  BY <1>1 DEF Sortings
<1>3. Members(q) \subseteq Job
  BY MembersOf
<1>4. s \in Seq(Job) /\ Len(s) = Len(q)
  BY <1>1, <1>2, <1>3
<1>5. s \in Surjection(1 .. Len(q), Members(q))
  BY <1>2 DEF Surjection, Members
<1>6. IsFiniteSet(1 .. Len(q)) /\ Cardinality(1 .. Len(q)) = Cardinality(Members(q))
  BY <1>1, FS_Interval, DistinctLen
<1>7. s \in Injection(1 .. Len(q), Members(q))
  BY <1>5, <1>6, FS_SurjSameCardinalityImpliesInj
<1>8. Distinct(s)
  BY <1>2, <1>4, <1>7 DEF Injection, IsInjective, Distinct
<1> QED
  BY <1>2, <1>4, <1>8

-----------------------------------------------------------------------------
(* what a decision of run_thread() leaves: queue, CPU and sums in order *)
Outcome(q, r, w) == [ready |-> q, running |-> r, wrapper |-> w]

Decided(s) ==
    /\ \E q, r, w : s = Outcome(q, r, w)
    /\ QueueOK(s.ready, s.running)
    /\ s.wrapper \in Wrappers
    /\ Sums(s.ready, s.wrapper, sim_time)

(* AddWait() changes the wait of one thread. *)
LEMMA AddWaitIs ==
    ASSUME NEW w \in Wrappers, NEW t \in Job, NEW n \in Int
    PROVE  /\ AddWait(w, t, n) \in Wrappers
           /\ \A u \in Job : AddWait(w, t, n)[u].wait = IF u = t THEN w[u].wait + n ELSE w[u].wait
  BY DEF AddWait, Wrappers

(* SetTick() changes the tick of one thread, and no wait. *)
LEMMA SetTickIs ==
    ASSUME NEW w \in Wrappers, NEW t \in Job, NEW n \in Int
    PROVE  /\ SetTick(w, t, n) \in Wrappers
           /\ \A u \in Job : SetTick(w, t, n)[u].wait = w[u].wait
           /\ \A u \in Job : SetTick(w, t, n)[u].tick = IF u = t THEN n ELSE w[u].tick
  BY DEF SetTick, Wrappers

(* The tick that SetTick() set. *)
LEMMA SetTickOwn ==
    ASSUME NEW w \in Wrappers, NEW t \in Job, NEW n \in Int
    PROVE  SetTick(w, t, n) \in Wrappers /\ SetTick(w, t, n)[t].tick = n
  BY DEF SetTick, Wrappers

(* Going on with the running thread is a decision that keeps the sums. *)
LEMMA KeepDecided ==
    ASSUME SchedType, NEW q, QueueOK(q, running), Sums(q, wrapper, sim_time)
    PROVE  Decided(Keep(q))
<1> DEFINE s == Keep(q)
<1>1. /\ s = Outcome(q, running, wrapper) /\ wrapper \in Wrappers
      /\ s.ready = q /\ s.running = running /\ s.wrapper = wrapper
  BY DEF Keep, Outcome, SchedType
<1> HIDE DEF s
<1>2. Decided(s)
  BY <1>1 DEF Decided
<1> QED
  BY <1>2 DEF s

(* the head of the queue is dispatched to an idle CPU *)
LEMMA DispatchDecided ==
    ASSUME SchedType, NEW q, QueueOK(q, NoJob), q # <<>>, NEW w \in Wrappers,
           Sums(q, w, sim_time)
    PROVE  Decided(Dispatch(Tail(q), Head(q), w))
<1>1. /\ Head(q) = q[1] /\ Head(q) \in Job /\ Len(q) \in Nat \ {0}
      /\ Tail(q) \in Seq(Job) /\ Distinct(Tail(q)) /\ Len(Tail(q)) = Len(q) - 1
      /\ \A i \in 1 .. Len(Tail(q)) : Tail(q)[i] = q[i + 1] /\ i + 1 \in 1 .. Len(q)
      /\ Members(Tail(q)) = Members(q) \ {Head(q)}
  BY MembersTail DEF QueueOK
<1>2. Head(q) \in Members(q) /\ place[Head(q)] = "sched" /\ Head(q) # NoJob
  BY <1>1, MembersOf, SchedulerAssumption DEF QueueOK
<1>3. \A i \in 1 .. Len(Tail(q)) : place[Tail(q)[i]] = "sched" /\ Tail(q)[i] # Head(q)
  BY <1>1 DEF QueueOK, Distinct
<1>4. QueueOK(Tail(q), Head(q))
  BY <1>1, <1>2, <1>3 DEF QueueOK
<1> DEFINE n == AddWait(w, Head(q), sim_time)
<1>a. sim_time \in Int
  BY DEF SchedType
<1>5. n \in Wrappers /\ \A u \in Job : n[u].wait = IF u = Head(q) THEN w[u].wait + sim_time
                                                    ELSE w[u].wait
  BY <1>1, <1>a, AddWaitIs
<1> HIDE DEF n
<1>6. Sums(Tail(q), n, sim_time)
  <2>1. ASSUME NEW t \in Job, place[t] # "new"
        PROVE  n[t].wait + (IF place[t] = "queued" \/ t \in Members(Tail(q)) THEN sim_time ELSE 0)
                  = waited[t]
    <3>1. w[t].wait + (IF place[t] = "queued" \/ t \in Members(q) THEN sim_time ELSE 0) = waited[t]
      BY <2>1 DEF Sums
    <3>2. w[t].wait \in Int /\ sim_time \in Nat
      BY DEF Wrappers, SchedType
    <3>3. CASE t = Head(q)
      BY <1>1, <1>2, <1>5, <3>1, <3>2, <3>3
    <3>4. CASE t # Head(q)
      BY <1>1, <1>5, <3>1, <3>2, <3>4
    <3> QED
      BY <3>3, <3>4
  <2> QED
    BY <2>1 DEF Sums
<1> QED
  BY <1>4, <1>5, <1>6 DEF Decided, Dispatch, Outcome, n

(* the running thread goes to the end of the queue first *)
LEMMA SwitchDecided ==
    ASSUME SchedType, NEW q, QueueOK(q, running), q # <<>>, running # NoJob, NEW w \in Wrappers,
           Sums(q, w, sim_time)
    PROVE  Decided(Switch(q, w))
<1> DEFINE p == Append(q, running)
           v == AddWait(w, running, 0 - sim_time)
<1>0. running \in Job /\ sim_time \in Nat /\ q \in Seq(Job)
  BY DEF SchedType, QueueOK
<1>1. p \in Seq(Job) /\ Members(p) = Members(q) \cup {running} /\ Len(p) = Len(q) + 1
  BY <1>0, MembersAppend
<1>2. running \notin Members(q)
  BY <1>0, MembersOf DEF QueueOK
<1>3. Distinct(p)
  BY <1>0, <1>2, DistinctAppend DEF QueueOK
<1>4. QueueOK(p, NoJob)
  <2>1. \A i \in 1 .. Len(p) : place[p[i]] = "sched" /\ p[i] # NoJob
    BY <1>0, SchedulerAssumption DEF QueueOK
  <2> QED
    BY <1>1, <1>3, <2>1 DEF QueueOK
<1>5. v \in Wrappers /\ \A u \in Job : v[u].wait = IF u = running THEN w[u].wait + (0 - sim_time)
                                                    ELSE w[u].wait
  <2>1. 0 - sim_time \in Int
    BY <1>0
  <2> QED
    BY <1>0, <2>1, AddWaitIs
<1>6. place[running] = "sched"
  BY DEF QueueOK
<1> HIDE DEF p, v
<1>7. Sums(p, v, sim_time)
  <2>1. ASSUME NEW t \in Job, place[t] # "new"
        PROVE  v[t].wait + (IF place[t] = "queued" \/ t \in Members(p) THEN sim_time ELSE 0)
                  = waited[t]
    <3>1. w[t].wait + (IF place[t] = "queued" \/ t \in Members(q) THEN sim_time ELSE 0) = waited[t]
      BY <2>1 DEF Sums
    <3>2. w[t].wait \in Int
      BY DEF Wrappers
    <3>3. CASE t = running
      BY <1>0, <1>1, <1>2, <1>5, <1>6, <3>1, <3>2, <3>3
    <3>4. CASE t # running
      BY <1>0, <1>1, <1>5, <3>1, <3>2, <3>4
    <3> QED
      BY <3>3, <3>4
  <2> QED
    BY <2>1 DEF Sums
<1>8. Decided(Dispatch(Tail(p), Head(p), v))
  <2>1. p # <<>>
    BY <1>0, <1>1
  <2> QED
    BY <1>4, <1>5, <1>7, <2>1, DispatchDecided
<1>9. Head(p) = Head(q) /\ Tail(p) = Append(Tail(q), running)
  BY <1>0, HeadTailAppend DEF p
<1> QED
  BY <1>8, <1>9 DEF Switch, v

(* So is putting a thread of the ready queue on the CPU. *)
LEMMA RunThreadDecided ==
    ASSUME SchedInv, phase = "tick", ready # <<>>, NEW s \in run_thread
    PROVE  Decided(s)
<1>0. /\ SchedType /\ QueueOK(ready, running) /\ ready \in Seq(Job) /\ Distinct(ready)
      /\ Sums(ready, wrapper, sim_time) /\ wrapper \in Wrappers
  BY DEF SchedInv, SchedType, Now, QueueOK
<1>1. ASSUME NEW q \in Sortings(ready)
      PROVE  QueueOK(q, running) /\ q # <<>> /\ Sums(q, wrapper, sim_time)
  <2>1. q \in Seq(Job) /\ Len(q) = Len(ready) /\ Distinct(q) /\ Members(q) = Members(ready)
    BY <1>0, Sorted
  <2>2. \A i \in 1 .. Len(q) : place[q[i]] = "sched" /\ q[i] # running
    <3>1. ASSUME NEW i \in 1 .. Len(q)
          PROVE  \E j \in 1 .. Len(ready) : q[i] = ready[j]
      BY <1>0, <2>1, MembersOf
    <3> QED
      BY <1>0, <3>1 DEF QueueOK
  <2> QED
    BY <1>0, <2>1, <2>2 DEF QueueOK, Sums
<1>2. Head(ready) \in Job /\ gquantum \in Int
  BY <1>0 DEF SchedType
<1> DEFINE renewed == SetTick(wrapper, Head(ready), gquantum)
<1>a. renewed \in Wrappers /\ \A u \in Job : renewed[u].wait = wrapper[u].wait
  BY <1>0, <1>2, SetTickIs
<1> HIDE DEF renewed
<1>3. renewed \in Wrappers /\ Sums(ready, renewed, sim_time)
  BY <1>0, <1>a DEF Sums
<1>4. \A q : QueueOK(q, running) /\ running = NoJob => QueueOK(q, NoJob)
  OBVIOUS
<1>5. Decided(Keep(ready))
  BY <1>0, KeepDecided
<1>6. CASE a_type = "NON_PREEMPTIVE_PRIORITY"
  <2>1. s \in NonPreemptivePriority
    BY <1>6 DEF run_thread
  <2> QED
    BY <1>0, <1>1, <1>4, <1>5, <2>1, DispatchDecided DEF NonPreemptivePriority
<1>7. CASE a_type = "PREEMPTIVE_PRIORITY"
  <2>1. s \in PreemptivePriority
    BY <1>7 DEF run_thread
  <2>2. CASE running = NoJob
    BY <1>0, <1>1, <1>4, <2>1, <2>2, DispatchDecided DEF PreemptivePriority
  <2>3. CASE running # NoJob
    <3>1. PICK q \in Sortings(ready) : s = IF Priority[Head(q)] < Priority[running]
                                           THEN Switch(q, wrapper) ELSE Keep(q)
      BY <2>1, <2>3 DEF PreemptivePriority
    <3>2. Decided(Switch(q, wrapper)) /\ Decided(Keep(q))
      BY <1>0, <1>1, <2>3, SwitchDecided, KeepDecided
    <3> QED
      BY <3>1, <3>2
  <2> QED
    BY <2>2, <2>3
<1>8. CASE a_type = "FIRST_COME_FIRST_SERVED"
  <2>1. s \in FirstComeFirstServed
    BY <1>8 DEF run_thread
  <2> QED
    BY <1>0, <1>4, <1>5, <2>1, DispatchDecided DEF FirstComeFirstServed
<1>9. CASE a_type = "ROUND_ROBIN"
  <2>1. s \in RoundRobin
    BY <1>9 DEF run_thread
  <2>2. CASE running = NoJob
    <3>1. s = Dispatch(Tail(ready), Head(ready), renewed)
      BY <2>1, <2>2 DEF RoundRobin, renewed
    <3> QED
      BY <1>0, <1>3, <1>4, <2>2, <3>1, DispatchDecided
  <2>3. CASE running # NoJob
    <3>1. s = Switch(ready, renewed) \/ s = Keep(ready)
      BY <2>1, <2>3 DEF RoundRobin, renewed
    <3> QED
      BY <1>0, <1>3, <1>5, <2>3, <3>1, SwitchDecided
  <2> QED
    BY <2>2, <2>3
<1>10. CASE a_type = "other"
  <2>1. s = Keep(ready)
    BY <1>10 DEF run_thread
  <2> QED
    BY <1>5, <2>1
<1> QED
  BY <1>0, <1>6, <1>7, <1>8, <1>9, <1>10 DEF SchedType, Algorithms

-----------------------------------------------------------------------------
(* the part of tick() after run_thread() *)
LEMMA UseTickDecided ==
    ASSUME SchedType, NEW s, Decided(s)
    PROVE  /\ Decided(UseTick(s)) /\ UseTick(s).ready = s.ready /\ UseTick(s).running = s.running
           /\ \A u \in Job : a_type # "ROUND_ROBIN" \/ u # s.running =>
                 UseTick(s).wrapper[u].tick = s.wrapper[u].tick
           /\ a_type = "ROUND_ROBIN" /\ s.running # NoJob =>
                 UseTick(s).wrapper[s.running].tick = s.wrapper[s.running].tick - 1
<1>0. PICK q, r, w : s = Outcome(q, r, w)
  BY DEF Decided
<1>a. /\ s.running = r /\ s.ready = q /\ s.wrapper = w
      /\ QueueOK(q, r) /\ w \in Wrappers /\ Sums(q, w, sim_time)
  BY <1>0 DEF Decided, Outcome
<1>1. CASE a_type = "ROUND_ROBIN" /\ s.running # NoJob
  <2>1. r \in Job
    BY <1>a, <1>1 DEF QueueOK
  <2> DEFINE v == SetTick(w, r, w[r].tick - 1)
  <2>2. UseTick(s) = Outcome(q, r, v)
    BY <1>a, <1>1 DEF UseTick, Outcome
  <2>3. w[r].tick - 1 \in Int
    BY <1>a, <2>1 DEF Wrappers
  <2>4. /\ v \in Wrappers /\ \A u \in Job : v[u].wait = w[u].wait
        /\ \A u \in Job : v[u].tick = IF u = r THEN w[r].tick - 1 ELSE w[u].tick
    BY <1>a, <2>1, <2>3, SetTickIs
  <2> HIDE DEF v
  <2>5. Sums(q, v, sim_time)
    BY <1>a, <2>4 DEF Sums
  <2>7. /\ UseTick(s).ready = q /\ UseTick(s).running = r /\ UseTick(s).wrapper = v
    BY <2>2 DEF Outcome
  <2>6. Decided(UseTick(s))
    BY <1>a, <2>2, <2>4, <2>5, <2>7 DEF Decided
  <2> DEFINE u == UseTick(s)
  <2> HIDE DEF u
  <2>8. u.wrapper[r].tick = s.wrapper[r].tick - 1 /\ u.ready = s.ready /\ u.running = s.running
    BY <1>a, <2>1, <2>4, <2>7 DEF u
  <2>9. \A x \in Job : x # r => u.wrapper[x].tick = s.wrapper[x].tick
    BY <1>a, <2>4, <2>7 DEF u
  <2> QED
    BY <1>a, <1>1, <2>6, <2>8, <2>9 DEF u
<1>2. CASE ~(a_type = "ROUND_ROBIN" /\ s.running # NoJob)
  <2>1. UseTick(s) = s
    BY <1>2 DEF UseTick
  <2> QED
    BY <1>2, <2>1
<1> QED
  BY <1>1, <1>2

(* What tick() does, whatever the policy: it decides, and the tick is      *)
(* counted for those who wait.                                             *)
LEMMA TickDecides ==
    ASSUME SchedInv, tick
    PROVE  \E u : /\ Decided(u)
                  /\ ready' = u.ready /\ running' = u.running /\ wrapper' = u.wrapper
                  /\ waited' = [t \in Job |-> waited[t] +
                        (IF t \in Members(u.ready) \cup {x \in Job : place[x] = "queued"}
                         THEN 1 ELSE 0)]
                  /\ stretch' = [t \in Job |-> IF t \in Members(u.ready)
                                               THEN stretch[t] + 1 ELSE 0]
<1>0. SchedType /\ QueueOK(ready, running) /\ phase = "tick" /\ Sums(ready, wrapper, sim_time)
  BY DEF SchedInv, Now, tick
<1> DEFINE renewed == [ready |-> ready, running |-> running,
                       wrapper |-> SetTick(wrapper, running, gquantum)]
           choices == IF ready # <<>> THEN run_thread
                      ELSE IF running # NoJob /\ wrapper[running].tick <= 0 THEN {renewed}
                      ELSE {Keep(ready)}
<1>1. Decided(Keep(ready))
  BY <1>0, KeepDecided
<1>2. CASE ready = <<>> /\ running # NoJob
  <2>1. running \in Job /\ wrapper \in Wrappers /\ gquantum \in Int
    BY <1>0, <1>2 DEF SchedType
  <2> DEFINE v == SetTick(wrapper, running, gquantum)
  <2>2. v \in Wrappers /\ \A x \in Job : v[x].wait = wrapper[x].wait
    BY <2>1, SetTickIs
  <2>3. renewed = Outcome(ready, running, v)
    BY DEF Outcome
  <2> HIDE DEF v
  <2>4. Sums(ready, v, sim_time)
    BY <1>0, <2>2 DEF Sums
  <2>5. renewed.ready = ready /\ renewed.running = running /\ renewed.wrapper = v
    BY <2>3 DEF Outcome
  <2> HIDE DEF renewed
  <2>6. Decided(renewed)
    BY <1>0, <2>2, <2>3, <2>4, <2>5 DEF Decided
  <2> QED
    <3>1. \A s \in choices : Decided(s)
      BY <1>1, <1>2, <2>6
    <3>2. PICK s \in choices :
              LET u == UseTick(s) IN
              /\ ready' = u.ready /\ running' = u.running /\ wrapper' = u.wrapper
              /\ waited' = [t \in Job |-> waited[t] +
                    (IF t \in Members(u.ready) \cup {x \in Job : place[x] = "queued"}
                     THEN 1 ELSE 0)]
              /\ stretch' = [t \in Job |-> IF t \in Members(u.ready)
                                           THEN stretch[t] + 1 ELSE 0]
      BY DEF tick, renewed
    <3>3. Decided(UseTick(s))
      BY <1>0, <3>1, UseTickDecided
    <3> QED
      BY <3>2, <3>3
<1>3. CASE ~(ready = <<>> /\ running # NoJob)
  <2>1. \A s \in choices : Decided(s)
    BY <1>0, <1>1, <1>3, RunThreadDecided
  <2>2. PICK s \in choices :
              LET u == UseTick(s) IN
              /\ ready' = u.ready /\ running' = u.running /\ wrapper' = u.wrapper
              /\ waited' = [t \in Job |-> waited[t] +
                    (IF t \in Members(u.ready) \cup {x \in Job : place[x] = "queued"}
                     THEN 1 ELSE 0)]
              /\ stretch' = [t \in Job |-> IF t \in Members(u.ready)
                                           THEN stretch[t] + 1 ELSE 0]
    BY DEF tick
  <2>3. Decided(UseTick(s))
    BY <1>0, <2>1, UseTickDecided
  <2> QED
    BY <2>2, <2>3
<1> QED
  BY <1>2, <1>3

(* tick() keeps the invariant. *)
LEMMA TickKeeps ==
    ASSUME SchedInv, tick
    PROVE  SchedInv'
<1>1. PICK u : /\ Decided(u)
               /\ ready' = u.ready /\ running' = u.running /\ wrapper' = u.wrapper
               /\ waited' = [t \in Job |-> waited[t] +
                     (IF t \in Members(u.ready) \cup {x \in Job : place[x] = "queued"}
                      THEN 1 ELSE 0)]
               /\ stretch' = [t \in Job |-> IF t \in Members(u.ready)
                                            THEN stretch[t] + 1 ELSE 0]
  BY TickDecides
<1>2. /\ QueueOK(ready', running') /\ wrapper' \in Wrappers
      /\ Sums(ready', wrapper', sim_time)
  BY <1>1 DEF Decided
<1>3. /\ phase' = "cpu" /\ sim_time' = sim_time /\ place' = place /\ Now' = sim_time + 1
      /\ a_type' = a_type /\ gquantum' = gquantum
  BY DEF tick, Now
<1>4. SchedType /\ sim_time \in Nat
  BY DEF SchedInv, SchedType
<1>5. waited' \in [Job -> Nat] /\ stretch' \in [Job -> Nat]
  BY <1>1, <1>4 DEF SchedType
<1>6. SchedType'
  BY <1>2, <1>3, <1>4, <1>5 DEF SchedType, QueueOK
<1>7. QueueOK(ready, running)'
  BY <1>2, <1>3 DEF QueueOK
<1>8. \A t \in Job : place'[t] = "new" => waited'[t] = 0
  <2>1. ASSUME NEW t \in Job, place[t] = "new"
        PROVE  waited'[t] = 0
    <3>1. t \notin Members(ready')
      BY <1>2, <2>1, MembersOf DEF QueueOK
    <3> QED
      BY <1>1, <2>1, <3>1 DEF SchedInv
  <2> QED
    BY <1>3, <2>1
<1>9. Sums(ready, wrapper, Now)'
  <2>1. ASSUME NEW t \in Job, place[t] # "new"
        PROVE  wrapper'[t].wait + (IF place[t] = "queued" \/ t \in Members(ready')
                                   THEN sim_time + 1 ELSE 0) = waited'[t]
    <3>1. wrapper'[t].wait + (IF place[t] = "queued" \/ t \in Members(ready')
                              THEN sim_time ELSE 0) = waited[t]
      BY <1>2, <2>1 DEF Sums
    <3>2. wrapper'[t].wait \in Int /\ waited[t] \in Nat
      BY <1>2, <1>4 DEF Wrappers, SchedType
    <3>3. waited'[t] = waited[t] + (IF place[t] = "queued" \/ t \in Members(ready') THEN 1 ELSE 0)
      BY <1>1
    <3> QED
      BY <1>4, <3>1, <3>2, <3>3
  <2> QED
    BY <1>3, <2>1 DEF Sums
<1>10. phase' # "over"
  BY <1>3
<1> QED
  BY <1>6, <1>7, <1>8, <1>9, <1>10 DEF SchedInv, Sums

(* a thread that joins the end of the queue *)
LEMMA QueueGrows ==
    ASSUME QueueOK(ready, running), NEW t \in Job, place[t] # "sched",
           ready' = Append(ready, t), running' = running,
           place' = [place EXCEPT ![t] = "sched"], place \in [Job -> Where]
    PROVE  QueueOK(ready, running)' /\ Members(ready') = Members(ready) \cup {t}
           /\ t \notin Members(ready)
<1>0. t # running
  BY SchedulerAssumption DEF QueueOK
<1>1. ready \in Seq(Job) /\ Distinct(ready) /\ t \notin Members(ready) /\ t # running
  BY <1>0, MembersOf DEF QueueOK
<1>2. /\ Append(ready, t) \in Seq(Job) /\ Members(Append(ready, t)) = Members(ready) \cup {t}
      /\ Distinct(Append(ready, t))
  BY <1>1, MembersAppend, DistinctAppend
<1>3. \A i \in 1 .. Len(ready') : place'[ready'[i]] = "sched" /\ ready'[i] # running
  <2>1. ASSUME NEW i \in 1 .. Len(ready')
        PROVE  ready'[i] = t \/ \E j \in 1 .. Len(ready) : ready'[i] = ready[j]
    BY <1>1
  <2>2. \A j \in 1 .. Len(ready) : ready[j] \in Job /\ place[ready[j]] = "sched" /\ ready[j] # running
    BY <1>1 DEF QueueOK
  <2> QED
    BY <1>1, <2>1, <2>2
<1>4. Distinct(ready)'
  BY <1>2 DEF Distinct
<1> QED
  BY <1>1, <1>2, <1>3, <1>4 DEF QueueOK

(* a thread that leaves the scheduler *)
LEMMA QueueStays ==
    ASSUME QueueOK(ready, running), NEW t \in Job, place \in [Job -> Where],
           ready' = ready, NEW p \in Where,
           \/ place[t] # "sched" /\ running' = running
           \/ t = running /\ running' = NoJob,
           place' = [place EXCEPT ![t] = p]
    PROVE  QueueOK(ready, running)'
<1>1. ready \in Seq(Job) /\ Distinct(ready) /\ t \notin Members(ready)
  BY MembersOf DEF QueueOK
<1>2. \A i \in 1 .. Len(ready) : ready[i] \in Job /\ ready[i] # t /\ place[ready[i]] = "sched"
                                 /\ ready[i] # running
  BY <1>1, MembersOf DEF QueueOK
<1>3. \A i \in 1 .. Len(ready) : place'[ready[i]] = "sched" /\ ready[i] # running'
  BY <1>2, SchedulerAssumption
<1>4. running' # NoJob => place'[running'] = "sched"
  BY DEF QueueOK
<1> QED
  BY <1>1, <1>3, <1>4, SchedulerAssumption DEF QueueOK, Distinct


(* what the steps other than tick() leave alone *)
LEMMA ExecKeeps ==
    ASSUME SchedInv, NEW t \in Job, sys_exec(t)
    PROVE  SchedInv'
<1>0. /\ SchedType /\ QueueOK(ready, running) /\ sim_time \in Nat /\ phase = "arrive"
      /\ Sums(ready, wrapper, sim_time) /\ wrapper \in Wrappers /\ place \in [Job -> Where]
      /\ place[t] = "new" /\ waited[t] = 0 /\ gquantum \in Int
  BY DEF SchedInv, SchedType, Now, sys_exec
<1>1. /\ QueueOK(ready, running)' /\ Members(ready') = Members(ready) \cup {t}
      /\ t \notin Members(ready)
  BY <1>0, QueueGrows DEF sys_exec
<1>2. wrapper' \in Wrappers
  BY <1>0 DEF sys_exec, Wrappers
<1>3. SchedType'
  BY <1>0, <1>1, <1>2 DEF SchedType, QueueOK, Where, sys_exec
<1>4. \A x \in Job : place'[x] = "new" => waited'[x] = 0
  BY <1>0 DEF SchedInv, sys_exec
<1>5. Now' = sim_time /\ phase' = "arrive"
  BY <1>0 DEF Now, sys_exec
<1>6. Sums(ready, wrapper, Now)'
  <2>1. ASSUME NEW x \in Job, place'[x] # "new"
        PROVE  wrapper'[x].wait + (IF place'[x] = "queued" \/ x \in Members(ready')
                                   THEN sim_time ELSE 0) = waited'[x]
    <3>1. CASE x = t
      BY <1>0, <1>1, <3>1 DEF Wrappers, sys_exec
    <3>2. CASE x # t
      <4>1. /\ place'[x] = place[x] /\ waited'[x] = waited[x] /\ wrapper'[x] = wrapper[x]
            /\ x \in Members(ready') <=> x \in Members(ready)
        BY <1>0, <1>1, <3>2 DEF Wrappers, sys_exec
      <4> QED
        BY <1>0, <2>1, <4>1 DEF Sums
    <3> QED
      BY <3>1, <3>2
  <2> QED
    BY <1>5, <2>1 DEF Sums
<1> QED
  BY <1>1, <1>3, <1>4, <1>5, <1>6 DEF SchedInv

(* A thread whose IO request was queued and starts has waited until now. *)
LEMMA StartingKeeps ==
    ASSUME SchedInv, NEW t \in Job, io_starting(t)
    PROVE  SchedInv'
<1>0. /\ SchedType /\ QueueOK(ready, running) /\ sim_time \in Nat /\ phase = "arrive"
      /\ Sums(ready, wrapper, sim_time) /\ wrapper \in Wrappers /\ place \in [Job -> Where]
      /\ place[t] = "queued" /\ t \notin Members(ready)
  BY MembersOf DEF SchedInv, SchedType, Now, QueueOK, io_starting
<1>1. QueueOK(ready, running)' /\ ready' = ready
  BY <1>0, QueueStays DEF Where, io_starting
<1>2. /\ wrapper' \in Wrappers
      /\ \A u \in Job : wrapper'[u].wait = IF u = t THEN wrapper[u].wait + sim_time
                                            ELSE wrapper[u].wait
  BY <1>0, AddWaitIs DEF io_starting
<1>3. SchedType'
  BY <1>0, <1>1, <1>2 DEF SchedType, QueueOK, Where, io_starting
<1>4. \A x \in Job : place'[x] = "new" => waited'[x] = 0
  BY <1>0 DEF SchedInv, io_starting
<1>5. Now' = sim_time /\ phase' = "arrive"
  BY <1>0 DEF Now, io_starting
<1>6. Sums(ready, wrapper, Now)'
  <2>1. ASSUME NEW x \in Job, place'[x] # "new"
        PROVE  wrapper'[x].wait + (IF place'[x] = "queued" \/ x \in Members(ready)
                                   THEN sim_time ELSE 0) = waited'[x]
    <3>1. /\ place[x] # "new" /\ waited'[x] = waited[x] /\ wrapper[x].wait \in Int
          /\ place'[x] = IF x = t THEN "served" ELSE place[x]
      BY <1>0, <2>1 DEF Wrappers, io_starting
    <3>2. wrapper[x].wait + (IF place[x] = "queued" \/ x \in Members(ready)
                             THEN sim_time ELSE 0) = waited[x]
      BY <1>0, <3>1 DEF Sums
    <3> QED
      BY <1>0, <1>2, <3>1, <3>2
  <2> QED
    BY <1>1, <1>5, <2>1 DEF Sums
<1> QED
  BY <1>1, <1>3, <1>4, <1>5, <1>6 DEF SchedInv

(* sys_exit(): the running thread leaves the scheduler. *)
LEMMA ExitKeeps ==
    ASSUME SchedInv, sys_exit
    PROVE  SchedInv'
<1>0. /\ SchedType /\ QueueOK(ready, running) /\ sim_time \in Nat /\ phase = "cpu"
      /\ Sums(ready, wrapper, sim_time + 1) /\ wrapper \in Wrappers /\ place \in [Job -> Where]
      /\ running \in Job /\ place[running] = "sched" /\ running \notin Members(ready)
  BY MembersOf DEF SchedInv, SchedType, Now, QueueOK, sys_exit
<1>1. QueueOK(ready, running)' /\ ready' = ready
  BY <1>0, QueueStays DEF Where, sys_exit
<1>2. /\ wrapper' \in Wrappers
      /\ \A u \in Job : wrapper'[u].wait = wrapper[u].wait
  BY <1>0 DEF sys_exit, Wrappers
<1>3. SchedType'
  BY <1>0, <1>1, <1>2 DEF SchedType, QueueOK, Where, sys_exit
<1>4. \A x \in Job : place'[x] = "new" => waited'[x] = 0
  BY <1>0 DEF SchedInv, sys_exit
<1>5. Now' = sim_time + 1 /\ phase' = "cpu"
  BY <1>0 DEF Now, sys_exit
<1>6. Sums(ready, wrapper, Now)'
  <2>1. ASSUME NEW x \in Job, place'[x] # "new"
        PROVE  wrapper'[x].wait + (IF place'[x] = "queued" \/ x \in Members(ready)
                                   THEN sim_time + 1 ELSE 0) = waited'[x]
    <3>1. /\ place[x] # "new" /\ waited'[x] = waited[x]
          /\ place'[x] = IF x = running THEN "done" ELSE place[x]
      BY <1>0, <2>1 DEF sys_exit
    <3>2. wrapper[x].wait + (IF place[x] = "queued" \/ x \in Members(ready)
                             THEN sim_time + 1 ELSE 0) = waited[x]
      BY <1>0, <3>1 DEF Sums
    <3>3. (place'[x] = "queued" \/ x \in Members(ready)) <=> (place[x] = "queued" \/ x \in Members(ready))
      BY <1>0, <3>1
    <3> QED
      BY <1>2, <3>1, <3>2, <3>3
  <2> QED
    BY <1>1, <1>5, <2>1 DEF Sums
<1> QED
  BY <1>1, <1>3, <1>4, <1>5, <1>6 DEF SchedInv

(* sys_read(): it queues for the device, and begins to wait. *)
LEMMA ReadKeeps ==
    ASSUME SchedInv, sys_read
    PROVE  SchedInv'
<1>0. /\ SchedType /\ QueueOK(ready, running) /\ sim_time \in Nat /\ phase = "cpu"
      /\ Sums(ready, wrapper, sim_time + 1) /\ wrapper \in Wrappers /\ place \in [Job -> Where]
      /\ running \in Job /\ 0 - (sim_time + 1) \in Int
  BY DEF SchedInv, SchedType, Now, sys_read
<1>a. place[running] = "sched" /\ running \notin Members(ready)
  <2>1. running # NoJob
    BY <1>0, SchedulerAssumption
  <2>2. /\ place[running] = "sched" /\ ready \in Seq(Job)
        /\ \A i \in 1 .. Len(ready) : ready[i] # running
    BY <1>0, <2>1 DEF QueueOK
  <2>3. Members(ready) = {ready[k] : k \in 1 .. Len(ready)}
    BY <2>2, MembersOf
  <2> QED
    BY <2>2, <2>3
<1>1. QueueOK(ready, running)' /\ ready' = ready
  BY <1>0, <1>a, QueueStays DEF Where, sys_read
<1>2. /\ wrapper' \in Wrappers
      /\ \A u \in Job : wrapper'[u].wait = IF u = running THEN wrapper[u].wait + (0 - (sim_time + 1))
                                            ELSE wrapper[u].wait
  BY <1>0, <1>a, AddWaitIs DEF sys_read
<1>3. SchedType'
  BY <1>0, <1>a, <1>1, <1>2 DEF SchedType, QueueOK, Where, sys_read
<1>4. \A x \in Job : place'[x] = "new" => waited'[x] = 0
  BY <1>0 DEF SchedInv, sys_read
<1>5. Now' = sim_time + 1 /\ phase' = "cpu"
  BY <1>0 DEF Now, sys_read
<1>6. Sums(ready, wrapper, Now)'
  <2>1. ASSUME NEW x \in Job, place'[x] # "new"
        PROVE  wrapper'[x].wait + (IF place'[x] = "queued" \/ x \in Members(ready)
                                   THEN sim_time + 1 ELSE 0) = waited'[x]
    <3>1. /\ place[x] # "new" /\ waited'[x] = waited[x] /\ wrapper[x].wait \in Int
          /\ place'[x] = IF x = running THEN "queued" ELSE place[x]
      BY <1>0, <1>a, <2>1 DEF sys_read, Wrappers
    <3>2. wrapper[x].wait + (IF place[x] = "queued" \/ x \in Members(ready)
                             THEN sim_time + 1 ELSE 0) = waited[x]
      BY <1>0, <1>a, <3>1 DEF Sums
    <3> QED
      BY <1>0, <1>a, <1>2, <3>1, <3>2
  <2> QED
    BY <1>1, <1>5, <2>1 DEF Sums
<1> QED
  BY <1>1, <1>3, <1>4, <1>5, <1>6 DEF SchedInv

(* io_complete(): a thread comes back to the ready queue, and begins to    *)
(* wait.                                                                   *)
LEMMA CompleteKeeps ==
    ASSUME SchedInv, NEW t \in Job, io_complete(t)
    PROVE  SchedInv'
<1>0. /\ SchedType /\ QueueOK(ready, running) /\ sim_time \in Nat /\ phase = "cpu"
      /\ Sums(ready, wrapper, sim_time + 1) /\ wrapper \in Wrappers /\ place \in [Job -> Where]
      /\ place[t] = "served" /\ 0 - (sim_time + 1) \in Int
  BY DEF SchedInv, SchedType, Now, io_complete
<1>1. /\ QueueOK(ready, running)' /\ Members(ready') = Members(ready) \cup {t}
      /\ t \notin Members(ready)
  BY <1>0, QueueGrows DEF io_complete
<1>2. /\ wrapper' \in Wrappers
      /\ \A u \in Job : wrapper'[u].wait = IF u = t THEN wrapper[u].wait + (0 - (sim_time + 1))
                                            ELSE wrapper[u].wait
  BY <1>0, AddWaitIs DEF io_complete
<1>3. SchedType'
  BY <1>0, <1>1, <1>2 DEF SchedType, QueueOK, Where, io_complete
<1>4. \A x \in Job : place'[x] = "new" => waited'[x] = 0
  BY <1>0 DEF SchedInv, io_complete
<1>5. Now' = sim_time + 1 /\ phase' = "cpu"
  BY <1>0 DEF Now, io_complete
<1>6. Sums(ready, wrapper, Now)'
  <2>1. ASSUME NEW x \in Job, place'[x] # "new"
        PROVE  wrapper'[x].wait + (IF place'[x] = "queued" \/ x \in Members(ready')
                                   THEN sim_time + 1 ELSE 0) = waited'[x]
    <3>1. /\ place[x] # "new" /\ waited'[x] = waited[x] /\ wrapper[x].wait \in Int
          /\ place'[x] = IF x = t THEN "sched" ELSE place[x]
      BY <1>0, <2>1 DEF io_complete, Wrappers
    <3>2. wrapper[x].wait + (IF place[x] = "queued" \/ x \in Members(ready)
                             THEN sim_time + 1 ELSE 0) = waited[x]
      BY <1>0, <3>1 DEF Sums
    <3> QED
      BY <1>0, <1>1, <1>2, <3>1, <3>2
  <2> QED
    BY <1>5, <2>1 DEF Sums
<1> QED
  BY <1>1, <1>3, <1>4, <1>5, <1>6 DEF SchedInv

(* The simulator goes on to its next phase; nobody's wait changes. *)
LEMMA AdvanceKeeps ==
    ASSUME SchedInv, Advance
    PROVE  SchedInv'
<1>1. /\ Now' = Now /\ phase \in {"arrive", "cpu"} /\ phase' \in {"tick", "arrive"}
      /\ sim_time' \in Nat
  BY DEF SchedInv, SchedType, Advance, Now
<1>2. SchedType' /\ QueueOK(ready, running)'
  BY <1>1 DEF SchedInv, SchedType, QueueOK, Distinct, Advance
<1>3. Sums(ready, wrapper, Now)'
  BY <1>1 DEF SchedInv, Sums, Members, Advance
<1>4. \A x \in Job : place'[x] = "new" => waited'[x] = 0
  BY DEF SchedInv, Advance
<1> QED
  BY <1>1, <1>2, <1>3, <1>4 DEF SchedInv

(* stats() reports what was waited. *)
LEMMA StatsKeeps ==
    ASSUME SchedInv, stats
    PROVE  SchedInv'
<1>1. SchedType' /\ QueueOK(ready, running)'
  BY DEF SchedInv, SchedType, QueueOK, Distinct, stats
<1>2. \A x \in Job : place'[x] = "new" => waited'[x] = 0
  BY DEF SchedInv, stats
<1>3. ASSUME NEW t \in Job
      PROVE  report'[t].waiting_time = waited'[t]
  <2>1. place[t] = "done" /\ t \notin Members(ready)
    BY MembersOf DEF SchedInv, QueueOK, stats
  <2>2. wrapper[t].wait + (IF place[t] = "queued" \/ t \in Members(ready) THEN Now ELSE 0)
          = waited[t] /\ wrapper[t].wait \in Int
    BY <2>1 DEF SchedInv, SchedType, Sums, Wrappers, stats
  <2>3. wrapper[t].wait = waited[t]
    BY <2>1, <2>2
  <2> QED
    BY <2>3 DEF stats
<1>4. phase' = "over"
  BY DEF stats
<1> QED
  BY <1>1, <1>2, <1>3, <1>4 DEF SchedInv

(* The invariant holds initially. *)
LEMMA SchedStart ==
    ASSUME NEW a \in Algorithms, NEW q \in Quanta, SchedInit(a, q)
    PROVE  SchedInv
<1>1. SchedType
  BY SchedulerAssumption DEF SchedInit, SchedType, Wrappers, Where
<1>2. QueueOK(ready, running)
  BY <1>1 DEF SchedInit, QueueOK, Distinct, SchedType
<1>3. Sums(ready, wrapper, Now) /\ phase # "over"
  BY DEF SchedInit, Sums
<1>4. \A t \in Job : place[t] = "new" => waited[t] = 0
  BY DEF SchedInit
<1> QED
  BY <1>1, <1>2, <1>3, <1>4 DEF SchedInv

(* Every step of the simulation keeps it. *)
LEMMA SchedStep ==
    ASSUME SchedInv, [SchedNext]_schedVars
    PROVE  SchedInv'
<1>1. CASE UNCHANGED schedVars
  <2>1. SchedType' /\ QueueOK(ready, running)'
    BY <1>1 DEF schedVars, SchedInv, SchedType, QueueOK, Distinct
  <2>2. Sums(ready, wrapper, Now) => Sums(ready, wrapper, Now)'
    BY <1>1 DEF schedVars, Sums, Members, Now
  <2> QED
    BY <1>1, <2>1, <2>2 DEF schedVars, SchedInv
<1>2. CASE SchedNext
  BY <1>2, ExecKeeps, StartingKeeps, CompleteKeeps, TickKeeps, ExitKeeps, ReadKeeps,
     AdvanceKeeps, StatsKeeps DEF SchedNext
<1> QED
  BY <1>1, <1>2

(* scheduler.c: the waiting time that stats() reports of a thread, kept by *)
(* subtracting and adding the clock at each queue it enters and leaves, is *)
(* the number of ticks it has waited, for every policy and any threads.    *)
THEOREM SchedWaitExact == SchedSpec => []WaitExact
<1>1. (\E alg \in Algorithms, q \in Quanta : SchedInit(alg, q)) => SchedInv
  BY SchedStart
<1>2. SchedInv /\ [SchedNext]_schedVars => SchedInv'
  BY SchedStep
<1>3. SchedInv => WaitExact
  BY DEF SchedInv, WaitExact, Waits, Sums
<1> QED
  BY <1>1, <1>2, <1>3, PTL DEF SchedSpec

-----------------------------------------------------------------------------
(* the order of the natural numbers, as a relation *)
LessNat == OpToRel(<, Nat)

(* What the relation LessNat holds. *)
LEMMA LessNatIs ==
    ASSUME NEW m \in Nat, NEW n \in Nat, m < n
    PROVE  <<m, n>> \in LessNat
<1>1. /\ <<m, n>> \in Nat \X Nat
      /\ <<m, n>>[1] = m /\ <<m, n>>[2] = n
  OBVIOUS
<1>2. <<m, n>>[1] < <<m, n>>[2]
  BY <1>1
<1> QED
  BY <1>1, <1>2, Zenon DEF LessNat, OpToRel

(* A set of natural numbers has a least element. *)
LEMMA LeastNat ==
    ASSUME NEW S, S \subseteq Nat, S # {}
    PROVE  \E m \in S : \A n \in S : m <= n
<1>1. IsWellFoundedOn(LessNat, Nat)
  BY NatLessThanWellFounded, Zenon DEF LessNat
<1>2. PICK m \in S : \A n \in S : ~(<<n, m>> \in LessNat)
  BY <1>1, WFMin
<1>3. ASSUME NEW n \in S
      PROVE  m <= n
  <2>1. ~(n < m)
    BY <1>2, LessNatIs
  <2> QED
    BY <2>1
<1> QED
  BY <1>3

(* The front of a sorted queue has the highest priority. *)
LEMMA HeadLeast ==
    ASSUME NEW q \in Seq(Job), q # <<>>,
           \A k \in 2 .. Len(q) : Priority[q[k - 1]] <= Priority[q[k]]
    PROVE  \A k \in 1 .. Len(q) : Priority[q[1]] <= Priority[q[k]]
<1> DEFINE S == {k \in 1 .. Len(q) : ~(Priority[q[1]] <= Priority[q[k]])}
<1>1. /\ Len(q) \in Nat \ {0} /\ \A k \in 1 .. Len(q) : q[k] \in Job
  OBVIOUS
<1>2. \A k \in 1 .. Len(q) : Priority[q[k]] \in Nat
  BY <1>1, SchedulerAssumption
<1>3. SUFFICES ASSUME S # {} PROVE FALSE
  OBVIOUS
<1>4. S \subseteq Nat
  BY <1>1
<1>5. PICK m \in S : \A n \in S : m <= n
  <2> HIDE DEF S
  <2> QED
    BY <1>3, <1>4, LeastNat
<1>6. m \in 1 .. Len(q) /\ m # 1 /\ Priority[q[m]] < Priority[q[1]]
  BY <1>1, <1>2, <1>5
<1>7. m - 1 \in 1 .. Len(q) /\ m \in 2 .. Len(q)
  BY <1>1, <1>6
<1>8. m - 1 \notin S
  BY <1>5, <1>7
<1>9. Priority[q[1]] <= Priority[q[m - 1]]
  BY <1>7, <1>8
<1>10. Priority[q[m - 1]] <= Priority[q[m]]
  BY <1>7
<1> QED
  BY <1>1, <1>2, <1>6, <1>7, <1>9, <1>10

(* the thread that goes before every waiting one *)
First(t, q) == \A u \in Members(q) : Priority[t] <= Priority[u]

(* The front of a queue that queue_sort() left goes before every other. *)
LEMMA SortedFirst ==
    ASSUME NEW p \in Seq(Job), Distinct(p), p # <<>>, NEW q \in Sortings(p)
    PROVE  First(Head(q), q) /\ First(Head(q), Tail(q)) /\ q # <<>> /\ q \in Seq(Job) /\ Distinct(q)
<1>1. q \in Seq(Job) /\ Len(q) = Len(p) /\ Distinct(q) /\ q # <<>>
  BY Sorted
<1>2. \A k \in 2 .. Len(q) : Priority[q[k - 1]] <= Priority[q[k]]
  BY <1>1 DEF Sortings
<1>3. \A k \in 1 .. Len(q) : Priority[q[1]] <= Priority[q[k]]
  BY <1>1, <1>2, HeadLeast
<1>4. Head(q) = q[1] /\ Members(Tail(q)) = Members(q) \ {Head(q)}
  BY <1>1, MembersTail
<1>5. \A u \in Members(q) : \E k \in 1 .. Len(q) : u = q[k]
  BY <1>1, MembersOf
<1> QED
  BY <1>1, <1>3, <1>4, <1>5 DEF First

(* what ByPolicy says of the priority algorithms and of FIRST_COME_FIRST_SERVED *)
PolicyOK(q, r) ==
    /\ ready # <<>> => r # NoJob
    /\ a_type \in {"FIRST_COME_FIRST_SERVED", "NON_PREEMPTIVE_PRIORITY"} =>
          (running # NoJob => r = running)
    /\ a_type = "PREEMPTIVE_PRIORITY" => First(r, q)
    /\ a_type = "NON_PREEMPTIVE_PRIORITY" /\ running = NoJob => First(r, q)

(* run_thread() decides by the policy. *)
LEMMA RunThreadPolicy ==
    ASSUME SchedInv, ready # <<>>, a_type # "other", NEW s \in run_thread
    PROVE  PolicyOK(s.ready, s.running)
<1>0. /\ ready \in Seq(Job) /\ Distinct(ready) /\ a_type \in Algorithms /\ NoJob \notin Job
      /\ running \in Job \cup {NoJob} /\ Priority \in [Job -> Nat]
  BY SchedulerAssumption DEF SchedInv, SchedType, QueueOK
<1>1. \A q \in Sortings(ready) :
         /\ First(Head(q), q) /\ First(Head(q), Tail(q)) /\ q # <<>>
         /\ q \in Seq(Job) /\ Distinct(q) /\ Head(q) \in Job
  <2>1. ASSUME NEW q \in Sortings(ready)
        PROVE  First(Head(q), q) /\ First(Head(q), Tail(q)) /\ q # <<>> /\ q \in Seq(Job)
               /\ Distinct(q)
    BY <1>0, SortedFirst
  <2>2. \A q \in Seq(Job) : q # <<>> => Head(q) \in Job
    OBVIOUS
  <2> QED
    BY <2>1, <2>2
<1>2. Head(ready) \in Job
  BY <1>0
<1>3. CASE a_type = "NON_PREEMPTIVE_PRIORITY"
  <2>1. s \in NonPreemptivePriority
    BY <1>3 DEF run_thread
  <2>2. CASE running = NoJob
    <3>1. PICK q \in Sortings(ready) : s = Dispatch(Tail(q), Head(q), wrapper)
      BY <2>1, <2>2 DEF NonPreemptivePriority
    <3>2. s.ready = Tail(q) /\ s.running = Head(q)
      BY <3>1 DEF Dispatch
    <3>3. First(Head(q), Tail(q)) /\ Head(q) # NoJob
      BY <1>0, <1>1
    <3> QED
      BY <1>3, <2>2, <3>2, <3>3 DEF PolicyOK
  <2>3. CASE running # NoJob
    <3>1. s.running = running
      BY <2>1, <2>3 DEF NonPreemptivePriority, Keep
    <3> QED
      BY <1>3, <2>3, <3>1 DEF PolicyOK
  <2> QED
    BY <2>2, <2>3
<1>4. CASE a_type = "PREEMPTIVE_PRIORITY"
  <2>1. s \in PreemptivePriority
    BY <1>4 DEF run_thread
  <2>2. CASE running = NoJob
    <3>1. PICK q \in Sortings(ready) : s = Dispatch(Tail(q), Head(q), wrapper)
      BY <2>1, <2>2 DEF PreemptivePriority
    <3>2. s.ready = Tail(q) /\ s.running = Head(q)
      BY <3>1 DEF Dispatch
    <3>3. First(Head(q), Tail(q)) /\ Head(q) # NoJob
      BY <1>0, <1>1
    <3> QED
      BY <1>4, <2>2, <3>2, <3>3 DEF PolicyOK
  <2>3. CASE running # NoJob
    <3>1. PICK q \in Sortings(ready) : s = IF Priority[Head(q)] < Priority[running]
                                           THEN Switch(q, wrapper) ELSE Keep(q)
      BY <2>1, <2>3 DEF PreemptivePriority
    <3>2. /\ First(Head(q), q) /\ First(Head(q), Tail(q)) /\ Head(q) # NoJob /\ Head(q) \in Job
          /\ q \in Seq(Job) /\ q # <<>> /\ Distinct(q)
      BY <1>0, <1>1
    <3>3. CASE Priority[Head(q)] < Priority[running]
      <4>1. s.ready = Append(Tail(q), running) /\ s.running = Head(q)
        BY <3>1, <3>3 DEF Switch, Dispatch
      <4> DEFINE z == Tail(q)
      <4>2. z \in Seq(Job)
        BY <3>2
      <4>3. First(Head(q), z)
        BY <3>2
      <4> HIDE DEF z
      <4>4. Members(Append(z, running)) = Members(z) \cup {running}
        BY <1>0, <2>3, <4>2, MembersAppend
      <4>5. Priority[Head(q)] <= Priority[running]
        BY <1>0, <2>3, <3>2, <3>3
      <4>6. First(Head(q), Append(z, running))
        BY <4>3, <4>4, <4>5 DEF First
      <4> QED
        BY <1>4, <2>3, <3>2, <4>1, <4>6 DEF PolicyOK, z
    <3>4. CASE ~(Priority[Head(q)] < Priority[running])
      <4>1. s.ready = q /\ s.running = running
        BY <3>1, <3>4 DEF Keep
      <4>2. Priority[running] <= Priority[Head(q)] /\ Priority[running] \in Nat
            /\ Priority[Head(q)] \in Nat
        BY <1>0, <2>3, <3>2, <3>4
      <4>3. \A u \in Members(q) : Priority[u] \in Nat /\ Priority[Head(q)] <= Priority[u]
        BY <1>0, <3>2, MembersOf DEF First
      <4>4. First(running, q)
        BY <4>2, <4>3 DEF First
      <4> QED
        BY <1>4, <2>3, <4>1, <4>4 DEF PolicyOK
    <3> QED
      BY <3>3, <3>4
  <2> QED
    BY <2>2, <2>3
<1>5. CASE a_type = "FIRST_COME_FIRST_SERVED"
  <2>1. s \in FirstComeFirstServed
    BY <1>5 DEF run_thread
  <2>2. s.running # NoJob /\ (running # NoJob => s.running = running)
    BY <1>0, <1>2, <2>1 DEF FirstComeFirstServed, Keep, Dispatch
  <2> QED
    BY <1>5, <2>2 DEF PolicyOK
<1>6. CASE a_type = "ROUND_ROBIN"
  <2>1. s \in RoundRobin
    BY <1>6 DEF run_thread
  <2> DEFINE renewed == SetTick(wrapper, Head(ready), gquantum)
  <2>2. \/ running = NoJob /\ s = Dispatch(Tail(ready), Head(ready), renewed)
        \/ running # NoJob /\ (s = Switch(ready, renewed) \/ s = Keep(ready))
    BY <2>1 DEF RoundRobin
  <2> HIDE DEF renewed
  <2>3. s.running = Head(ready) \/ (running # NoJob /\ s.running = running)
    BY <2>2 DEF Dispatch, Switch, Keep
  <2> QED
    BY <1>0, <1>2, <1>6, <2>3 DEF PolicyOK
<1> QED
  BY <1>0, <1>3, <1>4, <1>5, <1>6 DEF Algorithms


-----------------------------------------------------------------------------
(* what is left of the running thread's quantum *)
Left(r, w) == IF r = NoJob THEN 0 ELSE w[r].tick

(* the turns before the thread at place i of the queue, and what it waited *)
Turns(i) == gquantum * (i - 1)

Bound(q, r, w, st) ==
    /\ r # NoJob => w[r].tick \in 0 .. gquantum
    /\ \A i \in 1 .. Len(q) : st[q[i]] + Turns(i) + Left(r, w) <= Turns(Cardinality(Job))

(* round robin: a thread that waits has waited, and will still wait, no    *)
(* longer than a quantum for each of the others                            *)
RoundInv ==
    a_type = "ROUND_ROBIN" =>
       /\ Bound(ready, running, wrapper, stretch)
       /\ \A t \in Job : t \notin Members(ready) => stretch[t] = 0

(* One turn more is one quantum more, and turns are natural numbers. *)
LEMMA TurnsAre ==
    ASSUME gquantum \in Nat
    PROVE  /\ \A i \in Nat \ {0} : Turns(i) \in Nat /\ Turns(i + 1) = Turns(i) + gquantum
           /\ \A i, j \in Nat \ {0} : i <= j => Turns(i) <= Turns(j)
<1>1. ASSUME NEW i \in Nat \ {0}
      PROVE  Turns(i) \in Nat /\ Turns(i + 1) = Turns(i) + gquantum
  BY <1>1 DEF Turns
<1>2. ASSUME NEW i \in Nat \ {0}, NEW j \in Nat \ {0}, i <= j
      PROVE  Turns(i) <= Turns(j)
  <2>1. j - i \in Nat /\ gquantum * (j - i) \in Nat
    BY <1>2
  <2>2. gquantum * (j - 1) = gquantum * (i - 1) + gquantum * (j - i)
    BY <1>2
  <2>3. gquantum * (i - 1) \in Int
    BY <1>2
  <2> QED
    BY <2>1, <2>2, <2>3 DEF Turns
<1> QED
  BY <1>1, <1>2

(* The queue holds at most every thread but the one that runs. *)
LEMMA QueueLen ==
    ASSUME NEW q, NEW r, QueueOK(q, r)
    PROVE  /\ Len(q) \in Nat /\ Cardinality(Job) \in Nat /\ Len(q) <= Cardinality(Job)
           /\ r # NoJob => Len(q) + 1 <= Cardinality(Job)
<1>1. /\ Len(q) \in Nat /\ Cardinality(Job) \in Nat /\ Len(q) <= Cardinality(Job)
      /\ q \in Seq(Job) /\ Distinct(q) /\ r \in Job \cup {NoJob}
  BY DistinctLen, FS_CardinalityType, SchedulerAssumption DEF QueueOK
<1>2. CASE r # NoJob
  <2>1. r \in Job /\ r \notin Members(q)
    BY <1>1, <1>2, MembersOf DEF QueueOK
  <2> DEFINE p == Append(q, r)
  <2>2. p \in Seq(Job) /\ Distinct(p) /\ Len(p) = Len(q) + 1
    BY <1>1, <2>1, DistinctAppend, MembersAppend
  <2> HIDE DEF p
  <2>3. Len(p) <= Cardinality(Job)
    BY <2>2, DistinctLen
  <2> QED
    BY <1>1, <2>2, <2>3
<1> QED
  BY <1>1, <1>2

(* A thread that joins the queue has all its turns to come. *)
LEMMA BoundAppend ==
    ASSUME gquantum \in Nat, NEW q, NEW r, QueueOK(q, r), NEW w, NEW st, Bound(q, r, w, st),
           NEW t \in Job, t \notin Members(q), t # r, st[t] = 0
    PROVE  Bound(Append(q, t), r, w, st)
<1>1. /\ Len(q) \in Nat /\ Cardinality(Job) \in Nat /\ q \in Seq(Job)
      /\ Len(q) <= Cardinality(Job)
  BY QueueLen DEF QueueOK
<1> DEFINE p == Append(q, t)
<1>2. /\ p \in Seq(Job) /\ Len(p) = Len(q) + 1 /\ p[Len(q) + 1] = t
      /\ \A i \in 1 .. Len(q) : p[i] = q[i]
  BY <1>1
<1>3. Distinct(p)
  BY <1>1, DistinctAppend DEF QueueOK
<1> HIDE DEF p
<1>4. Len(p) <= Cardinality(Job) /\ Cardinality(Job) # 0
  BY <1>1, <1>2, <1>3, DistinctLen
<1>5. Turns(Len(q) + 1) + Left(r, w) <= Turns(Cardinality(Job))
  <2>1. CASE r = NoJob
    <3>1. Turns(Len(q) + 1) <= Turns(Cardinality(Job)) /\ Turns(Len(q) + 1) \in Nat
      BY <1>1, <1>2, <1>4, TurnsAre
    <3> QED
      BY <2>1, <3>1 DEF Left
  <2>2. CASE r # NoJob
    <3>1. r \in Job /\ r \notin Members(q)
      BY <1>1, <2>2, MembersOf DEF QueueOK
    <3> DEFINE z == Append(p, r)
    <3>2. r \notin Members(p)
      BY <1>1, <3>1, MembersAppend DEF p
    <3>3. z \in Seq(Job) /\ Distinct(z) /\ Len(z) = Len(q) + 2
      BY <1>2, <1>3, <3>1, <3>2, DistinctAppend
    <3> HIDE DEF z
    <3>4. Len(z) <= Cardinality(Job)
      BY <3>3, DistinctLen
    <3>5. /\ Turns(Len(q) + 2) <= Turns(Cardinality(Job)) /\ Turns(Len(q) + 1) \in Nat
          /\ Turns(Len(q) + 2) \in Nat /\ Turns(Cardinality(Job)) \in Nat
      <4>1. /\ Len(q) + 1 \in Nat \ {0} /\ Len(q) + 2 \in Nat \ {0}
            /\ Cardinality(Job) \in Nat \ {0} /\ Len(q) + 2 <= Cardinality(Job)
        BY <1>1, <1>4, <3>3, <3>4
      <4> QED
        BY <4>1, TurnsAre
    <3>6. Turns(Len(q) + 2) = Turns(Len(q) + 1) + gquantum
      <4>1. Len(q) + 1 \in Nat \ {0} /\ (Len(q) + 1) + 1 = Len(q) + 2
        BY <1>1
      <4>2. Turns((Len(q) + 1) + 1) = Turns(Len(q) + 1) + gquantum
        BY <4>1, TurnsAre
      <4> QED
        BY <4>1, <4>2
    <3>7. Left(r, w) \in 0 .. gquantum
      BY <2>2 DEF Left, Bound
    <3> QED
      BY <3>5, <3>6, <3>7
  <2> QED
    BY <2>1, <2>2
<1>6. Turns(Len(q) + 1) \in Nat
  <2>1. Len(q) + 1 \in Nat \ {0}
    BY <1>1
  <2> QED
    BY <2>1, TurnsAre
<1>7. st[t] + Turns(Len(q) + 1) + Left(r, w) = Turns(Len(q) + 1) + Left(r, w)
  <2>1. Left(r, w) \in Int
    BY DEF Left, Bound
  <2> QED
    BY <1>6, <2>1
<1>8. ASSUME NEW i \in 1 .. Len(p)
      PROVE  st[p[i]] + Turns(i) + Left(r, w) <= Turns(Cardinality(Job))
  <2>1. CASE i = Len(q) + 1
    BY <1>2, <1>5, <1>7, <2>1
  <2>2. CASE i # Len(q) + 1
    <3>1. i \in 1 .. Len(q)
      BY <1>1, <1>2, <2>2
    <3> QED
      BY <1>2, <3>1 DEF Bound
  <2> QED
    BY <2>1, <2>2
<1> QED
  BY <1>8 DEF Bound, p

(* The front of the queue gets the CPU with a whole quantum. *)
LEMMA BoundDispatch ==
    ASSUME gquantum \in Nat, NEW q \in Seq(Job), q # <<>>, Distinct(q), IsFiniteSet(Job),
           NEW w, NEW v, NEW st \in [Job -> Nat],
           \A i \in 1 .. Len(q) : st[q[i]] + Turns(i) <= Turns(Cardinality(Job)),
           v[Head(q)].tick = gquantum
    PROVE  Bound(Tail(q), Head(q), v, st)
<1>1. /\ Head(q) = q[1] /\ Len(q) \in Nat \ {0} /\ Head(q) \in Job
      /\ Tail(q) \in Seq(Job) /\ Len(Tail(q)) = Len(q) - 1
      /\ \A i \in 1 .. Len(Tail(q)) : Tail(q)[i] = q[i + 1] /\ i + 1 \in 1 .. Len(q)
  BY MembersTail
<1>2. Head(q) # NoJob
  BY <1>1, SchedulerAssumption
<1>3. ASSUME NEW i \in 1 .. Len(Tail(q))
      PROVE  st[Tail(q)[i]] + Turns(i) + gquantum <= Turns(Cardinality(Job))
  <2>1. i \in Nat \ {0} /\ i + 1 \in 1 .. Len(q) /\ Tail(q)[i] = q[i + 1]
    BY <1>1
  <2>2. Turns(i + 1) = Turns(i) + gquantum /\ Turns(i) \in Nat
    BY <2>1, TurnsAre
  <2>3. st[q[i + 1]] + Turns(i + 1) <= Turns(Cardinality(Job))
    BY <2>1
  <2>4. st[q[i + 1]] \in Nat
    BY <2>1
  <2> QED
    BY <2>1, <2>2, <2>3, <2>4
<1> QED
  BY <1>2, <1>3 DEF Bound, Left

(* run_thread() under ROUND_ROBIN keeps the bound, and who runs has at     *)
(* least one tick of its quantum left.                                     *)
LEMMA RoundRobinBound ==
    ASSUME SchedInv, RoundInv, a_type = "ROUND_ROBIN", phase = "tick", ready # <<>>,
           NEW s \in run_thread
    PROVE  /\ Bound(s.ready, s.running, s.wrapper, stretch) /\ s.running # NoJob
           /\ s.wrapper[s.running].tick # 0
<1>0. /\ ready \in Seq(Job) /\ Distinct(ready) /\ NoJob \notin Job /\ IsFiniteSet(Job)
      /\ running \in Job \cup {NoJob} /\ gquantum \in Nat \ {0} /\ QueueOK(ready, running)
      /\ wrapper \in Wrappers /\ stretch \in [Job -> Nat] /\ sim_time \in Nat
      /\ Bound(ready, running, wrapper, stretch)
  BY SchedulerAssumption DEF SchedInv, SchedType, QueueOK, RoundInv
<1>a. Head(ready) \in Job /\ gquantum \in Int /\ gquantum \in Nat
  BY <1>0
<1> DEFINE renewed == SetTick(wrapper, Head(ready), gquantum)
           d == AddWait(renewed, Head(ready), sim_time)
<1>1. renewed \in Wrappers /\ renewed[Head(ready)].tick = gquantum
  <2>1. ASSUME NEW h \in Job
        PROVE  SetTick(wrapper, h, gquantum) \in Wrappers
               /\ SetTick(wrapper, h, gquantum)[h].tick = gquantum
    BY <1>0, <1>a, SetTickOwn
  <2> QED
    BY <1>a, <2>1
<1>2. s \in RoundRobin
  BY DEF run_thread
<1>3. \/ running = NoJob /\ s = Dispatch(Tail(ready), Head(ready), renewed)
      \/ running # NoJob /\ wrapper[running].tick <= 0 /\ s = Switch(ready, renewed)
      \/ running # NoJob /\ ~(wrapper[running].tick <= 0) /\ s = Keep(ready)
  BY <1>2 DEF RoundRobin
<1> HIDE DEF renewed
<1>4. \A w \in Wrappers, n \in Int : \A t, u \in Job : AddWait(w, t, n)[u].tick = w[u].tick
  BY DEF AddWait, Wrappers
<1>5. CASE running = NoJob
  <2>1. s.ready = Tail(ready) /\ s.running = Head(ready) /\ s.wrapper = d
    BY <1>3, <1>5 DEF Dispatch
  <2>2. d[Head(ready)].tick = gquantum
    BY <1>0, <1>1, <1>4, <1>a
  <2> HIDE DEF d
  <2>3. \A i \in 1 .. Len(ready) : stretch[ready[i]] + Turns(i) <= Turns(Cardinality(Job))
    <3>1. ASSUME NEW i \in 1 .. Len(ready)
          PROVE  stretch[ready[i]] + Turns(i) <= Turns(Cardinality(Job))
      <4>1. stretch[ready[i]] + Turns(i) + 0 <= Turns(Cardinality(Job))
        BY <1>0, <1>5 DEF Bound, Left
      <4>2. stretch[ready[i]] \in Nat /\ Turns(i) \in Nat
        <5>1. i \in Nat \ {0} /\ ready[i] \in Job
          BY <1>0
        <5> QED
          BY <1>0, <1>a, <5>1, TurnsAre
      <4> QED
        BY <4>1, <4>2
    <3> QED
      BY <3>1
  <2>4. Bound(Tail(ready), Head(ready), d, stretch)
    BY <1>0, <1>a, <2>2, <2>3, BoundDispatch
  <2> QED
    BY <1>0, <1>a, <2>1, <2>2, <2>4
<1>6. CASE running # NoJob /\ wrapper[running].tick <= 0
  <2> DEFINE p == Append(ready, running)
             v == AddWait(AddWait(renewed, running, 0 - sim_time), Head(ready), sim_time)
  <2>0. running \in Job /\ running \notin Members(ready) /\ 0 - sim_time \in Int /\ sim_time \in Int
    BY <1>0, <1>6, MembersOf DEF QueueOK
  <2>1. /\ s.ready = Append(Tail(ready), running) /\ s.running = Head(ready) /\ s.wrapper = v
    BY <1>3, <1>6 DEF Switch, Dispatch
  <2>2. Head(p) = Head(ready) /\ Tail(p) = Append(Tail(ready), running)
    BY <1>0, <2>0, HeadTailAppend
  <2>3. v[Head(ready)].tick = gquantum
    <3> DEFINE x == AddWait(renewed, running, 0 - sim_time)
    <3>1. x \in Wrappers
      BY <1>1, <2>0, AddWaitIs
    <3>2. x[Head(ready)].tick = renewed[Head(ready)].tick
      BY <1>1, <1>4, <1>a, <2>0
    <3> HIDE DEF x
    <3>3. AddWait(x, Head(ready), sim_time)[Head(ready)].tick = x[Head(ready)].tick
      BY <1>4, <1>a, <2>0, <3>1
    <3> QED
      BY <1>1, <3>2, <3>3 DEF x
  <2> HIDE DEF v
  <2>4. p \in Seq(Job) /\ p # <<>> /\ Len(p) = Len(ready) + 1 /\ Distinct(p)
    BY <1>0, <2>0, DistinctAppend
  <2>5. /\ wrapper[running].tick = 0 /\ Left(NoJob, wrapper) = 0 /\ Left(running, wrapper) = 0
        /\ stretch[running] = 0
    BY <1>0, <1>6, <2>0 DEF Bound, Left, RoundInv
  <2>6. Bound(ready, NoJob, wrapper, stretch) /\ QueueOK(ready, NoJob)
    <3>1. Bound(ready, NoJob, wrapper, stretch)
      BY <1>0, <2>5 DEF Bound
    <3>2. \A i \in 1 .. Len(ready) : ready[i] # NoJob
      BY <1>0
    <3> QED
      BY <1>0, <3>1, <3>2 DEF QueueOK
  <2>7. Bound(p, NoJob, wrapper, stretch)
    BY <1>a, <2>0, <2>5, <2>6, <1>6, BoundAppend
  <2> HIDE DEF p
  <2>8. \A i \in 1 .. Len(p) : stretch[p[i]] + Turns(i) <= Turns(Cardinality(Job))
    <3>1. ASSUME NEW i \in 1 .. Len(p)
          PROVE  stretch[p[i]] + Turns(i) <= Turns(Cardinality(Job))
      <4>1. stretch[p[i]] + Turns(i) + 0 <= Turns(Cardinality(Job))
        BY <2>5, <2>7 DEF Bound
      <4>2. stretch[p[i]] \in Nat /\ Turns(i) \in Nat
        <5>1. i \in Nat \ {0} /\ p[i] \in Job
          BY <2>4
        <5> QED
          BY <1>0, <1>a, <5>1, TurnsAre
      <4> QED
        BY <4>1, <4>2
    <3> QED
      BY <3>1
  <2>9. Bound(Tail(p), Head(p), v, stretch)
    BY <1>0, <1>a, <2>2, <2>3, <2>4, <2>8, BoundDispatch
  <2> QED
    BY <1>0, <1>a, <2>1, <2>2, <2>3, <2>9
<1>7. CASE running # NoJob /\ ~(wrapper[running].tick <= 0)
  <2>1. s.ready = ready /\ s.running = running /\ s.wrapper = wrapper
    BY <1>3, <1>7 DEF Keep
  <2>2. wrapper[running].tick \in 0 .. gquantum
    BY <1>0, <1>7 DEF Bound
  <2> QED
    BY <1>0, <1>7, <2>1, <2>2
<1> QED
  BY <1>5, <1>6, <1>7


(* what the rest of tick() does to the quantum and to the waiting times *)
LEMMA TickRound ==
    ASSUME SchedInv, RoundInv, tick
    PROVE  RoundInv' /\ (a_type # "other" => PolicyOK(ready', running'))
<1>0. /\ SchedType /\ QueueOK(ready, running) /\ phase = "tick" /\ Sums(ready, wrapper, sim_time)
      /\ a_type' = a_type /\ gquantum' = gquantum
  BY DEF SchedInv, Now, tick
<1> DEFINE renewed == [ready |-> ready, running |-> running,
                       wrapper |-> SetTick(wrapper, running, gquantum)]
           choices == IF ready # <<>> THEN run_thread
                      ELSE IF running # NoJob /\ wrapper[running].tick <= 0 THEN {renewed}
                      ELSE {Keep(ready)}
<1>1. PICK s \in choices :
          /\ ready' = UseTick(s).ready /\ running' = UseTick(s).running
          /\ wrapper' = UseTick(s).wrapper
          /\ stretch' = [t \in Job |-> IF t \in Members(UseTick(s).ready)
                                       THEN stretch[t] + 1 ELSE 0]
  BY DEF tick
<1>2. UseTick(s).ready = s.ready /\ UseTick(s).running = s.running
  BY DEF UseTick
<1>3. ready' = s.ready /\ running' = s.running
  BY <1>1, <1>2
<1>4. \/ ready # <<>> /\ s \in run_thread
      \/ ready = <<>> /\ s = renewed /\ running # NoJob /\ wrapper[running].tick <= 0
      \/ ready = <<>> /\ s = Keep(ready) /\ ~(running # NoJob /\ wrapper[running].tick <= 0)
  BY <1>1
<1> HIDE DEF choices, renewed
<1>5. a_type # "other" => PolicyOK(ready', running')
  <2>1. CASE ready # <<>>
    BY <1>3, <1>4, <2>1, RunThreadPolicy
  <2>2. CASE ready = <<>>
    <3>1. s.ready = ready /\ s.running = running
      BY <1>4, <2>2 DEF Keep, renewed
    <3>2. Members(<<>>) = {}
      BY DEF Members
    <3> QED
      BY <1>3, <2>2, <3>1, <3>2 DEF PolicyOK, First
  <2> QED
    BY <2>1, <2>2
<1>6. SchedInv'
  BY TickKeeps
<1>7. \A t \in Job : t \notin Members(ready') => stretch'[t] = 0
  BY <1>1
<1>8. CASE a_type = "ROUND_ROBIN"
  <2>0. /\ wrapper \in Wrappers /\ gquantum \in Nat \ {0} /\ gquantum \in Int
        /\ stretch \in [Job -> Nat] /\ ready \in Seq(Job) /\ running \in Job \cup {NoJob}
        /\ Bound(ready, running, wrapper, stretch) /\ NoJob \notin Job
    BY <1>0, <1>8, SchedulerAssumption DEF SchedType, RoundInv
  <2>1. /\ Bound(s.ready, s.running, s.wrapper, stretch)
        /\ s.running # NoJob => s.wrapper[s.running].tick # 0
        /\ s.running = NoJob => s.ready = <<>>
        /\ s.wrapper \in Wrappers /\ s.running \in Job \cup {NoJob} /\ s.ready \in Seq(Job)
    <3>1. CASE ready # <<>>
      <4>1. Decided(s)
        BY <1>0, <1>4, <3>1, RunThreadDecided
      <4>2. s.wrapper \in Wrappers /\ s.running \in Job \cup {NoJob} /\ s.ready \in Seq(Job)
        BY <4>1 DEF Decided, QueueOK
      <4> QED
        BY <1>0, <1>4, <1>8, <3>1, <4>2, RoundRobinBound
    <3>2. CASE ready = <<>> /\ s = renewed /\ running # NoJob
      <4>1. /\ s.ready = ready /\ s.running = running
            /\ s.wrapper = SetTick(wrapper, running, gquantum)
        BY <3>2 DEF renewed
      <4>2. /\ SetTick(wrapper, running, gquantum) \in Wrappers
            /\ SetTick(wrapper, running, gquantum)[running].tick = gquantum
        <5>1. ASSUME NEW h \in Job
              PROVE  SetTick(wrapper, h, gquantum) \in Wrappers
                     /\ SetTick(wrapper, h, gquantum)[h].tick = gquantum
          BY <2>0, SetTickOwn
        <5> QED
          BY <2>0, <3>2, <5>1
      <4>3. \A i \in 1 .. Len(ready) : FALSE
        BY <3>2
      <4> QED
        BY <2>0, <3>2, <4>1, <4>2, <4>3 DEF Bound
    <3>3. CASE ready = <<>> /\ s = Keep(ready) /\ ~(running # NoJob /\ wrapper[running].tick <= 0)
      <4>1. s.ready = ready /\ s.running = running /\ s.wrapper = wrapper
        BY <3>3 DEF Keep
      <4>2. running # NoJob => wrapper[running].tick # 0
        <5>1. running # NoJob => wrapper[running].tick \in Int
          BY <2>0 DEF Wrappers
        <5> QED
          BY <3>3, <5>1
      <4> QED
        BY <2>0, <3>3, <4>1, <4>2
    <3> QED
      BY <1>4, <3>1, <3>2, <3>3
  <2> DEFINE q == s.ready
             r == s.running
             w == s.wrapper
             v == UseTick(s).wrapper
  <2>2. CASE r = NoJob
    <3>1. q = <<>> /\ Len(q) = 0
      BY <2>1, <2>2
    <3>2. Bound(ready, running, wrapper, stretch)'
      BY <1>3, <2>2, <3>1 DEF Bound
    <3> QED
      BY <1>5, <1>7, <3>2 DEF RoundInv
  <2>3. CASE r # NoJob
    <3>1. r \in Job /\ w \in Wrappers /\ w[r].tick \in 1 .. gquantum
      BY <2>0, <2>1, <2>3 DEF Bound
    <3>2. v = SetTick(w, r, w[r].tick - 1)
      BY <1>8, <2>3 DEF UseTick
    <3>3. v[r].tick = w[r].tick - 1
      <4>1. w[r].tick - 1 \in Int
        BY <3>1
      <4> QED
        BY <3>1, <3>2, <4>1, SetTickIs
    <3> HIDE DEF v
    <3>4. v[r].tick \in 0 .. gquantum /\ Left(r, v) = Left(r, w) - 1 /\ Left(r, w) \in Int
      BY <2>0, <2>3, <3>1, <3>3 DEF Left
    <3>5. \A i \in 1 .. Len(q) : stretch[q[i]] + Turns(i) + Left(r, w) <= Turns(Cardinality(Job))
      BY <2>1 DEF Bound
    <3> HIDE DEF q, r, w
    <3>6. ASSUME NEW i \in 1 .. Len(q)
          PROVE  stretch'[q[i]] + Turns(i) + Left(r, v) <= Turns(Cardinality(Job))
      <4>1. q[i] \in Job /\ q[i] \in Members(q) /\ i \in Nat \ {0}
        BY <2>1, MembersOf DEF q
      <4>2. stretch'[q[i]] = stretch[q[i]] + 1 /\ stretch[q[i]] \in Nat
        BY <1>1, <1>2, <2>0, <4>1 DEF q
      <4>3. Turns(i) \in Nat
        BY <2>0, <4>1, TurnsAre
      <4>4. stretch[q[i]] + Turns(i) + Left(r, w) <= Turns(Cardinality(Job))
        BY <3>5
      <4> QED
        BY <3>4, <4>2, <4>3, <4>4
    <3>7. ready' = q /\ running' = r /\ wrapper' = v
      BY <1>1, <1>3 DEF q, r, v
    <3>8. \A i : Turns(i)' = Turns(i)
      BY <1>0 DEF Turns
    <3>9. Left(running, wrapper)' = Left(r, v)
      BY <3>7 DEF Left
    <3>10. Bound(ready, running, wrapper, stretch)'
      BY <1>0, <3>4, <3>6, <3>7, <3>8, <3>9 DEF Bound
    <3> QED
      BY <1>5, <1>7, <3>10 DEF RoundInv
  <2> QED
    BY <2>2, <2>3
<1>9. CASE a_type # "ROUND_ROBIN"
  BY <1>0, <1>5, <1>9 DEF RoundInv
<1> QED
  BY <1>5, <1>8, <1>9


(* A thread that enters the queue from outside keeps the bound. *)
LEMMA JoinsRound ==
    ASSUME SchedInv, RoundInv, NEW t \in Job, place[t] # "sched",
           a_type' = a_type, gquantum' = gquantum, stretch' = stretch, running' = running,
           ready' = Append(ready, t),
           a_type = "ROUND_ROBIN" /\ running # NoJob =>
              wrapper'[running].tick = wrapper[running].tick
    PROVE  RoundInv'
<1>1. CASE a_type = "ROUND_ROBIN"
  <2>1. /\ ready \in Seq(Job) /\ gquantum \in Nat /\ QueueOK(ready, running)
        /\ Bound(ready, running, wrapper, stretch)
        /\ \A x \in Job : x \notin Members(ready) => stretch[x] = 0
    BY <1>1 DEF SchedInv, SchedType, RoundInv
  <2>2. t # running
    BY <2>1, SchedulerAssumption DEF QueueOK
  <2>3. t \notin Members(ready)
    BY <2>1, MembersOf DEF QueueOK
  <2>4. Bound(Append(ready, t), running, wrapper, stretch)
    BY <2>1, <2>2, <2>3, BoundAppend
  <2>5. Left(running, wrapper') = Left(running, wrapper)
    BY <1>1 DEF Left
  <2>6. \A i : Turns(i)' = Turns(i)
    BY DEF Turns
  <2>7. Left(running, wrapper)' = Left(running, wrapper)
    BY <2>5 DEF Left
  <2>8. Bound(ready, running, wrapper, stretch)'
    BY <1>1, <2>4, <2>6, <2>7 DEF Bound
  <2>9. \A x \in Job : x \in Members(ready) => x \in Members(ready')
    <3>1. Members(Append(ready, t)) = Members(ready) \cup {t}
      BY <2>1, MembersAppend
    <3> QED
      BY <3>1
  <2> QED
    BY <2>1, <2>8, <2>9 DEF RoundInv
<1> QED
  BY <1>1 DEF RoundInv

(* A thread that leaves the CPU leaves the others no longer to wait. *)
LEMMA LeavesRound ==
    ASSUME SchedInv, RoundInv,
           a_type' = a_type, gquantum' = gquantum, stretch' = stretch, ready' = ready,
           running' = NoJob
    PROVE  RoundInv'
<1>1. CASE a_type = "ROUND_ROBIN"
  <2>1. /\ ready \in Seq(Job) /\ gquantum \in Nat /\ stretch \in [Job -> Nat]
        /\ Bound(ready, running, wrapper, stretch) /\ Cardinality(Job) \in Nat
        /\ Len(ready) <= Cardinality(Job) /\ Len(ready) \in Nat
        /\ \A x \in Job : x \notin Members(ready) => stretch[x] = 0
    BY <1>1, QueueLen DEF SchedInv, SchedType, RoundInv
  <2>2. Left(running, wrapper) \in Nat
    BY <2>1 DEF Bound, Left
  <2>3. ASSUME NEW i \in 1 .. Len(ready)
        PROVE  stretch[ready[i]] + Turns(i) + 0 <= Turns(Cardinality(Job))
    <3>1. stretch[ready[i]] + Turns(i) + Left(running, wrapper) <= Turns(Cardinality(Job))
      BY <2>1 DEF Bound
    <3>2. i \in Nat \ {0} /\ Cardinality(Job) \in Nat \ {0} /\ ready[i] \in Job
      BY <2>1
    <3>3. Turns(i) \in Nat /\ Turns(Cardinality(Job)) \in Nat /\ stretch[ready[i]] \in Nat
      BY <2>1, <3>2, TurnsAre
    <3> QED
      BY <2>2, <3>1, <3>3
  <2>6. \A i : Turns(i)' = Turns(i)
    BY DEF Turns
  <2>7. Left(running, wrapper)' = 0
    BY DEF Left
  <2>8. Bound(ready, running, wrapper, stretch)'
    BY <1>1, <2>3, <2>6, <2>7 DEF Bound
  <2> QED
    BY <2>1, <2>8 DEF RoundInv
<1> QED
  BY <1>1 DEF RoundInv

(* Nothing the bound speaks of changes. *)
LEMMA SameRound ==
    ASSUME RoundInv,
           a_type' = a_type, gquantum' = gquantum, stretch' = stretch, ready' = ready,
           running' = running,
           a_type = "ROUND_ROBIN" /\ running # NoJob =>
              wrapper'[running].tick = wrapper[running].tick
    PROVE  RoundInv'
<1>1. \A i : Turns(i)' = Turns(i)
  BY DEF Turns
<1>2. a_type = "ROUND_ROBIN" => Left(running, wrapper)' = Left(running, wrapper)
  BY DEF Left
<1> QED
  BY <1>1, <1>2 DEF RoundInv, Bound

(* Every step keeps the bound. *)
LEMMA RoundStep ==
    ASSUME SchedInv, RoundInv, [SchedNext]_schedVars
    PROVE  RoundInv'
<1>0. /\ SchedType /\ wrapper \in Wrappers /\ sim_time \in Int /\ 0 - (sim_time + 1) \in Int
      /\ QueueOK(ready, running) /\ running \in Job \cup {NoJob}
  BY DEF SchedInv, SchedType
<1>a. ASSUME NEW t \in Job, NEW n \in Int, NEW u \in Job
      PROVE  AddWait(wrapper, t, n)[u].tick = wrapper[u].tick
  BY <1>0 DEF AddWait, Wrappers
<1>b. running # NoJob => running \in Job /\ place[running] = "sched"
  BY <1>0 DEF QueueOK
<1>1. CASE UNCHANGED schedVars
  BY <1>1, SameRound DEF schedVars
<1>2. ASSUME NEW t \in Job, sys_exec(t)
      PROVE  RoundInv'
  <2>1. place[t] # "sched"
    BY <1>2 DEF sys_exec
  <2>2. running # NoJob => wrapper'[running] = wrapper[running]
    BY <1>0, <1>2, <1>b, <2>1 DEF sys_exec, Wrappers
  <2> QED
    BY <1>2, <2>1, <2>2, JoinsRound DEF sys_exec
<1>3. ASSUME NEW t \in Job, io_starting(t)
      PROVE  RoundInv'
  <2>1. running # NoJob => wrapper'[running].tick = wrapper[running].tick
    BY <1>0, <1>3, <1>a, <1>b DEF io_starting
  <2> QED
    BY <1>3, <2>1, SameRound DEF io_starting
<1>4. ASSUME NEW t \in Job, io_complete(t)
      PROVE  RoundInv'
  <2>1. place[t] # "sched"
    BY <1>4 DEF io_complete
  <2>2. running # NoJob => wrapper'[running].tick = wrapper[running].tick
    BY <1>0, <1>4, <1>a, <1>b DEF io_complete
  <2> QED
    BY <1>4, <2>1, <2>2, JoinsRound DEF io_complete
<1>5. CASE tick
  BY <1>5, TickRound
<1>6. CASE sys_exit
  BY <1>6, LeavesRound DEF sys_exit
<1>7. CASE sys_read
  BY <1>7, LeavesRound DEF sys_read
<1>8. CASE Advance
  BY <1>8, SameRound DEF Advance
<1>9. CASE stats
  BY <1>9, SameRound DEF stats
<1> QED
  BY <1>1, <1>2, <1>3, <1>4, <1>5, <1>6, <1>7, <1>8, <1>9 DEF SchedNext

(* what the bound says of the threads that wait *)
RoundBound ==
    a_type = "ROUND_ROBIN" =>
       \A t \in Job : stretch[t] <= gquantum * (Cardinality(Job) - 1)

(* Under the bound nobody has waited longer than a quantum for each of the *)
(* other threads.                                                          *)
LEMMA BoundImplies ==
    ASSUME SchedInv, RoundInv, a_type = "ROUND_ROBIN", NEW t \in Job
    PROVE  stretch[t] <= gquantum * (Cardinality(Job) - 1)
<1>1. /\ ready \in Seq(Job) /\ gquantum \in Nat /\ stretch \in [Job -> Nat]
      /\ Bound(ready, running, wrapper, stretch) /\ Cardinality(Job) \in Nat
      /\ \A x \in Job : x \notin Members(ready) => stretch[x] = 0
  BY FS_CardinalityType, SchedulerAssumption DEF SchedInv, SchedType, RoundInv
<1>2. Left(running, wrapper) \in Nat
  BY <1>1 DEF Bound, Left
<1>3. Cardinality(Job) # 0
  BY FS_EmptySet, SchedulerAssumption
<1>4. Turns(Cardinality(Job)) \in Nat
  BY <1>1, <1>3, TurnsAre
<1>5. CASE t \in Members(ready)
  <2>1. PICK i \in 1 .. Len(ready) : ready[i] = t
    BY <1>1, <1>5, MembersOf
  <2>2. stretch[t] + Turns(i) + Left(running, wrapper) <= Turns(Cardinality(Job))
    BY <1>1, <2>1 DEF Bound
  <2>3. i \in Nat \ {0}
    BY <1>1
  <2>4. Turns(i) \in Nat /\ stretch[t] \in Nat
    BY <1>1, <2>3, TurnsAre
  <2>5. stretch[t] <= Turns(Cardinality(Job))
    BY <1>2, <1>4, <2>2, <2>4
  <2> QED
    BY <2>5 DEF Turns
<1>6. CASE t \notin Members(ready)
  BY <1>1, <1>4, <1>6 DEF Turns
<1> QED
  BY <1>5, <1>6

(* the policies whose queue is in the order in which threads joined it *)
Queueing == {"FIRST_COME_FIRST_SERVED", "ROUND_ROBIN"}

(* nobody in the queue has been ready for longer than those before it *)
InTurn(q, st) == \A i, j \in 1 .. Len(q) : i < j => st[q[j]] <= st[q[i]]

TurnInv ==
    a_type \in Queueing =>
       /\ InTurn(ready, stretch)
       /\ \A t \in Job : t \notin Members(ready) => stretch[t] = 0

(* A thread that joins the queue has not waited yet. *)
LEMMA InTurnAppend ==
    ASSUME NEW q \in Seq(Job), NEW st \in [Job -> Nat], InTurn(q, st),
           NEW t \in Job, st[t] = 0
    PROVE  InTurn(Append(q, t), st)
<1> DEFINE p == Append(q, t)
<1>1. /\ Len(p) = Len(q) + 1 /\ p[Len(q) + 1] = t /\ Len(q) \in Nat
      /\ \A i \in 1 .. Len(q) : p[i] = q[i] /\ q[i] \in Job
  OBVIOUS
<1> HIDE DEF p
<1>2. ASSUME NEW i \in 1 .. Len(p), NEW j \in 1 .. Len(p), i < j
      PROVE  st[p[j]] <= st[p[i]]
  <2>1. i \in 1 .. Len(q) /\ p[i] = q[i] /\ st[q[i]] \in Nat
    BY <1>1, <1>2
  <2>2. CASE j = Len(q) + 1
    BY <1>1, <2>1, <2>2
  <2>3. CASE j # Len(q) + 1
    <3>1. j \in 1 .. Len(q) /\ p[j] = q[j]
      BY <1>1, <2>3
    <3> QED
      BY <1>2, <2>1, <3>1 DEF InTurn
  <2> QED
    BY <2>2, <2>3
<1> QED
  BY <1>2 DEF InTurn, p

(* The front of the queue has waited longest, and the rest is in turn. *)
LEMMA InTurnHead ==
    ASSUME NEW q \in Seq(Job), q # <<>>, NEW st \in [Job -> Nat], InTurn(q, st)
    PROVE  /\ Tail(q) \in Seq(Job) /\ Head(q) \in Job /\ InTurn(Tail(q), st)
           /\ \A t \in Members(q) : st[t] <= st[Head(q)]
<1>1. /\ Head(q) = q[1] /\ Len(q) \in Nat \ {0} /\ Head(q) \in Job
      /\ Tail(q) \in Seq(Job) /\ Len(Tail(q)) = Len(q) - 1
      /\ \A i \in 1 .. Len(Tail(q)) : Tail(q)[i] = q[i + 1] /\ i + 1 \in 1 .. Len(q)
  BY MembersTail
<1>2. InTurn(Tail(q), st)
  BY <1>1 DEF InTurn
<1>3. ASSUME NEW t \in Members(q)
      PROVE  st[t] <= st[Head(q)]
  <2>1. PICK i \in 1 .. Len(q) : q[i] = t
    BY MembersOf
  <2>2. t \in Job /\ st[t] \in Nat
    BY <2>1
  <2>3. CASE i = 1
    BY <1>1, <2>1, <2>2, <2>3
  <2>4. CASE i # 1
    BY <1>1, <2>1, <2>4 DEF InTurn
  <2> QED
    BY <2>3, <2>4
<1> QED
  BY <1>1, <1>2, <1>3

(* run_thread() takes the front of the queue, and leaves the queue in turn. *)
LEMMA RunThreadInTurn ==
    ASSUME SchedInv, TurnInv, a_type \in Queueing, ready # <<>>, NEW s \in run_thread
    PROVE  /\ InTurn(s.ready, stretch)
           /\ s.running # running => s.running = Head(ready)
<1>0. /\ ready \in Seq(Job) /\ stretch \in [Job -> Nat] /\ running \in Job \cup {NoJob}
      /\ InTurn(ready, stretch) /\ \A t \in Job : t \notin Members(ready) => stretch[t] = 0
      /\ \A i \in 1 .. Len(ready) : ready[i] # running
  BY DEF SchedInv, SchedType, QueueOK, TurnInv
<1>1. /\ Tail(ready) \in Seq(Job) /\ InTurn(Tail(ready), stretch)
  BY <1>0, InTurnHead
<1>2. running # NoJob => InTurn(Append(Tail(ready), running), stretch)
  <2>1. running \notin Members(ready)
    BY <1>0, MembersOf
  <2> QED
    BY <1>0, <1>1, <2>1, InTurnAppend
<1>3. ASSUME NEW w
      PROVE  /\ Keep(ready).ready = ready /\ Keep(ready).running = running
             /\ Dispatch(Tail(ready), Head(ready), w).ready = Tail(ready)
             /\ Dispatch(Tail(ready), Head(ready), w).running = Head(ready)
             /\ Switch(ready, w).ready = Append(Tail(ready), running)
             /\ Switch(ready, w).running = Head(ready)
  BY DEF Keep, Dispatch, Switch
<1>4. CASE a_type = "FIRST_COME_FIRST_SERVED"
  <2>1. s = Keep(ready) \/ s = Dispatch(Tail(ready), Head(ready), wrapper)
    BY <1>4 DEF run_thread, FirstComeFirstServed
  <2> QED
    BY <1>0, <1>1, <1>3, <2>1
<1>5. CASE a_type = "ROUND_ROBIN"
  <2> DEFINE renewed == SetTick(wrapper, Head(ready), gquantum)
  <2>1. \/ s = Keep(ready)
        \/ s = Dispatch(Tail(ready), Head(ready), renewed)
        \/ s = Switch(ready, renewed) /\ running # NoJob
    BY <1>5 DEF run_thread, RoundRobin
  <2> QED
    BY <1>0, <1>1, <1>2, <1>3, <2>1
<1> QED
  BY <1>4, <1>5 DEF Queueing

(* what ByPolicy says of the policies with a queue *)
Longest(r) == r # running => \A t \in Members(ready) : stretch[t] <= stretch[r]

(* tick() keeps the queue in turn, as all that are in it wait one tick more. *)
LEMMA TickInTurn ==
    ASSUME SchedInv, TurnInv, tick
    PROVE  TurnInv' /\ (a_type \in Queueing => Longest(running'))
<1> SUFFICES ASSUME a_type \in Queueing
             PROVE  TurnInv' /\ Longest(running')
  BY DEF TurnInv, tick
<1>0. /\ ready \in Seq(Job) /\ stretch \in [Job -> Nat] /\ running \in Job \cup {NoJob}
      /\ InTurn(ready, stretch) /\ a_type' = a_type
  BY DEF SchedInv, SchedType, QueueOK, TurnInv, tick
<1> DEFINE renewed == [ready |-> ready, running |-> running,
                       wrapper |-> SetTick(wrapper, running, gquantum)]
           choices == IF ready # <<>> THEN run_thread
                      ELSE IF running # NoJob /\ wrapper[running].tick <= 0 THEN {renewed}
                      ELSE {Keep(ready)}
<1>1. PICK s \in choices :
          /\ ready' = UseTick(s).ready /\ running' = UseTick(s).running
          /\ stretch' = [t \in Job |-> IF t \in Members(UseTick(s).ready)
                                       THEN stretch[t] + 1 ELSE 0]
  BY DEF tick
<1>2. UseTick(s).ready = s.ready /\ UseTick(s).running = s.running
  BY DEF UseTick
<1>3. /\ ready' = s.ready /\ running' = s.running
      /\ stretch' = [t \in Job |-> IF t \in Members(ready') THEN stretch[t] + 1 ELSE 0]
  BY <1>1, <1>2
<1>4. InTurn(ready', stretch) /\ Longest(running')
  <2>1. CASE ready # <<>>
    <3>1. InTurn(s.ready, stretch) /\ (s.running # running => s.running = Head(ready))
      BY <2>1, RunThreadInTurn
    <3>2. \A t \in Members(ready) : stretch[t] <= stretch[Head(ready)]
      BY <1>0, <2>1, InTurnHead
    <3> QED
      BY <1>3, <3>1, <3>2 DEF Longest
  <2>2. CASE ready = <<>>
    <3>1. s.ready = ready /\ s.running = running
      BY <2>2 DEF Keep
    <3> QED
      BY <1>0, <1>3, <3>1 DEF Longest
  <2> QED
    BY <2>1, <2>2
<1>5. ready' \in Seq(Job)
  <2>1. SchedInv'
    BY TickKeeps
  <2> QED
    BY <2>1 DEF SchedInv, SchedType
<1>6. InTurn(ready', stretch')
  <2>1. ASSUME NEW i \in 1 .. Len(ready'), NEW j \in 1 .. Len(ready'), i < j
        PROVE  stretch'[ready'[j]] <= stretch'[ready'[i]]
    <3>1. /\ ready'[i] \in Job /\ ready'[j] \in Job
          /\ ready'[i] \in Members(ready') /\ ready'[j] \in Members(ready')
      BY <1>5, MembersOf
    <3>2. /\ stretch'[ready'[i]] = stretch[ready'[i]] + 1
          /\ stretch'[ready'[j]] = stretch[ready'[j]] + 1
          /\ stretch[ready'[i]] \in Nat /\ stretch[ready'[j]] \in Nat
      BY <1>0, <1>3, <3>1
    <3>3. stretch[ready'[j]] <= stretch[ready'[i]]
      BY <1>4, <2>1 DEF InTurn
    <3> QED
      BY <3>2, <3>3
  <2> QED
    BY <2>1 DEF InTurn
<1> QED
  BY <1>3, <1>4, <1>6 DEF TurnInv

(* A thread that joins the queue joins it at the end. *)
LEMMA JoinsInTurn ==
    ASSUME SchedInv, TurnInv, NEW t \in Job, place[t] # "sched",
           a_type' = a_type, stretch' = stretch, ready' = Append(ready, t)
    PROVE  TurnInv'
<1> SUFFICES ASSUME a_type \in Queueing PROVE TurnInv'
  BY DEF TurnInv
<1>1. /\ ready \in Seq(Job) /\ stretch \in [Job -> Nat] /\ QueueOK(ready, running)
      /\ InTurn(ready, stretch) /\ \A x \in Job : x \notin Members(ready) => stretch[x] = 0
  BY DEF SchedInv, SchedType, TurnInv
<1>2. t \notin Members(ready)
  BY <1>1, MembersOf DEF QueueOK
<1>3. InTurn(ready', stretch')
  BY <1>1, <1>2, InTurnAppend
<1>4. Members(ready') = Members(ready) \cup {t}
  BY <1>1, MembersAppend
<1> QED
  BY <1>1, <1>3, <1>4 DEF TurnInv

(* Every step keeps the queue in turn. *)
LEMMA TurnStep ==
    ASSUME SchedInv, TurnInv, [SchedNext]_schedVars
    PROVE  TurnInv'
<1>1. ASSUME a_type' = a_type, stretch' = stretch, ready' = ready
      PROVE  TurnInv'
  BY <1>1 DEF TurnInv
<1>2. CASE UNCHANGED schedVars
  BY <1>1, <1>2 DEF schedVars
<1>3. ASSUME NEW t \in Job, sys_exec(t)
      PROVE  TurnInv'
  BY <1>3, JoinsInTurn DEF sys_exec
<1>4. ASSUME NEW t \in Job, io_complete(t)
      PROVE  TurnInv'
  BY <1>4, JoinsInTurn DEF io_complete
<1>5. CASE tick
  BY <1>5, TickInTurn
<1>6. ASSUME NEW t \in Job, io_starting(t)
      PROVE  TurnInv'
  BY <1>1, <1>6 DEF io_starting
<1>7. CASE sys_exit \/ sys_read \/ Advance \/ stats
  BY <1>1, <1>7 DEF sys_exit, sys_read, Advance, stats
<1> QED
  BY <1>2, <1>3, <1>4, <1>5, <1>6, <1>7 DEF SchedNext

(* scheduler.c: every decision of tick() follows the policy.  No thread    *)
(* waits for an idle CPU; a non-preemptive policy takes nobody off the     *)
(* CPU; under the priority policies who runs goes before all who wait;     *)
(* under FCFS and round robin the CPU goes to a thread that has been ready *)
(* for as long as anybody; and under round robin nobody waits longer than  *)
(* a quantum for each of the other threads.                                *)
THEOREM SchedByPolicy == SchedSpec => ByPolicy
<1> DEFINE A ==
         phase = "tick" /\ phase' = "cpu" /\ a_type # "other" =>
         /\ ready # <<>> => running' # NoJob
         /\ a_type \in {"FIRST_COME_FIRST_SERVED", "NON_PREEMPTIVE_PRIORITY"} =>
               (running # NoJob => running' = running)
         /\ a_type = "PREEMPTIVE_PRIORITY" =>
               \A t \in Members(ready') : Priority[running'] <= Priority[t]
         /\ a_type = "NON_PREEMPTIVE_PRIORITY" /\ running = NoJob =>
               \A t \in Members(ready') : Priority[running'] <= Priority[t]
         /\ a_type \in {"FIRST_COME_FIRST_SERVED", "ROUND_ROBIN"} /\ running' # running =>
               \A t \in Members(ready) : stretch[t] <= stretch[running']
         /\ a_type = "ROUND_ROBIN" =>
               \A t \in Job : stretch'[t] <= gquantum * (Cardinality(Job) - 1)
<1>1. (\E alg \in Algorithms, q \in Quanta : SchedInit(alg, q)) => SchedInv /\ RoundInv /\ TurnInv
  <2>1. ASSUME NEW a \in Algorithms, NEW q \in Quanta, SchedInit(a, q)
        PROVE  RoundInv /\ TurnInv
    <3>1. Len(ready) = 0 /\ running = NoJob /\ \A t \in Job : stretch[t] = 0
      BY <2>1 DEF SchedInit
    <3> QED
      BY <3>1 DEF RoundInv, Bound, TurnInv, InTurn
  <2> QED
    BY <2>1, SchedStart
<1>2. SchedInv /\ RoundInv /\ TurnInv /\ [SchedNext]_schedVars => SchedInv' /\ RoundInv' /\ TurnInv'
  BY SchedStep, RoundStep, TurnStep
<1>3. SchedInv /\ RoundInv /\ TurnInv /\ RoundBound' /\ [SchedNext]_schedVars => [A]_schedVars
  <2>1. ASSUME SchedInv, RoundInv, TurnInv, RoundBound', [SchedNext]_schedVars,
               phase = "tick", phase' = "cpu", a_type # "other"
        PROVE  A
    <3>1. tick
      BY <2>1 DEF SchedNext, schedVars, sys_exec, io_starting, io_complete, sys_exit, sys_read,
                  Advance, stats
    <3>2. SchedInv' /\ RoundInv' /\ PolicyOK(ready', running')
      BY <2>1, <3>1, TickKeeps, TickRound
    <3>3. a_type' = a_type /\ gquantum' = gquantum
      BY <3>1 DEF tick
    <3>4. a_type = "ROUND_ROBIN" =>
             \A t \in Job : stretch'[t] <= gquantum * (Cardinality(Job) - 1)
      BY <2>1, <3>3 DEF RoundBound
    <3>5. a_type \in Queueing => Longest(running')
      BY <2>1, <3>1, TickInTurn
    <3> QED
      BY <3>2, <3>4, <3>5 DEF PolicyOK, First, Longest, Queueing
  <2> QED
    BY <2>1
<1>4. SchedInv /\ RoundInv => RoundBound
  BY BoundImplies DEF RoundBound
<1> QED
  BY <1>1, <1>2, <1>3, <1>4, PTL DEF SchedSpec, ByPolicy

-----------------------------------------------------------------------------
(***************************************************************************)
(* The pager.                                                              *)
(***************************************************************************)

(* the pager by itself, as Programs runs it *)
PagerSpec ==
    /\ \E a \in PagerAlgorithms, n \in FrameCounts : PagerInit(a, n)
    /\ [][PagerNext]_pagerVars

PageRecord == [page_num : VPage, last_request : Nat, frequency : Nat]

Records(q) == {q[k] : k \in 1 .. Len(q)}
Pages(q) == {q[k].page_num : k \in 1 .. Len(q)}

(* a queue that fits into the frames, each page in it once *)
FramesOK(q) ==
    /\ q \in Seq(PageRecord) /\ Len(q) <= frame
    /\ \A i, j \in 1 .. Len(q) : q[i].page_num = q[j].page_num => i = j

(* what LastUse, LastFetch and Uses are, after the requests r with faults fs *)
UseOf(r, p) == CHOOSE k \in DOMAIN r : r[k] = p /\ \A j \in k + 1 .. Len(r) : r[j] # p
FetchOf(r, fs, p) == CHOOSE k \in fs : r[k] = p /\ \A j \in fs : r[j] = p => j <= k
UsesOf(r, fs, p) == Cardinality({k \in FetchOf(r, fs, p) .. Len(r) : r[k] = p})

(* f is the latest fetch of p *)
FetchAt(r, fs, p, f) == f \in fs /\ r[f] = p /\ \A j \in fs : r[j] = p => j <= f

(* the faults are among the first n requests *)
Within(fs, n) == \A j \in fs : j \in 1 .. n

(* after requests r with faults fs there is one for p, which may be a fault *)
Request(r, fs, p, s, gs) ==
    /\ r \in Seq(VPage) /\ p \in VPage /\ s = Append(r, p)
    /\ Within(fs, Len(r)) /\ (gs = fs \/ gs = fs \cup {Len(r) + 1})

(* page p has been fetched *)
WasFetched(r, fs, p) == \E f \in fs : r[f] = p

(* every page in memory has been fetched *)
Fetched(q, r, fs) == \A x \in Pages(q) : WasFetched(r, fs, x)

(* what a record remembers of its page, as two of the algorithms need it *)
LastIs(g, r) == g.last_request = UseOf(r, g.page_num)
CountIs(g, r, fs) == g.frequency = UsesOf(r, fs, g.page_num)

(* the queue and its records hold what the algorithm goes by *)
Remembers(q, r, fs) ==
    /\ algorithm = "FIRST_IN_FIRST_OUT" =>
          \A i, j \in 1 .. Len(q) :
             i <= j => FetchOf(r, fs, q[i].page_num) <= FetchOf(r, fs, q[j].page_num)
    /\ algorithm = "LEAST_RECENTLY_USED" =>
          \A g \in Records(q) : LastIs(g, r)
    /\ algorithm = "LEAST_FREQUENTLY_USED" =>
          \A g \in Records(q) : CountIs(g, r, fs)

PagerInv ==
    /\ algorithm \in PagerAlgorithms /\ frame \in Nat \ {0}
    /\ requests \in Seq(VPage) /\ Within(faults, Len(requests))
    /\ FramesOK(page_queue)
    /\ Fetched(page_queue, requests, faults)
    /\ Remembers(page_queue, requests, faults)

(* how many pages leave a queue before another enters it *)
Leaving(s) == IF Len(s) >= frame THEN 1 ELSE 0

(* a new record enters the queue s, which gives q *)
Enters(s, new, q) ==
    /\ FramesOK(s) /\ new \in PageRecord /\ new.page_num \notin Pages(s)
    /\ q = Append(MakeRoom(s), new)

(* page v is the one that the algorithm takes out *)
Victim(v) ==
    \A q \in Resident :
       CASE algorithm = "FIRST_IN_FIRST_OUT" -> LastFetch(v) <= LastFetch(q)
         [] algorithm = "LEAST_RECENTLY_USED" -> LastUse(v) <= LastUse(q)
         [] algorithm = "LEAST_FREQUENTLY_USED" -> Uses(v) <= Uses(q)
         [] OTHER -> /\ Marked(v) => Marked(q)
                     /\ (Marked(q) = Marked(v)) =>
                           \E i \in FindPage(v), j \in FindPage(q) : i <= j

(* page p replaces a victim, or takes a free frame *)
Gives(p, pages) ==
    \E v : /\ pages = (Pages(page_queue) \ IF Len(page_queue) >= frame THEN {v} ELSE {}) \cup {p}
           /\ Len(page_queue) >= frame => v \in Pages(page_queue) /\ Victim(v)

(* what a fault on page p leaves in the queue *)
Replaced(p, q) ==
    /\ FramesOK(q)
    /\ Fetched(q, Append(requests, p), faults \cup {Time})
    /\ Remembers(q, Append(requests, p), faults \cup {Time})
    /\ Gives(p, Pages(q))

-----------------------------------------------------------------------------
(* A set of numbers up to n has a greatest element. *)
LEMMA GreatestNat ==
    ASSUME NEW n \in Nat, NEW S, \A j \in S : j \in 1 .. n, S # {}
    PROVE  \E m \in S : \A k \in S : k <= m
<1> DEFINE T == {i \in 0 .. n : n - i \in S}
<1>1. T \subseteq Nat
  OBVIOUS
<1>2. T # {}
  <2>1. PICK k \in S : TRUE
    OBVIOUS
  <2>2. n - k \in 0 .. n /\ n - (n - k) = k
    BY <2>1
  <2>3. n - k \in T
    BY <2>1, <2>2
  <2> QED
    BY <2>3
<1>3. PICK i \in T : \A j \in T : i <= j
  <2> HIDE DEF T
  <2> QED
    BY <1>1, <1>2, LeastNat
<1>4. n - i \in S
  BY <1>3
<1>5. ASSUME NEW k \in S
      PROVE  k <= n - i
  <2>1. n - k \in 0 .. n /\ n - (n - k) = k
    OBVIOUS
  <2>2. n - k \in T
    BY <2>1
  <2>3. i <= n - k /\ i \in 0 .. n
    BY <1>3, <2>2
  <2> QED
    BY <2>3
<1> QED
  BY <1>4, <1>5

(* The first of a sequence of numbers that do not fall is the least. *)
LEMMA FirstLeast ==
    ASSUME NEW n \in Nat, NEW f, \A k \in 1 .. n : f[k] \in Nat,
           \A k \in 2 .. n : f[k - 1] <= f[k]
    PROVE  \A k \in 1 .. n : f[1] <= f[k]
<1> DEFINE S == {k \in 1 .. n : ~(f[1] <= f[k])}
<1>1. SUFFICES ASSUME S # {} PROVE FALSE
  OBVIOUS
<1>2. S \subseteq Nat
  OBVIOUS
<1>3. PICK m \in S : \A k \in S : m <= k
  <2> HIDE DEF S
  <2> QED
    BY <1>1, <1>2, LeastNat
<1>4. m \in 1 .. n /\ m # 1 /\ ~(f[1] <= f[m])
  BY <1>3
<1>5. m - 1 \in 1 .. n /\ m \in 2 .. n /\ m - 1 \notin S
  BY <1>3, <1>4
<1>6. f[1] <= f[m - 1] /\ f[m - 1] <= f[m]
  BY <1>5
<1> QED
  BY <1>4, <1>5, <1>6

-----------------------------------------------------------------------------
(* The latest use of a page: where it is, and how a request changes it. *)
LEMMA UseOfIs ==
    ASSUME NEW r, NEW p, NEW k \in DOMAIN r, r \in Seq(VPage), r[k] = p,
           \A j \in k + 1 .. Len(r) : r[j] # p
    PROVE  UseOf(r, p) = k
<1> DEFINE P(m) == m \in DOMAIN r /\ r[m] = p /\ \A j \in m + 1 .. Len(r) : r[j] # p
<1>1. P(k)
  OBVIOUS
<1>2. \A m : P(m) => m = k
  <2> TAKE m
  <2> HAVE P(m)
  <2>1. m \in 1 .. Len(r) /\ k \in 1 .. Len(r) /\ Len(r) \in Nat
    OBVIOUS
  <2>2. ~(m < k)
    BY <2>1
  <2>3. ~(k < m)
    BY <2>1
  <2> QED
    BY <2>1, <2>2, <2>3
<1>3. UseOf(r, p) = CHOOSE m : P(m)
  BY DEF UseOf
<1> QED
  BY <1>1, <1>2, <1>3

(* A page that has been requested has a latest use. *)
LEMMA UseOfExists ==
    ASSUME NEW r \in Seq(VPage), NEW p, NEW i \in 1 .. Len(r), r[i] = p
    PROVE  \E k \in 1 .. Len(r) : r[k] = p /\ (\A j \in k + 1 .. Len(r) : r[j] # p) /\ UseOf(r, p) = k
<1> DEFINE S == {k \in 1 .. Len(r) : r[k] = p}
<1>1. PICK k \in S : \A j \in S : j <= k
  <2>1. S # {} /\ \A j \in S : j \in 1 .. Len(r) /\ Len(r) \in Nat
    OBVIOUS
  <2> HIDE DEF S
  <2> QED
    BY <2>1, GreatestNat
<1>2. k \in DOMAIN r /\ r[k] = p /\ \A j \in k + 1 .. Len(r) : r[j] # p
  <2>1. ASSUME NEW j \in k + 1 .. Len(r), r[j] = p
        PROVE  FALSE
    <3>1. j \in 1 .. Len(r) /\ j > k /\ k \in 1 .. Len(r)
      OBVIOUS
    <3>2. j \in S
      BY <2>1, <3>1
    <3> QED
      BY <1>1, <3>1, <3>2
  <2> QED
    BY <2>1
<1> QED
  BY <1>2, UseOfIs

(* A request is the latest use of its page, and of no other. *)
LEMMA UseOfNext ==
    ASSUME NEW r, NEW fs, NEW p, NEW s, NEW gs, Request(r, fs, p, s, gs)
    PROVE  /\ UseOf(s, p) = Len(r) + 1
           /\ \A q : q # p /\ (\E i \in 1 .. Len(r) : r[i] = q) => UseOf(s, q) = UseOf(r, q)
<1>0. r \in Seq(VPage) /\ p \in VPage /\ s = Append(r, p)
  BY DEF Request
<1>1. /\ s \in Seq(VPage) /\ Len(s) = Len(r) + 1 /\ Len(r) \in Nat /\ s[Len(r) + 1] = p
      /\ \A i \in 1 .. Len(r) : s[i] = r[i]
      /\ DOMAIN s = 1 .. Len(r) + 1
  BY <1>0
<1>2. UseOf(s, p) = Len(r) + 1
  <2>1. Len(r) + 1 \in DOMAIN s /\ \A j \in (Len(r) + 1) + 1 .. Len(s) : s[j] # p
    BY <1>1
  <2> QED
    BY <1>1, <2>1, UseOfIs
<1>3. ASSUME NEW q, q # p, NEW i \in 1 .. Len(r), r[i] = q
      PROVE  UseOf(s, q) = UseOf(r, q)
  <2>1. PICK k \in 1 .. Len(r) : /\ r[k] = q /\ (\A j \in k + 1 .. Len(r) : r[j] # q)
                                 /\ UseOf(r, q) = k
    BY <1>0, <1>3, UseOfExists
  <2>2. k \in DOMAIN s /\ s[k] = q /\ \A j \in k + 1 .. Len(s) : s[j] # q
    BY <1>1, <1>3, <2>1
  <2> QED
    BY <1>1, <2>1, <2>2, UseOfIs
<1> QED
  BY <1>2, <1>3

(* The latest fetch of a page: where it is. *)
LEMMA FetchOfIs ==
    ASSUME NEW n \in Nat, NEW r, NEW fs, Within(fs, n), NEW p, NEW k, FetchAt(r, fs, p, k)
    PROVE  FetchOf(r, fs, p) = k /\ k \in 1 .. n
<1>1. FetchAt(r, fs, p, k)
  OBVIOUS
<1>2. \A m : FetchAt(r, fs, p, m) => m = k
  <2> TAKE m
  <2> HAVE FetchAt(r, fs, p, m)
  <2>1. m \in 1 .. n /\ k \in 1 .. n /\ m <= k /\ k <= m
    BY DEF FetchAt, Within
  <2> QED
    BY <2>1
<1>3. FetchOf(r, fs, p) = CHOOSE m : FetchAt(r, fs, p, m)
  BY DEF FetchOf, FetchAt
<1>4. k \in 1 .. n
  BY DEF FetchAt, Within
<1> QED
  BY <1>1, <1>2, <1>3, <1>4

(* A page that has been fetched has a latest fetch. *)
LEMMA FetchOfExists ==
    ASSUME NEW n \in Nat, NEW r, NEW fs, Within(fs, n), NEW p, WasFetched(r, fs, p)
    PROVE  FetchAt(r, fs, p, FetchOf(r, fs, p))
<1> DEFINE S == {k \in fs : r[k] = p}
<1>1. PICK k \in S : \A j \in S : j <= k
  <2>1. S # {} /\ \A j \in S : j \in 1 .. n
    BY DEF Within, WasFetched
  <2> HIDE DEF S
  <2> QED
    BY <2>1, GreatestNat
<1>2. FetchAt(r, fs, p, k)
  BY <1>1 DEF FetchAt
<1>3. FetchOf(r, fs, p) = k
  BY <1>2, FetchOfIs
<1> QED
  BY <1>2, <1>3

(* A fault is the latest fetch of its page, and of no other. *)
LEMMA FetchOfNext ==
    ASSUME NEW r, NEW fs, NEW p, NEW s, NEW gs, Request(r, fs, p, s, gs)
    PROVE  /\ Within(gs, Len(s)) /\ \A q : WasFetched(r, fs, q) => WasFetched(s, gs, q)
           /\ gs # fs => FetchOf(s, gs, p) = Len(r) + 1 /\ WasFetched(s, gs, p)
           /\ \A q : (q # p \/ gs = fs) /\ WasFetched(r, fs, q) =>
                 FetchOf(s, gs, q) = FetchOf(r, fs, q) /\ FetchOf(r, fs, q) \in 1 .. Len(r)
<1>1. /\ s \in Seq(VPage) /\ Len(s) = Len(r) + 1 /\ Len(r) \in Nat /\ s[Len(r) + 1] = p
      /\ \A i \in 1 .. Len(r) : s[i] = r[i]
      /\ Len(r) + 1 \notin 1 .. Len(r) /\ Len(s) \in Nat
      /\ Within(fs, Len(r)) /\ (gs = fs \/ gs = fs \cup {Len(r) + 1})
  BY DEF Request
<1>2. Within(gs, Len(s)) /\ \A j \in gs : j \in 1 .. Len(r) \/ j = Len(r) + 1
  BY <1>1 DEF Within
<1>3. ASSUME NEW q, WasFetched(r, fs, q)
      PROVE  WasFetched(s, gs, q)
  BY <1>1, <1>3 DEF WasFetched, Within
<1>4. ASSUME gs # fs
      PROVE  FetchOf(s, gs, p) = Len(r) + 1 /\ WasFetched(s, gs, p)
  <2>1. FetchAt(s, gs, p, Len(r) + 1)
    BY <1>1, <1>2, <1>4 DEF FetchAt
  <2>2. WasFetched(s, gs, p)
    BY <2>1 DEF FetchAt, WasFetched
  <2> QED
    BY <1>1, <1>2, <2>1, <2>2, FetchOfIs
<1>5. ASSUME NEW q, q # p \/ gs = fs, WasFetched(r, fs, q)
      PROVE  FetchOf(s, gs, q) = FetchOf(r, fs, q) /\ FetchOf(r, fs, q) \in 1 .. Len(r)
  <2>1. PICK k : k = FetchOf(r, fs, q)
    OBVIOUS
  <2>2. FetchAt(r, fs, q, k)
    BY <1>1, <1>5, <2>1, FetchOfExists
  <2>3. k \in 1 .. Len(r)
    BY <1>1, <2>2, FetchOfIs
  <2>4. FetchAt(s, gs, q, k)
    BY <1>1, <1>5, <2>2, <2>3 DEF FetchAt, Within
  <2> QED
    BY <1>1, <1>2, <2>1, <2>3, <2>4, FetchOfIs
<1> QED
  BY <1>2, <1>3, <1>4, <1>5

(* A request adds one to the uses of its page; a fault begins with one. *)
LEMMA UsesOfNext ==
    ASSUME NEW r, NEW fs, NEW p, NEW s, NEW gs, Request(r, fs, p, s, gs)
    PROVE  /\ gs # fs => UsesOf(s, gs, p) = 1
           /\ gs = fs /\ WasFetched(r, fs, p) => UsesOf(s, gs, p) = UsesOf(r, fs, p) + 1
           /\ \A q : q # p /\ WasFetched(r, fs, q) => UsesOf(s, gs, q) = UsesOf(r, fs, q)
<1>1. /\ Len(s) = Len(r) + 1 /\ Len(r) \in Nat /\ s[Len(r) + 1] = p
      /\ \A i \in 1 .. Len(r) : s[i] = r[i]
  BY DEF Request
<1>0. /\ gs # fs => FetchOf(s, gs, p) = Len(r) + 1
      /\ \A q : (q # p \/ gs = fs) /\ WasFetched(r, fs, q) =>
            FetchOf(s, gs, q) = FetchOf(r, fs, q) /\ FetchOf(r, fs, q) \in 1 .. Len(r)
  BY FetchOfNext
<1>2. ASSUME gs # fs
      PROVE  UsesOf(s, gs, p) = 1
  <2>1. {k \in Len(r) + 1 .. Len(s) : s[k] = p} = {Len(r) + 1}
    BY <1>1
  <2>2. FetchOf(s, gs, p) = Len(r) + 1
    BY <1>0, <1>2
  <2> QED
    BY <2>1, <2>2, FS_Singleton DEF UsesOf
<1>3. ASSUME gs = fs, WasFetched(r, fs, p)
      PROVE  UsesOf(s, gs, p) = UsesOf(r, fs, p) + 1
  <2>1. PICK f : f = FetchOf(r, fs, p)
    OBVIOUS
  <2>2. FetchOf(s, gs, p) = f /\ f \in 1 .. Len(r)
    BY <1>3, <1>0, <2>1
  <2>3. PICK A : A = {k \in f .. Len(r) : r[k] = p}
    OBVIOUS
  <2>4. {k \in f .. Len(s) : s[k] = p} = A \cup {Len(r) + 1} /\ Len(r) + 1 \notin A
    BY <1>1, <2>2, <2>3
  <2>5. IsFiniteSet(A)
    <3>1. IsFiniteSet(f .. Len(r)) /\ A \in SUBSET (f .. Len(r))
      BY <1>1, <2>2, <2>3, FS_Interval
    <3> QED
      BY <3>1, FS_Subset
  <2>6. Cardinality(A \cup {Len(r) + 1}) = Cardinality(A) + 1
    BY <2>4, <2>5, FS_AddElement
  <2> QED
    BY <2>1, <2>2, <2>3, <2>4, <2>6 DEF UsesOf
<1>4. ASSUME NEW q, q # p, WasFetched(r, fs, q)
      PROVE  UsesOf(s, gs, q) = UsesOf(r, fs, q)
  <2>1. PICK f : f = FetchOf(r, fs, q)
    OBVIOUS
  <2>2. FetchOf(s, gs, q) = f /\ f \in 1 .. Len(r)
    BY <1>4, <1>0, <2>1
  <2>3. {k \in f .. Len(s) : s[k] = q} = {k \in f .. Len(r) : r[k] = q}
    BY <1>1, <1>4, <2>2
  <2> QED
    BY <2>1, <2>2, <2>3 DEF UsesOf
<1> QED
  BY <1>2, <1>3, <1>4

-----------------------------------------------------------------------------
(* How many numbers there are up to n. *)
LEMMA IntervalCount ==
    ASSUME NEW n \in Nat
    PROVE  IsFiniteSet(1 .. n) /\ Cardinality(1 .. n) = n
<1>1. IsFiniteSet(1 .. n) /\ Cardinality(1 .. n) = IF 1 > n THEN 0 ELSE n - 1 + 1
  BY FS_Interval
<1> QED
  BY <1>1

(* A queue as a set of pages, all different. *)
LEMMA PagesCount ==
    ASSUME NEW q, FramesOK(q)
    PROVE  IsFiniteSet(Pages(q)) /\ Cardinality(Pages(q)) = Len(q)
<1> DEFINE f == [k \in 1 .. Len(q) |-> q[k].page_num]
<1>1. Len(q) \in Nat /\ IsFiniteSet(1 .. Len(q)) /\ Cardinality(1 .. Len(q)) = Len(q)
  <2>1. Len(q) \in Nat
    BY DEF FramesOK
  <2> QED
    BY <2>1, IntervalCount
<1>2. f \in Surjection(1 .. Len(q), Pages(q))
  BY DEF Surjection, Pages
<1>3. f \in Injection(1 .. Len(q), Pages(q))
  BY DEF Injection, IsInjective, Pages, FramesOK
<1> HIDE DEF f
<1> QED
  BY <1>1, <1>2, <1>3, FS_Surjection

(* queue_sort() loses no record and repeats none. *)
LEMMA Shuffled ==
    ASSUME NEW q, FramesOK(q), NEW s,
           s \in [DOMAIN q -> {q[k] : k \in DOMAIN q}],
           \A k \in DOMAIN q : \E j \in DOMAIN q : s[j] = q[k]
    PROVE  FramesOK(s) /\ Len(s) = Len(q) /\ Records(s) = Records(q) /\ Pages(s) = Pages(q)
<1>1. Len(q) \in Nat /\ DOMAIN q = 1 .. Len(q) /\ \A k \in 1 .. Len(q) : q[k] \in PageRecord
  BY DEF FramesOK
<1>2. s \in Seq(PageRecord) /\ Len(s) = Len(q) /\ DOMAIN s = 1 .. Len(q)
  <2>1. s \in [1 .. Len(q) -> PageRecord]
    BY <1>1
  <2> QED
    BY <1>1, <2>1
<1>3. Records(s) = Records(q)
  BY <1>1, <1>2 DEF Records
<1>4. Pages(s) = Pages(q)
  <2>1. Pages(s) = {r.page_num : r \in Records(s)} /\ Pages(q) = {r.page_num : r \in Records(q)}
    BY DEF Pages, Records
  <2> QED
    BY <1>3, <2>1
<1>5. IsFiniteSet(1 .. Len(q)) /\ Cardinality(1 .. Len(q)) = Len(q)
  BY <1>1, IntervalCount
<1>6. Cardinality(Pages(q)) = Len(q)
  BY PagesCount
<1> DEFINE f == [k \in 1 .. Len(q) |-> s[k].page_num]
<1>7. f \in Surjection(1 .. Len(q), Pages(q))
  BY <1>2, <1>4 DEF Surjection, Pages
<1>8. f \in Injection(1 .. Len(q), Pages(q))
  <2> HIDE DEF f
  <2> QED
    BY <1>5, <1>6, <1>7, FS_SurjSameCardinalityImpliesInj
<1>9. \A i, j \in 1 .. Len(s) : s[i].page_num = s[j].page_num => i = j
  BY <1>2, <1>8 DEF Injection, IsInjective
<1> QED
  BY <1>2, <1>3, <1>4, <1>9 DEF FramesOK

(* The first page of a full queue makes room for a new one at the end. *)
LEMMA NewQueue ==
    ASSUME frame \in Nat \ {0}, NEW s, NEW new, NEW q, Enters(s, new, q)
    PROVE  /\ FramesOK(q) /\ Len(q) = Len(s) - Leaving(s) + 1 /\ Len(s) \in Nat
           /\ Leaving(s) \in {0, 1} /\ (Leaving(s) = 1 => 1 \in 1 .. Len(s))
           /\ q[Len(q)] = new
           /\ \A k \in 1 .. Len(s) - Leaving(s) :
                 q[k] = s[k + Leaving(s)] /\ k + Leaving(s) \in 1 .. Len(s)
           /\ Records(q) \subseteq Records(s) \cup {new}
           /\ Pages(q) = (Pages(s) \ IF Leaving(s) = 1 THEN {s[1].page_num} ELSE {})
                            \cup {new.page_num}
<1>0. /\ FramesOK(s) /\ new \in PageRecord /\ new.page_num \notin Pages(s)
      /\ q = Append(MakeRoom(s), new)
  BY DEF Enters
<1> DEFINE d == IF Len(s) >= frame THEN 1 ELSE 0
<1>1. Len(s) \in Nat /\ s \in Seq(PageRecord) /\ Len(s) <= frame
  BY <1>0 DEF FramesOK
<1>2. /\ d \in {0, 1} /\ (d = 1 <=> Len(s) = frame) /\ (d = 1 => Len(s) > 0)
  BY <1>1
<1>3. PICK m : m = MakeRoom(s)
  OBVIOUS
<1>4. /\ m \in Seq(PageRecord) /\ Len(m) = Len(s) - d
      /\ \A k \in 1 .. Len(m) : m[k] = s[k + d] /\ k + d \in 1 .. Len(s)
  <2>1. CASE d = 1
    <3>1. m = Tail(s) /\ s # <<>>
      BY <1>1, <1>2, <1>3, <2>1 DEF MakeRoom
    <3> HIDE DEF d
    <3> QED
      BY <1>1, <2>1, <3>1
  <2>2. CASE d = 0
    <3>1. m = s
      BY <1>1, <1>3, <2>2 DEF MakeRoom
    <3> HIDE DEF d
    <3> QED
      BY <1>1, <2>2, <3>1
  <2> QED
    BY <1>2, <2>1, <2>2
<1> HIDE DEF d
<1>5. /\ q \in Seq(PageRecord) /\ Len(q) = Len(s) - d + 1
      /\ q[Len(q)] = new
      /\ \A k \in 1 .. Len(s) - d : q[k] = s[k + d] /\ k + d \in 1 .. Len(s)
  BY <1>0, <1>1, <1>2, <1>3, <1>4
<1>6. \A k \in 1 .. Len(q) : k = Len(q) \/ k \in 1 .. Len(s) - d
  BY <1>1, <1>2, <1>5
<1>7. \A k \in 1 .. Len(s) : s[k].page_num # new.page_num
  BY <1>0 DEF Pages
<1>8. Len(q) <= frame
  BY <1>1, <1>2, <1>5
<1>9. ASSUME NEW i \in 1 .. Len(q), NEW j \in 1 .. Len(q), q[i].page_num = q[j].page_num
      PROVE  i = j
  <2>1. CASE i = Len(q) /\ j = Len(q)
    BY <2>1
  <2>2. CASE i \in 1 .. Len(s) - d /\ j \in 1 .. Len(s) - d
    <3>1. i + d = j + d
      BY <1>0, <1>5, <1>9, <2>2 DEF FramesOK
    <3> QED
      BY <1>2, <3>1
  <2> QED
    BY <1>5, <1>6, <1>7, <1>9, <2>1, <2>2
<1>10. FramesOK(q)
  BY <1>5, <1>8, <1>9 DEF FramesOK
<1>11. Records(q) \subseteq Records(s) \cup {new}
  BY <1>5, <1>6 DEF Records
<1>12. Pages(q) = (Pages(s) \ IF d = 1 THEN {s[1].page_num} ELSE {}) \cup {new.page_num}
  <2>1. ASSUME NEW x \in Pages(q)
        PROVE  x \in (Pages(s) \ IF d = 1 THEN {s[1].page_num} ELSE {}) \cup {new.page_num}
    <3>1. PICK k \in 1 .. Len(q) : x = q[k].page_num
      BY DEF Pages
    <3>2. CASE k = Len(q)
      BY <1>5, <3>1, <3>2
    <3>3. CASE k \in 1 .. Len(s) - d
      <4>1. x = s[k + d].page_num /\ k + d \in 1 .. Len(s)
        BY <1>5, <3>1, <3>3
      <4>2. x \in Pages(s)
        BY <4>1 DEF Pages
      <4>3. ASSUME d = 1
            PROVE  x # s[1].page_num
        <5>1. k + d # 1 /\ 1 \in 1 .. Len(s)
          BY <1>1, <1>2, <3>3, <4>3
        <5> QED
          BY <1>0, <4>1, <5>1 DEF FramesOK
      <4> QED
        BY <4>2, <4>3
    <3> QED
      BY <1>6, <3>2, <3>3
  <2>2. ASSUME NEW x \in Pages(s), d = 1 => x # s[1].page_num
        PROVE  x \in Pages(q)
    <3>1. PICK k \in 1 .. Len(s) : x = s[k].page_num
      BY DEF Pages
    <3>2. k - d \in 1 .. Len(s) - d /\ (k - d) + d = k
      BY <1>1, <1>2, <2>2, <3>1
    <3>3. k - d \in 1 .. Len(q) /\ q[k - d] = s[k]
      BY <1>1, <1>2, <1>5, <3>2
    <3> QED
      BY <3>1, <3>3 DEF Pages
  <2>3. new.page_num \in Pages(q)
    <3>1. Len(q) \in 1 .. Len(q)
      BY <1>1, <1>2, <1>5
    <3> QED
      BY <1>5, <3>1 DEF Pages
  <2> QED
    BY <2>1, <2>2, <2>3
<1> QED
  BY <1>1, <1>2, <1>5, <1>10, <1>11, <1>12 DEF d, Leaving

(* The second-chance rotation keeps the records' pages in order, from the  *)
(* first page that is not marked, or from the front if all are.            *)
LEMMA Rotated ==
    ASSUME NEW q, FramesOK(q), Len(q) >= frame, frame \in Nat \ {0}
    PROVE  \E s, k : /\ FramesOK(s) /\ Len(s) = Len(q) /\ Pages(s) = Pages(q)
                     /\ Rotate(q) = MakeRoom(s)
                     /\ k \in 1 .. Len(q) /\ s[1].page_num = q[k].page_num
                     /\ \/ /\ q[k].last_request # 1
                           /\ \A j \in 1 .. k - 1 : q[j].last_request = 1
                        \/ k = 1 /\ \A j \in 1 .. Len(q) : q[j].last_request = 1
<1>1. q \in Seq(PageRecord) /\ Len(q) \in Nat \ {0} /\ DOMAIN q = 1 .. Len(q)
  BY DEF FramesOK
<1> DEFINE used(k) == \A j \in 1 .. k : q[j].last_request = 1
           P(k) == k \in 0 .. Len(q) /\ used(k) /\ (k < Len(q) => ~used(k + 1))
           n == CHOOSE k \in 0 .. Len(q) : used(k) /\ (k < Len(q) => ~used(k + 1))
           turned == [j \in DOMAIN q |-> IF j <= Len(q) - n THEN q[j + n]
                                         ELSE Cleared(q[j + n - Len(q)])]
<1>2. \E k : P(k)
  <2> DEFINE S == {k \in 1 .. Len(q) : q[k].last_request # 1}
  <2>1. CASE S = {}
    <3>1. P(Len(q))
      BY <1>1, <2>1
    <3> QED
      BY <3>1
  <2>2. CASE S # {}
    <3>1. PICK m \in S : \A k \in S : m <= k
      <4>1. S \subseteq Nat
        OBVIOUS
      <4> HIDE DEF S
      <4> QED
        BY <2>2, <4>1, LeastNat
    <3>2. m - 1 \in 0 .. Len(q) /\ (m - 1) + 1 = m /\ m \in 1 .. Len(q) /\ q[m].last_request # 1
      BY <1>1, <3>1
    <3>3. used(m - 1)
      <4> TAKE j \in 1 .. m - 1
      <4>1. j \in 1 .. Len(q) /\ ~(m <= j)
        BY <1>1, <3>2
      <4> QED
        BY <3>1, <4>1
    <3>4. ~used((m - 1) + 1)
      BY <1>1, <3>2
    <3>5. P(m - 1)
      BY <3>2, <3>3, <3>4
    <3> QED
      BY <3>5
  <2> QED
    BY <2>1, <2>2
<1>3. P(n)
  <2>1. n = CHOOSE k : P(k)
    OBVIOUS
  <2> HIDE DEF n, P
  <2> QED
    BY <1>2, <2>1
<1>4. n \in 0 .. Len(q) /\ used(n) /\ (n < Len(q) => ~used(n + 1))
  BY <1>3
<1>5. Rotate(q) = Tail(turned)
  BY <1>1 DEF Rotate, FramesOK
<1> HIDE DEF n
<1>6. \A j \in 1 .. Len(q) : Cleared(q[j]) \in PageRecord /\ Cleared(q[j]).page_num = q[j].page_num
  <2> TAKE j \in 1 .. Len(q)
  <2>1. q[j] \in PageRecord
    BY <1>1
  <2> QED
    BY <2>1 DEF Cleared, PageRecord
<1> DEFINE from(j) == IF j <= Len(q) - n THEN j + n ELSE j + n - Len(q)
<1>7. \A j \in 1 .. Len(q) : /\ from(j) \in 1 .. Len(q) /\ turned[j] \in PageRecord
                             /\ turned[j].page_num = q[from(j)].page_num
  <2> TAKE j \in 1 .. Len(q)
  <2>1. CASE j <= Len(q) - n
    BY <1>1, <1>4, <2>1
  <2>2. CASE ~(j <= Len(q) - n)
    <3>1. j + n - Len(q) \in 1 .. Len(q)
      BY <1>1, <1>4, <2>2
    <3> QED
      BY <1>1, <1>6, <2>2, <3>1
  <2> QED
    BY <2>1, <2>2
<1>8. \A i, j \in 1 .. Len(q) : from(i) = from(j) => i = j
  BY <1>1, <1>4
<1>9. \A i \in 1 .. Len(q) : \E j \in 1 .. Len(q) : from(j) = i
  <2> TAKE i \in 1 .. Len(q)
  <2>1. CASE i > n
    <3>1. i - n \in 1 .. Len(q) /\ from(i - n) = i
      BY <1>1, <1>4, <2>1
    <3> QED
      BY <3>1
  <2>2. CASE ~(i > n)
    <3>1. i + Len(q) - n \in 1 .. Len(q) /\ from(i + Len(q) - n) = i
      BY <1>1, <1>4, <2>2
    <3> QED
      BY <3>1
  <2> QED
    BY <2>1, <2>2
<1>10. PICK s : s = turned
  OBVIOUS
<1>11. s \in Seq(PageRecord) /\ Len(s) = Len(q) /\ DOMAIN s = 1 .. Len(q)
  <2>1. s \in [1 .. Len(q) -> PageRecord]
    BY <1>1, <1>7, <1>10
  <2> QED
    BY <1>1, <2>1
<1>12. \A j \in 1 .. Len(q) : from(j) \in 1 .. Len(q) /\ s[j].page_num = q[from(j)].page_num
  BY <1>7, <1>10
<1>13. FramesOK(s)
  <2> HIDE DEF from
  <2>1. ASSUME NEW i \in 1 .. Len(q), NEW j \in 1 .. Len(q), s[i].page_num = s[j].page_num
        PROVE  i = j
    <3>1. PICK a, b : a = from(i) /\ b = from(j)
      OBVIOUS
    <3>2. a \in 1 .. Len(q) /\ b \in 1 .. Len(q) /\ q[a].page_num = q[b].page_num
      BY <1>12, <2>1, <3>1
    <3>3. a = b
      BY <3>2 DEF FramesOK
    <3> QED
      BY <1>8, <3>1, <3>3
  <2>2. Len(s) <= frame
    BY <1>11 DEF FramesOK
  <2> QED
    BY <1>11, <2>1, <2>2 DEF FramesOK
<1>14. Pages(s) = Pages(q)
  <2> HIDE DEF from
  <2>1. ASSUME NEW x \in Pages(s) PROVE x \in Pages(q)
    <3>1. PICK j \in 1 .. Len(q) : x = s[j].page_num
      BY <1>11 DEF Pages
    <3>2. x = q[from(j)].page_num /\ from(j) \in 1 .. Len(q)
      BY <1>12, <3>1
    <3> QED
      BY <3>2 DEF Pages
  <2>2. ASSUME NEW x \in Pages(q) PROVE x \in Pages(s)
    <3>1. PICK i \in 1 .. Len(q) : x = q[i].page_num
      BY DEF Pages
    <3>2. PICK j \in 1 .. Len(q) : from(j) = i
      BY <1>9
    <3>3. x = s[j].page_num
      BY <1>12, <3>1, <3>2
    <3>4. j \in 1 .. Len(s)
      BY <1>11
    <3> QED
      BY <3>3, <3>4 DEF Pages
  <2> QED
    BY <2>1, <2>2
<1>15. Rotate(q) = MakeRoom(s)
  BY <1>5, <1>10, <1>11 DEF MakeRoom
<1>16. CASE n < Len(q)
  <2>1. n + 1 \in 1 .. Len(q) /\ from(1) = n + 1 /\ 1 \in 1 .. Len(q)
    BY <1>1, <1>4, <1>16
  <2>2. s[1].page_num = q[n + 1].page_num
    BY <1>12, <2>1
  <2>3. q[n + 1].last_request # 1 /\ \A j \in 1 .. (n + 1) - 1 : q[j].last_request = 1
    BY <1>1, <1>4, <1>16
  <2> QED
    BY <1>11, <1>13, <1>14, <1>15, <2>1, <2>2, <2>3
<1>17. CASE ~(n < Len(q))
  <2>0. n = Len(q) /\ 1 \in 1 .. Len(q)
    <3>1. PICK l : l = Len(q)
      OBVIOUS
    <3>2. n \in 0 .. l /\ l \in Nat \ {0} /\ ~(n < l)
      BY <1>1, <1>4, <1>17, <3>1
    <3>3. n = l /\ 1 \in 1 .. l
      BY <3>2
    <3> QED
      BY <3>1, <3>3
  <2>1. n = Len(q) /\ from(1) = 1 /\ 1 \in 1 .. Len(q)
    BY <1>1, <2>0
  <2>2. s[1].page_num = q[1].page_num
    BY <1>12, <2>1
  <2>3. \A j \in 1 .. Len(q) : q[j].last_request = 1
    BY <1>4, <2>1
  <2> QED
    BY <1>11, <1>13, <1>14, <1>15, <2>1, <2>2, <2>3
<1> QED
  BY <1>16, <1>17

-----------------------------------------------------------------------------
(* A fault: what the records remember, and what has been fetched. *)
LEMMA RecordsNext ==
    ASSUME NEW r, NEW fs, NEW p, NEW s, NEW gs, Request(r, fs, p, s, gs),
           gs # fs, NEW q, NEW new, new.page_num = p,
           Fetched(q, r, fs), p \notin Pages(q),
           NEW q2, Records(q2) \subseteq Records(q) \cup {new}
    PROVE  /\ Fetched(q2, s, gs)
           /\ new.last_request = Len(r) + 1 /\ (\A g \in Records(q) : LastIs(g, r)) =>
                 \A g \in Records(q2) : LastIs(g, s)
           /\ new.frequency = 1 /\ (\A g \in Records(q) : CountIs(g, r, fs)) =>
                 \A g \in Records(q2) : CountIs(g, s, gs)
<1>1. /\ r \in Seq(VPage) /\ Within(fs, Len(r)) /\ s = Append(r, p) /\ p \in VPage
      /\ Len(r) \in Nat
  BY DEF Request
<1>2. gs # fs
  OBVIOUS
<1>3. /\ WasFetched(s, gs, p) /\ \A x : WasFetched(r, fs, x) => WasFetched(s, gs, x)
  <2>1. /\ gs # fs => WasFetched(s, gs, p)
        /\ \A x : WasFetched(r, fs, x) => WasFetched(s, gs, x)
    BY FetchOfNext
  <2> QED
    BY <1>2, <2>1
<1>4. \A g \in Records(q) : g.page_num \in Pages(q) /\ g.page_num # p
  BY DEF Records, Pages
<1>5. \A x \in Pages(q2) : \E g \in Records(q2) : x = g.page_num
  BY DEF Records, Pages
<1>6. Fetched(q2, s, gs)
  BY <1>3, <1>4, <1>5 DEF Fetched
<1>7. /\ UseOf(s, p) = Len(r) + 1
      /\ \A x : x # p /\ (\E i \in 1 .. Len(r) : r[i] = x) => UseOf(s, x) = UseOf(r, x)
  BY UseOfNext
<1>8. \A x : x # p /\ WasFetched(r, fs, x) => UseOf(s, x) = UseOf(r, x)
  BY <1>1, <1>7 DEF WasFetched, Within
<1>9. /\ UsesOf(s, gs, p) = 1
      /\ \A x : x # p /\ WasFetched(r, fs, x) => UsesOf(s, gs, x) = UsesOf(r, fs, x)
  <2>1. /\ gs # fs => UsesOf(s, gs, p) = 1
        /\ \A x : x # p /\ WasFetched(r, fs, x) => UsesOf(s, gs, x) = UsesOf(r, fs, x)
    BY UsesOfNext
  <2> QED
    BY <1>2, <2>1
<1>10. \A g \in Records(q) : WasFetched(r, fs, g.page_num)
  BY <1>4 DEF Fetched
<1>11. ASSUME new.last_request = Len(r) + 1, \A g \in Records(q) : LastIs(g, r),
              NEW g \in Records(q2)
       PROVE  LastIs(g, s)
  <2>1. CASE g = new
    BY <1>7, <1>11, <2>1 DEF LastIs
  <2>2. CASE g \in Records(q)
    <3>1. UseOf(s, g.page_num) = UseOf(r, g.page_num) /\ LastIs(g, r)
      BY <1>4, <1>8, <1>10, <1>11, <2>2
    <3> QED
      BY <3>1 DEF LastIs
  <2> QED
    BY <2>1, <2>2
<1>12. ASSUME new.frequency = 1, \A g \in Records(q) : CountIs(g, r, fs),
              NEW g \in Records(q2)
       PROVE  CountIs(g, s, gs)
  <2>1. CASE g = new
    BY <1>9, <1>12, <2>1 DEF CountIs
  <2>2. CASE g \in Records(q)
    <3>1. UsesOf(s, gs, g.page_num) = UsesOf(r, fs, g.page_num) /\ CountIs(g, r, fs)
      BY <1>4, <1>9, <1>10, <1>12, <2>2
    <3> QED
      BY <3>1 DEF CountIs
  <2> QED
    BY <2>1, <2>2
<1> QED
  BY <1>6, <1>11, <1>12

(* The invariant, as the lemmas on a request use it. *)
LEMMA RequestOf ==
    ASSUME PagerInv, NEW p \in VPage
    PROVE  /\ Len(requests) \in Nat /\ Time = Len(requests) + 1
           /\ Request(requests, faults, p, Append(requests, p), faults \cup {Time})
           /\ Request(requests, faults, p, Append(requests, p), faults)
<1>1. Len(requests) \in Nat
  BY DEF PagerInv
<1> QED
  BY <1>1 DEF PagerInv, Request, Time

(* FIRST_IN_FIRST_OUT *)
LEMMA FaultFirstIn ==
    ASSUME PagerInv, NEW p \in VPage, p \notin Pages(page_queue), NEW q \in Fault(p),
           algorithm = "FIRST_IN_FIRST_OUT"
    PROVE  Replaced(p, q)
<1> DEFINE new == NewPage(p, 0, 0)
           r == Append(requests, p)
           fs == faults \cup {Time}
           d == Leaving(page_queue)
<1>1. q = Append(MakeRoom(page_queue), new)
  BY DEF Fault
<1>2. new \in PageRecord /\ new.page_num = p
  BY DEF NewPage, PageRecord
<1>3. frame \in Nat \ {0} /\ FramesOK(page_queue) /\ Fetched(page_queue, requests, faults)
  BY DEF PagerInv
<1> HIDE DEF new
<1>4. /\ FramesOK(q) /\ Len(q) = Len(page_queue) - d + 1 /\ Len(page_queue) \in Nat
      /\ d \in {0, 1} /\ q[Len(q)] = new
      /\ \A k \in 1 .. Len(page_queue) - d : q[k] = page_queue[k + d] /\ k + d \in 1 .. Len(page_queue)
      /\ Records(q) \subseteq Records(page_queue) \cup {new}
      /\ Pages(q) = (Pages(page_queue) \ IF d = 1 THEN {page_queue[1].page_num} ELSE {}) \cup {p}
  <2>1. Enters(page_queue, new, q)
    BY <1>1, <1>2, <1>3 DEF Enters
  <2> QED
    BY <1>2, <1>3, <2>1, NewQueue
<1>5. Len(requests) \in Nat /\ Time = Len(requests) + 1 /\ Request(requests, faults, p, r, fs)
  BY RequestOf
<1> HIDE DEF r, fs
<1>6. fs # faults
  BY <1>5 DEF fs, PagerInv, Within
<1>7. Fetched(q, r, fs)
  BY <1>2, <1>3, <1>4, <1>5, <1>6, RecordsNext
<1>8. \A i, j \in 1 .. Len(page_queue) : i <= j =>
         FetchOf(requests, faults, page_queue[i].page_num) <= FetchOf(requests, faults, page_queue[j].page_num)
  BY DEF PagerInv, Remembers
<1>9. /\ FetchOf(r, fs, p) = Len(requests) + 1
      /\ \A x \in Pages(page_queue) : /\ FetchOf(r, fs, x) = FetchOf(requests, faults, x)
                                      /\ FetchOf(requests, faults, x) \in 1 .. Len(requests)
  BY <1>3, <1>5, <1>6, FetchOfNext DEF Fetched
<1>10. ASSUME NEW i \in 1 .. Len(q), NEW j \in 1 .. Len(q), i <= j
       PROVE  FetchOf(r, fs, q[i].page_num) <= FetchOf(r, fs, q[j].page_num)
  <2>1. d \in {0, 1}
    BY <1>4
  <2> HIDE DEF d
  <2>2. ASSUME NEW k \in 1 .. Len(page_queue) - d
        PROVE  /\ k + d \in 1 .. Len(page_queue)
               /\ FetchOf(r, fs, q[k].page_num) = FetchOf(requests, faults, page_queue[k + d].page_num)
               /\ FetchOf(r, fs, q[k].page_num) \in 1 .. Len(requests)
    <3>1. q[k] = page_queue[k + d] /\ k + d \in 1 .. Len(page_queue)
      BY <1>4
    <3>2. page_queue[k + d].page_num \in Pages(page_queue)
      BY <3>1 DEF Pages
    <3> QED
      BY <1>9, <3>1, <3>2
  <2>3. CASE j = Len(q)
    <3>1. FetchOf(r, fs, q[j].page_num) = Len(requests) + 1
      BY <1>2, <1>4, <1>9, <2>3
    <3>2. CASE i = Len(q)
      BY <1>5, <2>3, <3>1, <3>2
    <3>3. CASE i \in 1 .. Len(page_queue) - d
      BY <1>5, <2>2, <3>1, <3>3
    <3> QED
      BY <1>4, <2>1, <3>2, <3>3
  <2>4. CASE j \in 1 .. Len(page_queue) - d
    <3>1. i \in 1 .. Len(page_queue) - d /\ i + d <= j + d
      BY <1>4, <1>10, <2>1, <2>4
    <3> QED
      BY <1>8, <2>2, <2>4, <3>1
  <2> QED
    BY <1>4, <2>1, <2>3, <2>4
<1>11. Remembers(q, r, fs)
  BY <1>10 DEF Remembers
<1>12. ASSUME Len(page_queue) >= frame
       PROVE  page_queue[1].page_num \in Pages(page_queue) /\ Victim(page_queue[1].page_num)
  <2>1. 1 \in 1 .. Len(page_queue) /\ Resident = Pages(page_queue)
    BY <1>3, <1>4, <1>12 DEF Resident, Pages, FramesOK
  <2>2. ASSUME NEW x \in Resident
        PROVE  LastFetch(page_queue[1].page_num) <= LastFetch(x)
    <3>1. PICK k \in 1 .. Len(page_queue) : x = page_queue[k].page_num
      BY <2>1 DEF Pages
    <3>2. FetchOf(requests, faults, page_queue[1].page_num) <= FetchOf(requests, faults, x)
      BY <1>8, <2>1, <3>1
    <3> QED
      BY <3>2 DEF LastFetch, FetchOf
  <2> QED
    BY <2>1, <2>2 DEF Pages, Victim
<1>13. d = 1 <=> Len(page_queue) >= frame
  BY DEF Leaving
<1> QED
  BY <1>4, <1>7, <1>11, <1>12, <1>13 DEF Replaced, Gives, r, fs

(* The other algorithms first put the queue in another order. *)
LEMMA ReplacedBy ==
    ASSUME PagerInv, NEW p \in VPage, p \notin Pages(page_queue),
           NEW s, Len(s) = Len(page_queue), Pages(s) = Pages(page_queue),
           NEW new, new.page_num = p, NEW m, Enters(s, new, m),
           NEW q, FramesOK(q), Records(q) = Records(m),
           Len(s) >= frame => Victim(s[1].page_num),
           Remembers(q, Append(requests, p), faults \cup {Time})
    PROVE  Replaced(p, q)
<1> DEFINE r == Append(requests, p)
           fs == faults \cup {Time}
<1>1. frame \in Nat \ {0} /\ Fetched(page_queue, requests, faults)
  BY DEF PagerInv
<1>2. /\ Leaving(s) \in {0, 1} /\ (Leaving(s) = 1 => 1 \in 1 .. Len(s))
      /\ Records(m) \subseteq Records(s) \cup {new}
      /\ Pages(m) = (Pages(s) \ IF Leaving(s) = 1 THEN {s[1].page_num} ELSE {}) \cup {new.page_num}
  BY <1>1, NewQueue
<1>3. Pages(q) = Pages(m)
  <2>1. Pages(q) = {g.page_num : g \in Records(q)} /\ Pages(m) = {g.page_num : g \in Records(m)}
    BY DEF Pages, Records
  <2> QED
    BY <2>1
<1>4. Len(requests) \in Nat /\ Time = Len(requests) + 1 /\ Request(requests, faults, p, r, fs)
  BY RequestOf
<1>5. fs # faults
  <2>1. Within(faults, Len(requests))
    BY DEF PagerInv
  <2>2. Time \notin faults
    <3> HIDE DEF r, fs
    <3> QED  BY <1>4, <2>1 DEF Within
  <2> QED
    BY <2>2
<1>6. Fetched(s, requests, faults) /\ p \notin Pages(s)
  BY <1>1 DEF Fetched
<1>7. Fetched(q, r, fs)
  <2> HIDE DEF r, fs
  <2>1. Records(q) \subseteq Records(s) \cup {new}
    BY <1>2
  <2> QED
    BY <1>4, <1>5, <1>6, <2>1, RecordsNext
<1>8. Leaving(s) = 1 <=> Len(s) >= frame
  BY DEF Leaving
<1>9. Len(s) >= frame => s[1].page_num \in Pages(page_queue)
  BY <1>2, <1>8 DEF Pages
<1> QED
  BY <1>2, <1>3, <1>7, <1>8, <1>9 DEF Replaced, Gives

(* LEAST_RECENTLY_USED *)
LEMMA FaultRecent ==
    ASSUME PagerInv, NEW p \in VPage, p \notin Pages(page_queue), NEW q \in Fault(p),
           algorithm = "LEAST_RECENTLY_USED"
    PROVE  Replaced(p, q)
<1> DEFINE new == NewPage(p, Time, 0)
           r == Append(requests, p)
           fs == faults \cup {Time}
<1>1. PICK s \in QueueSort(page_queue, recent_comparator) : q = Append(MakeRoom(s), new)
  BY DEF Fault
<1>2. Len(requests) \in Nat /\ Time = Len(requests) + 1 /\ Request(requests, faults, p, r, fs)
  BY RequestOf
<1>3. new \in PageRecord /\ new.page_num = p /\ new.last_request = Len(requests) + 1
  BY <1>2 DEF NewPage, PageRecord
<1>4. /\ frame \in Nat \ {0} /\ FramesOK(page_queue) /\ Fetched(page_queue, requests, faults)
      /\ \A g \in Records(page_queue) : LastIs(g, requests)
  BY DEF PagerInv, Remembers
<1>5. /\ s \in [DOMAIN page_queue -> {page_queue[k] : k \in DOMAIN page_queue}]
      /\ \A k \in DOMAIN page_queue : \E j \in DOMAIN page_queue : s[j] = page_queue[k]
      /\ \A k \in 2 .. Len(page_queue) : s[k - 1].last_request - s[k].last_request <= 0
  BY <1>1 DEF QueueSort, recent_comparator
<1>6. /\ FramesOK(s) /\ Len(s) = Len(page_queue) /\ Records(s) = Records(page_queue)
      /\ Pages(s) = Pages(page_queue)
  BY <1>4, <1>5, Shuffled
<1> HIDE DEF new, r, fs
<1>7. Enters(s, new, q)
  BY <1>1, <1>3, <1>6 DEF Enters
<1>8. FramesOK(q) /\ Records(q) \subseteq Records(page_queue) \cup {new}
  BY <1>4, <1>6, <1>7, NewQueue
<1>9. fs # faults
  BY <1>2 DEF PagerInv, Within, fs
<1>10. \A g \in Records(q) : LastIs(g, r)
  BY <1>2, <1>3, <1>4, <1>8, <1>9, RecordsNext
<1>11. Remembers(q, r, fs)
  BY <1>10 DEF Remembers
<1>12. ASSUME Len(s) >= frame
       PROVE  Victim(s[1].page_num)
  <2>1. /\ Len(s) \in Nat /\ 1 \in 1 .. Len(s) /\ s \in Seq(PageRecord)
        /\ DOMAIN page_queue = 1 .. Len(s)
    BY <1>4, <1>6, <1>12 DEF FramesOK
  <2>2. Resident = Pages(s)
    BY <1>6, <2>1 DEF Resident, Pages
  <2>3. PICK f : f = [k \in 1 .. Len(s) |-> s[k].last_request]
    OBVIOUS
  <2>4. \A k \in 1 .. Len(s) : f[k] = s[k].last_request /\ f[k] \in Nat
    <3>1. \A k \in 1 .. Len(s) : s[k] \in PageRecord
      BY <2>1
    <3>2. \A k \in 1 .. Len(s) : s[k].last_request \in Nat
      BY <3>1 DEF PageRecord
    <3> QED
      BY <2>3, <3>2
  <2>5. \A k \in 2 .. Len(s) : f[k - 1] <= f[k]
    <3> TAKE k \in 2 .. Len(s)
    <3>1. k - 1 \in 1 .. Len(s) /\ k \in 1 .. Len(s)
      BY <2>1
    <3>2. f[k - 1] - f[k] <= 0
      BY <1>5, <1>6, <2>4, <3>1
    <3> QED
      BY <2>4, <3>1, <3>2
  <2>6. \A k \in 1 .. Len(s) : f[1] <= f[k]
    BY <2>1, <2>4, <2>5, FirstLeast
  <2>7. \A k \in 1 .. Len(s) : s[k].last_request = LastUse(s[k].page_num)
    BY <1>4, <1>6 DEF Records, LastIs, UseOf, LastUse
  <2>8. ASSUME NEW x \in Resident
        PROVE  LastUse(s[1].page_num) <= LastUse(x)
    <3>1. PICK k \in 1 .. Len(s) : x = s[k].page_num
      BY <2>2 DEF Pages
    <3> QED
      BY <2>1, <2>4, <2>6, <2>7, <3>1
  <2> QED
    BY <2>8 DEF Victim
<1> QED
  BY <1>3, <1>6, <1>7, <1>8, <1>11, <1>12, ReplacedBy DEF r, fs

(* LEAST_FREQUENTLY_USED *)
LEMMA FaultFrequent ==
    ASSUME PagerInv, NEW p \in VPage, p \notin Pages(page_queue), NEW q \in Fault(p),
           algorithm = "LEAST_FREQUENTLY_USED"
    PROVE  Replaced(p, q)
<1> DEFINE new == NewPage(p, Time, 1)
           r == Append(requests, p)
           fs == faults \cup {Time}
<1>1. PICK s \in QueueSort(page_queue, freq_comparator) :
         q \in QueueSort(Append(MakeRoom(s), new), freq_comparator)
  BY DEF Fault
<1>2. Len(requests) \in Nat /\ Time = Len(requests) + 1 /\ Request(requests, faults, p, r, fs)
  BY RequestOf
<1>3. new \in PageRecord /\ new.page_num = p /\ new.frequency = 1
  BY <1>2 DEF NewPage, PageRecord
<1>4. /\ frame \in Nat \ {0} /\ FramesOK(page_queue) /\ Fetched(page_queue, requests, faults)
      /\ \A g \in Records(page_queue) : CountIs(g, requests, faults)
  BY DEF PagerInv, Remembers
<1>5. /\ s \in [DOMAIN page_queue -> {page_queue[k] : k \in DOMAIN page_queue}]
      /\ \A k \in DOMAIN page_queue : \E j \in DOMAIN page_queue : s[j] = page_queue[k]
      /\ \A k \in 2 .. Len(page_queue) : freq_comparator(s[k - 1], s[k]) <= 0
  BY <1>1 DEF QueueSort
<1>6. /\ FramesOK(s) /\ Len(s) = Len(page_queue) /\ Records(s) = Records(page_queue)
      /\ Pages(s) = Pages(page_queue)
  BY <1>4, <1>5, Shuffled
<1> HIDE DEF new, r, fs
<1>7. PICK m : m = Append(MakeRoom(s), new)
  OBVIOUS
<1>8. Enters(s, new, m)
  BY <1>3, <1>6, <1>7 DEF Enters
<1>9. FramesOK(m) /\ Records(m) \subseteq Records(page_queue) \cup {new}
  BY <1>4, <1>6, <1>8, NewQueue
<1>10. /\ q \in [DOMAIN m -> {m[k] : k \in DOMAIN m}]
       /\ \A k \in DOMAIN m : \E j \in DOMAIN m : q[j] = m[k]
  <2>1. q \in QueueSort(m, freq_comparator)
    BY <1>1, <1>7
  <2> QED
    BY <2>1 DEF QueueSort
<1>11. FramesOK(q) /\ Records(q) = Records(m)
  BY <1>9, <1>10, Shuffled
<1>12. fs # faults
  BY <1>2 DEF PagerInv, Within, fs
<1>13. \A g \in Records(q) : CountIs(g, r, fs)
  BY <1>2, <1>3, <1>4, <1>9, <1>11, <1>12, RecordsNext
<1>14. Remembers(q, r, fs)
  BY <1>13 DEF Remembers
<1>15. ASSUME Len(s) >= frame
       PROVE  Victim(s[1].page_num)
  <2>1. /\ Len(s) \in Nat /\ 1 \in 1 .. Len(s) /\ s \in Seq(PageRecord)
        /\ DOMAIN page_queue = 1 .. Len(s)
    BY <1>4, <1>6, <1>15 DEF FramesOK
  <2>2. Resident = Pages(s)
    BY <1>6, <2>1 DEF Resident, Pages
  <2>3. PICK f : f = [k \in 1 .. Len(s) |-> s[k].frequency]
    OBVIOUS
  <2>4. \A k \in 1 .. Len(s) : f[k] = s[k].frequency /\ f[k] \in Nat
    <3>1. \A k \in 1 .. Len(s) : s[k] \in PageRecord
      BY <2>1
    <3>2. \A k \in 1 .. Len(s) : s[k].frequency \in Nat
      BY <3>1 DEF PageRecord
    <3> QED
      BY <2>3, <3>2
  <2>5. \A k \in 2 .. Len(s) : f[k - 1] <= f[k]
    <3> TAKE k \in 2 .. Len(s)
    <3>1. k - 1 \in 1 .. Len(s) /\ k \in 1 .. Len(s)
      BY <2>1
    <3>2. s[k - 1].frequency = s[k].frequency \/ s[k - 1].frequency - s[k].frequency <= 0
      BY <1>5, <1>6 DEF freq_comparator
    <3> QED
      BY <2>4, <3>1, <3>2
  <2>6. \A k \in 1 .. Len(s) : f[1] <= f[k]
    BY <2>1, <2>4, <2>5, FirstLeast
  <2>7. \A k \in 1 .. Len(s) : s[k].frequency = Uses(s[k].page_num)
    BY <1>4, <1>6 DEF Records, CountIs, UsesOf, FetchOf, Uses, LastFetch
  <2>8. ASSUME NEW x \in Resident
        PROVE  Uses(s[1].page_num) <= Uses(x)
    <3>1. PICK k \in 1 .. Len(s) : x = s[k].page_num
      BY <2>2 DEF Pages
    <3> QED
      BY <2>1, <2>4, <2>6, <2>7, <3>1
  <2> QED
    BY <2>8 DEF Victim
<1> QED
  BY <1>3, <1>6, <1>8, <1>11, <1>14, <1>15, ReplacedBy DEF r, fs

(* SECOND_CHANCE and CIRCULAR_QUEUE *)
LEMMA FaultClock ==
    ASSUME PagerInv, NEW p \in VPage, p \notin Pages(page_queue), NEW q \in Fault(p),
           algorithm \in {"SECOND_CHANCE", "CIRCULAR_QUEUE"}
    PROVE  Replaced(p, q)
<1>1. PICK b \in {0, 1} : q = Append(Rotate(page_queue), NewPage(p, b, 0))
  BY DEF Fault
<1> DEFINE new == NewPage(p, b, 0)
<1>2. new \in PageRecord /\ new.page_num = p
  BY DEF NewPage, PageRecord
<1>3. /\ frame \in Nat \ {0} /\ FramesOK(page_queue)
      /\ page_queue \in Seq(PageRecord) /\ Len(page_queue) \in Nat
      /\ DOMAIN page_queue = 1 .. Len(page_queue)
  BY DEF PagerInv, FramesOK
<1> HIDE DEF new
<1>4. PICK s : /\ FramesOK(s) /\ Len(s) = Len(page_queue) /\ Pages(s) = Pages(page_queue)
               /\ Rotate(page_queue) = MakeRoom(s)
               /\ Len(page_queue) >= frame =>
                     \E k \in 1 .. Len(page_queue) :
                        /\ s[1].page_num = page_queue[k].page_num
                        /\ \/ /\ page_queue[k].last_request # 1
                              /\ \A j \in 1 .. k - 1 : page_queue[j].last_request = 1
                           \/ /\ k = 1
                              /\ \A j \in 1 .. Len(page_queue) : page_queue[j].last_request = 1
  <2>1. CASE Len(page_queue) >= frame
    BY <1>3, <2>1, Rotated
  <2>2. CASE ~(Len(page_queue) >= frame)
    <3>1. Rotate(page_queue) = page_queue /\ MakeRoom(page_queue) = page_queue
      <4>1. Len(page_queue) < frame
        BY <1>3, <2>2
      <4>2. Rotate(page_queue) = page_queue
        BY <4>1, Zenon DEF Rotate
      <4> QED
        BY <2>2, <4>2, Zenon DEF MakeRoom
    <3> QED
      BY <1>3, <2>2, <3>1
  <2> QED
    BY <2>1, <2>2
<1>5. Enters(s, new, q)
  BY <1>1, <1>2, <1>4 DEF Enters, new
<1>6. FramesOK(q)
  BY <1>3, <1>5, NewQueue
<1>7. Remembers(q, Append(requests, p), faults \cup {Time})
  BY DEF Remembers
<1>8. Resident = Pages(page_queue)
  BY <1>3 DEF Resident, Pages
<1>9. ASSUME NEW k \in 1 .. Len(page_queue)
      PROVE  /\ FindPage(page_queue[k].page_num) = {k}
             /\ Marked(page_queue[k].page_num) <=> page_queue[k].last_request = 1
  <2>1. FindPage(page_queue[k].page_num) = {k}
    BY <1>3 DEF FindPage, FramesOK
  <2> QED
    BY <2>1 DEF Marked
<1>10. ASSUME Len(s) >= frame
       PROVE  Victim(s[1].page_num)
  <2>1. PICK k \in 1 .. Len(page_queue) :
           /\ s[1].page_num = page_queue[k].page_num
           /\ \/ /\ page_queue[k].last_request # 1
                 /\ \A j \in 1 .. k - 1 : page_queue[j].last_request = 1
              \/ /\ k = 1
                 /\ \A j \in 1 .. Len(page_queue) : page_queue[j].last_request = 1
    BY <1>4, <1>10
  <2>2. ASSUME NEW x \in Resident
        PROVE  /\ Marked(s[1].page_num) => Marked(x)
               /\ (Marked(x) = Marked(s[1].page_num)) =>
                     \E i \in FindPage(s[1].page_num), j \in FindPage(x) : i <= j
    <3>1. PICK j \in 1 .. Len(page_queue) : x = page_queue[j].page_num
      BY <1>8 DEF Pages
    <3>2. /\ FindPage(s[1].page_num) = {k} /\ FindPage(x) = {j}
          /\ Marked(s[1].page_num) <=> page_queue[k].last_request = 1
          /\ Marked(x) <=> page_queue[j].last_request = 1
      BY <1>9, <2>1, <3>1
    <3>3. Marked(s[1].page_num) => Marked(x)
      BY <2>1, <3>2
    <3>4. (Marked(x) <=> Marked(s[1].page_num)) => k <= j
      <4>1. j < k => j \in 1 .. k - 1
        BY <1>3
      <4>2. (page_queue[j].last_request = 1 <=> page_queue[k].last_request = 1) => ~(j < k)
        BY <1>3, <2>1, <4>1
      <4> QED
        BY <1>3, <3>2, <4>2
    <3> QED
      BY <3>2, <3>3, <3>4
  <2> QED
    BY <2>2 DEF Victim
<1> QED
  BY <1>2, <1>4, <1>5, <1>6, <1>7, <1>10, ReplacedBy

(* A request for a page in memory marks its record and moves no page. *)
LEMMA HitKeeps ==
    ASSUME PagerInv, NEW p \in VPage, NEW k \in FindPage(p),
           NEW q, q = [page_queue EXCEPT ![k] = Hit(@)]
    PROVE  /\ p \in Pages(page_queue) /\ Pages(q) = Pages(page_queue) /\ FramesOK(q)
           /\ Fetched(q, Append(requests, p), faults)
           /\ Remembers(q, Append(requests, p), faults)
<1> DEFINE r == Append(requests, p)
<1>1. /\ FramesOK(page_queue) /\ Fetched(page_queue, requests, faults)
      /\ page_queue \in Seq(PageRecord) /\ Len(page_queue) \in Nat
      /\ DOMAIN page_queue = 1 .. Len(page_queue)
      /\ \A j \in 1 .. Len(page_queue) : page_queue[j] \in PageRecord
  BY DEF PagerInv, FramesOK
<1>2. k \in 1 .. Len(page_queue) /\ page_queue[k].page_num = p /\ page_queue[k] \in PageRecord
  BY <1>1 DEF FindPage
<1>3. Len(requests) \in Nat /\ Time = Len(requests) + 1 /\ Request(requests, faults, p, r, faults)
  BY RequestOf
<1> HIDE DEF r
<1>4. PICK h : h = Hit(page_queue[k])
  OBVIOUS
<1>5. /\ h \in PageRecord /\ h.page_num = p
      /\ algorithm = "LEAST_RECENTLY_USED" => h.last_request = Len(requests) + 1
      /\ algorithm = "LEAST_FREQUENTLY_USED" => h.frequency = page_queue[k].frequency + 1
  <2>1. CASE algorithm = "FIRST_IN_FIRST_OUT"
    BY <1>2, <1>4, <2>1 DEF Hit
  <2>2. CASE algorithm = "LEAST_RECENTLY_USED"
    <3>1. h = [page_queue[k] EXCEPT !.last_request = Time]
      BY <1>4, <2>2 DEF Hit
    <3> QED
      BY <1>2, <1>3, <2>2, <3>1 DEF PageRecord
  <2>3. CASE algorithm = "LEAST_FREQUENTLY_USED"
    <3>1. h = [page_queue[k] EXCEPT !.frequency = @ + 1, !.last_request = Time]
      BY <1>4, <2>3 DEF Hit
    <3>2. PICK g : g = [page_queue[k] EXCEPT !.frequency = @ + 1]
      OBVIOUS
    <3>3. g \in PageRecord /\ g.page_num = p /\ g.frequency = page_queue[k].frequency + 1
      BY <1>2, <3>2 DEF PageRecord
    <3>4. h = [g EXCEPT !.last_request = Time]
      BY <3>1, <3>2
    <3>5. h \in PageRecord /\ h.page_num = p /\ h.frequency = page_queue[k].frequency + 1
      BY <1>3, <3>3, <3>4 DEF PageRecord
    <3> QED
      BY <2>3, <3>5
  <2>4. CASE algorithm \notin {"FIRST_IN_FIRST_OUT", "LEAST_RECENTLY_USED", "LEAST_FREQUENTLY_USED"}
    <3>1. h = [page_queue[k] EXCEPT !.last_request = 1]
      BY <1>4, <2>4 DEF Hit
    <3> QED
      BY <1>2, <2>4, <3>1 DEF PageRecord
  <2> QED
    BY <2>1, <2>2, <2>3, <2>4
<1>6. /\ q = [page_queue EXCEPT ![k] = h]
      /\ q[k] = h /\ \A j \in 1 .. Len(page_queue) : j # k => q[j] = page_queue[j]
  BY <1>1, <1>2, <1>4
<1>7. q \in Seq(PageRecord) /\ Len(q) = Len(page_queue)
  BY <1>1, <1>2, <1>5, <1>6
<1>8. \A j \in 1 .. Len(page_queue) : q[j].page_num = page_queue[j].page_num
  BY <1>2, <1>5, <1>6
<1>9. Pages(q) = Pages(page_queue) /\ p \in Pages(page_queue)
  BY <1>2, <1>7, <1>8 DEF Pages
<1>10. FramesOK(q)
  BY <1>1, <1>7, <1>8 DEF FramesOK
<1>11. \A x \in Pages(page_queue) : WasFetched(requests, faults, x)
  BY <1>1 DEF Fetched
<1>12. /\ \A x \in Pages(page_queue) : WasFetched(r, faults, x)
       /\ \A x \in Pages(page_queue) : FetchOf(r, faults, x) = FetchOf(requests, faults, x)
  BY <1>3, <1>11, FetchOfNext
<1>13. Fetched(q, r, faults)
  BY <1>9, <1>12 DEF Fetched
<1>14. ASSUME algorithm = "FIRST_IN_FIRST_OUT",
              NEW i \in 1 .. Len(q), NEW j \in 1 .. Len(q), i <= j
       PROVE  FetchOf(r, faults, q[i].page_num) <= FetchOf(r, faults, q[j].page_num)
  <2>1. FetchOf(requests, faults, page_queue[i].page_num)
          <= FetchOf(requests, faults, page_queue[j].page_num)
    BY <1>7, <1>14 DEF PagerInv, Remembers
  <2>2. page_queue[i].page_num \in Pages(page_queue) /\ page_queue[j].page_num \in Pages(page_queue)
    BY <1>7 DEF Pages
  <2> QED
    BY <1>7, <1>8, <1>12, <2>1, <2>2
<1>15. \A g \in Records(q) : g = h \/ (g \in Records(page_queue) /\ g.page_num # p)
  <2> TAKE g \in Records(q)
  <2>1. PICK j \in 1 .. Len(page_queue) : g = q[j]
    BY <1>7 DEF Records
  <2>2. CASE j = k
    BY <1>6, <2>1, <2>2
  <2>3. CASE j # k
    <3>1. g = page_queue[j] /\ page_queue[j].page_num # p
      BY <1>1, <1>2, <1>6, <2>1, <2>3 DEF FramesOK
    <3> QED
      BY <3>1 DEF Records
  <2> QED
    BY <2>2, <2>3
<1>16. \A g \in Records(page_queue) : WasFetched(requests, faults, g.page_num)
  <2>1. \A g \in Records(page_queue) : g.page_num \in Pages(page_queue)
    BY DEF Records, Pages
  <2> QED
    BY <1>11, <2>1
<1>17. /\ UseOf(r, p) = Len(requests) + 1
       /\ \A x : x # p /\ WasFetched(requests, faults, x) => UseOf(r, x) = UseOf(requests, x)
  <2>1. /\ UseOf(r, p) = Len(requests) + 1
        /\ \A x : x # p /\ (\E i \in 1 .. Len(requests) : requests[i] = x) =>
              UseOf(r, x) = UseOf(requests, x)
    BY <1>3, UseOfNext
  <2> QED
    BY <2>1 DEF WasFetched, PagerInv, Within
<1>18. ASSUME algorithm = "LEAST_RECENTLY_USED", NEW g \in Records(q)
       PROVE  LastIs(g, r)
  <2>1. CASE g = h
    BY <1>5, <1>17, <1>18, <2>1 DEF LastIs
  <2>2. CASE g \in Records(page_queue) /\ g.page_num # p
    <3>1. LastIs(g, requests)
      BY <1>18, <2>2 DEF PagerInv, Remembers
    <3> QED
      BY <1>16, <1>17, <2>2, <3>1 DEF LastIs
  <2> QED
    BY <1>15, <2>1, <2>2
<1>19. /\ UsesOf(r, faults, p) = UsesOf(requests, faults, p) + 1
       /\ \A x : x # p /\ WasFetched(requests, faults, x) =>
             UsesOf(r, faults, x) = UsesOf(requests, faults, x)
  BY <1>3, <1>9, <1>11, UsesOfNext
<1>20. ASSUME algorithm = "LEAST_FREQUENTLY_USED", NEW g \in Records(q)
       PROVE  CountIs(g, r, faults)
  <2>1. CASE g = h
    <3>1. page_queue[k] \in Records(page_queue)
      BY <1>2 DEF Records
    <3>2. CountIs(page_queue[k], requests, faults)
      BY <1>20, <3>1 DEF PagerInv, Remembers
    <3> QED
      BY <1>2, <1>5, <1>19, <1>20, <2>1, <3>2 DEF CountIs
  <2>2. CASE g \in Records(page_queue) /\ g.page_num # p
    <3>1. CountIs(g, requests, faults)
      BY <1>20, <2>2 DEF PagerInv, Remembers
    <3> QED
      BY <1>16, <1>19, <2>2, <3>1 DEF CountIs
  <2> QED
    BY <1>15, <2>1, <2>2
<1>21. Remembers(q, r, faults)
  BY <1>14, <1>18, <1>20 DEF Remembers
<1> QED
  BY <1>9, <1>10, <1>13, <1>21 DEF r

-----------------------------------------------------------------------------
(* pager_init() *)
LEMMA InitPager ==
    ASSUME NEW a \in PagerAlgorithms, NEW n \in FrameCounts, PagerInit(a, n)
    PROVE  PagerInv
<1>1. /\ algorithm \in PagerAlgorithms /\ frame \in Nat \ {0} /\ page_queue = <<>>
      /\ requests = <<>> /\ faults = {}
  BY PagerAssumption DEF PagerInit
<1>2. Records(page_queue) = {} /\ Pages(page_queue) = {} /\ FramesOK(page_queue)
  BY <1>1 DEF Records, Pages, FramesOK
<1>3. requests \in Seq(VPage) /\ Within(faults, Len(requests))
  BY <1>1 DEF Within
<1>4. Fetched(page_queue, requests, faults) /\ Remembers(page_queue, requests, faults)
  BY <1>1, <1>2 DEF Fetched, Remembers
<1> QED
  BY <1>1, <1>2, <1>3, <1>4 DEF PagerInv

(* what a request does to the pages in memory, with the page it takes out *)
Served(p) ==
    /\ requests' = Append(requests, p) /\ p \in VPage
    /\ UNCHANGED <<algorithm, frame>>
    /\ FramesOK(page_queue)' /\ faults' \in {faults, faults \cup {Time}}
    /\ Fetched(page_queue, requests, faults)'
    /\ Remembers(page_queue, requests, faults)'
    /\ \/ p \in Pages(page_queue) /\ Pages(page_queue') = Pages(page_queue)
       \/ p \notin Pages(page_queue) /\ Gives(p, Pages(page_queue'))

(* pager_request() *)
LEMMA RequestServed ==
    ASSUME PagerInv, NEW p \in VPage, pager_request(p)
    PROVE  Served(p)
<1>1. requests' = Append(requests, p) /\ algorithm' = algorithm /\ frame' = frame
  BY DEF pager_request
<1>2. p \in Pages(page_queue) <=> FindPage(p) # {}
  <2>1. DOMAIN page_queue = 1 .. Len(page_queue)
    BY DEF PagerInv, FramesOK
  <2> QED
    BY <2>1 DEF Pages, FindPage
<1>3. CASE FindPage(p) = {} /\ page_queue' \in Fault(p) /\ faults' = faults \cup {Time}
  <2>1. p \notin Pages(page_queue)
    BY <1>2, <1>3
  <2>2. algorithm \in PagerAlgorithms
    BY DEF PagerInv
  <2>3. PICK q : q = page_queue'
    OBVIOUS
  <2>4. q \in Fault(p)
    BY <1>3, <2>3
  <2>5. Replaced(p, q)
    BY <2>1, <2>2, <2>4, FaultFirstIn, FaultRecent, FaultFrequent, FaultClock DEF PagerAlgorithms
  <2>6. FramesOK(page_queue)' /\ Fetched(page_queue, requests, faults)'
    BY <1>1, <1>3, <2>3, <2>5 DEF Replaced, FramesOK, Fetched
  <2>7. Remembers(page_queue, requests, faults)'
    <3>1. /\ Remembers(q, Append(requests, p), faults \cup {Time})
          /\ algorithm' = algorithm /\ requests' = Append(requests, p)
          /\ faults' = faults \cup {Time} /\ page_queue' = q
      BY <1>1, <1>3, <2>3, <2>5 DEF Replaced
    <3> QED
      BY <3>1 DEF Remembers
  <2>8. Gives(p, Pages(page_queue'))
    BY <2>3, <2>5 DEF Replaced
  <2> QED
    BY <1>1, <1>3, <2>1, <2>6, <2>7, <2>8 DEF Served
<1>4. CASE \E k \in FindPage(p) : /\ page_queue' = [page_queue EXCEPT ![k] = Hit(@)]
                                  /\ UNCHANGED faults
  <2>1. PICK k \in FindPage(p) : page_queue' = [page_queue EXCEPT ![k] = Hit(@)] /\ faults' = faults
    BY <1>4
  <2>2. PICK q : q = page_queue'
    OBVIOUS
  <2>3. /\ p \in Pages(page_queue) /\ Pages(q) = Pages(page_queue) /\ FramesOK(q)
        /\ Fetched(q, Append(requests, p), faults)
        /\ Remembers(q, Append(requests, p), faults)
    BY <2>1, <2>2, HitKeeps
  <2>4. FramesOK(page_queue)' /\ Fetched(page_queue, requests, faults)'
    BY <1>1, <2>1, <2>2, <2>3 DEF FramesOK, Fetched
  <2>5. Remembers(page_queue, requests, faults)'
    BY <1>1, <2>1, <2>2, <2>3 DEF Remembers
  <2> QED
    BY <1>1, <2>1, <2>2, <2>3, <2>4, <2>5 DEF Served
<1> QED
  BY <1>3, <1>4 DEF pager_request

(* The invariant and the policy of one request. *)
LEMMA ServedKeeps ==
    ASSUME PagerInv, NEW p, Served(p)
    PROVE  PagerInv'
<1>1. /\ requests \in Seq(VPage) /\ Within(faults, Len(requests)) /\ Len(requests) \in Nat
      /\ Time = Len(requests) + 1
  BY DEF PagerInv, Time
<1>2. /\ requests' \in Seq(VPage) /\ Len(requests') = Len(requests) + 1
      /\ faults' \in {faults, faults \cup {Len(requests) + 1}}
  BY <1>1 DEF Served
<1>3. Within(faults', Len(requests'))
  BY <1>1, <1>2 DEF Within
<1>4. Within(faults, Len(requests))'
  BY <1>3 DEF Within
<1> QED
  BY <1>2, <1>4 DEF PagerInv, Served

(* the policy of one request, as VictimByPolicy states it *)
LEMMA ServedByPolicy ==
    ASSUME PagerInv, NEW p, Served(p), PagerInv'
    PROVE  LET x == requests'[Len(requests')]
               gone == Resident \ Resident'
           IN /\ x \in Resident'
              /\ Resident' = (Resident \ gone) \cup {x}
              /\ Len(page_queue') = Cardinality(Resident')
              /\ Cardinality(gone) = IF x \in Resident \/ Cardinality(Resident) < frame
                                     THEN 0 ELSE 1
              /\ \A v \in gone : Victim(v)
<1>1. Len(requests) \in Nat /\ requests'[Len(requests')] = p
  <2>1. requests \in Seq(VPage) /\ p \in VPage /\ requests' = Append(requests, p)
    BY DEF PagerInv, Served
  <2> QED
    BY <2>1
<1>2. PICK A, B : A = Resident /\ B = Resident'
  OBVIOUS
<1>3. /\ A = Pages(page_queue) /\ DOMAIN page_queue = 1 .. Len(page_queue)
      /\ FramesOK(page_queue) /\ Len(page_queue) \in Nat /\ frame \in Nat
  <2>1. FramesOK(page_queue) /\ frame \in Nat
    BY DEF PagerInv
  <2>2. DOMAIN page_queue = 1 .. Len(page_queue) /\ Len(page_queue) \in Nat
    BY <2>1 DEF FramesOK
  <2> QED
    BY <1>2, <2>1, <2>2 DEF Resident, Pages
<1>4. B = Pages(page_queue') /\ FramesOK(page_queue)'
  <2>1. FramesOK(page_queue)'
    BY DEF PagerInv
  <2>2. DOMAIN page_queue' = 1 .. Len(page_queue')
    BY <2>1 DEF FramesOK
  <2> QED
    BY <1>2, <2>1, <2>2 DEF Resident, Pages
<1>5. Cardinality(A) = Len(page_queue)
  BY <1>3, PagesCount
<1>6. Cardinality(B) = Len(page_queue')
  <2>1. PICK q : q = page_queue'
    OBVIOUS
  <2>2. PICK n : n = frame'
    OBVIOUS
  <2>3. FramesOK(q)
    BY <1>4, <2>1 DEF FramesOK, Served
  <2> QED
    BY <1>4, <2>1, <2>3, PagesCount
<1>7. p \in B /\ B = (A \ (A \ B)) \cup {p}
  BY <1>3, <1>4 DEF Served, Gives
<1>8. CASE p \in A \/ Len(page_queue) < frame
  <2>1. A \ B = {}
    BY <1>3, <1>4, <1>8 DEF Served, Gives
  <2> QED
    BY <1>1, <1>2, <1>5, <1>6, <1>7, <1>8, <2>1, FS_EmptySet
<1>9. CASE ~(p \in A \/ Len(page_queue) < frame)
  <2>1. PICK v : v \in A /\ Victim(v) /\ B = (A \ {v}) \cup {p}
    BY <1>3, <1>4, <1>9 DEF Served, Gives
  <2>2. A \ B = {v}
    BY <1>9, <2>1
  <2>3. Cardinality(A \ B) = 1
    BY <2>2, FS_Singleton
  <2> QED
    BY <1>1, <1>2, <1>5, <1>6, <1>7, <1>9, <2>1, <2>2, <2>3
<1> QED
  BY <1>8, <1>9

(* A page fault takes out a page only when no frame is free, and then the  *)
(* one that pager_request() of Assignment5/pager.c should pick: the oldest *)
(* fetched, the least recently used, the one used least often since its    *)
(* own last fetch (not over the whole history), or the first unmarked one. *)
THEOREM PagerByPolicy == PagerSpec => VictimByPolicy
<1>1. (\E a \in PagerAlgorithms, n \in FrameCounts : PagerInit(a, n)) => PagerInv
  BY InitPager
<1>2. PagerInv /\ [PagerNext]_pagerVars => PagerInv'
  <2> SUFFICES ASSUME PagerInv, [PagerNext]_pagerVars PROVE PagerInv'
    OBVIOUS
  <2>1. CASE PagerNext
    BY <2>1, RequestServed, ServedKeeps DEF PagerNext
  <2>2. CASE UNCHANGED pagerVars
    BY <2>2 DEF pagerVars, PagerInv, FramesOK, Within, Fetched, Remembers
  <2> QED
    BY <2>1, <2>2
<1>3. PagerInv /\ PagerInv' /\ [PagerNext]_pagerVars =>
         [requests' # requests =>
            LET p == requests'[Len(requests')]
                gone == Resident \ Resident'
            IN /\ p \in Resident'
               /\ Resident' = (Resident \ gone) \cup {p}
               /\ Len(page_queue') = Cardinality(Resident')
               /\ Cardinality(gone) = IF p \in Resident \/ Cardinality(Resident) < frame
                                      THEN 0 ELSE 1
               /\ \A v \in gone, q \in Resident :
                     CASE algorithm = "FIRST_IN_FIRST_OUT" -> LastFetch(v) <= LastFetch(q)
                       [] algorithm = "LEAST_RECENTLY_USED" -> LastUse(v) <= LastUse(q)
                       [] algorithm = "LEAST_FREQUENTLY_USED" -> Uses(v) <= Uses(q)
                       [] OTHER -> /\ Marked(v) => Marked(q)
                                   /\ (Marked(q) = Marked(v)) =>
                                         \E i \in FindPage(v), j \in FindPage(q) : i <= j
         ]_pagerVars
  <2> SUFFICES ASSUME PagerInv, PagerInv', PagerNext, requests' # requests
               PROVE LET x == requests'[Len(requests')]
                         gone == Resident \ Resident'
                     IN /\ x \in Resident'
                        /\ Resident' = (Resident \ gone) \cup {x}
                        /\ Len(page_queue') = Cardinality(Resident')
                        /\ Cardinality(gone) = IF x \in Resident \/ Cardinality(Resident) < frame
                                               THEN 0 ELSE 1
                        /\ \A v \in gone : Victim(v)
    BY DEF pagerVars, Victim
  <2>1. PICK p \in VPage : Served(p)
    BY RequestServed DEF PagerNext
  <2> QED
    BY <2>1, ServedByPolicy
<1> QED
  BY <1>1, <1>2, <1>3, PTL DEF PagerSpec, VictimByPolicy

-----------------------------------------------------------------------------
(***************************************************************************)
(* The file manager.                                                       *)
(***************************************************************************)

FileSpec ==
    /\ \E tree \in Trees : \E paths \in Openings(tree) : FilemanInit(tree, paths)
    /\ [][FileCall \/ View]_filemanVars

(* a file that exists holds bytes *)
FilesType ==
    /\ files \in [FName -> Seq(Nat) \cup {Absent}]
    /\ leaked \in Nat /\ calls \in Nat

(* what a call may do to the files: it only extends its own, if it did not *)
(* mistake the failure of another call, and leaves the others as they are  *)
Extended(call, fs) ==
    \A f \in FName : Exists(f) /\ ~(call.mishap # "none" /\ call.file = f) =>
       /\ Len(fs[f]) >= Len(files[f])
       /\ Prefix(fs[f], Len(files[f])) = files[f]

Others(call, fs) == \A f \in FName : f # call.file => fs[f] = files[f]

Safe(call, fs) ==
    /\ fs \in [FName -> Seq(Nat) \cup {Absent}]
    /\ Extended(call, fs) /\ Others(call, fs)

(* Absent is no content of a file that exists. *)
LEMMA Contents ==
    /\ Absent \notin Seq(Nat)
    /\ \A f \in FName : FilesType /\ Exists(f) => files[f] \in Seq(Nat)
<1>1. ASSUME NEW s \in Seq(Nat), s = Absent
      PROVE  FALSE
  <2>1. Len(s) = 1 /\ s[1] = -1
    BY <1>1 DEF Absent
  <2>2. \A i \in 1 .. Len(s) : s[i] \in Nat
    OBVIOUS
  <2>3. 1 \in 1 .. Len(s)
    BY <2>1
  <2>4. s[1] \in Nat
    BY <2>2, <2>3
  <2> QED
    BY <2>1, <2>4
<1> QED
  BY <1>1 DEF FilesType, Exists

(* The first bytes of a sequence are a sequence of that length. *)
LEMMA PrefixIs ==
    ASSUME NEW s \in Seq(Nat), NEW k \in 0 .. Len(s)
    PROVE  Prefix(s, k) \in Seq(Nat) /\ Len(Prefix(s, k)) = k
           /\ \A i \in 1 .. k : Prefix(s, k)[i] = s[i]
<1>1. Len(s) \in Nat
  OBVIOUS
<1> QED
  BY <1>1 DEF Prefix

(* A whole sequence is its own prefix, also after something was appended. *)
LEMMA PrefixOfConcat ==
    ASSUME NEW s \in Seq(Nat), NEW p \in Seq(Nat)
    PROVE  /\ s \o p \in Seq(Nat) /\ Len(s \o p) >= Len(s)
           /\ Prefix(s \o p, Len(s)) = s /\ Prefix(s, Len(s)) = s
<1>1. /\ s \o p \in Seq(Nat) /\ Len(s \o p) = Len(s) + Len(p) /\ Len(s) \in Nat /\ Len(p) \in Nat
      /\ \A i \in 1 .. Len(s) : (s \o p)[i] = s[i]
  OBVIOUS
<1> DEFINE c == s \o p
           q == Prefix(c, Len(s))
           r == Prefix(s, Len(s))
<1>2. q \in Seq(Nat) /\ Len(q) = Len(s) /\ \A i \in 1 .. Len(s) : q[i] = s[i]
  <2> HIDE DEF c, q
  <2>1. c \in Seq(Nat) /\ Len(s) \in 0 .. Len(c) /\ \A i \in 1 .. Len(s) : c[i] = s[i]
    BY <1>1 DEF c
  <2>2. /\ Prefix(c, Len(s)) \in Seq(Nat) /\ Len(Prefix(c, Len(s))) = Len(s)
        /\ \A i \in 1 .. Len(s) : Prefix(c, Len(s))[i] = c[i]
    BY <2>1, PrefixIs
  <2> QED
    BY <2>1, <2>2 DEF q
<1>3. r \in Seq(Nat) /\ Len(r) = Len(s) /\ \A i \in 1 .. Len(s) : r[i] = s[i]
  <2>1. Len(s) \in 0 .. Len(s)
    BY <1>1
  <2> QED
    BY <2>1, PrefixIs
<1> HIDE DEF c, q, r
<1>4. q = s
  BY <1>2, SeqEqual
<1>5. r = s
  BY <1>3, SeqEqual
<1> QED
  BY <1>1, <1>4, <1>5 DEF c, q, r

(* Files that a call leaves alone are safe. *)
LEMMA LeftAlone ==
    ASSUME FilesType, NEW call
    PROVE  Safe(call, files)
<1>1. ASSUME NEW f \in FName, Exists(f)
      PROVE  Len(files[f]) >= Len(files[f]) /\ Prefix(files[f], Len(files[f])) = files[f]
  <2>1. files[f] \in Seq(Nat) /\ <<>> \in Seq(Nat)
    BY <1>1, Contents
  <2>2. Len(files[f]) \in Nat
    BY <2>1
  <2> DEFINE s == files[f]
  <2> HIDE DEF s
  <2>3. s \in Seq(Nat)
    BY <2>1 DEF s
  <2>4. Prefix(s, Len(s)) = s
    BY <2>1, <2>3, PrefixOfConcat
  <2> QED
    BY <2>2, <2>4 DEF s
<1> QED
  BY <1>1 DEF Safe, Extended, Others, FilesType

(* A call may give its own file any content that begins with the old one,  *)
(* and any content at all if the file is new or the call had a mishap.     *)
LEMMA OwnFile ==
    ASSUME FilesType, NEW f \in FName, NEW s \in Seq(Nat), NEW call, call.file = f,
           Exists(f) /\ call.mishap = "none" =>
              Len(s) >= Len(files[f]) /\ Prefix(s, Len(files[f])) = files[f]
    PROVE  /\ Safe(call, [files EXCEPT ![f] = s])
           /\ [files EXCEPT ![f] = s][f] = s
<1> DEFINE fs == [files EXCEPT ![f] = s]
<1>1. /\ fs \in [FName -> Seq(Nat) \cup {Absent}] /\ fs[f] = s
      /\ \A g \in FName : g # f => fs[g] = files[g]
  BY DEF FilesType
<1> HIDE DEF fs
<1>2. ASSUME NEW g \in FName, Exists(g), ~(call.mishap # "none" /\ call.file = g)
      PROVE  Len(fs[g]) >= Len(files[g]) /\ Prefix(fs[g], Len(files[g])) = files[g]
  <2>1. CASE g = f
    BY <1>1, <1>2, <2>1
  <2>2. CASE g # f
    <3>1. Len(files[g]) >= Len(files[g]) /\ Prefix(files[g], Len(files[g])) = files[g]
      BY <1>2, LeftAlone DEF Safe, Extended
    <3> QED
      BY <1>1, <2>2, <3>1
  <2> QED
    BY <2>1, <2>2
<1>3. Safe(call, fs)
  BY <1>1, <1>2 DEF Safe, Extended, Others
<1> QED
  BY <1>1, <1>3 DEF fs

(* The content that write() gives a new file is a sequence of bytes. *)
LEMMA WrittenIs ==
    ASSUME NEW o \in Nat, NEW d \in Seq(Nat)
    PROVE  Written(o, d) \in Seq(Nat)
<1>1. [k \in 1 .. o |-> 0] \in Seq(Nat)
  OBVIOUS
<1> QED
  BY <1>1 DEF Written

(* So is a file whose first bytes were overwritten. *)
LEMMA OverwrittenIs ==
    ASSUME NEW s \in Seq(Nat), NEW d \in Seq(Nat)
    PROVE  Overwritten(s, d) \in Seq(Nat)
<1>1. Len(s) \in Nat /\ Len(d) \in Nat
  OBVIOUS
<1>2. SubSeq(s, Len(d) + 1, Len(s)) \in Seq(Nat)
  BY <1>1
<1> QED
  BY <1>2 DEF Overwritten
-----------------------------------------------------------------------------
(* what a copy reports that ends without a mishap *)
Reports(call, fs) ==
    call.op = "copy" /\ call.ret >= 0 /\ call.mishap = "none" =>
       /\ ~Exists(call.file)
       /\ call.ret = Len(files[call.src])
       /\ IF call.full THEN Len(fs[call.file]) < call.ret
          ELSE fs[call.file] = files[call.src]

Step ==
    /\ FilesType' /\ Extended(called', files')
    /\ calls' = calls + 1 => Others(called', files') /\ Reports(called', files')

(* A call that leaves the files safe and reports the truth is a safe step. *)
LEMMA EndIs ==
    ASSUME FilesType, NEW call, NEW fs, NEW n \in {0, 1}, Safe(call, fs), Reports(call, fs),
           End(call, fs, n)
    PROVE  Step
  BY DEF FilesType, End, Step, Safe

(* Only a copy reports how much it copied. *)
LEMMA OtherReports ==
    ASSUME NEW op \in {"read", "write", "append"}, NEW f, NEW r, NEW h, NEW fs
    PROVE  /\ Reports(Returned(op, f, r, h), fs)
           /\ Returned(op, f, r, h).file = f /\ Returned(op, f, r, h).mishap = h
  BY DEF Reports, Returned

(* fileman_read() changes no file. *)
LEMMA ReadSafe ==
    ASSUME FilesType, NEW f \in FName, NEW o, NEW n, fileman_read(f, o, n)
    PROVE  Step
<1>1. PICK r, m : m \in {0, 1} /\ End(Returned("read", f, r, "none"), files, m)
  BY DEF fileman_read
<1>2. Reports(Returned("read", f, r, "none"), files)
  BY OtherReports
<1> QED
  BY <1>1, <1>2, LeftAlone, EndIs

(* fileman_write() gives one file a content, which is new unless open()    *)
(* failed on it.                                                           *)
LEMMA WriteSafe ==
    ASSUME FilesType, NEW f \in FName, NEW o \in FOffsets, NEW d \in Data, fileman_write(f, o, d)
    PROVE  Step
<1>1. d \in Seq(Nat) /\ o \in Nat /\ Len(d) \in Nat /\ <<>> \in Seq(Nat)
  BY FilemanAssumption
<1>2. ASSUME NEW r, End(Returned("write", f, r, "none"), files, 0)
      PROVE  Step
  <2>1. Reports(Returned("write", f, r, "none"), files)
    BY OtherReports
  <2> QED
    BY <1>2, <2>1, LeftAlone, EndIs
<1>3. ASSUME NEW s \in Seq(Nat), NEW r, NEW m \in {0, 1},
             End(Returned("write", f, r, Untested(f)), [files EXCEPT ![f] = s], m)
      PROVE  Step
  <2> DEFINE call == Returned("write", f, r, Untested(f))
             fs == [files EXCEPT ![f] = s]
  <2>1. call.file = f /\ call.mishap = Untested(f) /\ Reports(call, fs)
    BY OtherReports
  <2>2. Exists(f) => Untested(f) # "none"
    BY DEF Untested
  <2>3. End(call, fs, m)
    BY <1>3
  <2> HIDE DEF call
  <2>4. Safe(call, fs)
    BY <2>1, <2>2, OwnFile
  <2> HIDE DEF fs
  <2> QED
    BY <2>1, <2>3, <2>4, EndIs
<1>4. ASSUME NEW k \in 1 .. Len(d)
      PROVE  Written(o, Prefix(d, k)) \in Seq(Nat)
  <2>1. k \in 0 .. Len(d)
    BY <1>1
  <2>2. Prefix(d, k) \in Seq(Nat)
    BY <1>1, <2>1, PrefixIs
  <2> QED
    BY <1>1, <2>2, WrittenIs
<1>5. \/ End(Returned("write", f, -1, "none"), files, 0)
      \/ End(Returned("write", f, -1, Untested(f)), [files EXCEPT ![f] = <<>>], 1)
      \/ \E k \in 1 .. Len(d) : \E r : \E m \in {0, 1} :
            End(Returned("write", f, r, Untested(f)),
                [files EXCEPT ![f] = Written(o, Prefix(d, k))], m)
  BY DEF fileman_write
<1>6. CASE End(Returned("write", f, -1, Untested(f)), [files EXCEPT ![f] = <<>>], 1)
  BY <1>1, <1>3, <1>6
<1>7. ASSUME NEW k \in 1 .. Len(d), NEW r, NEW m \in {0, 1},
             End(Returned("write", f, r, Untested(f)),
                 [files EXCEPT ![f] = Written(o, Prefix(d, k))], m)
      PROVE  Step
  BY <1>3, <1>4, <1>7
<1> QED
  BY <1>2, <1>5, <1>6, <1>7

(* fileman_append() extends one file that exists, unless lseek() failed. *)
LEMMA AppendSafe ==
    ASSUME FilesType, NEW f \in FName, NEW d \in Data, fileman_append(f, d)
    PROVE  Step
<1>1. d \in Seq(Nat) /\ Len(d) \in Nat
  BY FilemanAssumption
<1>2. ASSUME NEW k \in 1 .. Len(d)
      PROVE  Prefix(d, k) \in Seq(Nat)
  <2>1. k \in 0 .. Len(d)
    BY <1>1
  <2> QED
    BY <1>1, <2>1, PrefixIs
<1>3. ASSUME NEW r, End(Returned("append", f, r, "none"), files, 0)
      PROVE  Step
  <2>1. Reports(Returned("append", f, r, "none"), files)
    BY OtherReports
  <2> QED
    BY <1>3, <2>1, LeftAlone, EndIs
<1>4. ASSUME NEW c \in Seq(Nat), NEW r, NEW h \in {"none", "lseek"}, Exists(f),
             h = "none" => Len(c) >= Len(files[f]) /\ Prefix(c, Len(files[f])) = files[f],
             End(Returned("append", f, r, h), [files EXCEPT ![f] = c], 0)
      PROVE  Step
  <2> DEFINE call == Returned("append", f, r, h)
             fs == [files EXCEPT ![f] = c]
  <2>1. call.file = f /\ call.mishap = h /\ Reports(call, fs)
    BY OtherReports
  <2>2. End(call, fs, 0)
    BY <1>4
  <2> HIDE DEF call
  <2>3. Safe(call, fs)
    BY <1>4, <2>1, OwnFile
  <2> HIDE DEF fs
  <2> QED
    BY <2>1, <2>2, <2>3, EndIs
<1>5. \/ End(Returned("append", f, -1, "none"), files, 0)
      \/ /\ Exists(f)
         /\ \E k \in 1 .. Len(d) : \E r :
               \/ End(Returned("append", f, r, "none"),
                      [files EXCEPT ![f] = @ \o Prefix(d, k)], 0)
               \/ End(Returned("append", f, r, "lseek"),
                      [files EXCEPT ![f] = Overwritten(@, Prefix(d, k))], 0)
  BY DEF fileman_append
<1>6. ASSUME NEW k \in 1 .. Len(d), NEW r, Exists(f),
             End(Returned("append", f, r, "none"), [files EXCEPT ![f] = @ \o Prefix(d, k)], 0)
      PROVE  Step
  <2> DEFINE s == files[f]
             c == s \o Prefix(d, k)
  <2>1. s \in Seq(Nat)
    BY <1>6, Contents
  <2>2. c \in Seq(Nat) /\ Len(c) >= Len(s) /\ Prefix(c, Len(s)) = s
    <3> HIDE DEF s
    <3> QED
      BY <1>2, <2>1, PrefixOfConcat
  <2>3. End(Returned("append", f, r, "none"), [files EXCEPT ![f] = c], 0)
    BY <1>6
  <2> HIDE DEF c
  <2> QED
    BY <1>4, <1>6, <2>2, <2>3
<1>7. ASSUME NEW k \in 1 .. Len(d), NEW r, Exists(f),
             End(Returned("append", f, r, "lseek"),
                 [files EXCEPT ![f] = Overwritten(@, Prefix(d, k))], 0)
      PROVE  Step
  <2> DEFINE c == Overwritten(files[f], Prefix(d, k))
  <2>1. c \in Seq(Nat)
    BY <1>2, <1>7, Contents, OverwrittenIs
  <2>2. End(Returned("append", f, r, "lseek"), [files EXCEPT ![f] = c], 0)
    BY <1>7
  <2> HIDE DEF c
  <2> QED
    BY <1>4, <1>7, <2>1, <2>2
<1> QED
  BY <1>3, <1>5, <1>6, <1>7

(* fileman_copy() writes a prefix of its source into one file and says so, *)
(* unless the disk filled up in the last block; the file is new unless     *)
(* open() failed on it.                                                    *)
LEMMA CopySafe ==
    ASSUME FilesType, NEW src \in FName, NEW dest \in FName, fileman_copy(src, dest)
    PROVE  Step
<1> DEFINE h == Untested(dest)
           s == IF src = dest THEN <<>> ELSE files[src]
           Kept(k) == [files EXCEPT ![dest] = Prefix(s, k)]
<1>1. ASSUME NEW full, End(CopyReturned(src, dest, -1, full, "none"), files, 0)
      PROVE  Step
  <2>1. Reports(CopyReturned(src, dest, -1, full, "none"), files)
    BY DEF Reports, CopyReturned
  <2> QED
    BY <1>1, <2>1, LeftAlone, EndIs
<1>2. ASSUME NEW k, NEW r, NEW full, Prefix(s, k) \in Seq(Nat),
             ~Exists(dest) /\ r >= 0 =>
                /\ r = Len(files[src])
                /\ IF full THEN Len(Prefix(s, k)) < r ELSE Prefix(s, k) = files[src],
             End(CopyReturned(src, dest, r, full, h), Kept(k), 0)
      PROVE  Step
  <2> DEFINE call == CopyReturned(src, dest, r, full, h)
             c == Prefix(s, k)
             fs == [files EXCEPT ![dest] = c]
  <2>1. call.op = "copy" /\ call.file = dest /\ call.mishap = h /\ call.src = src
        /\ call.ret = r /\ call.full = full
    BY DEF CopyReturned
  <2>2. Exists(dest) <=> h # "none"
    BY DEF Untested
  <2>3. End(call, fs, 0) /\ c \in Seq(Nat)
    BY <1>2
  <2>4. ~Exists(dest) /\ r >= 0 =>
            r = Len(files[src]) /\ (IF full THEN Len(c) < r ELSE c = files[src])
    BY <1>2
  <2> HIDE DEF call, c, h
  <2>5. Safe(call, fs) /\ fs[dest] = c
    BY <2>1, <2>2, <2>3, OwnFile
  <2> HIDE DEF fs
  <2>6. Reports(call, fs)
    BY <2>1, <2>2, <2>4, <2>5 DEF Reports
  <2> QED
    BY <2>3, <2>5, <2>6, EndIs
<1>3. CASE Exists(src)
  <2>1. s \in Seq(Nat) /\ Len(s) \in Nat /\ (~Exists(dest) => s = files[src])
    <3>1. files[src] \in Seq(Nat) /\ <<>> \in Seq(Nat)
      BY <1>3, Contents
    <3> QED
      BY <1>3, <3>1
  <2>2. ASSUME NEW k \in 0 .. Len(s)
        PROVE  Prefix(s, k) \in Seq(Nat) /\ Len(Prefix(s, k)) = k
    <3> HIDE DEF s
    <3> QED
      BY <2>1, PrefixIs
  <2>3. Prefix(s, Len(s)) = s /\ Len(s) \in 0 .. Len(s)
    <3> HIDE DEF s
    <3>1. Prefix(s, Len(s)) = s
      <4>1. <<>> \in Seq(Nat)
        OBVIOUS
      <4> QED
        BY <2>1, <4>1, PrefixOfConcat
    <3> QED
      BY <2>1, <3>1
  <2>4. CASE End(CopyReturned(src, dest, Len(s), FALSE, h), Kept(Len(s)), 0)
    <3>1. Prefix(s, Len(s)) \in Seq(Nat)
      BY <2>2, <2>3
    <3>2. ~Exists(dest) => Len(s) = Len(files[src]) /\ Prefix(s, Len(s)) = files[src]
      BY <2>1, <2>3
    <3> HIDE DEF s, h
    <3> QED
      BY <1>2, <2>4, <3>1, <3>2
  <2>5. ASSUME NEW k \in 0 .. Len(s) - 1, NEW r \in {-1, Len(s)},
               End(CopyReturned(src, dest, r, TRUE, h), Kept(k), 0)
        PROVE  Step
    <3>1. k \in 0 .. Len(s) /\ k < Len(s)
      BY <2>1
    <3>2. Prefix(s, k) \in Seq(Nat) /\ Len(Prefix(s, k)) = k
      BY <2>2, <3>1
    <3>3. ~Exists(dest) /\ r >= 0 => r = Len(files[src]) /\ Len(Prefix(s, k)) < r
      BY <2>1, <3>1, <3>2
    <3> HIDE DEF s, h
    <3> QED
      BY <1>2, <2>5, <3>2, <3>3
  <2>6. \/ End(CopyReturned(src, dest, -1, FALSE, "none"), files, 0)
        \/ End(CopyReturned(src, dest, Len(s), FALSE, h), Kept(Len(s)), 0)
        \/ \E k \in 0 .. Len(s) - 1 : \E r \in {-1, Len(s)} :
              End(CopyReturned(src, dest, r, TRUE, h), Kept(k), 0)
    BY DEF fileman_copy
  <2> QED
    BY <1>1, <2>4, <2>5, <2>6
<1>4. CASE ~Exists(src)
  <2>1. End(CopyReturned(src, dest, -1, FALSE, "none"), files, 0)
    BY <1>4 DEF fileman_copy
  <2> QED
    BY <1>1, <2>1
<1> QED
  BY <1>3, <1>4

(* fileman_dir() and fileman_tree() touch no file. *)
LEMMA ViewSafe ==
    ASSUME FilesType, View \/ UNCHANGED filemanVars
    PROVE  Step
<1>1. files' = files /\ leaked' = leaked /\ calls' = calls /\ called' = called
  BY ZenonT(30) DEF View, fileman_dir, fileman_tree, filemanVars
<1>2. calls' # calls + 1
  BY <1>1 DEF FilesType
<1> QED
  BY <1>1, <1>2, LeftAlone DEF Step, Safe, FilesType

(* Every step of the file manager is safe. *)
LEMMA FileStep ==
    ASSUME FilesType, [FileCall \/ View]_filemanVars
    PROVE  Step
<1>1. CASE FileCall
  BY <1>1, ReadSafe, WriteSafe, AppendSafe, CopySafe DEF FileCall
<1> QED
  BY <1>1, ViewSafe

(* fileman.c: no call touches a file but its own, and its own it only      *)
(* extends, unless open() failed on an existing file or lseek() failed     *)
(* unnoticed; with that exception a copy that reports n bytes has made a   *)
(* new file of all of them, except when the disk filled up inside the last *)
(* block.                                                                  *)
THEOREM FilemanSafe == FileSpec => FilesSafe
<1> DEFINE A ==
         /\ \A f \in FName : Exists(f) /\ ~Mishap(f)' =>
               /\ Len(files'[f]) >= Len(files[f])
               /\ Prefix(files'[f], Len(files[f])) = files[f]
         /\ calls' = calls + 1 =>
               /\ \A f \in FName : f # called'.file => files'[f] = files[f]
               /\ called'.op = "copy" /\ called'.ret >= 0 /\ called'.mishap = "none" =>
                     /\ ~Exists(called'.file)
                     /\ called'.ret = Len(files[called'.src])
                     /\ IF called'.full
                        THEN Len(files'[called'.file]) < called'.ret
                        ELSE files'[called'.file] = files[called'.src]
<1>1. (\E tree \in Trees : \E paths \in Openings(tree) : FilemanInit(tree, paths)) => FilesType
  BY DEF FilemanInit, FilesType
<1>2. FilesType /\ [FileCall \/ View]_filemanVars => FilesType'
  BY FileStep DEF Step
<1>3. FilesType /\ [FileCall \/ View]_filemanVars => [A]_filemanVars
  <2>1. ASSUME FilesType, [FileCall \/ View]_filemanVars
        PROVE  A
    <3>1. Step
      BY <2>1, FileStep
    <3> QED
      BY <3>1 DEF Step, Extended, Others, Reports, Mishap
  <2> QED
    BY <2>1
<1> QED
  BY <1>1, <1>2, <1>3, PTL DEF FileSpec, FilesSafe
=============================================================================
