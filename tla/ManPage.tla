------------------------------- MODULE ManPage -------------------------------
(***************************************************************************)
(* Assignment3/manpage.c: one thread for each paragraph of a manual page,  *)
(* kept in order by a chain of semaphores.  The thread of the last         *)
(* paragraph destroys the semaphores, which are on the stack of manpage(). *)
(*                                                                         *)
(* getParagraphId() and showParagraph() are in the supplied manpage.a: the *)
(* threads get the paragraphs in any order, each paragraph once.           *)
(***************************************************************************)
EXTENDS Integers, Sequences

CONSTANT THREAD_NUM        \* the number of paragraphs (7 in the program)

ASSUME ManAssumption == THREAD_NUM \in Nat /\ THREAD_NUM >= 2

Paragraph == 0 .. THREAD_NUM - 1

VARIABLES
    man_main,      \* manpage(): <<"create", i>>, <<"join", i>>, or how it ended
    man_pc,        \* thread i: "none", "start", "wait", "show", "post",
                   \* "posted", "destroy", "exited"
    pid,           \* thread i: the paragraph it shows
    lock_list,     \* the values of the semaphores
    destroyed,     \* the semaphores that sem_destroy() was called on
    page           \* the paragraphs shown so far

manVars == <<man_main, man_pc, pid, lock_list, destroyed, page>>

(* manpage() up to its first pthread_create(): sem_init() of every semaphore *)
ManInit ==
    /\ man_main = <<"create", 0>>
    /\ man_pc = [i \in Paragraph |-> "none"]
    /\ pid = [i \in Paragraph |-> -1]
    /\ lock_list = [p \in Paragraph |-> 0]
    /\ destroyed = {}
    /\ page = <<>>

Running == man_main \notin {<<"returned">>, <<"exit">>}

(* manpage() creates thread i; when that fails the whole program exits *)
CreateThread ==
    /\ man_main[1] = "create"
    /\ LET i == man_main[2] IN
       \/ /\ man_pc' = [man_pc EXCEPT ![i] = "start"]
          /\ man_main' = IF i + 1 < THREAD_NUM THEN <<"create", i + 1>>
                                               ELSE <<"join", 0>>
       \/ /\ man_main' = <<"exit">>
          /\ UNCHANGED man_pc
    /\ UNCHANGED <<pid, lock_list, destroyed, page>>

(* variant: manpage() does not wait for the threads *)
JoinNone ==
    /\ man_main[1] = "join"
    /\ man_main' = <<"returned">>
    /\ UNCHANGED <<man_pc, pid, lock_list, destroyed, page>>

(* manpage() joins thread i, and returns after the last one *)
JoinThread ==
    /\ man_main[1] = "join"
    /\ LET i == man_main[2] IN
       /\ man_pc[i] = "exited"
       /\ man_main' = IF i + 1 < THREAD_NUM THEN <<"join", i + 1>>
                                            ELSE <<"returned">>
    /\ UNCHANGED <<man_pc, pid, lock_list, destroyed, page>>

(* external: getParagraphId() in a thread that has just started *)
GetParagraph(i) ==
    /\ man_pc[i] = "start"
    /\ \E p \in Paragraph \ {pid[j] : j \in Paragraph} :
          /\ pid' = [pid EXCEPT ![i] = p]
          /\ man_pc' = [man_pc EXCEPT ![i] = IF p = 0 THEN "show" ELSE "wait"]
    /\ UNCHANGED <<man_main, lock_list, destroyed, page>>

(* sem_wait(&lock_list[pid]) *)
SemWait(i) ==
    /\ man_pc[i] = "wait"
    /\ lock_list[pid[i]] > 0
    /\ lock_list' = [lock_list EXCEPT ![pid[i]] = @ - 1]
    /\ man_pc' = [man_pc EXCEPT ![i] = "show"]
    /\ UNCHANGED <<man_main, pid, destroyed, page>>

(* showParagraph() *)
ShowParagraph(i) ==
    /\ man_pc[i] = "show"
    /\ page' = Append(page, pid[i])
    /\ man_pc' = [man_pc EXCEPT ![i] =
                     IF pid[i] = THREAD_NUM - 1 THEN "destroy" ELSE "post"]
    /\ UNCHANGED <<man_main, pid, lock_list, destroyed>>

(* variant: a thread posts the semaphore it waited for *)
PostOwn(i) ==
    /\ man_pc[i] = "post"
    /\ lock_list' = [lock_list EXCEPT ![pid[i]] = @ + 1]
    /\ man_pc' = [man_pc EXCEPT ![i] = "posted"]
    /\ UNCHANGED <<man_main, pid, destroyed, page>>

(* sem_post(&lock_list[pid + 1]) makes the next thread runnable ...        *)
SemPost(i) ==
    /\ man_pc[i] = "post"
    /\ lock_list' = [lock_list EXCEPT ![pid[i] + 1] = @ + 1]
    /\ man_pc' = [man_pc EXCEPT ![i] = "posted"]
    /\ UNCHANGED <<man_main, pid, destroyed, page>>

(* ... before it returns in this one; then pthread_exit() *)
PostReturn(i) ==
    /\ man_pc[i] = "posted"
    /\ man_pc' = [man_pc EXCEPT ![i] = "exited"]
    /\ UNCHANGED <<man_main, pid, lock_list, destroyed, page>>

(* the last thread destroys the semaphores one by one, then exits *)
Destroy(i) ==
    /\ man_pc[i] = "destroy"
    /\ \E p \in Paragraph :
          /\ destroyed = 0 .. p - 1
          /\ destroyed' = destroyed \cup {p}
          /\ man_pc' = [man_pc EXCEPT ![i] =
                           IF p = THREAD_NUM - 1 THEN "exited" ELSE "destroy"]
    /\ UNCHANGED <<man_main, pid, lock_list, page>>

ManThread(i) ==
    \/ GetParagraph(i)
    \/ SemWait(i)
    \/ ShowParagraph(i)
    \/ SemPost(i)
    \/ PostReturn(i)
    \/ Destroy(i)

(* when main exits or returns from manpage() the process takes no more steps *)
ManMain == Running /\ (CreateThread \/ JoinThread)
ManOther(i) == Running /\ ManThread(i)

ManNext == ManMain \/ \E i \in Paragraph : ManOther(i)

-----------------------------------------------------------------------------
(***************************************************************************)
(* However the threads are scheduled and the paragraphs handed out, the    *)
(* paragraphs appear in order and manpage() returns only with the page     *)
(* complete.  The semaphores outlive their use: none is waited on, or      *)
(* about to be posted, once it was destroyed, and when manpage() returns   *)
(* (their memory is its stack frame) no thread is still inside a semaphore *)
(* call.                                                                   *)
(***************************************************************************)
ManPageRight ==
    /\ page = [k \in 1 .. Len(page) |-> k - 1]
    /\ man_main = <<"returned">> => Len(page) = THREAD_NUM
    /\ \A i \in Paragraph :
          /\ man_pc[i] = "wait" => pid[i] \notin destroyed
          /\ man_pc[i] = "post" => pid[i] + 1 \notin destroyed
          /\ man_pc[i] = "start" => destroyed = {}
    /\ man_main = <<"returned">> => \A i \in Paragraph : man_pc[i] = "exited"
=============================================================================
