------------------------------ MODULE Programs -------------------------------
(***************************************************************************)
(* The user-level programs of the assignments, each a machine of its own.  *)
(* They share nothing; a behaviour is one run of one of them (unit), on    *)
(* one of its inputs, while the others stay in their first state.          *)
(***************************************************************************)
EXTENDS ManPage, MergeSorts, Cartman, Scheduler, Pager, Fileman

VARIABLE unit      \* the program that runs

vars == <<unit, manVars, sortVars, cartVars, schedVars, pagerVars, filemanVars>>

(* the inputs: arrays to sort, algorithms and their parameters, directories *)
Arrays == UNION {[1 .. n -> Number] : n \in 1 .. MaxSize}

SomeArray == <<CHOOSE n \in Number : TRUE>>
SomeQuantum == CHOOSE q \in Quanta : TRUE
SomeTree == [n \in 1 .. Nodes |-> 0]
SomePaths == [n \in 0 .. Nodes |-> n]

Init ==
    /\ unit \in {"manpage", "sort", "carts", "scheduler", "pager", "files", "views"}
    /\ ManInit
    /\ IF unit = "sort"
       THEN \E p \in {"psort", "usort", "sort"}, s \in Arrays : SortInit(p, s)
       ELSE SortInit("sort", SomeArray)
    /\ CartInit
    /\ IF unit = "scheduler"
       THEN \E alg \in Algorithms, q \in Quanta :
               (alg # "ROUND_ROBIN" => q = SomeQuantum) /\ SchedInit(alg, q)
       ELSE SchedInit("other", SomeQuantum)
    /\ IF unit = "pager"
       THEN \E alg \in PagerAlgorithms, n \in FrameCounts : PagerInit(alg, n)
       ELSE PagerInit("FIRST_IN_FIRST_OUT", 1)
    /\ IF unit = "views" THEN \E t \in Trees : \E o \in Openings(t) : FilemanInit(t, o)
                         ELSE FilemanInit(SomeTree, SomePaths)

(* the programs that are over, or at a bound of the model *)
Over ==
    CASE unit = "manpage" -> ~Running
      [] unit = "sort" -> sort_end # "no"
      [] unit = "carts" -> Finished
      [] unit = "scheduler" -> phase = "over" \/ (phase = "cpu" /\ sim_time = MaxTime)
      [] unit = "pager" -> Len(requests) = MaxRequests
      [] unit = "files" -> calls = MaxCalls
      [] unit = "views" -> TRUE

Next ==
    \/ /\ unit = "manpage" /\ ManNext
       /\ UNCHANGED <<unit, sortVars, cartVars, schedVars, pagerVars, filemanVars>>
    \/ /\ unit = "sort" /\ SortNext
       /\ UNCHANGED <<unit, manVars, cartVars, schedVars, pagerVars, filemanVars>>
    \/ /\ unit = "carts" /\ CartNext
       /\ UNCHANGED <<unit, manVars, sortVars, schedVars, pagerVars, filemanVars>>
    \/ /\ unit = "scheduler" /\ SchedNext
       /\ UNCHANGED <<unit, manVars, sortVars, cartVars, pagerVars, filemanVars>>
    \/ /\ unit = "pager" /\ PagerNext
       /\ UNCHANGED <<unit, manVars, sortVars, cartVars, schedVars, filemanVars>>
    \/ /\ \/ unit = "files" /\ FileCall
          \/ unit = "views" /\ View
       /\ UNCHANGED <<unit, manVars, sortVars, cartVars, schedVars, pagerVars>>
    \/ Over /\ UNCHANGED vars

(* the operating system schedules every thread and process of the program *)
Fairness ==
    /\ WF_manVars(unit = "manpage" /\ ManMain)
    /\ \A i \in Paragraph : WF_manVars(unit = "manpage" /\ ManOther(i))
    /\ WF_sortVars(unit = "sort" /\ SortMain)
    /\ \A c \in Cart : WF_cartVars(unit = "carts" /\ Step(c))
    /\ \A w \in Workers : WF_sortVars(unit = "sort" /\ SortOther(w))

Spec == Init /\ [][Next]_vars /\ Fairness

-----------------------------------------------------------------------------
(***************************************************************************)
(* The programs with threads or child processes come to an end: nobody     *)
(* waits for a semaphore that is never posted or a worker that never       *)
(* finishes, also when a thread or a process could not be created.         *)
(***************************************************************************)
ProgramsEnd ==
    <>(unit \in {"manpage", "sort"} => Over)
=============================================================================
