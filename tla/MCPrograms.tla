----------------------------- MODULE MCPrograms ------------------------------
(***************************************************************************)
(* Programs for TLC: the priorities of the scheduler's threads, and the    *)
(* data that fileman writes.                                               *)
(***************************************************************************)
EXTENDS Programs

CONSTANT a

(* one thread of a higher priority and the others of the same *)
Priorities == [t \in Job |-> IF t = a THEN 0 ELSE 1]

SomeData == {<<1>>, <<1, 2, 3>>}
=============================================================================
