-------------------------- MODULE MCPriorityKernel ---------------------------
(***************************************************************************)
(* Instances of PriorityKernel for TLC: the initial priorities and run     *)
(* queues that the configurations choose from.                             *)
(***************************************************************************)
EXTENDS PriorityKernel

CONSTANTS A, lockA

(* PRI_MIN (the idle thread's) and two or three client priorities *)
TwoLevels == 0 .. 2
ThreeLevels == 0 .. 3

EqualPriority == [t \in Thread |-> IF t = Idle THEN 0 ELSE 1]

(* the threads Main has already created *)
NoneReady == <<>>
OneReady == <<A>>

(* what the threads do: Main is the one that creates the others *)
ByRole(main, others) == [t \in Thread |-> IF t = Main THEN main ELSE others]

SchedCalls ==
    ByRole({"yield", "exit", "set_priority", "create", "down", "up"},
           {"yield", "exit", "set_priority", "down", "up"})
DonationCalls ==
    ByRole({"create", "acquire", "release", "set_priority"},
           {"acquire", "release", "exit"})
(* threads that keep their locks, for NoInversion *)
NestingCalls == ByRole({"create", "acquire", "yield"}, {"acquire", "yield"})
MonitorCalls ==
    ByRole({"create", "acquire", "release", "signal", "broadcast"},
           {"acquire", "release", "wait", "signal", "exit"})

ZeroValue == [s \in ClientSema |-> 0]
MonitorLock == [c \in CondVar |-> lockA]
=============================================================================
