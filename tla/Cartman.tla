------------------------------- MODULE Cartman -------------------------------
(***************************************************************************)
(* Assignment3/cartman.c: the cart manager.  Track i of a ring of tracks   *)
(* joins junctions i and i + 1, and the last track joins the last junction *)
(* and junction A (0).  Each arriving cart gets a detached thread that     *)
(* locks the two junctions of its track, the lower-numbered one first,     *)
(* reserves both, crosses, and gives both back.                            *)
(*                                                                         *)
(* reserve(), cross() and release() are the supplied cart system           *)
(* (cartman.a); they are modelled by the conditions under which cartman.h  *)
(* says "System will exit".                                                *)
(***************************************************************************)
EXTENDS Integers, FiniteSets

CONSTANTS
    Cart,          \* the carts
    Tracks,        \* the number of tracks given to cartman()
    None           \* no cart

ASSUME CartmanAssumption ==
    /\ Tracks \in Nat /\ Tracks >= 2
    /\ None \notin Cart

Junctions == 0 .. Tracks - 1
max_track == Tracks - 1

(* The junctions at the two ends of a track (external: the ring itself). *)
Ends(tr) == {tr, IF tr = max_track THEN 0 ELSE tr + 1}

VARIABLES
    pc,            \* where each cart's thread is ("away": not yet arrived)
    track,         \* thread_routine(): track
    junction,      \* thread_routine(): junction
    junction_lock, \* the values of the semaphores junction_lock[]
    reserved,      \* the cart system: the cart each junction is reserved by
    exited         \* "no", "create" (pthread_create failed), "system"

cartVars == <<pc, track, junction, junction_lock, reserved, exited>>

CartInit ==
    /\ pc = [c \in Cart |-> "away"]
    /\ track = [c \in Cart |-> 0]
    /\ junction = [c \in Cart |-> 0]
    /\ junction_lock = [j \in Junctions |-> 1]
    /\ reserved = [j \in Junctions |-> None]
    /\ exited = "no"

-----------------------------------------------------------------------------
(* thread_routine(): the other end of the cart's track *)
Destination(tr, j) ==
    IF tr = max_track THEN IF j = 0 THEN max_track ELSE 0
    ELSE IF j = tr THEN j + 1
    ELSE IF j > tr THEN j - 1
    ELSE 0

(* variant: the junction the cart is at is always locked first *)
AtFirst(tr, j) == j

(* the order in which the two junctions are locked and reserved *)
LockedFirst(tr, j) == IF j < Destination(tr, j) THEN j ELSE Destination(tr, j)
LockedSecond(tr, j) == IF LockedFirst(tr, j) = j THEN Destination(tr, j) ELSE j

destination(c) == Destination(track[c], junction[c])
first(c) == LockedFirst(track[c], junction[c])
second(c) == LockedSecond(track[c], junction[c])

At(c, l) == exited = "no" /\ pc[c] = l
Goto(c, l) == pc' = [pc EXCEPT ![c] = l]

(***************************************************************************)
(* arrive(): a cart comes to one end of a track and its thread is created; *)
(* when that fails the whole program exits.                                *)
(***************************************************************************)
Arrive(c, tr, j) ==
    /\ At(c, "away")
    /\ track' = [track EXCEPT ![c] = tr]
    /\ junction' = [junction EXCEPT ![c] = j]
    /\ Goto(c, "lock1")
    /\ UNCHANGED <<junction_lock, reserved, exited>>

ArriveFails(c) ==
    /\ At(c, "away")
    /\ exited' = "create"
    /\ UNCHANGED <<pc, track, junction, junction_lock, reserved>>

(* variant: sem_trywait() with its result ignored *)
sem_trywait(j) == junction_lock' = [junction_lock EXCEPT ![j] = @ - 1]

(* sem_wait(&junction_lock[j]) *)
sem_wait(j) ==
    /\ junction_lock[j] > 0
    /\ junction_lock' = [junction_lock EXCEPT ![j] = @ - 1]

(* sem_post(&junction_lock[j]) *)
sem_post(j) == junction_lock' = [junction_lock EXCEPT ![j] = @ + 1]

Lock1(c) ==
    /\ At(c, "lock1")
    /\ sem_wait(first(c))
    /\ Goto(c, "lock2")
    /\ UNCHANGED <<track, junction, reserved, exited>>

Lock2(c) ==
    /\ At(c, "lock2")
    /\ sem_wait(second(c))
    /\ Goto(c, "reserve1")
    /\ UNCHANGED <<track, junction, reserved, exited>>

(* reserve(c, j): the system exits if j is already reserved or c is not at *)
(* j, that is, on a track that ends there: taken to mean the one end where *)
(* c stands, nobody could reserve the opposite junction, as cross() asks   *)
reserve(c, j, next) ==
    /\ IF reserved[j] # None \/ j \notin Ends(track[c])
       THEN exited' = "system" /\ UNCHANGED <<pc, reserved>>
       ELSE /\ reserved' = [reserved EXCEPT ![j] = c]
            /\ Goto(c, next)
            /\ UNCHANGED exited
    /\ UNCHANGED <<track, junction, junction_lock>>

Reserve1(c) == At(c, "reserve1") /\ reserve(c, first(c), "reserve2")
Reserve2(c) == At(c, "reserve2") /\ reserve(c, second(c), "cross")

(* cross(c, track, junction): the system exits unless c has reserved the   *)
(* junction and the one opposite                                           *)
Cross(c) ==
    /\ At(c, "cross")
    /\ IF \A j \in Ends(track[c]) : reserved[j] = c
       THEN Goto(c, "release1") /\ UNCHANGED exited
       ELSE exited' = "system" /\ UNCHANGED pc
    /\ UNCHANGED <<track, junction, junction_lock, reserved>>

(* release(c, j): the system exits unless c has reserved j *)
release(c, j, next) ==
    /\ IF reserved[j] # c
       THEN exited' = "system" /\ UNCHANGED <<pc, reserved>>
       ELSE /\ reserved' = [reserved EXCEPT ![j] = None]
            /\ Goto(c, next)
            /\ UNCHANGED exited
    /\ UNCHANGED <<track, junction, junction_lock>>

Release1(c) == At(c, "release1") /\ release(c, junction[c], "post1")

(* variant: both semaphores are raised before the second release() *)
PostBoth(c) ==
    /\ At(c, "post1")
    /\ junction_lock' = [junction_lock EXCEPT
                           ![junction[c]] = @ + 1, ![destination(c)] = @ + 1]
    /\ Goto(c, "release2")
    /\ UNCHANGED <<track, junction, reserved, exited>>

Post1(c) ==
    /\ At(c, "post1")
    /\ sem_post(junction[c])
    /\ Goto(c, "release2")
    /\ UNCHANGED <<track, junction, reserved, exited>>

Release2(c) == At(c, "release2") /\ release(c, destination(c), "post2")

(* variant: the same semaphore is raised twice *)
PostJunctionAgain(c) ==
    /\ At(c, "post2")
    /\ sem_post(junction[c])
    /\ Goto(c, "done")
    /\ UNCHANGED <<track, junction, reserved, exited>>

Post2(c) ==
    /\ At(c, "post2")
    /\ sem_post(destination(c))
    /\ Goto(c, "done")
    /\ UNCHANGED <<track, junction, reserved, exited>>

(* what the thread of cart c does next *)
Step(c) ==
    \/ Lock1(c)
    \/ Lock2(c)
    \/ Reserve1(c)
    \/ Reserve2(c)
    \/ Cross(c)
    \/ Release1(c)
    \/ Post1(c)
    \/ Release2(c)
    \/ Post2(c)

(* Nothing is left to do, or the program has exited. *)
Finished == exited # "no" \/ \A c \in Cart : pc[c] = "done"

CartNext ==
    \/ \E c \in Cart, tr \in Junctions : \E j \in Ends(tr) : Arrive(c, tr, j)
    \/ \E c \in Cart : ArriveFails(c)
    \/ \E c \in Cart : Step(c)

(***************************************************************************)
(* Every thread that can take a step eventually does: the threads are      *)
(* scheduled by the operating system, cross() returns after a second, and  *)
(* a semaphore that stays available is eventually taken.                   *)
(***************************************************************************)
CartSpec == CartInit /\ [][CartNext]_cartVars /\ \A c \in Cart : WF_cartVars(Step(c))

-----------------------------------------------------------------------------
Labels == {"away", "lock1", "lock2", "reserve1", "reserve2", "cross",
           "release1", "post1", "release2", "post2", "done"}

(* Type invariant; a cart is at one of the ends of its track. *)
TypeOK ==
    /\ pc \in [Cart -> Labels]
    /\ track \in [Cart -> Junctions]
    /\ junction \in [Cart -> Junctions]
    /\ \A c \in Cart : pc[c] # "away" => junction[c] \in Ends(track[c])
    /\ junction_lock \in [Junctions -> Nat]
    /\ reserved \in [Junctions -> Cart \cup {None}]
    /\ exited \in {"no", "create", "system"}

(***************************************************************************)
(* NeverExits: the threads of thread_routine() never make the cart system  *)
(* exit: no junction is reserved twice, no cart crosses without having     *)
(* reserved both ends of its track, none releases what it did not reserve. *)
(***************************************************************************)
NeverExits == exited # "system"

(***************************************************************************)
(* AllReturned: when no thread is under way every junction is available    *)
(* again, to threads (its semaphore is 1) and to carts (not reserved).     *)
(***************************************************************************)
AllReturned ==
    exited = "no" /\ (\A c \in Cart : pc[c] \in {"away", "done"}) =>
        \A j \in Junctions : junction_lock[j] = 1 /\ reserved[j] = None

(***************************************************************************)
(* NoDeadlock: while some thread has not finished, some thread can take a  *)
(* step: locking the lower-numbered junction first leaves no cycle of      *)
(* threads that wait for each other's junction.                            *)
(***************************************************************************)
Active(c) == pc[c] \notin {"away", "done"}
Waiting(c) == \/ pc[c] = "lock1" /\ junction_lock[first(c)] = 0
              \/ pc[c] = "lock2" /\ junction_lock[second(c)] = 0

NoDeadlock ==
    (\E c \in Cart : Active(c)) => \E c \in Cart : Active(c) /\ ~Waiting(c)

(***************************************************************************)
(* EveryCartCrosses: a cart whose arrive() succeeded gets across and its   *)
(* thread ends, unless another arrive() makes the program exit: a time     *)
(* comes, and comes again, when no thread is under way, and a cart arrives *)
(* once only.                                                              *)
(***************************************************************************)
EveryCartCrosses == []<>(exited = "create" \/ \A c \in Cart : ~Active(c))

=============================================================================
