---------------------------- MODULE CartmanProofs ----------------------------
(***************************************************************************)
(* Proofs about the cart manager, for any set of carts and any number of   *)
(* tracks from two up: the cart system never exits, nothing is left locked *)
(* or reserved, and the threads never deadlock.                            *)
(*                                                                         *)
(* The inductive invariant says what each thread has, given where it is:   *)
(* the junctions whose semaphore it has taken (Locked) and those it has    *)
(* reserved (Reserved).  A semaphore is 0 exactly when one thread has it.  *)
(***************************************************************************)
EXTENDS Cartman, TLAPS, NaturalsInduction, WellFoundedInduction

WithBoth == {"reserve1", "reserve2", "cross", "release1", "post1"}

Locked(c, j) ==
    \/ pc[c] = "lock2" /\ j = first(c)
    \/ pc[c] \in WithBoth /\ j \in {junction[c], destination(c)}
    \/ pc[c] \in {"release2", "post2"} /\ j = destination(c)

Reserved(c, j) ==
    \/ pc[c] = "reserve2" /\ j = first(c)
    \/ pc[c] \in {"cross", "release1"} /\ j \in {junction[c], destination(c)}
    \/ pc[c] \in {"post1", "release2"} /\ j = destination(c)

LockInv ==
    \A j \in Junctions :
        /\ junction_lock[j] \in {0, 1}
        /\ junction_lock[j] = 0 <=> \E c \in Cart : Locked(c, j)
        /\ \A c, d \in Cart : Locked(c, j) /\ Locked(d, j) => c = d

ReserveInv ==
    \A j \in Junctions : \A c \in Cart : reserved[j] = c <=> Reserved(c, j)

IInv == TypeOK /\ LockInv /\ ReserveInv /\ NeverExits

-----------------------------------------------------------------------------
(***************************************************************************)
(* What thread_routine() computes for a cart at an end of its track: the   *)
(* destination is the other end, and of the two the lower-numbered one is  *)
(* locked first.                                                           *)
(***************************************************************************)
LEMMA Geometry ==
    ASSUME NEW tr \in Junctions, NEW j \in Ends(tr)
    PROVE  /\ j \in Junctions
           /\ Destination(tr, j) \in Junctions
           /\ Destination(tr, j) # j
           /\ Ends(tr) = {j, Destination(tr, j)}
           /\ LockedFirst(tr, j) \in Junctions
           /\ LockedSecond(tr, j) \in Junctions
           /\ LockedFirst(tr, j) < LockedSecond(tr, j)
           /\ {LockedFirst(tr, j), LockedSecond(tr, j)} = {j, Destination(tr, j)}
<1>1. /\ tr \in Int /\ 0 <= tr /\ tr <= Tracks - 1 /\ Tracks \in Int /\ Tracks >= 2
      /\ j = tr \/ (tr = Tracks - 1 /\ j = 0) \/ (tr # Tracks - 1 /\ j = tr + 1)
  BY CartmanAssumption DEF Junctions, Ends, max_track
<1>2. j \in Junctions
  BY <1>1, CartmanAssumption DEF Junctions
<1>3. /\ Destination(tr, j) \in Junctions
      /\ Destination(tr, j) # j
      /\ Ends(tr) = {j, Destination(tr, j)}
  <2>1. CASE tr = Tracks - 1
    BY <2>1, <1>1 DEF Junctions, Ends, Destination, max_track
  <2>2. CASE tr # Tracks - 1
    BY <2>2, <1>1 DEF Junctions, Ends, Destination, max_track
  <2> QED BY <2>1, <2>2
<1>4. QED
  BY <1>1, <1>2, <1>3 DEF LockedFirst, LockedSecond, Junctions

(* The same, of a cart whose thread exists. *)
LEMMA CartGeometry ==
    ASSUME TypeOK, NEW c \in Cart, pc[c] # "away"
    PROVE  /\ junction[c] \in Junctions
           /\ destination(c) \in Junctions
           /\ destination(c) # junction[c]
           /\ Ends(track[c]) = {junction[c], destination(c)}
           /\ first(c) \in Junctions
           /\ second(c) \in Junctions
           /\ first(c) < second(c)
           /\ {first(c), second(c)} = {junction[c], destination(c)}
<1>1. track[c] \in Junctions /\ junction[c] \in Ends(track[c])
  BY DEF TypeOK
<1>2. QED
  BY <1>1, Geometry DEF destination, first, second

(* The first state satisfies the inductive invariant. *)
LEMMA InitIInv == CartInit => IInv
  BY CartmanAssumption
  DEF CartInit, IInv, TypeOK, LockInv, ReserveInv, NeverExits, Locked, Reserved,
      WithBoth, Labels, Junctions

-----------------------------------------------------------------------------
(* A step of one cart's thread changes nothing about the other carts. *)
LEMMA OtherCarts ==
    ASSUME NEW c \in Cart, NEW l, TypeOK, Goto(c, l),
           UNCHANGED <<track, junction>>,
           NEW d \in Cart, d # c, NEW j
    PROVE  /\ Locked(d, j)' <=> Locked(d, j)
           /\ Reserved(d, j)' <=> Reserved(d, j)
  BY DEF TypeOK, Goto, Locked, Reserved, destination, first

(* Where a cart's thread is decides what it has. *)
LEMMA OwnCart ==
    ASSUME NEW c \in Cart, NEW l, TypeOK, Goto(c, l),
           UNCHANGED <<track, junction>>, NEW j
    PROVE  /\ pc'[c] = l
           /\ Locked(c, j)' <=>
                \/ l = "lock2" /\ j = first(c)
                \/ l \in WithBoth /\ j \in {junction[c], destination(c)}
                \/ l \in {"release2", "post2"} /\ j = destination(c)
           /\ Reserved(c, j)' <=>
                \/ l = "reserve2" /\ j = first(c)
                \/ l \in {"cross", "release1"}
                     /\ j \in {junction[c], destination(c)}
                \/ l \in {"post1", "release2"} /\ j = destination(c)
  BY DEF TypeOK, Goto, Locked, Reserved, destination, first

(***************************************************************************)
(* A thread that takes semaphore k, which was up, and has it afterwards.   *)
(***************************************************************************)
LEMMA TakeLock ==
    ASSUME IInv, NEW c \in Cart, NEW l, Goto(c, l),
           UNCHANGED <<track, junction, reserved>>,
           NEW k \in Junctions, sem_wait(k),
           \A j \in Junctions : Locked(c, j)' <=> Locked(c, j) \/ j = k,
           \A j \in Junctions : Reserved(c, j)' <=> Reserved(c, j)
    PROVE  LockInv' /\ ReserveInv'
<1> USE DEF IInv
<1>1. /\ junction_lock[k] = 1
      /\ junction_lock'[k] = 0
      /\ \A j \in Junctions : j # k => junction_lock'[j] = junction_lock[j]
  BY DEF sem_wait, LockInv, TypeOK
<1>2. \A d \in Cart : ~Locked(d, k)
  BY <1>1 DEF LockInv
<1>3. \A d \in Cart : d # c => \A j : /\ Locked(d, j)' <=> Locked(d, j)
                                      /\ Reserved(d, j)' <=> Reserved(d, j)
  BY OtherCarts
<1>4. ASSUME NEW j \in Junctions
      PROVE  /\ junction_lock'[j] \in {0, 1}
             /\ junction_lock'[j] = 0 <=> \E d \in Cart : Locked(d, j)'
             /\ \A d, e \in Cart : Locked(d, j)' /\ Locked(e, j)' => d = e
  <2>1. CASE j = k
    BY <2>1, <1>1, <1>2, <1>3
  <2>2. CASE j # k
    <3>1. \A d \in Cart : Locked(d, j)' <=> Locked(d, j)
      BY <2>2, <1>3
    <3>2. junction_lock'[j] = junction_lock[j]
      BY <2>2, <1>1
    <3> QED BY <3>1, <3>2 DEF LockInv
  <2> QED BY <2>1, <2>2
<1>5. ReserveInv'
  BY <1>3 DEF ReserveInv
<1> QED BY <1>4, <1>5 DEF LockInv

(***************************************************************************)
(* A thread that raises semaphore k, which it had, and gives it up.        *)
(***************************************************************************)
LEMMA GiveLock ==
    ASSUME IInv, NEW c \in Cart, NEW l, Goto(c, l),
           UNCHANGED <<track, junction, reserved>>,
           NEW k \in Junctions, sem_post(k), Locked(c, k),
           \A j \in Junctions : Locked(c, j)' <=> Locked(c, j) /\ j # k,
           \A j \in Junctions : Reserved(c, j)' <=> Reserved(c, j)
    PROVE  LockInv' /\ ReserveInv'
<1> USE DEF IInv
<1>1. /\ junction_lock[k] = 0
      /\ junction_lock'[k] = 1
      /\ \A j \in Junctions : j # k => junction_lock'[j] = junction_lock[j]
  BY DEF sem_post, LockInv, TypeOK
<1>2. \A d \in Cart : d # c => ~Locked(d, k)
  BY DEF LockInv
<1>3. \A d \in Cart : d # c => \A j : /\ Locked(d, j)' <=> Locked(d, j)
                                      /\ Reserved(d, j)' <=> Reserved(d, j)
  BY OtherCarts
<1>4. ASSUME NEW j \in Junctions
      PROVE  /\ junction_lock'[j] \in {0, 1}
             /\ junction_lock'[j] = 0 <=> \E d \in Cart : Locked(d, j)'
             /\ \A d, e \in Cart : Locked(d, j)' /\ Locked(e, j)' => d = e
  <2>1. CASE j = k
    BY <2>1, <1>1, <1>2, <1>3
  <2>2. CASE j # k
    <3>1. \A d \in Cart : Locked(d, j)' <=> Locked(d, j)
      BY <2>2, <1>3
    <3>2. junction_lock'[j] = junction_lock[j]
      BY <2>2, <1>1
    <3> QED BY <3>1, <3>2 DEF LockInv
  <2> QED BY <2>1, <2>2
<1>5. ReserveInv'
  BY <1>3 DEF ReserveInv
<1> QED BY <1>4, <1>5 DEF LockInv

(***************************************************************************)
(* reserve(c, k) by the thread that has locked k: nobody has reserved it,  *)
(* and it is an end of the cart's track.                                   *)
(***************************************************************************)
LEMMA ReserveStep ==
    ASSUME IInv, NEW c \in Cart, NEW l \in Labels, NEW k \in Junctions,
           reserve(c, k, l), Locked(c, k), ~Reserved(c, k),
           Goto(c, l) /\ UNCHANGED <<track, junction>> =>
              /\ \A j \in Junctions : Locked(c, j)' <=> Locked(c, j)
              /\ \A j \in Junctions : Reserved(c, j)' <=> Reserved(c, j) \/ j = k
    PROVE  Goto(c, l) /\ LockInv' /\ ReserveInv' /\ NeverExits'
             /\ reserved' \in [Junctions -> Cart \cup {None}]
<1> USE DEF IInv
<1>1. reserved[k] = None
  <2>1. SUFFICES ASSUME reserved[k] # None PROVE FALSE
    OBVIOUS
  <2>2. reserved[k] \in Cart /\ Reserved(reserved[k], k)
    BY <2>1 DEF TypeOK, ReserveInv
  <2>3. Locked(reserved[k], k)
    <3>1. pc[reserved[k]] # "away"
      BY <2>2 DEF Reserved
    <3>2. QED BY <2>2, <3>1, CartGeometry DEF Reserved, Locked, WithBoth
  <2> QED BY <2>2, <2>3 DEF LockInv
<1>0. k \in Ends(track[c])
  <2>1. pc[c] # "away"
    BY DEF Locked, WithBoth
  <2> QED BY <2>1, CartGeometry DEF Locked
<1>2. /\ reserved' = [reserved EXCEPT ![k] = c]
      /\ Goto(c, l)
      /\ UNCHANGED <<exited, track, junction, junction_lock>>
  BY <1>0, <1>1 DEF reserve
<1>3. \A d \in Cart : d # c => \A j : /\ Locked(d, j)' <=> Locked(d, j)
                                      /\ Reserved(d, j)' <=> Reserved(d, j)
  BY <1>2, OtherCarts
<1>4. \A d \in Cart : \A j \in Junctions : Locked(d, j)' <=> Locked(d, j)
  BY <1>2, <1>3
<1>5. LockInv'
  BY <1>2, <1>4 DEF LockInv
<1>6. ASSUME NEW j \in Junctions, NEW d \in Cart
      PROVE  reserved'[j] = d <=> Reserved(d, j)'
  <2>1. CASE j = k
    BY <2>1, <1>1, <1>2, <1>3, CartmanAssumption DEF ReserveInv, TypeOK
  <2>2. CASE j # k
    BY <2>2, <1>2, <1>3 DEF ReserveInv, TypeOK
  <2> QED BY <2>1, <2>2
<1> QED BY <1>2, <1>5, <1>6 DEF ReserveInv, NeverExits, TypeOK

(***************************************************************************)
(* release(c, k) by the thread that has reserved k.                        *)
(***************************************************************************)
LEMMA ReleaseStep ==
    ASSUME IInv, NEW c \in Cart, NEW l \in Labels, NEW k \in Junctions,
           release(c, k, l), Reserved(c, k),
           Goto(c, l) /\ UNCHANGED <<track, junction>> =>
              /\ \A j \in Junctions : Locked(c, j)' <=> Locked(c, j)
              /\ \A j \in Junctions : Reserved(c, j)' <=> Reserved(c, j) /\ j # k
    PROVE  Goto(c, l) /\ LockInv' /\ ReserveInv' /\ NeverExits'
             /\ reserved' \in [Junctions -> Cart \cup {None}]
<1> USE DEF IInv
<1>1. reserved[k] = c
  BY DEF ReserveInv
<1>2. /\ reserved' = [reserved EXCEPT ![k] = None]
      /\ Goto(c, l)
      /\ UNCHANGED <<exited, track, junction, junction_lock>>
  BY <1>1 DEF release
<1>3. \A d \in Cart : d # c => \A j : /\ Locked(d, j)' <=> Locked(d, j)
                                      /\ Reserved(d, j)' <=> Reserved(d, j)
  BY <1>2, OtherCarts
<1>4. \A d \in Cart : \A j \in Junctions : Locked(d, j)' <=> Locked(d, j)
  BY <1>2, <1>3
<1>5. LockInv'
  BY <1>2, <1>4 DEF LockInv
<1>6. ASSUME NEW j \in Junctions, NEW d \in Cart
      PROVE  reserved'[j] = d <=> Reserved(d, j)'
  <2>1. CASE j = k
    BY <2>1, <1>1, <1>2, <1>3, CartmanAssumption DEF ReserveInv, TypeOK
  <2>2. CASE j # k
    BY <2>2, <1>2, <1>3 DEF ReserveInv, TypeOK
  <2> QED BY <2>1, <2>2
<1> QED BY <1>2, <1>5, <1>6 DEF ReserveInv, NeverExits, TypeOK

-----------------------------------------------------------------------------
(* IInv is inductive: one step per statement of thread_routine(). *)
LEMMA StepIInv == IInv /\ [CartNext]_cartVars => IInv'
<1> SUFFICES ASSUME IInv, [CartNext]_cartVars PROVE IInv'
  OBVIOUS
<1>t. TypeOK /\ LockInv /\ ReserveInv /\ NeverExits
  BY DEF IInv
<1>1. ASSUME UNCHANGED cartVars PROVE IInv'
  BY <1>1, <1>t DEF IInv, TypeOK, LockInv, ReserveInv, NeverExits, Locked,
                    Reserved, destination, first, cartVars
<1>2. ASSUME NEW c \in Cart, NEW tr \in Junctions, NEW j \in Ends(tr),
             Arrive(c, tr, j)
      PROVE  IInv'
  <2>1. TypeOK'
    BY <1>2, <1>t, Geometry DEF TypeOK, Arrive, Goto, Labels
  <2>2. \A d \in Cart, k \in Junctions : /\ Locked(d, k)' <=> Locked(d, k)
                                         /\ Reserved(d, k)' <=> Reserved(d, k)
    BY <1>2, <1>t DEF TypeOK, Arrive, At, Goto, Locked, Reserved, WithBoth,
                      destination, first
  <2>3. UNCHANGED <<junction_lock, reserved, exited>>
    BY <1>2 DEF Arrive
  <2> QED BY <2>1, <2>2, <2>3, <1>t DEF IInv, LockInv, ReserveInv, NeverExits
<1>3. ASSUME NEW c \in Cart, ArriveFails(c) PROVE IInv'
  BY <1>3, <1>t DEF ArriveFails, IInv, TypeOK, LockInv, ReserveInv, NeverExits,
                    Locked, Reserved, destination, first
<1>4. ASSUME NEW c \in Cart, Lock1(c) PROVE IInv'
  <2>1. /\ pc[c] = "lock1" /\ sem_wait(first(c)) /\ Goto(c, "lock2")
        /\ UNCHANGED <<track, junction, reserved, exited>>
    BY <1>4 DEF Lock1, At
  <2>2. first(c) \in Junctions
    BY <2>1, <1>t, CartGeometry
  <2>3. TypeOK'
    BY <2>1, <2>2, <1>t DEF TypeOK, Goto, sem_wait, Labels
  <2>4. \A k : /\ Locked(c, k)' <=> Locked(c, k) \/ k = first(c)
               /\ Reserved(c, k)' <=> Reserved(c, k)
    BY <2>1, <1>t, OwnCart DEF Locked, Reserved, WithBoth
  <2>5. LockInv' /\ ReserveInv'
    <3>1. PICK k \in Junctions : k = first(c)
      BY <2>2
    <3>2. sem_wait(k)
      BY <2>1, <3>1
    <3> QED BY <2>1, <2>4, <3>1, <3>2, TakeLock
  <2> QED BY <2>1, <2>3, <2>5, <1>t DEF IInv, NeverExits
<1>5. ASSUME NEW c \in Cart, Lock2(c) PROVE IInv'
  <2>1. /\ pc[c] = "lock2" /\ sem_wait(second(c)) /\ Goto(c, "reserve1")
        /\ UNCHANGED <<track, junction, reserved, exited>>
    BY <1>5 DEF Lock2, At
  <2>2. /\ second(c) \in Junctions
        /\ {first(c), second(c)} = {junction[c], destination(c)}
    BY <2>1, <1>t, CartGeometry
  <2>3. TypeOK'
    BY <2>1, <2>2, <1>t DEF TypeOK, Goto, sem_wait, Labels
  <2>4. \A k : /\ Locked(c, k)' <=> Locked(c, k) \/ k = second(c)
               /\ Reserved(c, k)' <=> Reserved(c, k)
    BY <2>1, <2>2, <1>t, OwnCart DEF Locked, Reserved, WithBoth
  <2>5. LockInv' /\ ReserveInv'
    <3>1. PICK k \in Junctions : k = second(c)
      BY <2>2
    <3>2. sem_wait(k)
      BY <2>1, <3>1
    <3> QED BY <2>1, <2>4, <3>1, <3>2, TakeLock
  <2> QED BY <2>1, <2>3, <2>5, <1>t DEF IInv, NeverExits
<1>6. ASSUME NEW c \in Cart, Reserve1(c) PROVE IInv'
  <2>1. pc[c] = "reserve1" /\ reserve(c, first(c), "reserve2")
    BY <1>6 DEF Reserve1, At
  <2>2. first(c) \in Junctions /\ first(c) \in {junction[c], destination(c)}
    BY <2>1, <1>t, CartGeometry
  <2>3. Locked(c, first(c)) /\ ~Reserved(c, first(c))
    BY <2>1, <2>2 DEF Locked, Reserved, WithBoth
  <2>4. ASSUME Goto(c, "reserve2"), UNCHANGED <<track, junction>>
        PROVE  \A k : /\ Locked(c, k)' <=> Locked(c, k)
                      /\ Reserved(c, k)' <=> Reserved(c, k) \/ k = first(c)
    BY <2>1, <2>4, <1>t, OwnCart DEF Locked, Reserved, WithBoth
  <2>5. Goto(c, "reserve2") /\ LockInv' /\ ReserveInv' /\ NeverExits'
          /\ reserved' \in [Junctions -> Cart \cup {None}]
    <3>1. PICK k \in Junctions : k = first(c)
      BY <2>2
    <3>2. reserve(c, k, "reserve2") /\ Locked(c, k) /\ ~Reserved(c, k)
      BY <2>1, <2>3, <3>1
    <3> QED BY <2>1, <2>4, <3>1, <3>2, ReserveStep DEF Labels
  <2>6. TypeOK'
    BY <2>1, <2>5, <1>t DEF TypeOK, Goto, Labels, reserve
  <2> QED BY <2>5, <2>6 DEF IInv
<1>7. ASSUME NEW c \in Cart, Reserve2(c) PROVE IInv'
  <2>1. pc[c] = "reserve2" /\ reserve(c, second(c), "cross")
    BY <1>7 DEF Reserve2, At
  <2>2. /\ second(c) \in Junctions /\ second(c) # first(c)
        /\ {first(c), second(c)} = {junction[c], destination(c)}
    BY <2>1, <1>t, CartGeometry DEF Junctions
  <2>3. Locked(c, second(c)) /\ ~Reserved(c, second(c))
    BY <2>1, <2>2 DEF Locked, Reserved, WithBoth
  <2>4. ASSUME Goto(c, "cross"), UNCHANGED <<track, junction>>
        PROVE  \A k : /\ Locked(c, k)' <=> Locked(c, k)
                      /\ Reserved(c, k)' <=> Reserved(c, k) \/ k = second(c)
    BY <2>1, <2>2, <2>4, <1>t, OwnCart DEF Locked, Reserved, WithBoth
  <2>5. Goto(c, "cross") /\ LockInv' /\ ReserveInv' /\ NeverExits'
          /\ reserved' \in [Junctions -> Cart \cup {None}]
    <3>1. PICK k \in Junctions : k = second(c)
      BY <2>2
    <3>2. reserve(c, k, "cross") /\ Locked(c, k) /\ ~Reserved(c, k)
      BY <2>1, <2>3, <3>1
    <3> QED BY <2>1, <2>4, <3>1, <3>2, ReserveStep DEF Labels
  <2>6. TypeOK'
    BY <2>1, <2>5, <1>t DEF TypeOK, Goto, Labels, reserve
  <2> QED BY <2>5, <2>6 DEF IInv
<1>8. ASSUME NEW c \in Cart, Cross(c) PROVE IInv'
  <2>1. /\ pc[c] = "cross"
        /\ UNCHANGED <<track, junction, junction_lock, reserved>>
    BY <1>8 DEF Cross, At
  <2>2. \A j \in Ends(track[c]) : j \in Junctions /\ reserved[j] = c
    BY <2>1, <1>t, CartGeometry DEF ReserveInv, Reserved
  <2>3. Goto(c, "release1") /\ UNCHANGED exited
    BY <1>8, <2>2 DEF Cross
  <2>4. \A d \in Cart : \A j : /\ Locked(d, j)' <=> Locked(d, j)
                               /\ Reserved(d, j)' <=> Reserved(d, j)
    BY <2>1, <2>3, <1>t, OwnCart, OtherCarts DEF Locked, Reserved, WithBoth
  <2>5. TypeOK'
    BY <2>1, <2>3, <1>t DEF TypeOK, Goto, Labels
  <2>6. LockInv'
    BY <2>1, <2>4, <1>t DEF LockInv
  <2>7. ReserveInv' /\ NeverExits'
    BY <2>1, <2>3, <2>4, <1>t DEF ReserveInv, NeverExits
  <2> QED BY <2>5, <2>6, <2>7 DEF IInv
<1>9. ASSUME NEW c \in Cart, Release1(c) PROVE IInv'
  <2>1. pc[c] = "release1" /\ release(c, junction[c], "post1")
    BY <1>9 DEF Release1, At
  <2>2. junction[c] \in Junctions /\ destination(c) # junction[c]
    BY <2>1, <1>t, CartGeometry
  <2>3. Reserved(c, junction[c])
    BY <2>1 DEF Reserved
  <2>4. ASSUME Goto(c, "post1"), UNCHANGED <<track, junction>>
        PROVE  \A k : /\ Locked(c, k)' <=> Locked(c, k)
                      /\ Reserved(c, k)' <=> Reserved(c, k) /\ k # junction[c]
    BY <2>1, <2>2, <2>4, <1>t, OwnCart DEF Locked, Reserved, WithBoth
  <2>5. Goto(c, "post1") /\ LockInv' /\ ReserveInv' /\ NeverExits'
          /\ reserved' \in [Junctions -> Cart \cup {None}]
    <3>1. PICK k \in Junctions : k = junction[c]
      BY <2>2
    <3>2. release(c, k, "post1") /\ Reserved(c, k)
      BY <2>1, <2>3, <3>1
    <3> QED BY <2>1, <2>4, <3>1, <3>2, ReleaseStep DEF Labels
  <2>6. TypeOK'
    BY <2>1, <2>5, <1>t DEF TypeOK, Goto, Labels, release
  <2> QED BY <2>5, <2>6 DEF IInv
<1>10. ASSUME NEW c \in Cart, Post1(c) PROVE IInv'
  <2>1. /\ pc[c] = "post1" /\ sem_post(junction[c]) /\ Goto(c, "release2")
        /\ UNCHANGED <<track, junction, reserved, exited>>
    BY <1>10 DEF Post1, At
  <2>2. junction[c] \in Junctions /\ destination(c) # junction[c]
    BY <2>1, <1>t, CartGeometry
  <2>3. TypeOK'
    BY <2>1, <2>2, <1>t DEF TypeOK, Goto, sem_post, Labels
  <2>4. \A k : /\ Locked(c, k)' <=> Locked(c, k) /\ k # junction[c]
               /\ Reserved(c, k)' <=> Reserved(c, k)
    BY <2>1, <2>2, <1>t, OwnCart DEF Locked, Reserved, WithBoth
  <2>5. Locked(c, junction[c])
    BY <2>1 DEF Locked, WithBoth
  <2>6. LockInv' /\ ReserveInv'
    <3>1. PICK k \in Junctions : k = junction[c]
      BY <2>2
    <3>2. sem_post(k) /\ Locked(c, k)
      BY <2>1, <2>5, <3>1
    <3> QED BY <2>1, <2>4, <3>1, <3>2, GiveLock
  <2> QED BY <2>1, <2>3, <2>6, <1>t DEF IInv, NeverExits
<1>11. ASSUME NEW c \in Cart, Release2(c) PROVE IInv'
  <2>1. pc[c] = "release2" /\ release(c, destination(c), "post2")
    BY <1>11 DEF Release2, At
  <2>2. destination(c) \in Junctions
    BY <2>1, <1>t, CartGeometry
  <2>3. Reserved(c, destination(c))
    BY <2>1 DEF Reserved
  <2>4. ASSUME Goto(c, "post2"), UNCHANGED <<track, junction>>
        PROVE  \A k : /\ Locked(c, k)' <=> Locked(c, k)
                      /\ Reserved(c, k)' <=> Reserved(c, k) /\ k # destination(c)
    BY <2>1, <2>4, <1>t, OwnCart DEF Locked, Reserved, WithBoth
  <2>5. Goto(c, "post2") /\ LockInv' /\ ReserveInv' /\ NeverExits'
          /\ reserved' \in [Junctions -> Cart \cup {None}]
    <3>1. PICK k \in Junctions : k = destination(c)
      BY <2>2
    <3>2. release(c, k, "post2") /\ Reserved(c, k)
      BY <2>1, <2>3, <3>1
    <3> QED BY <2>1, <2>4, <3>1, <3>2, ReleaseStep DEF Labels
  <2>6. TypeOK'
    BY <2>1, <2>5, <1>t DEF TypeOK, Goto, Labels, release
  <2> QED BY <2>5, <2>6 DEF IInv
<1>12. ASSUME NEW c \in Cart, Post2(c) PROVE IInv'
  <2>1. /\ pc[c] = "post2" /\ sem_post(destination(c)) /\ Goto(c, "done")
        /\ UNCHANGED <<track, junction, reserved, exited>>
    BY <1>12 DEF Post2, At
  <2>2. destination(c) \in Junctions
    BY <2>1, <1>t, CartGeometry
  <2>3. TypeOK'
    BY <2>1, <2>2, <1>t DEF TypeOK, Goto, sem_post, Labels
  <2>4. \A k : /\ Locked(c, k)' <=> Locked(c, k) /\ k # destination(c)
               /\ Reserved(c, k)' <=> Reserved(c, k)
    BY <2>1, <1>t, OwnCart DEF Locked, Reserved, WithBoth
  <2>5. Locked(c, destination(c))
    BY <2>1 DEF Locked
  <2>6. LockInv' /\ ReserveInv'
    <3>1. PICK k \in Junctions : k = destination(c)
      BY <2>2
    <3>2. sem_post(k) /\ Locked(c, k)
      BY <2>1, <2>5, <3>1
    <3> QED BY <2>1, <2>4, <3>1, <3>2, GiveLock
  <2> QED BY <2>1, <2>3, <2>6, <1>t DEF IInv, NeverExits
<1> QED
  BY <1>1, <1>2, <1>3, <1>4, <1>5, <1>6, <1>7, <1>8, <1>9, <1>10, <1>11, <1>12
     DEF CartNext, Step

-----------------------------------------------------------------------------
(* A nonempty set of junctions has a greatest member. *)
LEMMA GreatestJunction ==
    ASSUME NEW S, S \subseteq Junctions, S # {}
    PROVE  \E j \in S : \A k \in S : k <= j
<1> DEFINE R == OpToRel(<, Nat)
           T == {Tracks - j : j \in S}
<1>1. T \subseteq Nat /\ T # {}
  <2>1. \A j \in S : Tracks - j \in Nat
    BY CartmanAssumption DEF Junctions
  <2> QED BY <2>1
<1>2. PICK n \in T : \A m \in T : <<m, n>> \notin R
  <2>1. IsWellFoundedOn(R, Nat)
    BY NatLessThanWellFounded
  <2> HIDE DEF R, T
  <2> QED BY <1>1, <2>1, WFMin
<1>3. \A m \in T : n <= m
  <2>1. \A x, y \in Nat : x < y => <<x, y>> \in R
    BY DEF OpToRel
  <2> HIDE DEF R, T
  <2>2. \A m \in T : m \in Nat /\ n \in Nat /\ ~(m < n)
    BY <1>1, <1>2, <2>1, Zenon
  <2> QED BY <2>2
<1>4. PICK j \in S : n = Tracks - j
  OBVIOUS
<1>5. \A k \in S : Tracks - k \in T
  OBVIOUS
<1> HIDE DEF T
<1> QED BY <1>3, <1>4, <1>5, CartmanAssumption DEF Junctions

(***************************************************************************)
(* If every thread under way were waiting, some thread would wait for its  *)
(* second junction; of those, one waits for the highest-numbered junction, *)
(* and the thread that has it waits for a still higher one.                *)
(***************************************************************************)
LEMMA IInvNoDeadlock == IInv => NoDeadlock
<1> SUFFICES ASSUME IInv, NEW a \in Cart, Active(a),
                    \A c \in Cart : Active(c) => Waiting(c)
             PROVE  FALSE
  BY DEF NoDeadlock
<1> USE DEF IInv
<1> DEFINE Second == {c \in Cart : pc[c] = "lock2"}
<1>1. ASSUME NEW j \in Junctions, junction_lock[j] = 0
      PROVE  \E d \in Second : j = first(d)
  <2>1. PICK d \in Cart : Locked(d, j)
    BY <1>1 DEF LockInv
  <2>2. Active(d)
    BY <2>1 DEF Locked, WithBoth, Active
  <2>3. pc[d] \in {"lock1", "lock2"}
    BY <2>2 DEF Waiting
  <2> QED BY <2>1, <2>3 DEF Locked, WithBoth
<1>2. ASSUME NEW c \in Second
      PROVE  /\ second(c) \in Junctions
             /\ \E d \in Second : second(c) = first(d)
  <2>1. second(c) \in Junctions /\ junction_lock[second(c)] = 0
    BY CartGeometry DEF Active, Waiting
  <2>2. PICK j \in Junctions : j = second(c)
    BY <2>1
  <2> QED BY <2>1, <2>2, <1>1
<1>3. Second # {}
  <2>1. CASE pc[a] = "lock1"
    <3>1. PICK j \in Junctions : j = first(a)
      BY <2>1, CartGeometry
    <3> QED BY <2>1, <3>1, <1>1 DEF Active, Waiting
  <2>2. CASE pc[a] = "lock2"
    BY <2>2
  <2> QED BY <2>1, <2>2 DEF Waiting
<1>4. PICK c \in Second : \A d \in Second : second(d) <= second(c)
  <2> DEFINE S == {second(d) : d \in Second}
  <2>1. S \subseteq Junctions /\ S # {}
    BY <1>2, <1>3
  <2>2. \E j \in S : \A k \in S : k <= j
    <3> HIDE DEF S
    <3> QED BY <2>1, GreatestJunction
  <2> QED BY <2>2
<1>5. PICK d \in Second : second(c) = first(d)
  BY <1>2
<1>6. first(d) < second(d) /\ first(d) \in Junctions /\ second(d) \in Junctions
  BY CartGeometry
<1> QED BY <1>4, <1>5, <1>6 DEF Junctions

(* With no thread under way nobody has locked or reserved a junction. *)
LEMMA IInvAllReturned == IInv => AllReturned
<1> SUFFICES ASSUME IInv, \A c \in Cart : pc[c] \in {"away", "done"},
                    NEW j \in Junctions
             PROVE  junction_lock[j] = 1 /\ reserved[j] = None
  BY DEF AllReturned
<1>1. \A c \in Cart : ~Locked(c, j) /\ ~Reserved(c, j)
  BY DEF Locked, Reserved, WithBoth
<1> QED BY <1>1 DEF IInv, TypeOK, LockInv, ReserveInv

-----------------------------------------------------------------------------
(***************************************************************************)
(* What each thread has follows from where it is, in every reachable state *)
(* (junction_lock[] and the cart system's reservations, cartman.c:86-180). *)
(***************************************************************************)
THEOREM Inductive == CartSpec => []IInv
<1>1. CartInit => IInv
  BY InitIInv
<1>2. IInv /\ [CartNext]_cartVars => IInv'
  BY StepIInv
<1> QED BY <1>1, <1>2, PTL DEF CartSpec

(* The variables of thread_routine() and of the cart system keep their type. *)
THEOREM TypeCorrect == CartSpec => []TypeOK
<1>1. IInv => TypeOK
  BY DEF IInv
<1> QED BY <1>1, Inductive, PTL

(***************************************************************************)
(* No call of reserve(), cross() or release() in thread_routine() makes    *)
(* the cart system exit, whatever carts arrive where, on any ring.         *)
(***************************************************************************)
THEOREM SystemNeverExits == CartSpec => []NeverExits
<1>1. IInv => NeverExits
  BY DEF IInv
<1> QED BY <1>1, Inductive, PTL

(***************************************************************************)
(* When no thread of thread_routine() is under way, every semaphore is up  *)
(* and no junction is reserved.                                            *)
(***************************************************************************)
THEOREM NothingLeftLocked == CartSpec => []AllReturned
  BY IInvAllReturned, Inductive, PTL

(***************************************************************************)
(* Locking the lower-numbered junction first (cartman.c:86-102) excludes   *)
(* deadlock among any number of carts on a ring of any size.               *)
(***************************************************************************)
THEOREM DeadlockFree == CartSpec => []NoDeadlock
  BY IInvNoDeadlock, Inductive, PTL

=============================================================================
