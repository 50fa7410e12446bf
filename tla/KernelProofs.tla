---------------------------- MODULE KernelProofs -----------------------------
(***************************************************************************)
(* Proofs about the thread system of Lab 2, for any threads, priorities,   *)
(* semaphores, locks and condition variables, any client code and any      *)
(* number of preemptions.                                                  *)
(*                                                                         *)
(* They rest on what list_sort() of lib/kernel/list.c does to the lists of *)
(* the thread system, of any length: the result holds the same elements,   *)
(* ordered by key, and elements of one key keep their order                *)
(* (ListSortStable).  The lemmas on the other list operations say which    *)
(* elements a list holds afterwards.                                       *)
(***************************************************************************)
EXTENDS PriorityKernel, FiniteSetTheorems, WellFoundedInduction, TLAPS

(***************************************************************************)
(* The lists.                                                              *)
(***************************************************************************)

(* s is a list of elements of S, each on it once *)
Distinct(s, S) ==
    s \in Seq(S) /\ \A i, j \in 1 .. Len(s) : s[i] = s[j] => i = j

Before(s, key, i) == {j \in 1 .. Len(s) : Precedes(s, key, j, i)}

-----------------------------------------------------------------------------
(* Precedes is a total order on the positions of the list. *)
LEMMA PrecedesOrder ==
    ASSUME NEW S, NEW s \in Seq(S), NEW key \in [S -> Int]
    PROVE  /\ \A i \in 1 .. Len(s) : Precedes(s, key, i, i)
           /\ \A i, j \in 1 .. Len(s) : Precedes(s, key, i, j) \/ Precedes(s, key, j, i)
           /\ \A i, j \in 1 .. Len(s) :
                 Precedes(s, key, i, j) /\ Precedes(s, key, j, i) => i = j
           /\ \A i, j, k \in 1 .. Len(s) :
                 Precedes(s, key, i, j) /\ Precedes(s, key, j, k) => Precedes(s, key, i, k)
<1>1. \A i \in 1 .. Len(s) : s[i] \in S /\ key[s[i]] \in Int /\ i \in Int
  OBVIOUS
<1>2. QED
  BY <1>1 DEF Precedes

(* The place of an element is a position of the list. *)
LEMMA PlaceIsPosition ==
    ASSUME NEW S, NEW s \in Seq(S), NEW key \in [S -> Int], NEW i \in 1 .. Len(s)
    PROVE  /\ Place(s, key, i) \in 1 .. Len(s)
           /\ Place(s, key, i) = Cardinality(Before(s, key, i))
           /\ IsFiniteSet(Before(s, key, i))
<1>1. DOMAIN s = 1 .. Len(s) /\ Len(s) \in Nat
  OBVIOUS
<1>2. Place(s, key, i) = Cardinality(Before(s, key, i))
  BY <1>1 DEF Place, Before
<1>3. IsFiniteSet(1 .. Len(s)) /\ Cardinality(1 .. Len(s)) = Len(s)
  <2>1. 1 \in Int /\ Len(s) \in Int /\ (IF 1 > Len(s) THEN 0 ELSE Len(s) - 1 + 1) = Len(s)
    BY <1>1
  <2>2. QED
    BY <2>1, FS_Interval, Zenon
<1>4. Before(s, key, i) \in SUBSET (1 .. Len(s)) /\ i \in Before(s, key, i)
  BY PrecedesOrder DEF Before
<1>5. IsFiniteSet(Before(s, key, i)) /\ Cardinality(Before(s, key, i)) <= Len(s)
  BY <1>3, <1>4, FS_Subset
<1>6. Cardinality(Before(s, key, i)) \in Nat /\ Cardinality(Before(s, key, i)) # 0
  BY <1>4, <1>5, FS_CardinalityType, FS_EmptySet
<1>7. QED
  BY <1>1, <1>2, <1>5, <1>6

(* The places are in the order of Precedes. *)
LEMMA PlaceGrows ==
    ASSUME NEW S, NEW s \in Seq(S), NEW key \in [S -> Int],
           NEW i \in 1 .. Len(s), NEW j \in 1 .. Len(s), i # j, Precedes(s, key, i, j)
    PROVE  Place(s, key, i) < Place(s, key, j)
<1>1. /\ Place(s, key, i) = Cardinality(Before(s, key, i))
      /\ Place(s, key, j) = Cardinality(Before(s, key, j))
      /\ IsFiniteSet(Before(s, key, j))
      /\ Place(s, key, i) \in Int /\ Place(s, key, j) \in Int
  BY PlaceIsPosition
<1>2. Before(s, key, i) \in SUBSET Before(s, key, j)
  BY PrecedesOrder DEF Before
<1>3. j \in Before(s, key, j) /\ j \notin Before(s, key, i)
  BY PrecedesOrder DEF Before
<1>4. /\ Cardinality(Before(s, key, i)) <= Cardinality(Before(s, key, j))
      /\ Cardinality(Before(s, key, j)) # Cardinality(Before(s, key, i))
  BY <1>1, <1>2, <1>3, FS_Subset
<1>5. QED
  BY <1>1, <1>4

(* Every position is the place of one element. *)
LEMMA PlaceOnto ==
    ASSUME NEW S, NEW s \in Seq(S), NEW key \in [S -> Int], NEW p \in 1 .. Len(s)
    PROVE  \E i \in 1 .. Len(s) : Place(s, key, i) = p
<1> DEFINE D == 1 .. Len(s)
           f == [i \in D |-> Place(s, key, i)]
<1>1. f \in [D -> D] /\ \A i \in D : f[i] = Place(s, key, i)
  BY PlaceIsPosition
<1>2. ASSUME NEW i \in D, NEW j \in D, f[i] = f[j] PROVE i = j
  <2> SUFFICES ASSUME i # j PROVE FALSE
    OBVIOUS
  <2>1. Place(s, key, i) < Place(s, key, j) \/ Place(s, key, j) < Place(s, key, i)
    BY PlaceGrows, PrecedesOrder
  <2>2. Place(s, key, i) \in Int /\ Place(s, key, j) \in Int
    BY PlaceIsPosition
  <2>3. QED
    BY <1>1, <1>2, <2>1, <2>2
<1>3. IsFiniteSet(D)
  <2>1. 1 \in Int /\ Len(s) \in Int
    OBVIOUS
  <2>2. QED
    BY <2>1, FS_Interval
<1> HIDE DEF f, D
<1>4. f \in Injection(D, D)
  BY <1>1, <1>2 DEF Injection, IsInjective
<1>5. f \in Surjection(D, D)
  BY <1>3, <1>4, FS_Injection
<1>6. QED
  BY <1>1, <1>5 DEF Surjection, D

(***************************************************************************)
(* list_sort() moves the element at position i to Place(i), and nothing    *)
(* else comes to be there.                                                 *)
(***************************************************************************)
LEMMA SortPlaces ==
    ASSUME NEW S, NEW s \in Seq(S), NEW key \in [S -> Int]
    PROVE  /\ list_sort(s, key) \in Seq(S)
           /\ Len(list_sort(s, key)) = Len(s)
           /\ \A i \in 1 .. Len(s) : list_sort(s, key)[Place(s, key, i)] = s[i]
<1> DEFINE at(p) == CHOOSE i \in 1 .. Len(s) : Place(s, key, i) = p
<1>1. DOMAIN s = 1 .. Len(s) /\ Len(s) \in Nat /\ \A i \in 1 .. Len(s) : s[i] \in S
  OBVIOUS
<1>2. \A p \in 1 .. Len(s) : at(p) \in 1 .. Len(s) /\ Place(s, key, at(p)) = p
  BY PlaceOnto
<1>3. list_sort(s, key) = [p \in 1 .. Len(s) |-> s[at(p)]]
  BY <1>1 DEF list_sort
<1>4. \A i \in 1 .. Len(s) : at(Place(s, key, i)) = i
  <2> TAKE i \in 1 .. Len(s)
  <2>1. Place(s, key, i) \in 1 .. Len(s)
    BY PlaceIsPosition
  <2> DEFINE k == at(Place(s, key, i))
  <2>2. k \in 1 .. Len(s) /\ Place(s, key, k) = Place(s, key, i)
    BY <1>2, <2>1
  <2> HIDE DEF k
  <2>3. Place(s, key, i) \in Int
    BY <2>1
  <2>4. k = i
    BY <2>2, <2>3, PlaceGrows, PrecedesOrder
  <2>5. QED
    BY <2>4 DEF k
<1> HIDE DEF at
<1>5. list_sort(s, key) \in Seq(S) /\ Len(list_sort(s, key)) = Len(s)
  BY <1>1, <1>2, <1>3
<1>6. \A i \in 1 .. Len(s) : list_sort(s, key)[Place(s, key, i)] = s[i]
  BY <1>3, <1>4, PlaceIsPosition
<1>7. QED
  BY <1>5, <1>6

(***************************************************************************)
(* list_sort() orders the list by key and keeps the order of elements with *)
(* one key: the elements at positions p < q of the result come from        *)
(* positions i and j of the list such that i is before j by key, or by     *)
(* place where the keys are the same.                                      *)
(***************************************************************************)
LEMMA ListSortStable ==
    ASSUME NEW S, NEW s \in Seq(S), NEW key \in [S -> Int],
           NEW p \in 1 .. Len(s), NEW q \in 1 .. Len(s), p < q
    PROVE  \E i, j \in 1 .. Len(s) :
              /\ list_sort(s, key)[p] = s[i] /\ list_sort(s, key)[q] = s[j]
              /\ key[s[i]] < key[s[j]] \/ (key[s[i]] = key[s[j]] /\ i < j)
<1>1. PICK i \in 1 .. Len(s) : Place(s, key, i) = p
  BY PlaceOnto
<1>2. PICK j \in 1 .. Len(s) : Place(s, key, j) = q
  BY PlaceOnto
<1>3. i # j /\ ~Precedes(s, key, j, i)
  <2>1. i # j
    BY <1>1, <1>2
  <2>2. ASSUME Precedes(s, key, j, i) PROVE FALSE
    BY <1>1, <1>2, <2>1, <2>2, PlaceGrows
  <2>3. QED
    BY <2>1, <2>2
<1>4. Precedes(s, key, i, j)
  BY <1>3, PrecedesOrder
<1>5. QED
  <2>1. list_sort(s, key)[p] = s[i] /\ list_sort(s, key)[q] = s[j]
    BY <1>1, <1>2, SortPlaces
  <2>2. key[s[i]] < key[s[j]] \/ (key[s[i]] = key[s[j]] /\ i < j)
    BY <1>3, <1>4 DEF Precedes
  <2>3. QED
    BY <2>1, <2>2

-----------------------------------------------------------------------------
(* A sorted list holds the elements of the list, each as often. *)
LEMMA SortElements ==
    ASSUME NEW S, NEW s \in Seq(S), NEW key \in [S -> Int]
    PROVE  /\ ToSet(list_sort(s, key)) = ToSet(s)
           /\ Distinct(s, S) => Distinct(list_sort(s, key), S)
<1> DEFINE r == list_sort(s, key)
<1>1. /\ r \in Seq(S) /\ Len(r) = Len(s) /\ Len(s) \in Nat
      /\ \A i \in 1 .. Len(s) : r[Place(s, key, i)] = s[i]
  BY SortPlaces
<1>2. DOMAIN r = 1 .. Len(s) /\ DOMAIN s = 1 .. Len(s)
  BY <1>1
<1>3. \A i \in 1 .. Len(s) : Place(s, key, i) \in 1 .. Len(s)
  BY PlaceIsPosition
<1>4. \A p \in 1 .. Len(s) : \E i \in 1 .. Len(s) : Place(s, key, i) = p
  BY PlaceOnto
<1> HIDE DEF r
<1>5. ToSet(r) = ToSet(s)
  <2>1. ASSUME NEW p \in DOMAIN r PROVE r[p] \in ToSet(s)
    <3>1. PICK i \in 1 .. Len(s) : Place(s, key, i) = p
      BY <1>2, <1>4
    <3>2. r[p] = s[i]
      BY <1>1, <3>1
    <3>3. QED
      BY <1>2, <3>2 DEF ToSet
  <2>2. ASSUME NEW i \in DOMAIN s PROVE s[i] \in ToSet(r)
    <3>1. r[Place(s, key, i)] = s[i] /\ Place(s, key, i) \in DOMAIN r
      BY <1>1, <1>2, <1>3
    <3>2. QED
      BY <3>1 DEF ToSet
  <2>3. QED
    BY <2>1, <2>2 DEF ToSet
<1>6. Distinct(s, S) => Distinct(r, S)
  <2> SUFFICES ASSUME Distinct(s, S), NEW p \in 1 .. Len(s), NEW q \in 1 .. Len(s), r[p] = r[q]
               PROVE  p = q
    BY <1>1 DEF Distinct
  <2>1. PICK i \in 1 .. Len(s) : Place(s, key, i) = p
    BY <1>4
  <2>2. PICK j \in 1 .. Len(s) : Place(s, key, j) = q
    BY <1>4
  <2>3. s[i] = s[j]
    BY <1>1, <2>1, <2>2
  <2>4. i = j
    BY <2>3 DEF Distinct
  <2>5. QED
    BY <2>1, <2>2, <2>4
<1>7. QED
  BY <1>5, <1>6 DEF r

(***************************************************************************)
(* The last element of the sorted list, which the kernel pops, is the last *)
(* in the list of those with the greatest key.                             *)
(***************************************************************************)
LEMMA SortLast ==
    ASSUME NEW S, NEW s \in Seq(S), NEW key \in [S -> Int], s # <<>>
    PROVE  \E i \in 1 .. Len(s) :
              /\ Last(list_sort(s, key)) = s[i]
              /\ \A j \in 1 .. Len(s) : Precedes(s, key, j, i)
<1>1. Len(s) \in Nat /\ Len(s) >= 1 /\ Len(s) \in 1 .. Len(s)
  OBVIOUS
<1>2. PICK i \in 1 .. Len(s) : Place(s, key, i) = Len(s)
  BY <1>1, PlaceOnto
<1>3. Last(list_sort(s, key)) = s[i]
  BY <1>2, SortPlaces DEF Last
<1>4. \A j \in 1 .. Len(s) : Precedes(s, key, j, i)
  <2> SUFFICES ASSUME NEW j \in 1 .. Len(s), ~Precedes(s, key, j, i) PROVE FALSE
    OBVIOUS
  <2>1. i # j /\ Precedes(s, key, i, j)
    BY PrecedesOrder
  <2>2. Place(s, key, i) < Place(s, key, j) /\ Place(s, key, j) \in 1 .. Len(s)
    BY <2>1, PlaceGrows, PlaceIsPosition
  <2>3. QED
    BY <1>1, <1>2, <2>2
<1>5. QED
  BY <1>2, <1>3, <1>4

(* Popping the last element leaves the others. *)
LEMMA PopLast ==
    ASSUME NEW S, NEW s, Distinct(s, S), s # <<>>
    PROVE  /\ Last(s) \in ToSet(s) /\ Last(s) \in S
           /\ Distinct(Front(s), S)
           /\ ToSet(Front(s)) = ToSet(s) \ {Last(s)}
<1> DEFINE n == Len(s)
<1>1. s \in Seq(S) /\ n \in Nat /\ n >= 1 /\ DOMAIN s = 1 .. n /\ \A i \in 1 .. n : s[i] \in S
  BY DEF Distinct
<1>2. /\ Front(s) \in Seq(S) /\ Len(Front(s)) = n - 1
      /\ \A i \in 1 .. n - 1 : Front(s)[i] = s[i]
  BY <1>1 DEF Front
<1>3. Last(s) = s[n] /\ n \in 1 .. n
  BY <1>1 DEF Last
<1>4. DOMAIN Front(s) = 1 .. n - 1
  BY <1>2
<1>5. Distinct(Front(s), S)
  BY <1>1, <1>2 DEF Distinct
<1>6. ToSet(Front(s)) \subseteq ToSet(s) \ {Last(s)}
  BY <1>1, <1>2, <1>3, <1>4 DEF ToSet, Distinct
<1>7. ToSet(s) \ {Last(s)} \subseteq ToSet(Front(s))
  BY <1>1, <1>2, <1>3, <1>4 DEF ToSet
<1>8. QED
  BY <1>1, <1>3, <1>5, <1>6, <1>7 DEF ToSet

(* The kernel's idiom: sort the list and pop its last element. *)
LEMMA SortPop ==
    ASSUME NEW S, NEW s, Distinct(s, S), NEW key \in [S -> Int], s # <<>>
    PROVE  /\ Last(list_sort(s, key)) \in ToSet(s) /\ Last(list_sort(s, key)) \in S
           /\ Distinct(Front(list_sort(s, key)), S)
           /\ ToSet(Front(list_sort(s, key))) = ToSet(s) \ {Last(list_sort(s, key))}
<1>1. s \in Seq(S)
  BY DEF Distinct
<1>2. list_sort(s, key) # <<>>
  BY <1>1, SortPlaces
<1>3. Distinct(list_sort(s, key), S) /\ ToSet(list_sort(s, key)) = ToSet(s)
  BY <1>1, SortElements
<1>4. QED
  BY <1>2, <1>3, PopLast

(* list_push_back() and list_push_front() add their element. *)
LEMMA PushElements ==
    ASSUME NEW S, NEW s, Distinct(s, S), NEW e \in S, e \notin ToSet(s)
    PROVE  /\ Distinct(Append(s, e), S) /\ ToSet(Append(s, e)) = ToSet(s) \cup {e}
           /\ Distinct(PushFront(s, e), S) /\ ToSet(PushFront(s, e)) = ToSet(s) \cup {e}
<1> DEFINE n == Len(s)
           a == Append(s, e)
           f == PushFront(s, e)
<1>1. s \in Seq(S) /\ n \in Nat /\ DOMAIN s = 1 .. n /\ \A i \in 1 .. n : s[i] \in S /\ s[i] # e
  BY DEF Distinct, ToSet
<1>2. /\ a \in Seq(S) /\ Len(a) = n + 1 /\ a[n + 1] = e /\ \A i \in 1 .. n : a[i] = s[i]
  BY <1>1
<1>3. /\ f \in Seq(S) /\ Len(f) = n + 1 /\ f[1] = e /\ \A i \in 1 .. n : f[i + 1] = s[i]
  BY <1>1 DEF PushFront
<1>4. DOMAIN a = 1 .. n + 1 /\ DOMAIN f = 1 .. n + 1
  BY <1>1, <1>2, <1>3
<1> HIDE DEF a, f
<1>5. Distinct(a, S)
  BY <1>1, <1>2 DEF Distinct
<1>6. \A k \in 1 .. n + 1 : k # 1 => k - 1 \in 1 .. n /\ f[k] = s[k - 1]
  BY <1>1, <1>3
<1>7. Distinct(f, S)
  <2> SUFFICES ASSUME NEW i \in 1 .. n + 1, NEW j \in 1 .. n + 1, f[i] = f[j]
               PROVE  i = j
    BY <1>3 DEF Distinct
  <2>1. CASE i = 1 \/ j = 1
    BY <1>1, <1>3, <1>6, <2>1
  <2>2. CASE i # 1 /\ j # 1
    <3>1. i - 1 \in 1 .. n /\ j - 1 \in 1 .. n /\ s[i - 1] = s[j - 1]
      BY <1>6, <2>2
    <3>2. i - 1 = j - 1
      BY <3>1 DEF Distinct
    <3>3. QED
      BY <1>1, <3>2
  <2>3. QED
    BY <2>1, <2>2
<1>8. ToSet(a) = ToSet(s) \cup {e}
  BY <1>1, <1>2, <1>4 DEF ToSet
<1>9. ToSet(f) = ToSet(s) \cup {e}
  <2>1. \A k \in 1 .. n + 1 : f[k] \in ToSet(s) \cup {e}
    BY <1>1, <1>3, <1>6 DEF ToSet
  <2>2. e \in ToSet(f)
    <3>1. 1 \in DOMAIN f
      BY <1>1, <1>4
    <3>2. QED
      BY <1>3, <3>1 DEF ToSet
  <2>3. \A i \in 1 .. n : s[i] \in ToSet(f)
    <3> TAKE i \in 1 .. n
    <3>1. i + 1 \in DOMAIN f /\ f[i + 1] = s[i]
      BY <1>1, <1>3, <1>4
    <3>2. QED
      BY <3>1 DEF ToSet
  <2>4. QED
    BY <1>1, <1>4, <2>1, <2>2, <2>3 DEF ToSet
<1>10. QED
  BY <1>5, <1>7, <1>8, <1>9 DEF a, f

(* The empty list holds nothing. *)
LEMMA EmptyList ==
    ASSUME NEW S
    PROVE  Distinct(<<>>, S) /\ ToSet(<<>>) = {}
  BY DEF Distinct, ToSet

(* A list that holds nothing is empty. *)
LEMMA NothingListed ==
    ASSUME NEW S, NEW s \in Seq(S)
    PROVE  ToSet(s) = {} <=> s = <<>>
  BY DEF ToSet

-----------------------------------------------------------------------------
(***************************************************************************)
(* What the stack of thread t holds at each statement.                     *)
(***************************************************************************)
Outside == {"user", "idle", "exited", "setboth", "setold", "setyield", "tid",
            "unblock", "created", "await", "reacquire", "broadcast"}
InAcquire == {"acquire", "push", "donator", "compare", "blocker", "donate",
              "chain", "holder"}
InRelease == {"release", "revoke", "restore", "assign", "reset", "up"}

Creating(t) == pc[t] \in {"tid", "unblock"} \/ ret[t] \in {"tid", "unblock"}

Waiting(t) == ret[t] = "await" \/ pc[t] = "await" \/ sm[t] = t

Stack(t) ==
    /\ pc[t] \in Outside => lk[t] = NULL /\ ret[t] = NULL /\ sm[t] = NULL
    /\ pc[t] \in InAcquire => lk[t] \in Lock /\ ret[t] \in {"user", "tid"} /\ sm[t] = NULL
    /\ pc[t] \in InRelease =>
          lk[t] \in Lock /\ ret[t] \in {"user", "unblock", "await"} /\ sm[t] = NULL
    /\ pc[t] \in {"down", "woken"} =>
          \/ sm[t] \in Lock /\ lk[t] = sm[t] /\ ret[t] \in {"user", "tid"}
          \/ sm[t] \in ClientSema /\ lk[t] = NULL /\ ret[t] = NULL
          \/ sm[t] = t /\ lk[t] = NULL /\ ret[t] = NULL /\ arg[t] \in Lock
    /\ pc[t] = "fault" => sm[t] = NULL
    /\ pc[t] = "idle" <=> t = Idle

Params(t) ==
    /\ ret[t] = "tid" => lk[t] = tid_lock
    /\ ret[t] = "await" \/ pc[t] \in {"await", "reacquire"} => arg[t] \in Lock
    /\ Creating(t) \/ pc[t] = "created" => arg[t] \in Thread
    /\ pc[t] \in {"setboth", "setold", "setyield"} => arg[t] \in Priorities
    /\ pc[t] = "broadcast" => arg[t] \in CondVar
    /\ pc[t] \in {"donate", "chain"} => loc[t] \in Lock
    /\ pc[t] = "assign" => loc[t] \in Priorities /\ loc[t] >= priority_old[t]

LocalOK(t) == Stack(t) /\ Params(t)

(***************************************************************************)
(* The lists are what the threads' states say they are.                    *)
(***************************************************************************)
Asleep(s) == {t \in Thread : pc[t] = "woken" /\ sm[t] = s /\ status[t] = "BLOCKED"}

ReadyIn(st) == {t \in Thread \ {Idle} : st[t] = "READY"}

QueueOK(st, rl) == Distinct(rl, Thread) /\ ToSet(rl) = ReadyIn(st)

SchedOK ==
    /\ status[running] = "RUNNING"
    /\ QueueOK(status, ready_list)
    /\ \A s \in Sema : Distinct(waiters[s], Thread) /\ ToSet(waiters[s]) = Asleep(s)
    /\ \A t \in Thread \ {Idle} :
          status[t] = "BLOCKED" => pc[t] = "woken" \/ BeingCreated(t)
    /\ \A t \in Thread \ {Idle} : status[t] = "DYING" => pc[t] = "exited"

(* the threads that thread_create() is at work on *)
CreateOK ==
    /\ \A t \in Thread : Creating(t) => status[arg[t]] = "BLOCKED" /\ pc[arg[t]] = "user"
    /\ \A t, u \in Thread : Creating(t) /\ Creating(u) /\ arg[t] = arg[u] => t = u
    /\ \A t \in Thread : status[t] = "UNUSED" => pc[t] = "user"

(***************************************************************************)
(* Who owns a lock, and who has donated for it.                            *)
(***************************************************************************)
Flying(t, l) == lk[t] = l /\ pc[t] \in InFlight
Owns(t, l) == holder[l] = t \/ Flying(t, l)

(* thread t is inside lock_acquire(l), or has faulted with l at hand *)
Wants(t, l) == lk[t] = l /\ pc[t] \in Acquiring \cup {"fault"}

OwnOK ==
    /\ \A l \in Lock : value[l] <= 1
    /\ \A l \in Lock, t \in Thread : Owns(t, l) => value[l] = 0
    /\ \A l \in Lock, t, u \in Thread : Owns(t, l) /\ Owns(u, l) => t = u
    /\ \A t \in Thread : pc[t] \in InFlight => holder[lk[t]] = NULL
    /\ \A t \in Thread : pc[t] = "release" => holder[lk[t]] = t
    /\ \A t \in Thread : pc[t] = "tid" => holder[tid_lock] = t
    /\ \A l \in Lock, t \in Thread : donator[l] = t => Owns(t, l) \/ Wants(t, l)
    /\ \A t \in Thread : pc[t] = "up" => donator[lk[t]] # t

(* the waiters of condition variables *)
CondOK ==
    /\ \A c \in CondVar : Distinct(cond_waiters[c], Thread)
    /\ \A c \in CondVar : \A t \in ToSet(cond_waiters[c]) : value[t] = 0 /\ Waiting(t)
    /\ \A c, d \in CondVar : c # d => ToSet(cond_waiters[c]) \cap ToSet(cond_waiters[d]) = {}

(* without preemption nothing comes between a comparison and its donation *)
CoopOK ==
    preempts = 0 =>
        \A t \in Thread :
            /\ pc[t] \in {"blocker", "donate"} => running = t
            /\ pc[t] = "blocker" => /\ holder[lk[t]] \in Thread
                                    /\ priority[t] > priority[holder[lk[t]]]
            /\ pc[t] = "donate" => /\ holder[loc[t]] \in Thread
                                   /\ priority[t] > priority[holder[loc[t]]]

IInv ==
    /\ TypeOK
    /\ \A t \in Thread : LocalOK(t)
    /\ SchedOK
    /\ CreateOK
    /\ OwnOK
    /\ CondOK
    /\ NoLostWakeup
    /\ CoopOK

-----------------------------------------------------------------------------
(* A step of thread t moves no other thread. *)
OwnOnly(t) ==
    \A u \in Thread \ {t} :
        /\ pc'[u] = pc[u] /\ ret'[u] = ret[u] /\ lk'[u] = lk[u]
        /\ sm'[u] = sm[u] /\ loc'[u] = loc[u] /\ arg'[u] = arg[u]

(***************************************************************************)
(* A step of the running thread that changes neither the run queue nor a   *)
(* semaphore, and neither begins nor ends a thread_create().               *)
(***************************************************************************)
LEMMA QuietStep ==
    ASSUME IInv, NEW t \in Thread, running = t, OwnOnly(t), LocalOK(t)',
           pc[t] # "woken", pc'[t] # "woken",
           UNCHANGED <<running, status, ready_list, waiters, cond_waiters, value>>,
           Creating(t)' <=> Creating(t), Creating(t) => arg'[t] = arg[t],
           Waiting(t) => Waiting(t)',
           \A u \in Thread \ {t} : priority_old'[u] = priority_old[u]
    PROVE  (\A u \in Thread : LocalOK(u)') /\ SchedOK' /\ CreateOK' /\ CondOK' /\ NoLostWakeup'
<1>1. status[t] = "RUNNING"
  BY DEF IInv, SchedOK
<1>2. \A u \in Thread : LocalOK(u)'
  BY DEF IInv, OwnOnly, LocalOK, Stack, Params, Creating
<1>3. \A u \in Thread : (Creating(u)' <=> Creating(u)) /\ (Creating(u) => arg'[u] = arg[u])
  BY DEF OwnOnly, Creating
<1>4. \A c \in Thread : BeingCreated(c)' <=> BeingCreated(c)
  BY <1>3 DEF BeingCreated, Creating
<1>5. \A s \in Sema : Asleep(s)' = Asleep(s)
  BY <1>1 DEF Asleep, OwnOnly
<1>6. SchedOK'
  BY <1>1, <1>4, <1>5 DEF IInv, SchedOK, OwnOnly, QueueOK, ReadyIn
<1>7. CreateOK'
  BY <1>1, <1>3 DEF IInv, CreateOK, OwnOnly, LocalOK, Params
<1>8. \A u \in Thread : Waiting(u) => Waiting(u)'
  BY DEF OwnOnly, Waiting
<1>9. CondOK'
  <2>1. \A c \in CondVar : ToSet(cond_waiters[c]) \subseteq Thread
    BY DEF IInv, TypeOK, ToSet
  <2>2. QED
    BY <1>8, <2>1 DEF IInv, CondOK
<1>10. \A s \in Sema : Awakened(s)' = Awakened(s)
  BY DEF Awakened, OwnOnly
<1>11. NoLostWakeup'
  BY <1>10 DEF IInv, NoLostWakeup
<1>12. QED
  BY <1>2, <1>6, <1>7, <1>9, <1>11

(***************************************************************************)
(* The owners of locks, after a step of t that hands over none.            *)
(***************************************************************************)
LEMMA OwnFrame ==
    ASSUME IInv, NEW t \in Thread, OwnOnly(t), UNCHANGED holder,
           \A l \in Lock : value'[l] = value[l],
           \A l \in Lock : Flying(t, l)' => Flying(t, l),
           pc'[t] \in InFlight => lk'[t] \in Lock,
           \A l \in Lock, u \in Thread \ {t} : donator'[l] = u => donator[l] = u,
           \A l \in Lock : donator'[l] = t => holder[l] = t \/ Flying(t, l)' \/ Wants(t, l)',
           pc'[t] = "release" => holder[lk'[t]] = t,
           pc'[t] = "tid" => holder[tid_lock] = t,
           pc'[t] = "up" => donator'[lk'[t]] # t
    PROVE  OwnOK'
<1>1. \A l \in Lock, u \in Thread : Owns(u, l)' => Owns(u, l)
  BY DEF Owns, Flying, OwnOnly
<1>2. /\ \A l \in Lock : value'[l] <= 1
      /\ \A l \in Lock, u \in Thread : Owns(u, l)' => value'[l] = 0
      /\ \A l \in Lock, u, v \in Thread : Owns(u, l)' /\ Owns(v, l)' => u = v
  BY <1>1 DEF IInv, OwnOK
<1>3. \A u \in Thread : pc'[u] \in InFlight => holder'[lk'[u]] = NULL
  BY DEF IInv, OwnOK, OwnOnly, Flying
<1>4. /\ \A u \in Thread : pc'[u] = "release" => holder'[lk'[u]] = u
      /\ \A u \in Thread : pc'[u] = "tid" => holder'[tid_lock] = u
  BY DEF IInv, OwnOK, OwnOnly
<1>5. ASSUME NEW l \in Lock, NEW u \in Thread, donator'[l] = u
      PROVE  Owns(u, l)' \/ Wants(u, l)'
  <2>1. CASE u = t
    BY <1>5, <2>1 DEF Owns, Flying, Wants
  <2>2. CASE u # t
    <3>1. Owns(u, l) \/ Wants(u, l)
      BY <1>5, <2>2 DEF IInv, OwnOK
    <3>2. QED
      BY <2>2, <3>1 DEF Owns, Flying, Wants, OwnOnly
  <2>3. QED
    BY <2>1, <2>2
<1>6. \A u \in Thread : pc'[u] = "up" => donator'[lk'[u]] # u
  <2> SUFFICES ASSUME NEW u \in Thread, pc'[u] = "up", u # t PROVE donator'[lk'[u]] # u
    OBVIOUS
  <2>1. pc[u] = "up" /\ lk'[u] = lk[u] /\ lk[u] \in Lock
    BY DEF OwnOnly, IInv, LocalOK, Stack, InRelease
  <2>2. QED
    BY <2>1 DEF IInv, OwnOK
<1>7. QED
  BY <1>2, <1>3, <1>4, <1>5, <1>6 DEF OwnOK

(* A step that does not lead to a donation keeps the donations sound. *)
LEMMA CoopFrame ==
    ASSUME IInv, NEW t \in Thread, running = t, OwnOnly(t), pc'[t] \notin {"blocker", "donate"},
           preempts' = 0 => preempts = 0
    PROVE  CoopOK'
  BY DEF IInv, CoopOK, OwnOnly
-----------------------------------------------------------------------------
(***************************************************************************)
(* The shape of most steps of lock_acquire(), lock_release() and their     *)
(* callers: thread t goes on, and no other thread notices but through the  *)
(* lock's own fields.                                                      *)
(***************************************************************************)
Quiet(t) ==
    /\ running = t /\ OwnOnly(t) /\ LocalOK(t)'
    /\ pc[t] # "woken" /\ pc'[t] # "woken"
    /\ UNCHANGED <<running, status, ready_list, waiters, cond_waiters, value>>
    /\ Creating(t)' <=> Creating(t)
    /\ Creating(t) => arg'[t] = arg[t]
    /\ Waiting(t) => Waiting(t)'
    /\ \A u \in Thread \ {t} : priority_old'[u] = priority_old[u]

KeepsLocks(t) ==
    /\ UNCHANGED holder
    /\ \A l \in Lock : Flying(t, l)' => Flying(t, l)
    /\ \A l \in Lock, u \in Thread \ {t} : donator'[l] = u => donator[l] = u
    /\ \A l \in Lock : donator'[l] = t => holder[l] = t \/ Flying(t, l)' \/ Wants(t, l)'
    /\ pc'[t] = "release" => holder[lk'[t]] = t
    /\ pc'[t] = "tid" => holder[tid_lock] = t
    /\ pc'[t] = "up" => donator'[lk'[t]] # t

(***************************************************************************)
(* Such a step preserves the invariant, if it keeps the locks' owners and  *)
(* donations right.                                                        *)
(***************************************************************************)
LEMMA QuietIInv ==
    ASSUME IInv, NEW t \in Thread, TypeOK', Quiet(t), KeepsLocks(t) \/ OwnOK',
           UNCHANGED preempts, pc'[t] \notin {"blocker", "donate"} \/ CoopOK'
    PROVE  IInv'
<1>1. /\ \A u \in Thread : LocalOK(u)'
      /\ SchedOK' /\ CreateOK' /\ CondOK' /\ NoLostWakeup'
  BY QuietStep DEF Quiet
<1>2. OwnOK'
  <2>1. pc'[t] \in InFlight => lk'[t] \in Lock
    BY DEF Quiet, LocalOK, Stack, InFlight, InAcquire, InRelease
  <2>2. KeepsLocks(t) => OwnOK'
    BY <2>1, OwnFrame DEF Quiet, KeepsLocks, Sema
  <2>3. QED
    BY <2>2
<1>3. CoopOK'
  BY CoopFrame DEF Quiet
<1>4. QED
  BY <1>1, <1>2, <1>3 DEF IInv

(* the order of the natural numbers, as a relation *)
Less == OpToRel(<, Nat)
(* what the relation Less holds *)
LEMMA LessIs ==
    ASSUME NEW m \in Nat, NEW n \in Nat, m < n
    PROVE  <<m, n>> \in Less
<1>1. <<m, n>> \in Nat \X Nat
  OBVIOUS
<1>2. <<m, n>>[1] = m /\ <<m, n>>[2] = n
  OBVIOUS
<1>3. <<m, n>>[1] < <<m, n>>[2]
  BY <1>2
<1>4. QED
  BY <1>1, <1>3, Zenon DEF Less, OpToRel

(* A set of priorities has a greatest element. *)
LEMMA Greatest ==
    ASSUME NEW S, S \subseteq 0 .. 63, S # {}
    PROVE  Max(S) \in S /\ \A y \in S : Max(S) >= y
<1> DEFINE T == {63 - x : x \in S}
<1>1. T \subseteq Nat /\ T # {}
  <2>1. PICK y : y \in S
    OBVIOUS
  <2>2. 63 - y \in T
    BY <2>1
  <2>3. \A x \in S : 63 - x \in Nat
    OBVIOUS
  <2>4. QED
    BY <2>2, <2>3
<1>2. \E m \in T : \A n \in T : ~(<<n, m>> \in Less)
  <2>1. IsWellFoundedOn(Less, Nat)
    BY NatLessThanWellFounded, Zenon DEF Less
  <2> HIDE DEF T
  <2>2. QED
    BY <1>1, <2>1, WFMin
<1>3. PICK m \in T : \A n \in T : ~(<<n, m>> \in Less)
  BY <1>2
<1>4. \A n \in T : n \in Nat /\ m \in Nat /\ m <= n
  <2> TAKE n \in T
  <2>1. m \in Nat /\ n \in Nat
    BY <1>1, <1>3
  <2>2. ~(n < m)
    BY <1>3, <2>1, LessIs
  <2>3. QED
    BY <2>1, <2>2
<1>5. PICK x \in S : m = 63 - x
  BY <1>3
<1>6. \A y \in S : x >= y
  <2> TAKE y \in S
  <2>1. 63 - y \in T
    OBVIOUS
  <2>2. m <= 63 - y
    BY <1>4, <2>1
  <2>3. QED
    BY <1>5, <2>2
<1>7. QED
  BY <1>6 DEF Max

(* lock_acquire() called by a client *)
LEMMA AcquireCall ==
    ASSUME IInv, NEW t \in Thread, NEW l \in Lock, Acquire(t, l), LockFrame
    PROVE  IInv'
<1>1. TypeOK /\ LocalOK(t) /\ OwnOK
  BY DEF IInv
<1>2. running = t /\ pc[t] = "user"
  BY <1>1 DEF Acquire, At, InDown, LocalOK, Stack, Params, Outside, InAcquire,
    InRelease
<1>3. lk[t] = NULL /\ ret[t] = NULL /\ sm[t] = NULL
  BY <1>1, <1>2 DEF Acquire, At, InDown, LocalOK, Stack, Params, Outside, InAcquire,
    InRelease
<1>4. /\ OwnOnly(t) /\ pc'[t] = "acquire"
      /\ lk'[t] = l /\ ret'[t] = "user" /\ sm'[t] = NULL
      /\ arg'[t] = arg[t]
  BY <1>1, <1>2, <1>3, ThreadAssumption, SemaAssumption DEF Acquire, CallAcquire,
    LockFrame, Elsewhere, schedVars, prioVars, lockArgs, semaVars, lockVars, Goto,
    Fault, OwnOnly, TypeOK
<1>5. TypeOK'
  <2>1. pc' \in [Thread -> Labels]
    BY <1>1, <1>2 DEF Acquire, CallAcquire, Goto, Fault, TypeOK, Labels, Sema
  <2>2. lk' \in [Thread -> Lock \cup {NULL}]
    BY <1>1, <1>2 DEF Acquire, CallAcquire, Goto, Fault, TypeOK, Labels, Sema
  <2>3. ret' \in [Thread -> {"user", "tid", "unblock", "await", NULL}]
    BY <1>1, <1>2 DEF Acquire, CallAcquire, Goto, Fault, TypeOK, Labels, Sema
  <2>4. UNCHANGED << running, status, priority, priority_old, ready_list, preempts, halted,
             sm, loc, arg, value, waiters, holder, donator, donators, blocker,
             cond_waiters>>
    BY DEF Acquire, CallAcquire, LockFrame, Elsewhere, schedVars, prioVars,
      lockArgs, semaVars, lockVars
  <2>5. QED
    BY <1>1, <2>1, <2>2, <2>3, <2>4 DEF TypeOK
<1>6. LocalOK(t)'
  BY <1>1, <1>2, <1>3, <1>4, ThreadAssumption DEF Acquire, CallAcquire, LockFrame,
    Elsewhere, schedVars, prioVars, lockArgs, semaVars, lockVars, LocalOK, Stack,
    Params, Outside, InAcquire, InRelease, Creating
<1>7. Quiet(t)
  BY <1>1, <1>2, <1>3, <1>4, <1>6, ThreadAssumption DEF Acquire, CallAcquire,
    LockFrame, Elsewhere, schedVars, prioVars, lockArgs, semaVars, lockVars, Quiet,
    Creating, Waiting, TypeOK
<1>8. KeepsLocks(t)
  BY <1>1, <1>2, <1>3, <1>4 DEF Acquire, CallAcquire, LockFrame, Elsewhere,
    schedVars, prioVars, lockArgs, semaVars, lockVars, KeepsLocks, Flying, InFlight,
    Wants, Owns, OwnOK, Acquiring, TypeOK
<1>9. QED
  BY <1>3, <1>4, <1>5, <1>7, <1>8, QuietIInv DEF Acquire, CallAcquire, LockFrame,
    Elsewhere, schedVars, prioVars, lockArgs, semaVars, lockVars

(* the test for a holder *)
LEMMA TestHolderStep ==
    ASSUME IInv, NEW t \in Thread, TestHolder(t), LockFrame
    PROVE  IInv'
<1>1. TypeOK /\ LocalOK(t) /\ OwnOK
  BY DEF IInv
<1>2. lk[t] \in Lock
  BY <1>1 DEF TestHolder, At, InDown, LocalOK, Stack, Params, Outside, InAcquire,
    InRelease
<1>3. /\ running = t /\ pc[t] = "acquire"
      /\ ret[t] \in {"user", "tid"} /\ sm[t] = NULL
  BY <1>1, <1>2 DEF TestHolder, At, InDown, LocalOK, Stack, Params, Outside,
    InAcquire, InRelease
<1>4. /\ OwnOnly(t) /\ pc'[t] \in {"down", "donator", "push"}
      /\ lk'[t] = lk[t] /\ ret'[t] = ret[t]
      /\ sm'[t] = IF pc'[t] = "down" THEN lk[t] ELSE NULL
      /\ arg'[t] = arg[t]
  BY <1>1, <1>2, <1>3, ThreadAssumption, SemaAssumption DEF TestHolder, GoDown,
    LockFrame, Elsewhere, schedVars, prioVars, lockArgs, semaVars, lockVars, Goto,
    Fault, OwnOnly, TypeOK
<1>5. TypeOK'
  <2>1. pc' \in [Thread -> Labels]
    BY <1>1, <1>2 DEF TestHolder, GoDown, Goto, Fault, TypeOK, Labels, Sema
  <2>2. sm' \in [Thread -> Sema \cup {NULL}]
    BY <1>1, <1>2 DEF TestHolder, GoDown, Goto, Fault, TypeOK, Labels, Sema
  <2>3. UNCHANGED << running, status, priority, priority_old, ready_list, preempts, halted,
             ret, lk, loc, arg, value, waiters, holder, donator, donators, blocker,
             cond_waiters>>
    BY DEF TestHolder, GoDown, LockFrame, Elsewhere, schedVars, prioVars, lockArgs,
      semaVars, lockVars
  <2>4. QED
    BY <1>1, <2>1, <2>2, <2>3 DEF TypeOK
<1>6. LocalOK(t)'
  BY <1>1, <1>2, <1>3, <1>4, ThreadAssumption DEF TestHolder, GoDown, LockFrame,
    Elsewhere, schedVars, prioVars, lockArgs, semaVars, lockVars, LocalOK, Stack,
    Params, Outside, InAcquire, InRelease, Creating
<1>7. Quiet(t)
  BY <1>1, <1>2, <1>3, <1>4, <1>6, ThreadAssumption DEF TestHolder, GoDown,
    LockFrame, Elsewhere, schedVars, prioVars, lockArgs, semaVars, lockVars, Quiet,
    Creating, Waiting, TypeOK
<1>8. KeepsLocks(t)
  BY <1>1, <1>2, <1>3, <1>4 DEF TestHolder, GoDown, LockFrame, Elsewhere, schedVars,
    prioVars, lockArgs, semaVars, lockVars, KeepsLocks, Flying, InFlight, Wants,
    Owns, OwnOK, Acquiring, TypeOK
<1>9. QED
  BY <1>3, <1>4, <1>5, <1>7, <1>8, QuietIInv DEF TestHolder, GoDown, LockFrame,
    Elsewhere, schedVars, prioVars, lockArgs, semaVars, lockVars

(* the lock joins its holder's donators *)
LEMMA PushLockStep ==
    ASSUME IInv, NEW t \in Thread, PushLock(t), LockFrame
    PROVE  IInv'
<1>1. TypeOK /\ LocalOK(t) /\ OwnOK
  BY DEF IInv
<1>2. lk[t] \in Lock
  BY <1>1 DEF PushLock, At, InDown, LocalOK, Stack, Params, Outside, InAcquire,
    InRelease
<1>3. /\ running = t /\ pc[t] = "push"
      /\ ret[t] \in {"user", "tid"} /\ sm[t] = NULL
  BY <1>1, <1>2 DEF PushLock, At, InDown, LocalOK, Stack, Params, Outside,
    InAcquire, InRelease
<1>4. /\ OwnOnly(t) /\ pc'[t] \in {"push", "donator", "fault"}
      /\ lk'[t] = lk[t] /\ ret'[t] = ret[t] /\ sm'[t] = sm[t]
      /\ arg'[t] = arg[t]
  BY <1>1, <1>2, <1>3, ThreadAssumption, SemaAssumption DEF PushLock, LockFrame,
    Elsewhere, schedVars, prioVars, lockArgs, semaVars, lockVars, Goto, Fault,
    OwnOnly, TypeOK
<1>5. TypeOK'
  <2>1. pc' \in [Thread -> Labels]
    BY <1>1, <1>2 DEF PushLock, Goto, Fault, TypeOK, Labels, Sema
  <2>2. donators' \in [Thread -> SUBSET Lock]
    <3>1. \/ donators' = donators
          \/ \E h \in Thread : donators' = [donators EXCEPT ![h] = @ \cup {lk[t]}]
      BY <1>1, <1>2 DEF PushLock, TypeOK
    <3>2. ASSUME NEW h \in Thread, donators' = [donators EXCEPT ![h] = @ \cup {lk[t]}]
          PROVE  donators' \in [Thread -> SUBSET Lock]
      <4>1. donators[h] \cup {lk[t]} \in SUBSET Lock
        BY <1>1, <1>2 DEF TypeOK
      <4>2. QED
        BY <1>1, <3>2, <4>1 DEF TypeOK
    <3>3. QED
      BY <1>1, <3>1, <3>2 DEF TypeOK
  <2>3. halted' \in {"no", "panic", "corrupt"}
    BY <1>1, <1>2 DEF PushLock, Goto, Fault, TypeOK, Labels, Sema
  <2>4. UNCHANGED << running, status, priority, priority_old, ready_list, preempts, ret,
             lk, sm, loc, arg, value, waiters, holder, donator, blocker,
             cond_waiters>>
    BY DEF PushLock, LockFrame, Elsewhere, schedVars, prioVars, lockArgs, semaVars,
      lockVars
  <2>5. QED
    BY <1>1, <2>1, <2>2, <2>3, <2>4 DEF TypeOK
<1>6. LocalOK(t)'
  BY <1>1, <1>2, <1>3, <1>4, ThreadAssumption DEF PushLock, LockFrame, Elsewhere,
    schedVars, prioVars, lockArgs, semaVars, lockVars, LocalOK, Stack, Params,
    Outside, InAcquire, InRelease, Creating
<1>7. Quiet(t)
  BY <1>1, <1>2, <1>3, <1>4, <1>6, ThreadAssumption DEF PushLock, LockFrame,
    Elsewhere, schedVars, prioVars, lockArgs, semaVars, lockVars, Quiet, Creating,
    Waiting, TypeOK
<1>8. KeepsLocks(t)
  BY <1>1, <1>2, <1>3, <1>4 DEF PushLock, LockFrame, Elsewhere, schedVars, prioVars,
    lockArgs, semaVars, lockVars, KeepsLocks, Flying, InFlight, Wants, Owns, OwnOK,
    Acquiring, TypeOK
<1>9. QED
  BY <1>3, <1>4, <1>5, <1>7, <1>8, QuietIInv DEF PushLock, LockFrame, Elsewhere,
    schedVars, prioVars, lockArgs, semaVars, lockVars

(* lock->donator = thread_current() *)
LEMMA SetDonatorStep ==
    ASSUME IInv, NEW t \in Thread, SetDonator(t), LockFrame
    PROVE  IInv'
<1>1. TypeOK /\ LocalOK(t) /\ OwnOK
  BY DEF IInv
<1>2. lk[t] \in Lock
  BY <1>1 DEF SetDonator, At, InDown, LocalOK, Stack, Params, Outside, InAcquire,
    InRelease
<1>3. /\ running = t /\ pc[t] = "donator"
      /\ ret[t] \in {"user", "tid"} /\ sm[t] = NULL
  BY <1>1, <1>2 DEF SetDonator, At, InDown, LocalOK, Stack, Params, Outside,
    InAcquire, InRelease
<1>4. /\ OwnOnly(t) /\ pc'[t] = "compare"
      /\ lk'[t] = lk[t] /\ ret'[t] = ret[t] /\ sm'[t] = sm[t]
      /\ arg'[t] = arg[t]
  BY <1>1, <1>2, <1>3, ThreadAssumption, SemaAssumption DEF SetDonator, LockFrame,
    Elsewhere, schedVars, prioVars, lockArgs, semaVars, lockVars, Goto, Fault,
    OwnOnly, TypeOK
<1>5. TypeOK'
  <2>1. pc' \in [Thread -> Labels]
    BY <1>1, <1>2 DEF SetDonator, Goto, Fault, TypeOK, Labels, Sema
  <2>2. donator' \in [Lock -> Thread \cup {NULL}]
    BY <1>1, <1>2 DEF SetDonator, Goto, Fault, TypeOK, Labels, Sema
  <2>3. UNCHANGED << running, status, priority, priority_old, ready_list, preempts, halted,
             ret, lk, sm, loc, arg, value, waiters, holder, donators, blocker,
             cond_waiters>>
    BY DEF SetDonator, LockFrame, Elsewhere, schedVars, prioVars, lockArgs,
      semaVars, lockVars
  <2>4. QED
    BY <1>1, <2>1, <2>2, <2>3 DEF TypeOK
<1>6. LocalOK(t)'
  BY <1>1, <1>2, <1>3, <1>4, ThreadAssumption DEF SetDonator, LockFrame, Elsewhere,
    schedVars, prioVars, lockArgs, semaVars, lockVars, LocalOK, Stack, Params,
    Outside, InAcquire, InRelease, Creating
<1>7. Quiet(t)
  BY <1>1, <1>2, <1>3, <1>4, <1>6, ThreadAssumption DEF SetDonator, LockFrame,
    Elsewhere, schedVars, prioVars, lockArgs, semaVars, lockVars, Quiet, Creating,
    Waiting, TypeOK
<1>8. KeepsLocks(t)
  BY <1>1, <1>2, <1>3, <1>4 DEF SetDonator, LockFrame, Elsewhere, schedVars,
    prioVars, lockArgs, semaVars, lockVars, KeepsLocks, Flying, InFlight, Wants,
    Owns, OwnOK, Acquiring, TypeOK
<1>9. QED
  BY <1>3, <1>4, <1>5, <1>7, <1>8, QuietIInv DEF SetDonator, LockFrame, Elsewhere,
    schedVars, prioVars, lockArgs, semaVars, lockVars

(* the comparison with the holder's priority *)
LEMMA CompareStep ==
    ASSUME IInv, NEW t \in Thread, Compare(t), LockFrame
    PROVE  IInv'
<1>1. TypeOK /\ LocalOK(t) /\ OwnOK
  BY DEF IInv
<1>2. lk[t] \in Lock
  BY <1>1 DEF Compare, At, InDown, LocalOK, Stack, Params, Outside, InAcquire,
    InRelease
<1>3. /\ running = t /\ pc[t] = "compare"
      /\ ret[t] \in {"user", "tid"} /\ sm[t] = NULL
  BY <1>1, <1>2 DEF Compare, At, InDown, LocalOK, Stack, Params, Outside, InAcquire,
    InRelease
<1>4. /\ OwnOnly(t) /\ pc'[t] \in {"blocker", "down", "fault"}
      /\ lk'[t] = lk[t] /\ ret'[t] = ret[t]
      /\ sm'[t] = IF pc'[t] = "down" THEN lk[t] ELSE NULL
      /\ arg'[t] = arg[t]
  BY <1>1, <1>2, <1>3, ThreadAssumption, SemaAssumption DEF Compare, GoDown,
    LockFrame, Elsewhere, schedVars, prioVars, lockArgs, semaVars, lockVars, Goto,
    Fault, OwnOnly, TypeOK
<1>5. TypeOK'
  <2>1. pc' \in [Thread -> Labels]
    BY <1>1, <1>2 DEF Compare, GoDown, Goto, Fault, TypeOK, Labels, Sema
  <2>2. sm' \in [Thread -> Sema \cup {NULL}]
    BY <1>1, <1>2 DEF Compare, GoDown, Goto, Fault, TypeOK, Labels, Sema
  <2>3. UNCHANGED << running, status, priority, priority_old, ready_list, preempts, halted,
             ret, lk, loc, arg, value, waiters, holder, donator, donators, blocker,
             cond_waiters>>
    BY DEF Compare, GoDown, LockFrame, Elsewhere, schedVars, prioVars, lockArgs,
      semaVars, lockVars
  <2>4. QED
    BY <1>1, <2>1, <2>2, <2>3 DEF TypeOK
<1>6. LocalOK(t)'
  BY <1>1, <1>2, <1>3, <1>4, ThreadAssumption DEF Compare, GoDown, LockFrame,
    Elsewhere, schedVars, prioVars, lockArgs, semaVars, lockVars, LocalOK, Stack,
    Params, Outside, InAcquire, InRelease, Creating
<1>7. Quiet(t)
  BY <1>1, <1>2, <1>3, <1>4, <1>6, ThreadAssumption DEF Compare, GoDown, LockFrame,
    Elsewhere, schedVars, prioVars, lockArgs, semaVars, lockVars, Quiet, Creating,
    Waiting, TypeOK
<1>8. KeepsLocks(t)
  BY <1>1, <1>2, <1>3, <1>4 DEF Compare, GoDown, LockFrame, Elsewhere, schedVars,
    prioVars, lockArgs, semaVars, lockVars, KeepsLocks, Flying, InFlight, Wants,
    Owns, OwnOK, Acquiring, TypeOK
<1>9. CoopOK'
  <2>1. pc'[t] = "blocker" =>
          holder[lk[t]] \in Thread /\ priority[t] > priority[holder[lk[t]]]
    BY <1>1, <1>2 DEF Compare, GoDown, Goto, Fault, TypeOK
  <2>2. QED
    BY <1>3, <1>4, <2>1
    DEF IInv, Compare, Elsewhere, CoopOK, OwnOnly, prioVars, lockVars, schedVars
<1>10. QED
  BY <1>3, <1>4, <1>5, <1>7, <1>8, <1>9, QuietIInv DEF Compare, GoDown, LockFrame,
    Elsewhere, schedVars, prioVars, lockArgs, semaVars, lockVars

(* the thread is blocked on the lock from here on *)
LEMMA SetBlockerStep ==
    ASSUME IInv, NEW t \in Thread, SetBlocker(t), LockFrame
    PROVE  IInv'
<1>1. TypeOK /\ LocalOK(t) /\ OwnOK
  BY DEF IInv
<1>2. lk[t] \in Lock
  BY <1>1 DEF SetBlocker, At, InDown, LocalOK, Stack, Params, Outside, InAcquire,
    InRelease
<1>3. /\ running = t /\ pc[t] = "blocker"
      /\ ret[t] \in {"user", "tid"} /\ sm[t] = NULL
  BY <1>1, <1>2 DEF SetBlocker, At, InDown, LocalOK, Stack, Params, Outside,
    InAcquire, InRelease
<1>4. /\ OwnOnly(t) /\ pc'[t] = "donate"
      /\ lk'[t] = lk[t] /\ ret'[t] = ret[t] /\ sm'[t] = sm[t]
      /\ arg'[t] = arg[t]
      /\ loc'[t] = lk[t]
  BY <1>1, <1>2, <1>3, ThreadAssumption, SemaAssumption DEF SetBlocker, LockFrame,
    Elsewhere, schedVars, prioVars, lockArgs, semaVars, lockVars, Goto, Fault,
    OwnOnly, TypeOK
<1>5. TypeOK'
  <2>1. pc' \in [Thread -> Labels]
    BY <1>1, <1>2 DEF SetBlocker, Goto, Fault, TypeOK, Labels, Sema
  <2>2. loc' \in [Thread -> Lock \cup Priorities \cup {NULL}]
    BY <1>1, <1>2 DEF SetBlocker, Goto, Fault, TypeOK, Labels, Sema
  <2>3. blocker' \in [Thread -> Lock \cup {NULL}]
    BY <1>1, <1>2 DEF SetBlocker, Goto, Fault, TypeOK, Labels, Sema
  <2>4. UNCHANGED << running, status, priority, priority_old, ready_list, preempts, halted,
             ret, lk, sm, arg, value, waiters, holder, donator, donators,
             cond_waiters>>
    BY DEF SetBlocker, LockFrame, Elsewhere, schedVars, prioVars, lockArgs,
      semaVars, lockVars
  <2>5. QED
    BY <1>1, <2>1, <2>2, <2>3, <2>4 DEF TypeOK
<1>6. LocalOK(t)'
  BY <1>1, <1>2, <1>3, <1>4, ThreadAssumption DEF SetBlocker, LockFrame, Elsewhere,
    schedVars, prioVars, lockArgs, semaVars, lockVars, LocalOK, Stack, Params,
    Outside, InAcquire, InRelease, Creating
<1>7. Quiet(t)
  BY <1>1, <1>2, <1>3, <1>4, <1>6, ThreadAssumption DEF SetBlocker, LockFrame,
    Elsewhere, schedVars, prioVars, lockArgs, semaVars, lockVars, Quiet, Creating,
    Waiting, TypeOK
<1>8. KeepsLocks(t)
  BY <1>1, <1>2, <1>3, <1>4 DEF SetBlocker, LockFrame, Elsewhere, schedVars,
    prioVars, lockArgs, semaVars, lockVars, KeepsLocks, Flying, InFlight, Wants,
    Owns, OwnOK, Acquiring, TypeOK
<1>9. CoopOK'
  BY <1>3, <1>4 DEF IInv, SetBlocker, Elsewhere, CoopOK, OwnOnly, prioVars, schedVars
<1>10. QED
  BY <1>3, <1>4, <1>5, <1>7, <1>8, <1>9, QuietIInv DEF SetBlocker, LockFrame,
    Elsewhere, schedVars, prioVars, lockArgs, semaVars, lockVars

(* donate(): the holder is given the priority *)
LEMMA DonateStep ==
    ASSUME IInv, NEW t \in Thread, Donate(t), LockFrame
    PROVE  IInv'
<1>1. TypeOK /\ LocalOK(t) /\ OwnOK
  BY DEF IInv
<1>2. /\ loc[t] \in Lock
      /\ lk[t] \in Lock
  BY <1>1 DEF Donate, At, InDown, LocalOK, Stack, Params, Outside, InAcquire,
    InRelease
<1>3. /\ running = t /\ pc[t] = "donate"
      /\ ret[t] \in {"user", "tid"} /\ sm[t] = NULL
  BY <1>1, <1>2 DEF Donate, At, InDown, LocalOK, Stack, Params, Outside, InAcquire,
    InRelease
<1>4. /\ OwnOnly(t) /\ pc'[t] \in {"chain", "fault"}
      /\ lk'[t] = lk[t] /\ ret'[t] = ret[t] /\ sm'[t] = sm[t]
      /\ arg'[t] = arg[t]
      /\ loc'[t] = loc[t]
  BY <1>1, <1>2, <1>3, ThreadAssumption, SemaAssumption DEF Donate, LockFrame,
    Elsewhere, schedVars, prioVars, lockArgs, semaVars, lockVars, Goto, Fault,
    OwnOnly, TypeOK
<1>5. TypeOK'
  <2>1. pc' \in [Thread -> Labels]
    BY <1>1, <1>2 DEF Donate, Goto, Fault, TypeOK, Labels, Sema
  <2>2. priority' \in [Thread -> Priorities]
    <3>1. \/ priority' = priority
          \/ \E h \in Thread : priority' = [priority EXCEPT ![h] = priority[t]]
      BY <1>1, <1>2 DEF Donate, TypeOK
    <3>2. QED
      BY <1>1, <3>1 DEF TypeOK
  <2>3. UNCHANGED << running, status, priority_old, ready_list, preempts, halted, ret, lk,
             sm, loc, arg, value, waiters, holder, donator, donators, blocker,
             cond_waiters>>
    BY DEF Donate, LockFrame, Elsewhere, schedVars, prioVars, lockArgs, semaVars,
      lockVars
  <2>4. QED
    BY <1>1, <2>1, <2>2, <2>3 DEF TypeOK
<1>6. LocalOK(t)'
  BY <1>1, <1>2, <1>3, <1>4, ThreadAssumption DEF Donate, LockFrame, Elsewhere,
    schedVars, prioVars, lockArgs, semaVars, lockVars, LocalOK, Stack, Params,
    Outside, InAcquire, InRelease, Creating
<1>7. Quiet(t)
  BY <1>1, <1>2, <1>3, <1>4, <1>6, ThreadAssumption DEF Donate, LockFrame,
    Elsewhere, schedVars, prioVars, lockArgs, semaVars, lockVars, Quiet, Creating,
    Waiting, TypeOK
<1>8. KeepsLocks(t)
  BY <1>1, <1>2, <1>3, <1>4 DEF Donate, LockFrame, Elsewhere, schedVars, prioVars,
    lockArgs, semaVars, lockVars, KeepsLocks, Flying, InFlight, Wants, Owns, OwnOK,
    Acquiring, TypeOK
<1>9. QED
  BY <1>3, <1>4, <1>5, <1>7, <1>8, QuietIInv DEF Donate, LockFrame, Elsewhere,
    schedVars, prioVars, lockArgs, semaVars, lockVars

(* donate(): the holder may itself be blocked *)
LEMMA DonateChainStep ==
    ASSUME IInv, NEW t \in Thread, DonateChain(t), LockFrame
    PROVE  IInv'
<1>1. TypeOK /\ LocalOK(t) /\ OwnOK
  BY DEF IInv
<1>2. /\ loc[t] \in Lock
      /\ lk[t] \in Lock
  BY <1>1 DEF DonateChain, At, InDown, LocalOK, Stack, Params, Outside, InAcquire,
    InRelease
<1>3. /\ running = t /\ pc[t] = "chain"
      /\ ret[t] \in {"user", "tid"} /\ sm[t] = NULL
  BY <1>1, <1>2 DEF DonateChain, At, InDown, LocalOK, Stack, Params, Outside,
    InAcquire, InRelease
<1>a. \/ Goto(t, "fault") /\ UNCHANGED <<sm, loc>>
      \/ \E b \in Lock : /\ holder[b] \in Thread /\ priority[holder[b]] < priority[t]
                         /\ loc' = [loc EXCEPT ![t] = b]
                         /\ Goto(t, "donate") /\ UNCHANGED sm
      \/ /\ loc' = [loc EXCEPT ![t] = NULL]
         /\ Goto(t, "down") /\ sm' = [sm EXCEPT ![t] = lk[t]]
  <2> DEFINE h == holder[loc[t]]
             b == blocker[h]
  <2>1. CASE h = NULL
    BY <2>1 DEF DonateChain, Fault
  <2>2. CASE h # NULL
    <3>1. h \in Thread /\ b \in Lock \cup {NULL}
      BY <1>1, <1>2, <2>2 DEF TypeOK
    <3>2. CASE b = NULL
      BY <2>2, <3>2 DEF DonateChain, GoDown
    <3>3. CASE b # NULL
      <4>1. b \in Lock /\ (holder[b] # NULL => holder[b] \in Thread)
        BY <1>1, <3>1, <3>3 DEF TypeOK
      <4>2. QED
        BY <2>2, <3>3, <4>1 DEF DonateChain, GoDown, Fault
    <3>4. QED
      BY <3>2, <3>3
  <2>3. QED
    BY <2>1, <2>2
<1>b. UNCHANGED <<lk, ret, arg>>
  BY DEF DonateChain, Elsewhere
<1>4. /\ OwnOnly(t) /\ pc'[t] \in {"donate", "down", "fault"}
      /\ lk'[t] = lk[t] /\ ret'[t] = ret[t]
      /\ sm'[t] = IF pc'[t] = "down" THEN lk[t] ELSE NULL
      /\ arg'[t] = arg[t]
      /\ pc'[t] = "donate" =>
            /\ loc'[t] \in Lock /\ holder[loc'[t]] \in Thread
            /\ priority[t] > priority[holder[loc'[t]]]
  BY <1>1, <1>2, <1>3, <1>a, <1>b, ThreadAssumption DEF Goto, OwnOnly, TypeOK
<1>5. TypeOK'
  <2>1. pc' \in [Thread -> Labels]
    BY <1>1, <1>2, <1>a DEF DonateChain, GoDown, Goto, Fault, TypeOK, Labels, Sema
  <2>2. sm' \in [Thread -> Sema \cup {NULL}]
    BY <1>1, <1>2, <1>a DEF DonateChain, GoDown, Goto, Fault, TypeOK, Labels, Sema
  <2>3. loc' \in [Thread -> Lock \cup Priorities \cup {NULL}]
    BY <1>1, <1>2, <1>a DEF DonateChain, GoDown, Goto, Fault, TypeOK, Labels, Sema
  <2>4. UNCHANGED << running, status, priority, priority_old, ready_list, preempts, halted,
             ret, lk, arg, value, waiters, holder, donator, donators, blocker,
             cond_waiters>>
    BY DEF DonateChain, GoDown, LockFrame, Elsewhere, schedVars, prioVars, lockArgs,
      semaVars, lockVars
  <2>5. QED
    BY <1>1, <2>1, <2>2, <2>3, <2>4 DEF TypeOK
<1>6. LocalOK(t)'
  BY <1>1, <1>2, <1>3, <1>4, ThreadAssumption, <1>a DEF DonateChain, GoDown,
    LockFrame, Elsewhere, schedVars, prioVars, lockArgs, semaVars, lockVars,
    LocalOK, Stack, Params, Outside, InAcquire, InRelease, Creating
<1>7. Quiet(t)
  BY <1>1, <1>2, <1>3, <1>4, <1>6, ThreadAssumption DEF DonateChain, GoDown,
    LockFrame, Elsewhere, schedVars, prioVars, lockArgs, semaVars, lockVars, Quiet,
    Creating, Waiting, TypeOK
<1>8. KeepsLocks(t)
  BY <1>1, <1>2, <1>3, <1>4 DEF DonateChain, GoDown, LockFrame, Elsewhere,
    schedVars, prioVars, lockArgs, semaVars, lockVars, KeepsLocks, Flying, InFlight,
    Wants, Owns, OwnOK, Acquiring, TypeOK
<1>9. CoopOK'
  BY <1>3, <1>4 DEF IInv, DonateChain, Elsewhere, CoopOK, OwnOnly, prioVars, lockVars, schedVars
<1>10. QED
  BY <1>3, <1>4, <1>5, <1>7, <1>8, <1>9, QuietIInv DEF DonateChain, GoDown,
    LockFrame, Elsewhere, schedVars, prioVars, lockArgs, semaVars, lockVars

(* lock_release() called by a client *)
LEMMA ReleaseCall ==
    ASSUME IInv, NEW t \in Thread, NEW l \in Lock, Release(t, l), LockFrame
    PROVE  IInv'
<1>1. TypeOK /\ LocalOK(t) /\ OwnOK
  BY DEF IInv
<1>2. running = t /\ pc[t] = "user"
  BY <1>1 DEF Release, At, InDown, LocalOK, Stack, Params, Outside, InAcquire,
    InRelease
<1>3. lk[t] = NULL /\ ret[t] = NULL /\ sm[t] = NULL
  BY <1>1, <1>2 DEF Release, At, InDown, LocalOK, Stack, Params, Outside, InAcquire,
    InRelease
<1>4. /\ OwnOnly(t) /\ pc'[t] = "release"
      /\ lk'[t] = l /\ ret'[t] = "user" /\ sm'[t] = NULL
      /\ arg'[t] = arg[t]
  BY <1>1, <1>2, <1>3, ThreadAssumption, SemaAssumption DEF Release, CallRelease,
    LockFrame, Elsewhere, schedVars, prioVars, lockArgs, semaVars, lockVars, Goto,
    Fault, OwnOnly, TypeOK
<1>5. TypeOK'
  <2>1. pc' \in [Thread -> Labels]
    BY <1>1, <1>2 DEF Release, CallRelease, Goto, Fault, TypeOK, Labels, Sema
  <2>2. lk' \in [Thread -> Lock \cup {NULL}]
    BY <1>1, <1>2 DEF Release, CallRelease, Goto, Fault, TypeOK, Labels, Sema
  <2>3. ret' \in [Thread -> {"user", "tid", "unblock", "await", NULL}]
    BY <1>1, <1>2 DEF Release, CallRelease, Goto, Fault, TypeOK, Labels, Sema
  <2>4. UNCHANGED << running, status, priority, priority_old, ready_list, preempts, halted,
             sm, loc, arg, value, waiters, holder, donator, donators, blocker,
             cond_waiters>>
    BY DEF Release, CallRelease, LockFrame, Elsewhere, schedVars, prioVars,
      lockArgs, semaVars, lockVars
  <2>5. QED
    BY <1>1, <2>1, <2>2, <2>3, <2>4 DEF TypeOK
<1>6. LocalOK(t)'
  BY <1>1, <1>2, <1>3, <1>4, ThreadAssumption DEF Release, CallRelease, LockFrame,
    Elsewhere, schedVars, prioVars, lockArgs, semaVars, lockVars, LocalOK, Stack,
    Params, Outside, InAcquire, InRelease, Creating
<1>7. Quiet(t)
  BY <1>1, <1>2, <1>3, <1>4, <1>6, ThreadAssumption DEF Release, CallRelease,
    LockFrame, Elsewhere, schedVars, prioVars, lockArgs, semaVars, lockVars, Quiet,
    Creating, Waiting, TypeOK
<1>8. KeepsLocks(t)
  BY <1>1, <1>2, <1>3, <1>4 DEF Release, CallRelease, LockFrame, Elsewhere,
    schedVars, prioVars, lockArgs, semaVars, lockVars, KeepsLocks, Flying, InFlight,
    Wants, Owns, OwnOK, Acquiring, TypeOK, Holds
<1>9. QED
  BY <1>3, <1>4, <1>5, <1>7, <1>8, QuietIInv DEF Release, CallRelease, LockFrame,
    Elsewhere, schedVars, prioVars, lockArgs, semaVars, lockVars

(* the donation for the lock is revoked *)
LEMMA RevokeStep ==
    ASSUME IInv, NEW t \in Thread, Revoke(t), LockFrame
    PROVE  IInv'
<1>1. TypeOK /\ LocalOK(t) /\ OwnOK
  BY DEF IInv
<1>2. lk[t] \in Lock
  BY <1>1 DEF Revoke, At, InDown, LocalOK, Stack, Params, Outside, InAcquire,
    InRelease
<1>3. /\ running = t /\ pc[t] = "revoke"
      /\ ret[t] \in {"user", "unblock", "await"} /\ sm[t] = NULL
  BY <1>1, <1>2 DEF Revoke, At, InDown, LocalOK, Stack, Params, Outside, InAcquire,
    InRelease
<1>4. /\ OwnOnly(t) /\ pc'[t] \in {"reset", "revoke", "restore"}
      /\ lk'[t] = lk[t] /\ ret'[t] = ret[t] /\ sm'[t] = sm[t]
      /\ arg'[t] = arg[t]
  BY <1>1, <1>2, <1>3, ThreadAssumption, SemaAssumption DEF Revoke, LockFrame,
    Elsewhere, schedVars, prioVars, lockArgs, semaVars, lockVars, Goto, Fault,
    OwnOnly, TypeOK
<1>5. TypeOK'
  <2>1. pc' \in [Thread -> Labels]
    BY <1>1, <1>2 DEF Revoke, Goto, Fault, TypeOK, Labels, Sema
  <2>2. donator' \in [Lock -> Thread \cup {NULL}]
    BY <1>1, <1>2 DEF Revoke, Goto, Fault, TypeOK, Labels, Sema
  <2>3. donators' \in [Thread -> SUBSET Lock]
    BY <1>1, <1>2 DEF Revoke, Goto, Fault, TypeOK, Labels, Sema
  <2>4. halted' \in {"no", "panic", "corrupt"}
    BY <1>1, <1>2 DEF Revoke, Goto, Fault, TypeOK, Labels, Sema
  <2>5. UNCHANGED << running, status, priority, priority_old, ready_list, preempts, ret,
             lk, sm, loc, arg, value, waiters, holder, blocker, cond_waiters>>
    BY DEF Revoke, LockFrame, Elsewhere, schedVars, prioVars, lockArgs, semaVars,
      lockVars
  <2>6. QED
    BY <1>1, <2>1, <2>2, <2>3, <2>4, <2>5 DEF TypeOK
<1>6. LocalOK(t)'
  BY <1>1, <1>2, <1>3, <1>4, ThreadAssumption DEF Revoke, LockFrame, Elsewhere,
    schedVars, prioVars, lockArgs, semaVars, lockVars, LocalOK, Stack, Params,
    Outside, InAcquire, InRelease, Creating
<1>7. Quiet(t)
  BY <1>1, <1>2, <1>3, <1>4, <1>6, ThreadAssumption DEF Revoke, LockFrame,
    Elsewhere, schedVars, prioVars, lockArgs, semaVars, lockVars, Quiet, Creating,
    Waiting, TypeOK
<1>8. KeepsLocks(t)
  BY <1>1, <1>2, <1>3, <1>4 DEF Revoke, LockFrame, Elsewhere, schedVars, prioVars,
    lockArgs, semaVars, lockVars, KeepsLocks, Flying, InFlight, Wants, Owns, OwnOK,
    Acquiring, TypeOK
<1>9. QED
  BY <1>3, <1>4, <1>5, <1>7, <1>8, QuietIInv DEF Revoke, LockFrame, Elsewhere,
    schedVars, prioVars, lockArgs, semaVars, lockVars

(* the priority that is left is assigned *)
LEMMA AssignPriorityStep ==
    ASSUME IInv, NEW t \in Thread, AssignPriority(t), LockFrame
    PROVE  IInv'
<1>1. TypeOK /\ LocalOK(t) /\ OwnOK
  BY DEF IInv
<1>2. /\ loc[t] \in Priorities
      /\ lk[t] \in Lock
  BY <1>1 DEF AssignPriority, At, InDown, LocalOK, Stack, Params, Outside,
    InAcquire, InRelease
<1>3. /\ running = t /\ pc[t] = "assign"
      /\ ret[t] \in {"user", "unblock", "await"} /\ sm[t] = NULL
  BY <1>1, <1>2 DEF AssignPriority, At, InDown, LocalOK, Stack, Params, Outside,
    InAcquire, InRelease
<1>4. /\ OwnOnly(t) /\ pc'[t] = "reset"
      /\ lk'[t] = lk[t] /\ ret'[t] = ret[t] /\ sm'[t] = sm[t]
      /\ arg'[t] = arg[t]
  BY <1>1, <1>2, <1>3, ThreadAssumption, SemaAssumption DEF AssignPriority,
    LockFrame, Elsewhere, schedVars, prioVars, lockArgs, semaVars, lockVars, Goto,
    Fault, OwnOnly, TypeOK
<1>5. TypeOK'
  <2>1. pc' \in [Thread -> Labels]
    BY <1>1, <1>2 DEF AssignPriority, Goto, Fault, TypeOK, Labels, Sema
  <2>2. loc' \in [Thread -> Lock \cup Priorities \cup {NULL}]
    BY <1>1, <1>2 DEF AssignPriority, Goto, Fault, TypeOK, Labels, Sema
  <2>3. priority' \in [Thread -> Priorities]
    BY <1>1, <1>2 DEF AssignPriority, Goto, Fault, TypeOK, Labels, Sema
  <2>4. UNCHANGED << running, status, priority_old, ready_list, preempts, halted, ret, lk,
             sm, arg, value, waiters, holder, donator, donators, blocker,
             cond_waiters>>
    BY DEF AssignPriority, LockFrame, Elsewhere, schedVars, prioVars, lockArgs,
      semaVars, lockVars
  <2>5. QED
    BY <1>1, <2>1, <2>2, <2>3, <2>4 DEF TypeOK
<1>6. LocalOK(t)'
  BY <1>1, <1>2, <1>3, <1>4, ThreadAssumption DEF AssignPriority, LockFrame,
    Elsewhere, schedVars, prioVars, lockArgs, semaVars, lockVars, LocalOK, Stack,
    Params, Outside, InAcquire, InRelease, Creating
<1>7. Quiet(t)
  BY <1>1, <1>2, <1>3, <1>4, <1>6, ThreadAssumption DEF AssignPriority, LockFrame,
    Elsewhere, schedVars, prioVars, lockArgs, semaVars, lockVars, Quiet, Creating,
    Waiting, TypeOK
<1>8. KeepsLocks(t)
  BY <1>1, <1>2, <1>3, <1>4 DEF AssignPriority, LockFrame, Elsewhere, schedVars,
    prioVars, lockArgs, semaVars, lockVars, KeepsLocks, Flying, InFlight, Wants,
    Owns, OwnOK, Acquiring, TypeOK
<1>9. QED
  BY <1>3, <1>4, <1>5, <1>7, <1>8, QuietIInv DEF AssignPriority, LockFrame,
    Elsewhere, schedVars, prioVars, lockArgs, semaVars, lockVars

(* lock->donator = NULL *)
LEMMA ResetDonatorStep ==
    ASSUME IInv, NEW t \in Thread, ResetDonator(t), LockFrame
    PROVE  IInv'
<1>1. TypeOK /\ LocalOK(t) /\ OwnOK
  BY DEF IInv
<1>2. lk[t] \in Lock
  BY <1>1 DEF ResetDonator, At, InDown, LocalOK, Stack, Params, Outside, InAcquire,
    InRelease
<1>3. /\ running = t /\ pc[t] = "reset"
      /\ ret[t] \in {"user", "unblock", "await"} /\ sm[t] = NULL
  BY <1>1, <1>2 DEF ResetDonator, At, InDown, LocalOK, Stack, Params, Outside,
    InAcquire, InRelease
<1>4. /\ OwnOnly(t) /\ pc'[t] = "up"
      /\ lk'[t] = lk[t] /\ ret'[t] = ret[t] /\ sm'[t] = sm[t]
      /\ arg'[t] = arg[t]
  BY <1>1, <1>2, <1>3, ThreadAssumption, SemaAssumption DEF ResetDonator, LockFrame,
    Elsewhere, schedVars, prioVars, lockArgs, semaVars, lockVars, Goto, Fault,
    OwnOnly, TypeOK
<1>5. TypeOK'
  <2>1. pc' \in [Thread -> Labels]
    BY <1>1, <1>2 DEF ResetDonator, Goto, Fault, TypeOK, Labels, Sema
  <2>2. donator' \in [Lock -> Thread \cup {NULL}]
    BY <1>1, <1>2 DEF ResetDonator, Goto, Fault, TypeOK, Labels, Sema
  <2>3. UNCHANGED << running, status, priority, priority_old, ready_list, preempts, halted,
             ret, lk, sm, loc, arg, value, waiters, holder, donators, blocker,
             cond_waiters>>
    BY DEF ResetDonator, LockFrame, Elsewhere, schedVars, prioVars, lockArgs,
      semaVars, lockVars
  <2>4. QED
    BY <1>1, <2>1, <2>2, <2>3 DEF TypeOK
<1>6. LocalOK(t)'
  BY <1>1, <1>2, <1>3, <1>4, ThreadAssumption DEF ResetDonator, LockFrame,
    Elsewhere, schedVars, prioVars, lockArgs, semaVars, lockVars, LocalOK, Stack,
    Params, Outside, InAcquire, InRelease, Creating
<1>7. Quiet(t)
  BY <1>1, <1>2, <1>3, <1>4, <1>6, ThreadAssumption DEF ResetDonator, LockFrame,
    Elsewhere, schedVars, prioVars, lockArgs, semaVars, lockVars, Quiet, Creating,
    Waiting, TypeOK
<1>8. KeepsLocks(t)
  BY <1>1, <1>2, <1>3, <1>4, ThreadAssumption DEF ResetDonator, LockFrame,
    Elsewhere, schedVars, prioVars, lockArgs, semaVars, lockVars, KeepsLocks,
    Flying, InFlight, Wants, Owns, OwnOK, Acquiring, TypeOK
<1>9. QED
  BY <1>3, <1>4, <1>5, <1>7, <1>8, QuietIInv DEF ResetDonator, LockFrame, Elsewhere,
    schedVars, prioVars, lockArgs, semaVars, lockVars

(* thread_set_priority() called by a client *)
LEMMA SetPriorityCall ==
    ASSUME IInv, NEW t \in Thread, NEW p \in Priorities, SetPriority(t, p), ThreadFrame
    PROVE  IInv'
<1>1. TypeOK /\ LocalOK(t) /\ OwnOK
  BY DEF IInv
<1>2. running = t /\ pc[t] = "user"
  BY <1>1 DEF SetPriority, At, InDown, LocalOK, Stack, Params, Outside, InAcquire,
    InRelease
<1>3. lk[t] = NULL /\ ret[t] = NULL /\ sm[t] = NULL
  BY <1>1, <1>2 DEF SetPriority, At, InDown, LocalOK, Stack, Params, Outside,
    InAcquire, InRelease
<1>4. /\ OwnOnly(t) /\ pc'[t] \in {"setboth", "setold"}
      /\ lk'[t] = lk[t] /\ ret'[t] = ret[t] /\ sm'[t] = sm[t]
      /\ arg'[t] = p
  BY <1>1, <1>2, <1>3, ThreadAssumption, SemaAssumption DEF SetPriority,
    ThreadFrame, Elsewhere, schedVars, prioVars, lockArgs, semaVars, lockVars, Goto,
    Fault, OwnOnly, TypeOK
<1>5. TypeOK'
  <2>1. pc' \in [Thread -> Labels]
    BY <1>1, <1>2 DEF SetPriority, Goto, Fault, TypeOK, Labels, Sema
  <2>2. arg' \in [Thread -> Thread \cup Lock \cup CondVar \cup Priorities \cup {NULL}]
    BY <1>1, <1>2 DEF SetPriority, Goto, Fault, TypeOK, Labels, Sema
  <2>3. UNCHANGED << running, status, priority, priority_old, ready_list, preempts, halted,
             ret, lk, sm, loc, value, waiters, holder, donator, donators, blocker,
             cond_waiters>>
    BY DEF SetPriority, ThreadFrame, Elsewhere, schedVars, prioVars, lockArgs,
      semaVars, lockVars
  <2>4. QED
    BY <1>1, <2>1, <2>2, <2>3 DEF TypeOK
<1>6. LocalOK(t)'
  BY <1>1, <1>2, <1>3, <1>4, ThreadAssumption DEF SetPriority, ThreadFrame,
    Elsewhere, schedVars, prioVars, lockArgs, semaVars, lockVars, LocalOK, Stack,
    Params, Outside, InAcquire, InRelease, Creating
<1>7. Quiet(t)
  BY <1>1, <1>2, <1>3, <1>4, <1>6, ThreadAssumption DEF SetPriority, ThreadFrame,
    Elsewhere, schedVars, prioVars, lockArgs, semaVars, lockVars, Quiet, Creating,
    Waiting, TypeOK
<1>8. KeepsLocks(t)
  BY <1>1, <1>2, <1>3, <1>4 DEF SetPriority, ThreadFrame, Elsewhere, schedVars,
    prioVars, lockArgs, semaVars, lockVars, KeepsLocks, Flying, InFlight, Wants,
    Owns, OwnOK, Acquiring, TypeOK
<1>9. QED
  BY <1>3, <1>4, <1>5, <1>7, <1>8, QuietIInv DEF SetPriority, ThreadFrame,
    Elsewhere, schedVars, prioVars, lockArgs, semaVars, lockVars

(* thread_set_priority() without a donation *)
LEMMA SetBothStep ==
    ASSUME IInv, NEW t \in Thread, SetBoth(t), ThreadFrame
    PROVE  IInv'
<1>1. TypeOK /\ LocalOK(t) /\ OwnOK
  BY DEF IInv
<1>2. arg[t] \in Priorities
  BY <1>1 DEF SetBoth, At, InDown, LocalOK, Stack, Params, Outside, InAcquire,
    InRelease
<1>3. /\ running = t /\ pc[t] = "setboth"
      /\ lk[t] = NULL /\ ret[t] = NULL /\ sm[t] = NULL
  BY <1>1, <1>2 DEF SetBoth, At, InDown, LocalOK, Stack, Params, Outside, InAcquire,
    InRelease
<1>4. /\ OwnOnly(t) /\ pc'[t] = "setyield"
      /\ lk'[t] = lk[t] /\ ret'[t] = ret[t] /\ sm'[t] = sm[t]
      /\ arg'[t] = arg[t]
  BY <1>1, <1>2, <1>3, ThreadAssumption, SemaAssumption DEF SetBoth, ThreadFrame,
    Elsewhere, schedVars, prioVars, lockArgs, semaVars, lockVars, Goto, Fault,
    OwnOnly, TypeOK
<1>5. TypeOK'
  <2>1. pc' \in [Thread -> Labels]
    BY <1>1, <1>2 DEF SetBoth, Goto, Fault, TypeOK, Labels, Sema
  <2>2. priority' \in [Thread -> Priorities]
    BY <1>1, <1>2 DEF SetBoth, Goto, Fault, TypeOK, Labels, Sema
  <2>3. priority_old' \in [Thread -> Priorities]
    BY <1>1, <1>2 DEF SetBoth, Goto, Fault, TypeOK, Labels, Sema
  <2>4. UNCHANGED << running, status, ready_list, preempts, halted, ret, lk, sm, loc, arg,
             value, waiters, holder, donator, donators, blocker, cond_waiters>>
    BY DEF SetBoth, ThreadFrame, Elsewhere, schedVars, prioVars, lockArgs, semaVars,
      lockVars
  <2>5. QED
    BY <1>1, <2>1, <2>2, <2>3, <2>4 DEF TypeOK
<1>6. LocalOK(t)'
  BY <1>1, <1>2, <1>3, <1>4, ThreadAssumption DEF SetBoth, ThreadFrame, Elsewhere,
    schedVars, prioVars, lockArgs, semaVars, lockVars, LocalOK, Stack, Params,
    Outside, InAcquire, InRelease, Creating
<1>7. Quiet(t)
  BY <1>1, <1>2, <1>3, <1>4, <1>6, ThreadAssumption DEF SetBoth, ThreadFrame,
    Elsewhere, schedVars, prioVars, lockArgs, semaVars, lockVars, Quiet, Creating,
    Waiting, TypeOK
<1>8. KeepsLocks(t)
  BY <1>1, <1>2, <1>3, <1>4 DEF SetBoth, ThreadFrame, Elsewhere, schedVars,
    prioVars, lockArgs, semaVars, lockVars, KeepsLocks, Flying, InFlight, Wants,
    Owns, OwnOK, Acquiring, TypeOK
<1>9. QED
  BY <1>3, <1>4, <1>5, <1>7, <1>8, QuietIInv DEF SetBoth, ThreadFrame, Elsewhere,
    schedVars, prioVars, lockArgs, semaVars, lockVars

(* thread_set_priority() under a donation *)
LEMMA SetOldStep ==
    ASSUME IInv, NEW t \in Thread, SetOld(t), ThreadFrame
    PROVE  IInv'
<1>1. TypeOK /\ LocalOK(t) /\ OwnOK
  BY DEF IInv
<1>2. arg[t] \in Priorities
  BY <1>1 DEF SetOld, At, InDown, LocalOK, Stack, Params, Outside, InAcquire,
    InRelease
<1>3. /\ running = t /\ pc[t] = "setold"
      /\ lk[t] = NULL /\ ret[t] = NULL /\ sm[t] = NULL
  BY <1>1, <1>2 DEF SetOld, At, InDown, LocalOK, Stack, Params, Outside, InAcquire,
    InRelease
<1>4. /\ OwnOnly(t) /\ pc'[t] = "user"
      /\ lk'[t] = lk[t] /\ ret'[t] = ret[t] /\ sm'[t] = sm[t]
      /\ arg'[t] = NULL
  BY <1>1, <1>2, <1>3, ThreadAssumption, SemaAssumption DEF SetOld, ThreadFrame,
    Elsewhere, schedVars, prioVars, lockArgs, semaVars, lockVars, Goto, Fault,
    OwnOnly, TypeOK
<1>5. TypeOK'
  <2>1. pc' \in [Thread -> Labels]
    BY <1>1, <1>2 DEF SetOld, Goto, Fault, TypeOK, Labels, Sema
  <2>2. priority_old' \in [Thread -> Priorities]
    BY <1>1, <1>2 DEF SetOld, Goto, Fault, TypeOK, Labels, Sema
  <2>3. arg' \in [Thread -> Thread \cup Lock \cup CondVar \cup Priorities \cup {NULL}]
    BY <1>1, <1>2 DEF SetOld, Goto, Fault, TypeOK, Labels, Sema
  <2>4. UNCHANGED << running, status, priority, ready_list, preempts, halted, ret, lk, sm,
             loc, value, waiters, holder, donator, donators, blocker, cond_waiters>>
    BY DEF SetOld, ThreadFrame, Elsewhere, schedVars, prioVars, lockArgs, semaVars,
      lockVars
  <2>5. QED
    BY <1>1, <2>1, <2>2, <2>3, <2>4 DEF TypeOK
<1>6. LocalOK(t)'
  BY <1>1, <1>2, <1>3, <1>4, ThreadAssumption DEF SetOld, ThreadFrame, Elsewhere,
    schedVars, prioVars, lockArgs, semaVars, lockVars, LocalOK, Stack, Params,
    Outside, InAcquire, InRelease, Creating
<1>7. Quiet(t)
  BY <1>1, <1>2, <1>3, <1>4, <1>6, ThreadAssumption DEF SetOld, ThreadFrame,
    Elsewhere, schedVars, prioVars, lockArgs, semaVars, lockVars, Quiet, Creating,
    Waiting, TypeOK
<1>8. KeepsLocks(t)
  BY <1>1, <1>2, <1>3, <1>4 DEF SetOld, ThreadFrame, Elsewhere, schedVars, prioVars,
    lockArgs, semaVars, lockVars, KeepsLocks, Flying, InFlight, Wants, Owns, OwnOK,
    Acquiring, TypeOK
<1>9. QED
  BY <1>3, <1>4, <1>5, <1>7, <1>8, QuietIInv DEF SetOld, ThreadFrame, Elsewhere,
    schedVars, prioVars, lockArgs, semaVars, lockVars

(* allocate_tid() releases tid_lock *)
LEMMA AllocateTidStep ==
    ASSUME IInv, NEW t \in Thread, AllocateTid(t, tid_lock), ThreadFrame
    PROVE  IInv'
<1>1. TypeOK /\ LocalOK(t) /\ OwnOK
  BY DEF IInv
<1>2. running = t /\ pc[t] = "tid"
  BY <1>1, KernelAssumption DEF AllocateTid, At, InDown, LocalOK, Stack, Params,
    Outside, InAcquire, InRelease
<1>3. lk[t] = NULL /\ ret[t] = NULL /\ sm[t] = NULL
  BY <1>1, <1>2, KernelAssumption DEF AllocateTid, At, InDown, LocalOK, Stack,
    Params, Outside, InAcquire, InRelease
<1>4. /\ OwnOnly(t) /\ pc'[t] = "release"
      /\ lk'[t] = tid_lock /\ ret'[t] = "unblock" /\ sm'[t] = NULL
      /\ arg'[t] = arg[t]
  BY <1>1, <1>2, <1>3, ThreadAssumption, SemaAssumption, KernelAssumption DEF
    AllocateTid, ThreadFrame, Elsewhere, schedVars, prioVars, lockArgs, semaVars,
    lockVars, Goto, Fault, OwnOnly, TypeOK
<1>5. TypeOK'
  <2>1. pc' \in [Thread -> Labels]
    BY <1>1, <1>2, KernelAssumption DEF AllocateTid, Goto, Fault, TypeOK, Labels,
      Sema
  <2>2. lk' \in [Thread -> Lock \cup {NULL}]
    BY <1>1, <1>2, KernelAssumption DEF AllocateTid, Goto, Fault, TypeOK, Labels,
      Sema
  <2>3. ret' \in [Thread -> {"user", "tid", "unblock", "await", NULL}]
    BY <1>1, <1>2, KernelAssumption DEF AllocateTid, Goto, Fault, TypeOK, Labels,
      Sema
  <2>4. UNCHANGED << running, status, priority, priority_old, ready_list, preempts, halted,
             sm, loc, arg, value, waiters, holder, donator, donators, blocker,
             cond_waiters>>
    BY DEF AllocateTid, ThreadFrame, Elsewhere, schedVars, prioVars, lockArgs,
      semaVars, lockVars
  <2>5. QED
    BY <1>1, <2>1, <2>2, <2>3, <2>4 DEF TypeOK
<1>6. LocalOK(t)'
  BY <1>1, <1>2, <1>3, <1>4, ThreadAssumption, KernelAssumption DEF AllocateTid,
    ThreadFrame, Elsewhere, schedVars, prioVars, lockArgs, semaVars, lockVars,
    LocalOK, Stack, Params, Outside, InAcquire, InRelease, Creating
<1>7. Quiet(t)
  BY <1>1, <1>2, <1>3, <1>4, <1>6, ThreadAssumption DEF AllocateTid, ThreadFrame,
    Elsewhere, schedVars, prioVars, lockArgs, semaVars, lockVars, Quiet, Creating,
    Waiting, TypeOK
<1>8. KeepsLocks(t)
  BY <1>1, <1>2, <1>3, <1>4 DEF AllocateTid, ThreadFrame, Elsewhere, schedVars,
    prioVars, lockArgs, semaVars, lockVars, KeepsLocks, Flying, InFlight, Wants,
    Owns, OwnOK, Acquiring, TypeOK
<1>9. QED
  BY <1>3, <1>4, <1>5, <1>7, <1>8, QuietIInv DEF AllocateTid, ThreadFrame,
    Elsewhere, schedVars, prioVars, lockArgs, semaVars, lockVars

(* semaphore_down() called by a client *)
LEMMA DownCall ==
    ASSUME IInv, NEW t \in Thread, NEW s \in ClientSema, Down(t, s), SemaFrame
    PROVE  IInv'
<1>1. TypeOK /\ LocalOK(t) /\ OwnOK
  BY DEF IInv
<1>2. running = t /\ pc[t] = "user"
  BY <1>1 DEF Down, At, InDown, LocalOK, Stack, Params, Outside, InAcquire,
    InRelease
<1>3. lk[t] = NULL /\ ret[t] = NULL /\ sm[t] = NULL
  BY <1>1, <1>2 DEF Down, At, InDown, LocalOK, Stack, Params, Outside, InAcquire,
    InRelease
<1>4. /\ OwnOnly(t) /\ pc'[t] = "down"
      /\ lk'[t] = lk[t] /\ ret'[t] = ret[t]
      /\ sm'[t] = s
      /\ arg'[t] = arg[t]
  BY <1>1, <1>2, <1>3, ThreadAssumption, SemaAssumption DEF Down, SemaFrame,
    Elsewhere, schedVars, prioVars, lockArgs, semaVars, lockVars, Goto, Fault,
    OwnOnly, TypeOK
<1>5. TypeOK'
  <2>1. pc' \in [Thread -> Labels]
    BY <1>1, <1>2 DEF Down, Goto, Fault, TypeOK, Labels, Sema
  <2>2. sm' \in [Thread -> Sema \cup {NULL}]
    BY <1>1, <1>2 DEF Down, Goto, Fault, TypeOK, Labels, Sema
  <2>3. UNCHANGED << running, status, priority, priority_old, ready_list, preempts, halted,
             ret, lk, loc, arg, value, waiters, holder, donator, donators, blocker,
             cond_waiters>>
    BY DEF Down, SemaFrame, Elsewhere, schedVars, prioVars, lockArgs, semaVars,
      lockVars
  <2>4. QED
    BY <1>1, <2>1, <2>2, <2>3 DEF TypeOK
<1>6. LocalOK(t)'
  BY <1>1, <1>2, <1>3, <1>4, ThreadAssumption, SemaAssumption DEF Down, SemaFrame,
    Elsewhere, schedVars, prioVars, lockArgs, semaVars, lockVars, LocalOK, Stack,
    Params, Outside, InAcquire, InRelease, Creating
<1>7. Quiet(t)
  BY <1>1, <1>2, <1>3, <1>4, <1>6, ThreadAssumption DEF Down, SemaFrame, Elsewhere,
    schedVars, prioVars, lockArgs, semaVars, lockVars, Quiet, Creating, Waiting,
    TypeOK
<1>8. KeepsLocks(t)
  BY <1>1, <1>2, <1>3, <1>4 DEF Down, SemaFrame, Elsewhere, schedVars, prioVars,
    lockArgs, semaVars, lockVars, KeepsLocks, Flying, InFlight, Wants, Owns, OwnOK,
    Acquiring, TypeOK
<1>9. QED
  BY <1>3, <1>4, <1>5, <1>7, <1>8, QuietIInv DEF Down, SemaFrame, Elsewhere,
    schedVars, prioVars, lockArgs, semaVars, lockVars

(* condvar_wait() goes to sleep on its own semaphore *)
LEMMA AwaitStep ==
    ASSUME IInv, NEW t \in Thread, Await(t)
    PROVE  IInv'
<1>1. TypeOK /\ LocalOK(t) /\ OwnOK
  BY DEF IInv
<1>2. arg[t] \in Lock
  BY <1>1 DEF Await, At, InDown, LocalOK, Stack, Params, Outside, InAcquire,
    InRelease
<1>3. /\ running = t /\ pc[t] = "await"
      /\ lk[t] = NULL /\ ret[t] = NULL /\ sm[t] = NULL
  BY <1>1, <1>2 DEF Await, At, InDown, LocalOK, Stack, Params, Outside, InAcquire,
    InRelease
<1>4. /\ OwnOnly(t) /\ pc'[t] = "down"
      /\ lk'[t] = lk[t] /\ ret'[t] = ret[t]
      /\ sm'[t] = t
      /\ arg'[t] = arg[t]
  BY <1>1, <1>2, <1>3, ThreadAssumption, SemaAssumption DEF Await, Elsewhere,
    schedVars, prioVars, lockArgs, semaVars, lockVars, Goto, Fault, OwnOnly, TypeOK
<1>5. TypeOK'
  <2>1. pc' \in [Thread -> Labels]
    BY <1>1, <1>2 DEF Await, Goto, Fault, TypeOK, Labels, Sema
  <2>2. sm' \in [Thread -> Sema \cup {NULL}]
    BY <1>1, <1>2 DEF Await, Goto, Fault, TypeOK, Labels, Sema
  <2>3. UNCHANGED << running, status, priority, priority_old, ready_list, preempts, halted,
             ret, lk, loc, arg, value, waiters, holder, donator, donators, blocker,
             cond_waiters>>
    BY DEF Await, Elsewhere, schedVars, prioVars, lockArgs, semaVars, lockVars
  <2>4. QED
    BY <1>1, <2>1, <2>2, <2>3 DEF TypeOK
<1>6. LocalOK(t)'
  BY <1>1, <1>2, <1>3, <1>4, ThreadAssumption, SemaAssumption DEF Await, Elsewhere,
    schedVars, prioVars, lockArgs, semaVars, lockVars, LocalOK, Stack, Params,
    Outside, InAcquire, InRelease, Creating
<1>7. Quiet(t)
  BY <1>1, <1>2, <1>3, <1>4, <1>6, ThreadAssumption DEF Await, Elsewhere, schedVars,
    prioVars, lockArgs, semaVars, lockVars, Quiet, Creating, Waiting, TypeOK
<1>8. KeepsLocks(t)
  BY <1>1, <1>2, <1>3, <1>4 DEF Await, Elsewhere, schedVars, prioVars, lockArgs,
    semaVars, lockVars, KeepsLocks, Flying, InFlight, Wants, Owns, OwnOK, Acquiring,
    TypeOK
<1>9. QED
  BY <1>3, <1>4, <1>5, <1>7, <1>8, QuietIInv DEF Await, Elsewhere, schedVars,
    prioVars, lockArgs, semaVars, lockVars

(* condvar_wait() takes the lock again *)
LEMMA ReacquireStep ==
    ASSUME IInv, NEW t \in Thread, Reacquire(t)
    PROVE  IInv'
<1>1. TypeOK /\ LocalOK(t) /\ OwnOK
  BY DEF IInv
<1>2. arg[t] \in Lock
  BY <1>1 DEF Reacquire, At, InDown, LocalOK, Stack, Params, Outside, InAcquire,
    InRelease
<1>3. /\ running = t /\ pc[t] = "reacquire"
      /\ lk[t] = NULL /\ ret[t] = NULL /\ sm[t] = NULL
  BY <1>1, <1>2 DEF Reacquire, At, InDown, LocalOK, Stack, Params, Outside,
    InAcquire, InRelease
<1>4. /\ OwnOnly(t) /\ pc'[t] = "acquire"
      /\ lk'[t] = arg[t] /\ ret'[t] = "user" /\ sm'[t] = NULL
      /\ arg'[t] = NULL
  BY <1>1, <1>2, <1>3, ThreadAssumption, SemaAssumption DEF Reacquire, CallAcquire,
    Elsewhere, schedVars, prioVars, lockArgs, semaVars, lockVars, Goto, Fault,
    OwnOnly, TypeOK
<1>5. TypeOK'
  <2>1. pc' \in [Thread -> Labels]
    BY <1>1, <1>2 DEF Reacquire, CallAcquire, Goto, Fault, TypeOK, Labels, Sema
  <2>2. lk' \in [Thread -> Lock \cup {NULL}]
    BY <1>1, <1>2 DEF Reacquire, CallAcquire, Goto, Fault, TypeOK, Labels, Sema
  <2>3. ret' \in [Thread -> {"user", "tid", "unblock", "await", NULL}]
    BY <1>1, <1>2 DEF Reacquire, CallAcquire, Goto, Fault, TypeOK, Labels, Sema
  <2>4. arg' \in [Thread -> Thread \cup Lock \cup CondVar \cup Priorities \cup {NULL}]
    BY <1>1, <1>2 DEF Reacquire, CallAcquire, Goto, Fault, TypeOK, Labels, Sema
  <2>5. UNCHANGED << running, status, priority, priority_old, ready_list, preempts, halted,
             sm, loc, value, waiters, holder, donator, donators, blocker,
             cond_waiters>>
    BY DEF Reacquire, CallAcquire, Elsewhere, schedVars, prioVars, lockArgs,
      semaVars, lockVars
  <2>6. QED
    BY <1>1, <2>1, <2>2, <2>3, <2>4, <2>5 DEF TypeOK
<1>6. LocalOK(t)'
  BY <1>1, <1>2, <1>3, <1>4, ThreadAssumption DEF Reacquire, CallAcquire, Elsewhere,
    schedVars, prioVars, lockArgs, semaVars, lockVars, LocalOK, Stack, Params,
    Outside, InAcquire, InRelease, Creating
<1>7. Quiet(t)
  BY <1>1, <1>2, <1>3, <1>4, <1>6, ThreadAssumption DEF Reacquire, CallAcquire,
    Elsewhere, schedVars, prioVars, lockArgs, semaVars, lockVars, Quiet, Creating,
    Waiting, TypeOK
<1>8. KeepsLocks(t)
  BY <1>1, <1>2, <1>3, <1>4 DEF Reacquire, CallAcquire, Elsewhere, schedVars,
    prioVars, lockArgs, semaVars, lockVars, KeepsLocks, Flying, InFlight, Wants,
    Owns, OwnOK, Acquiring, TypeOK
<1>9. QED
  BY <1>3, <1>4, <1>5, <1>7, <1>8, QuietIInv DEF Reacquire, CallAcquire, Elsewhere,
    schedVars, prioVars, lockArgs, semaVars, lockVars

(* condvar_broadcast() called by a client *)
LEMMA BroadcastCall ==
    ASSUME IInv, NEW t \in Thread, NEW c \in CondVar, Broadcast(t, c)
    PROVE  IInv'
<1>1. TypeOK /\ LocalOK(t) /\ OwnOK
  BY DEF IInv
<1>2. running = t /\ pc[t] = "user"
  BY <1>1 DEF Broadcast, At, InDown, LocalOK, Stack, Params, Outside, InAcquire,
    InRelease
<1>3. lk[t] = NULL /\ ret[t] = NULL /\ sm[t] = NULL
  BY <1>1, <1>2 DEF Broadcast, At, InDown, LocalOK, Stack, Params, Outside,
    InAcquire, InRelease
<1>4. /\ OwnOnly(t) /\ pc'[t] = "broadcast"
      /\ lk'[t] = lk[t] /\ ret'[t] = ret[t] /\ sm'[t] = sm[t]
      /\ arg'[t] = c
  BY <1>1, <1>2, <1>3, ThreadAssumption, SemaAssumption DEF Broadcast, Elsewhere,
    schedVars, prioVars, lockArgs, semaVars, lockVars, Goto, Fault, OwnOnly, TypeOK
<1>5. TypeOK'
  <2>1. pc' \in [Thread -> Labels]
    BY <1>1, <1>2 DEF Broadcast, Goto, Fault, TypeOK, Labels, Sema
  <2>2. arg' \in [Thread -> Thread \cup Lock \cup CondVar \cup Priorities \cup {NULL}]
    BY <1>1, <1>2 DEF Broadcast, Goto, Fault, TypeOK, Labels, Sema
  <2>3. UNCHANGED << running, status, priority, priority_old, ready_list, preempts, halted,
             ret, lk, sm, loc, value, waiters, holder, donator, donators, blocker,
             cond_waiters>>
    BY DEF Broadcast, Elsewhere, schedVars, prioVars, lockArgs, semaVars, lockVars
  <2>4. QED
    BY <1>1, <2>1, <2>2, <2>3 DEF TypeOK
<1>6. LocalOK(t)'
  BY <1>1, <1>2, <1>3, <1>4, ThreadAssumption DEF Broadcast, Elsewhere, schedVars,
    prioVars, lockArgs, semaVars, lockVars, LocalOK, Stack, Params, Outside,
    InAcquire, InRelease, Creating
<1>7. Quiet(t)
  BY <1>1, <1>2, <1>3, <1>4, <1>6, ThreadAssumption DEF Broadcast, Elsewhere,
    schedVars, prioVars, lockArgs, semaVars, lockVars, Quiet, Creating, Waiting,
    TypeOK
<1>8. KeepsLocks(t)
  BY <1>1, <1>2, <1>3, <1>4 DEF Broadcast, Elsewhere, schedVars, prioVars, lockArgs,
    semaVars, lockVars, KeepsLocks, Flying, InFlight, Wants, Owns, OwnOK, Acquiring,
    TypeOK
<1>9. QED
  BY <1>3, <1>4, <1>5, <1>7, <1>8, QuietIInv DEF Broadcast, Elsewhere, schedVars,
    prioVars, lockArgs, semaVars, lockVars

(* the priority that is left is computed *)
LEMMA RestoreStep ==
    ASSUME IInv, NEW t \in Thread, Restore(t), LockFrame
    PROVE  IInv'
<1>1. TypeOK /\ LocalOK(t) /\ OwnOK
  BY DEF IInv
<1>2. lk[t] \in Lock
  BY <1>1 DEF Restore, At, InDown, LocalOK, Stack, Params, Outside, InAcquire,
    InRelease
<1>3. /\ running = t /\ pc[t] = "restore"
      /\ ret[t] \in {"user", "unblock", "await"} /\ sm[t] = NULL
  BY <1>1, <1>2 DEF Restore, At, InDown, LocalOK, Stack, Params, Outside, InAcquire,
    InRelease
<1>a. \/ Goto(t, "fault") /\ UNCHANGED loc
      \/ \E p \in Priorities : /\ p >= priority_old[t]
                               /\ loc' = [loc EXCEPT ![t] = p]
                               /\ Goto(t, "assign")
  <2>1. CASE \E l \in donators[t] : donator[l] = NULL
    BY <2>1 DEF Restore, Fault
  <2>2. CASE ~\E l \in donators[t] : donator[l] = NULL
    <3> DEFINE S == DonatedTo(t) \cup {priority_old[t]}
    <3>1. \A l \in donators[t] : donator[l] \in Thread
      BY <1>1, <2>2 DEF TypeOK
    <3>2. DonatedTo(t) \subseteq Priorities
      BY <1>1, <3>1 DEF TypeOK, DonatedTo
    <3>3. priority_old[t] \in Priorities
      BY <1>1 DEF TypeOK
    <3>4. S # {} /\ S \subseteq 0 .. 63 /\ S \subseteq Priorities
      BY <3>2, <3>3, ThreadAssumption
    <3> HIDE DEF S
    <3>5. Max(S) \in S /\ \A y \in S : Max(S) >= y
      BY <3>4, Greatest
    <3>6. priority_old[t] \in S
      BY DEF S
    <3>7. RestoredPriority(t) \in Priorities /\ RestoredPriority(t) >= priority_old[t]
      BY <3>4, <3>5, <3>6 DEF S, RestoredPriority
    <3>8. QED
      BY <2>2, <3>7 DEF Restore
  <2>3. QED
    BY <2>1, <2>2
<1>b. UNCHANGED <<lk, ret, arg, sm, priority_old>>
  BY DEF Restore, Elsewhere, prioVars
<1>4. /\ OwnOnly(t) /\ pc'[t] \in {"assign", "fault"}
      /\ lk'[t] = lk[t] /\ ret'[t] = ret[t] /\ sm'[t] = sm[t]
      /\ arg'[t] = arg[t]
      /\ pc'[t] = "assign" => loc'[t] \in Priorities /\ loc'[t] >= priority_old[t]
  BY <1>1, <1>2, <1>3, <1>a, <1>b, ThreadAssumption DEF Goto, OwnOnly, TypeOK
<1>5. TypeOK'
  <2>1. pc' \in [Thread -> Labels]
    BY <1>1, <1>2, <1>a DEF Restore, Goto, Fault, TypeOK, Labels, Sema
  <2>2. loc' \in [Thread -> Lock \cup Priorities \cup {NULL}]
    BY <1>1, <1>a DEF TypeOK
  <2>3. UNCHANGED << running, status, priority, priority_old, ready_list, preempts, halted,
             ret, lk, sm, arg, value, waiters, holder, donator, donators, blocker,
             cond_waiters>>
    BY DEF Restore, LockFrame, Elsewhere, schedVars, prioVars, lockArgs, semaVars,
      lockVars
  <2>4. QED
    BY <1>1, <2>1, <2>2, <2>3 DEF TypeOK
<1>6. LocalOK(t)'
  BY <1>1, <1>2, <1>3, <1>4, ThreadAssumption, <1>a DEF Restore, LockFrame,
    Elsewhere, schedVars, prioVars, lockArgs, semaVars, lockVars, LocalOK, Stack,
    Params, Outside, InAcquire, InRelease, Creating
<1>7. Quiet(t)
  BY <1>1, <1>2, <1>3, <1>4, <1>6, ThreadAssumption DEF Restore, LockFrame,
    Elsewhere, schedVars, prioVars, lockArgs, semaVars, lockVars, Quiet, Creating,
    Waiting, TypeOK
<1>8. KeepsLocks(t)
  BY <1>1, <1>2, <1>3, <1>4 DEF Restore, LockFrame, Elsewhere, schedVars, prioVars,
    lockArgs, semaVars, lockVars, KeepsLocks, Flying, InFlight, Wants, Owns, OwnOK,
    Acquiring, TypeOK
<1>9. QED
  BY <1>3, <1>4, <1>5, <1>7, <1>8, QuietIInv DEF Restore, LockFrame, Elsewhere,
    schedVars, prioVars, lockArgs, semaVars, lockVars

(* lock->holder = thread_current() *)
LEMMA SetHolderStep ==
    ASSUME IInv, NEW t \in Thread, SetHolder(t), LockFrame
    PROVE  IInv'
<1>1. TypeOK /\ LocalOK(t) /\ OwnOK
  BY DEF IInv
<1>2. lk[t] \in Lock
  BY <1>1 DEF SetHolder, At, InDown, LocalOK, Stack, Params, Outside, InAcquire,
    InRelease
<1>3. /\ running = t /\ pc[t] = "holder"
      /\ ret[t] \in {"user", "tid"} /\ sm[t] = NULL
      /\ ret[t] = "tid" => lk[t] = tid_lock
      /\ holder[lk[t]] = NULL
  BY <1>1, <1>2 DEF SetHolder, At, InDown, LocalOK, Stack, Params, Outside,
    InAcquire, InRelease, OwnOK, InFlight
<1>4. /\ OwnOnly(t) /\ pc'[t] = ret[t]
      /\ lk'[t] = NULL /\ ret'[t] = NULL /\ sm'[t] = NULL
      /\ arg'[t] = arg[t]
      /\ holder'[lk[t]] = t
  BY <1>1, <1>2, <1>3, ThreadAssumption, SemaAssumption DEF SetHolder, LockFrame,
    Elsewhere, schedVars, prioVars, lockArgs, semaVars, lockVars, Goto, Fault,
    OwnOnly, TypeOK
<1>5. TypeOK'
  <2>1. pc' \in [Thread -> Labels]
    <3>1. ret[t] \in Labels
      BY <1>3 DEF Labels
    <3>2. QED
      BY <1>1, <3>1 DEF SetHolder, Goto, TypeOK
  <2>2. lk' \in [Thread -> Lock \cup {NULL}]
    BY <1>1, <1>2 DEF SetHolder, Goto, Fault, TypeOK, Labels, Sema
  <2>3. ret' \in [Thread -> {"user", "tid", "unblock", "await", NULL}]
    BY <1>1, <1>2 DEF SetHolder, Goto, Fault, TypeOK, Labels, Sema
  <2>4. holder' \in [Lock -> Thread \cup {NULL}]
    BY <1>1, <1>2 DEF SetHolder, Goto, Fault, TypeOK, Labels, Sema
  <2>5. UNCHANGED << running, status, priority, priority_old, ready_list, preempts, halted,
             sm, loc, arg, value, waiters, donator, donators, blocker,
             cond_waiters>>
    BY DEF SetHolder, LockFrame, Elsewhere, schedVars, prioVars, lockArgs, semaVars,
      lockVars
  <2>6. QED
    BY <1>1, <2>1, <2>2, <2>3, <2>4, <2>5 DEF TypeOK
<1>6. LocalOK(t)'
  BY <1>1, <1>2, <1>3, <1>4, ThreadAssumption DEF SetHolder, LockFrame, Elsewhere,
    schedVars, prioVars, lockArgs, semaVars, lockVars, LocalOK, Stack, Params,
    Outside, InAcquire, InRelease, Creating
<1>7. Quiet(t)
  BY <1>1, <1>2, <1>3, <1>4, <1>6, ThreadAssumption DEF SetHolder, LockFrame,
    Elsewhere, schedVars, prioVars, lockArgs, semaVars, lockVars, Quiet, Creating,
    Waiting, TypeOK
<1>8. OwnOK'
  <2>1. \A u \in Thread, l \in Lock : Owns(u, l)' <=> Owns(u, l)
    BY <1>1, <1>2, <1>3, <1>4, ThreadAssumption
    DEF SetHolder, OwnOK, Owns, Flying, InFlight, OwnOnly, TypeOK
  <2>2. \A l \in Lock : l # lk[t] => holder'[l] = holder[l]
    BY <1>1 DEF SetHolder, TypeOK
  <2>3. \A u \in Thread \ {t} : pc[u] \in InFlight \cup {"release"} => lk[u] \in Lock
    BY DEF IInv, LocalOK, Stack, InFlight, InAcquire, InRelease
  <2>4. UNCHANGED <<value, donator>>
    BY DEF SetHolder, Elsewhere, semaVars
  <2>5. /\ \A l \in Lock : value'[l] <= 1
        /\ \A l \in Lock, u \in Thread : Owns(u, l)' => value'[l] = 0
        /\ \A l \in Lock, u, v \in Thread : Owns(u, l)' /\ Owns(v, l)' => u = v
    BY <1>1, <2>1, <2>4 DEF OwnOK
  <2>6. \A u \in Thread : pc'[u] \in InFlight => holder'[lk'[u]] = NULL
    BY <1>1, <1>2, <1>3, <1>4, <2>2, <2>3 DEF OwnOK, Owns, Flying, InFlight, OwnOnly
  <2>7. \A u \in Thread : pc'[u] = "release" => holder'[lk'[u]] = u
    BY <1>1, <1>2, <1>3, <1>4, <2>2, <2>3, ThreadAssumption DEF OwnOK, OwnOnly
  <2>8. \A u \in Thread : pc'[u] = "tid" => holder'[tid_lock] = u
    BY <1>1, <1>2, <1>3, <1>4, <2>2, ThreadAssumption, KernelAssumption
    DEF OwnOK, OwnOnly
  <2>9. ASSUME NEW l \in Lock, NEW u \in Thread, donator'[l] = u
        PROVE  Owns(u, l)' \/ Wants(u, l)'
    <3>1. Owns(u, l) \/ (u # t /\ Wants(u, l))
      BY <1>1, <1>3, <2>4, <2>9 DEF OwnOK, Wants, Acquiring
    <3>2. QED
      BY <1>4, <2>1, <3>1 DEF Wants, OwnOnly
  <2>10. \A u \in Thread : pc'[u] = "up" => donator'[lk'[u]] # u
    BY <1>1, <1>3, <1>4, <2>4 DEF OwnOK, OwnOnly
  <2>11. QED
    BY <2>5, <2>6, <2>7, <2>8, <2>9, <2>10 DEF OwnOK
<1>9. QED
  BY <1>3, <1>4, <1>5, <1>7, <1>8, QuietIInv DEF SetHolder, LockFrame, Elsewhere,
    schedVars, prioVars, lockArgs, semaVars, lockVars

(* lock_release() clears the holder *)
LEMMA ClearHolderStep ==
    ASSUME IInv, NEW t \in Thread, ClearHolder(t), LockFrame
    PROVE  IInv'
<1>1. TypeOK /\ LocalOK(t) /\ OwnOK
  BY DEF IInv
<1>2. lk[t] \in Lock
  BY <1>1 DEF ClearHolder, At, InDown, LocalOK, Stack, Params, Outside, InAcquire,
    InRelease
<1>3. /\ running = t /\ pc[t] = "release"
      /\ ret[t] \in {"user", "unblock", "await"} /\ sm[t] = NULL
      /\ holder[lk[t]] = t
  BY <1>1, <1>2 DEF ClearHolder, At, InDown, LocalOK, Stack, Params, Outside,
    InAcquire, InRelease, OwnOK
<1>4. /\ OwnOnly(t) /\ pc'[t] = "revoke"
      /\ lk'[t] = lk[t] /\ ret'[t] = ret[t] /\ sm'[t] = sm[t]
      /\ arg'[t] = arg[t]
      /\ holder'[lk[t]] = NULL
  BY <1>1, <1>2, <1>3, ThreadAssumption, SemaAssumption DEF ClearHolder, LockFrame,
    Elsewhere, schedVars, prioVars, lockArgs, semaVars, lockVars, Goto, Fault,
    OwnOnly, TypeOK
<1>5. TypeOK'
  <2>1. pc' \in [Thread -> Labels]
    BY <1>1, <1>2 DEF ClearHolder, Goto, Fault, TypeOK, Labels, Sema
  <2>2. holder' \in [Lock -> Thread \cup {NULL}]
    BY <1>1, <1>2 DEF ClearHolder, Goto, Fault, TypeOK, Labels, Sema
  <2>3. UNCHANGED << running, status, priority, priority_old, ready_list, preempts, halted,
             ret, lk, sm, loc, arg, value, waiters, donator, donators, blocker,
             cond_waiters>>
    BY DEF ClearHolder, LockFrame, Elsewhere, schedVars, prioVars, lockArgs,
      semaVars, lockVars
  <2>4. QED
    BY <1>1, <2>1, <2>2, <2>3 DEF TypeOK
<1>6. LocalOK(t)'
  BY <1>1, <1>2, <1>3, <1>4, ThreadAssumption DEF ClearHolder, LockFrame, Elsewhere,
    schedVars, prioVars, lockArgs, semaVars, lockVars, LocalOK, Stack, Params,
    Outside, InAcquire, InRelease, Creating
<1>7. Quiet(t)
  BY <1>1, <1>2, <1>3, <1>4, <1>6, ThreadAssumption DEF ClearHolder, LockFrame,
    Elsewhere, schedVars, prioVars, lockArgs, semaVars, lockVars, Quiet, Creating,
    Waiting, TypeOK
<1>8. OwnOK'
  <2>1. \A u \in Thread, l \in Lock : Owns(u, l)' <=> Owns(u, l)
    BY <1>1, <1>2, <1>3, <1>4, ThreadAssumption
    DEF ClearHolder, OwnOK, Owns, Flying, InFlight, OwnOnly, TypeOK
  <2>2. \A l \in Lock : l # lk[t] => holder'[l] = holder[l]
    BY <1>1 DEF ClearHolder, TypeOK
  <2>3. \A u \in Thread \ {t} : pc[u] \in InFlight \cup {"release"} => lk[u] \in Lock
    BY DEF IInv, LocalOK, Stack, InFlight, InAcquire, InRelease
  <2>4. UNCHANGED <<value, donator>>
    BY DEF ClearHolder, Elsewhere, semaVars
  <2>5. /\ \A l \in Lock : value'[l] <= 1
        /\ \A l \in Lock, u \in Thread : Owns(u, l)' => value'[l] = 0
        /\ \A l \in Lock, u, v \in Thread : Owns(u, l)' /\ Owns(v, l)' => u = v
    BY <1>1, <2>1, <2>4 DEF OwnOK
  <2>6. \A u \in Thread : pc'[u] \in InFlight => holder'[lk'[u]] = NULL
    BY <1>1, <1>2, <1>3, <1>4, <2>2, <2>3 DEF OwnOK, OwnOnly
  <2>7. \A u \in Thread : pc'[u] = "release" => holder'[lk'[u]] = u
    BY <1>1, <1>2, <1>3, <1>4, <2>2, <2>3, ThreadAssumption DEF OwnOK, OwnOnly
  <2>8. \A u \in Thread : pc'[u] = "tid" => holder'[tid_lock] = u
    BY <1>1, <1>2, <1>3, <1>4, <2>2, ThreadAssumption, KernelAssumption
    DEF OwnOK, OwnOnly
  <2>9. ASSUME NEW l \in Lock, NEW u \in Thread, donator'[l] = u
        PROVE  Owns(u, l)' \/ Wants(u, l)'
    <3>1. Owns(u, l) \/ (u # t /\ Wants(u, l))
      BY <1>1, <1>3, <2>4, <2>9 DEF OwnOK, Wants, Acquiring
    <3>2. QED
      BY <1>4, <2>1, <3>1 DEF Wants, OwnOnly
  <2>10. \A u \in Thread : pc'[u] = "up" => donator'[lk'[u]] # u
    BY <1>1, <1>3, <1>4, <2>4 DEF OwnOK, OwnOnly
  <2>11. QED
    BY <2>5, <2>6, <2>7, <2>8, <2>9, <2>10 DEF OwnOK
<1>9. QED
  BY <1>3, <1>4, <1>5, <1>7, <1>8, QuietIInv DEF ClearHolder, LockFrame, Elsewhere,
    schedVars, prioVars, lockArgs, semaVars, lockVars

-----------------------------------------------------------------------------
(***************************************************************************)
(* schedule() and its callers.  st is the threads' states once the calling *)
(* thread has left the processor or goes on: the run queue is what the     *)
(* states say, and but for who of the ready threads runs they are st.      *)
(***************************************************************************)
Live == {"READY", "RUNNING"}

Resched(st) ==
    /\ running' \in Thread /\ status' \in [Thread -> Status]
    /\ status'[running'] = "RUNNING"
    /\ QueueOK(status', ready_list')
    /\ \A u \in Thread \ {Idle} :
          status'[u] = st[u] \/ (status'[u] \in Live /\ st[u] \in Live)
    /\ status'[Idle] # "UNUSED"

(* Schedule() takes the thread it runs off the run queue. *)
LEMMA Dispatch ==
    ASSUME NEW st \in [Thread -> Status], NEW rl, QueueOK(st, rl), st[Idle] # "UNUSED",
           priority \in [Thread -> Priorities], Schedule(st, rl)
    PROVE  Resched(st)
<1>1. priority \in [Thread -> Int]
  <2>1. Priorities \subseteq Int
    BY ThreadAssumption
  <2>2. QED
    BY <2>1
<1>2. Idle \in Thread
  BY ThreadAssumption
<1>3. Distinct(rl, Thread) /\ ToSet(rl) = ReadyIn(st)
  BY DEF QueueOK
<1>4. CASE rl = <<>>
  <2>1. running' = Idle /\ status' = [st EXCEPT ![Idle] = "RUNNING"] /\ ready_list' = rl
    BY <1>4 DEF Schedule
  <2>2. ReadyIn(status') = ReadyIn(st)
    BY <1>2, <2>1 DEF ReadyIn
  <2>3. QED
    BY <1>2, <1>3, <2>1, <2>2 DEF Resched, QueueOK, Status
<1>5. CASE rl # <<>>
  <2> DEFINE next == Last(list_sort(rl, priority))
             rest == Front(list_sort(rl, priority))
  <2>1. /\ next \in ToSet(rl) /\ next \in Thread /\ Distinct(rest, Thread)
        /\ ToSet(rest) = ToSet(rl) \ {next}
    BY <1>1, <1>3, <1>5, SortPop
  <2>2. running' = next /\ status' = [st EXCEPT ![next] = "RUNNING"] /\ ready_list' = rest
    BY <1>5 DEF Schedule
  <2> HIDE DEF next, rest
  <2>3. st[next] = "READY" /\ next # Idle
    BY <1>3, <2>1 DEF ReadyIn
  <2>4. ReadyIn(status') = ReadyIn(st) \ {next}
    BY <2>1, <2>2 DEF ReadyIn
  <2>5. QED
    BY <1>2, <1>3, <2>1, <2>2, <2>3, <2>4 DEF Resched, QueueOK, Status, Live
<1>6. QED
  BY <1>4, <1>5

(* thread_yield() puts the caller on the run queue and dispatches. *)
LEMMA Yielding ==
    ASSUME NEW t \in Thread, NEW st \in [Thread -> Status], NEW rl, QueueOK(st, rl),
           st[Idle] # "UNUSED", st[t] = "RUNNING", priority \in [Thread -> Priorities],
           thread_yield(t, st, rl)
    PROVE  Resched(st)
<1> DEFINE st1 == [st EXCEPT ![t] = "READY"]
           rl1 == IF t = Idle THEN rl ELSE PushFront(rl, t)
<1>1. st1 \in [Thread -> Status] /\ st1[Idle] # "UNUSED" /\ st1[t] = "READY"
  BY ThreadAssumption DEF Status
<1>2. t \notin ToSet(rl)
  BY DEF QueueOK, ReadyIn
<1>3. QueueOK(st1, rl1)
  <2>1. CASE t = Idle
    <3>1. ReadyIn(st1) = ReadyIn(st)
      BY <2>1 DEF ReadyIn
    <3>2. QED
      BY <2>1, <3>1 DEF QueueOK
  <2>2. CASE t # Idle
    <3>1. ReadyIn(st1) = ReadyIn(st) \cup {t}
      BY <2>2 DEF ReadyIn
    <3>2. Distinct(PushFront(rl, t), Thread) /\ ToSet(PushFront(rl, t)) = ToSet(rl) \cup {t}
      BY <1>2, PushElements DEF QueueOK
    <3>3. QED
      BY <2>2, <3>1, <3>2 DEF QueueOK
  <2>3. QED
    BY <2>1, <2>2
<1>4. Resched(st1)
  <2>1. Schedule(st1, rl1)
    BY DEF thread_yield
  <2> HIDE DEF st1, rl1
  <2>2. QED
    BY <1>1, <1>3, <2>1, Dispatch
<1>5. \A u \in Thread \ {Idle} : st1[u] = st[u] \/ (st1[u] \in Live /\ st[u] \in Live)
  BY DEF Live
<1> HIDE DEF st1, rl1
<1>6. QED
  BY <1>4, <1>5 DEF Resched

(* The caller goes on. *)
LEMMA GoingOn ==
    ASSUME NEW t \in Thread, NEW st \in [Thread -> Status], QueueOK(st, ready_list'),
           st[Idle] # "UNUSED", st[t] = "RUNNING", running' = t, status' = st
    PROVE  Resched(st)
  BY DEF Resched

(* thread_unblock() puts a thread on the run queue. *)
LEMMA Unblocking ==
    ASSUME IInv, NEW w \in Thread \ {Idle}, status[w] = "BLOCKED"
    PROVE  /\ StatusWith(w) \in [Thread -> Status] /\ StatusWith(w)[Idle] # "UNUSED"
           /\ StatusWith(w)[running] = "RUNNING"
           /\ QueueOK(StatusWith(w), QueueWith(w))
<1>1. status \in [Thread -> Status] /\ status[running] = "RUNNING" /\ status[Idle] # "UNUSED"
  BY ThreadAssumption DEF IInv, TypeOK, SchedOK, CreateOK, LocalOK, Stack
<1>2. w \notin ToSet(ready_list)
  BY DEF IInv, SchedOK, QueueOK, ReadyIn
<1>3. ReadyIn(StatusWith(w)) = ReadyIn(status) \cup {w}
  BY <1>1 DEF ReadyIn, StatusWith
<1>4. QueueOK(StatusWith(w), QueueWith(w))
  BY <1>2, <1>3, PushElements DEF QueueOK, QueueWith, IInv, SchedOK
<1>5. QED
  BY <1>1, <1>4, ThreadAssumption DEF StatusWith, Status, IInv, TypeOK

(***************************************************************************)
(* A step after which t or another thread runs, and which only t notices:  *)
(* it goes on, yields, or dies.                                            *)
(***************************************************************************)
LEMMA RunStep ==
    ASSUME IInv, NEW t \in Thread, NEW st, running = t, OwnOnly(t), LocalOK(t)',
           pc[t] # "woken", pc'[t] # "woken", Resched(st),
           \A u \in Thread \ {t} : st[u] = status[u],
           t # Idle => st[t] \in Live \/ (st[t] = "DYING" /\ pc'[t] = "exited"),
           UNCHANGED <<waiters, cond_waiters, value, holder, donator>>,
           UNCHANGED priority_old, pc'[t] \notin {"blocker", "donate"} \/ preempts' # 0,
           preempts' = 0 => preempts = 0,
           Creating(t)' <=> Creating(t), Creating(t) => arg'[t] = arg[t],
           Waiting(t) => Waiting(t)', TypeOK',
           \A l \in Lock : Owns(t, l)' <=> Owns(t, l),
           \A l \in Lock : Wants(t, l)' <=> Wants(t, l),
           pc'[t] \in {"tid", "release", "up"} \cup InFlight => pc'[t] = pc[t] /\ lk'[t] = lk[t]
    PROVE  IInv'
<1>1. status[t] = "RUNNING"
  BY DEF IInv, SchedOK
<1>2. \A u \in Thread : LocalOK(u)'
  BY DEF IInv, OwnOnly, LocalOK, Stack, Params, Creating
<1>3. \A u \in Thread : (Creating(u)' <=> Creating(u)) /\ (Creating(u) => arg'[u] = arg[u])
  BY DEF OwnOnly, Creating
<1>4. \A c \in Thread : BeingCreated(c)' <=> BeingCreated(c)
  BY <1>3 DEF BeingCreated, Creating
<1>5. \A u \in Thread \ {Idle, t} :
         status'[u] = status[u] \/ (status'[u] \in Live /\ status[u] \in Live)
  BY DEF Resched
<1>6. t # Idle => status'[t] \in Live \/ (status'[t] = "DYING" /\ pc'[t] = "exited")
  BY DEF Resched, Live
<1>7. Idle \in Thread /\ pc[Idle] = "idle" /\ pc'[Idle] = "idle"
  BY <1>2, ThreadAssumption DEF IInv, LocalOK, Stack
<1>8. \A s \in Sema : Asleep(s)' = Asleep(s) /\ Awakened(s)' = Awakened(s)
  BY <1>5, <1>7 DEF Asleep, Awakened, OwnOnly, Live
<1>9. SchedOK'
  <2>1. \A u \in Thread \ {Idle} :
           status'[u] = "BLOCKED" => pc'[u] = "woken" \/ BeingCreated(u)'
    BY <1>4, <1>5, <1>6 DEF IInv, SchedOK, OwnOnly, Live
  <2>2. \A u \in Thread \ {Idle} : status'[u] = "DYING" => pc'[u] = "exited"
    BY <1>5, <1>6 DEF IInv, SchedOK, OwnOnly, Live
  <2>3. \A s \in Sema : Distinct(waiters'[s], Thread) /\ ToSet(waiters'[s]) = Asleep(s)'
    BY <1>8 DEF IInv, SchedOK
  <2>4. QED
    BY <2>1, <2>2, <2>3 DEF SchedOK, Resched
<1>10. CreateOK'
  <2>1. \A u \in Thread : Creating(u) => arg[u] \in Thread \ {Idle, t}
    BY <1>1, <1>7 DEF IInv, CreateOK, LocalOK, Params
  <2>2. \A u \in Thread : Creating(u)' => status'[arg'[u]] = "BLOCKED" /\ pc'[arg'[u]] = "user"
    BY <1>3, <1>5, <2>1 DEF IInv, CreateOK, OwnOnly, Live
  <2>3. \A u, v \in Thread : Creating(u)' /\ Creating(v)' /\ arg'[u] = arg'[v] => u = v
    BY <1>3 DEF IInv, CreateOK
  <2>4. \A u \in Thread : status'[u] = "UNUSED" => pc'[u] = "user"
    BY <1>5, <1>6 DEF IInv, CreateOK, OwnOnly, Live, Resched
  <2>5. QED
    BY <2>2, <2>3, <2>4 DEF CreateOK
<1>11. CondOK'
  <2>1. \A c \in CondVar : ToSet(cond_waiters[c]) \subseteq Thread
    BY DEF IInv, TypeOK, ToSet
  <2>2. \A u \in Thread : Waiting(u) => Waiting(u)'
    BY DEF OwnOnly, Waiting
  <2>3. QED
    BY <2>1, <2>2 DEF IInv, CondOK
<1>12. NoLostWakeup'
  BY <1>8 DEF IInv, NoLostWakeup
<1>13. OwnOK'
  <2>1. \A u \in Thread, l \in Lock : (Owns(u, l)' <=> Owns(u, l)) /\ (Wants(u, l)' <=> Wants(u, l))
    BY DEF Owns, Flying, Wants, OwnOnly
  <2>2. /\ \A l \in Lock : value'[l] <= 1
        /\ \A l \in Lock, u \in Thread : Owns(u, l)' => value'[l] = 0
        /\ \A l \in Lock, u, v \in Thread : Owns(u, l)' /\ Owns(v, l)' => u = v
        /\ \A l \in Lock, u \in Thread : donator'[l] = u => Owns(u, l)' \/ Wants(u, l)'
    BY <2>1 DEF IInv, OwnOK
  <2>3. /\ \A u \in Thread : pc'[u] \in InFlight => holder'[lk'[u]] = NULL
        /\ \A u \in Thread : pc'[u] = "release" => holder'[lk'[u]] = u
        /\ \A u \in Thread : pc'[u] = "tid" => holder'[tid_lock] = u
        /\ \A u \in Thread : pc'[u] = "up" => donator'[lk'[u]] # u
    BY DEF IInv, OwnOK, OwnOnly
  <2>4. QED
    BY <2>2, <2>3 DEF OwnOK
<1>14. CoopOK'
  BY DEF IInv, CoopOK, OwnOnly
<1>15. QED
  BY <1>2, <1>9, <1>10, <1>11, <1>12, <1>13, <1>14 DEF IInv

(* What schedule() and thread_yield() are called with. *)
LEMMA BeforeSchedule ==
    ASSUME IInv
    PROVE  /\ running \in Thread /\ Idle \in Thread /\ status[running] = "RUNNING"
           /\ status \in [Thread -> Status] /\ status[Idle] # "UNUSED"
           /\ priority \in [Thread -> Priorities]
           /\ QueueOK(status, ready_list)
           /\ running = Idle <=> pc[running] = "idle"
  BY ThreadAssumption DEF IInv, TypeOK, SchedOK, CreateOK, LocalOK, Stack

(* The types after a step that dispatches. *)
LEMMA ReschedTypes ==
    ASSUME NEW st, Resched(st)
    PROVE  /\ running' \in Thread /\ status' \in [Thread -> Status]
           /\ ready_list' \in Seq(Thread)
  BY DEF Resched, QueueOK, Distinct

(***************************************************************************)
(* A step that changes nothing but the run queue and, perhaps, that the    *)
(* thread's current operation is over.                                     *)
(***************************************************************************)
LEMMA TurnStep ==
    ASSUME IInv, NEW t \in Thread, running = t, Resched(status), pc[t] # "woken",
           \/ UNCHANGED <<pc, arg>>
           \/ /\ pc[t] \in {"setyield", "created"}
              /\ pc' = [pc EXCEPT ![t] = "user"] /\ arg' = [arg EXCEPT ![t] = NULL],
           UNCHANGED <<prioVars, halted, lockArgs, semaVars, lockVars, cond_waiters>>,
           preempts' \in 0 .. MaxPreempt,
           preempts' = preempts \/ preempts' # 0,
           preempts' # 0 \/ pc[t] \notin {"blocker", "donate"}
    PROVE  IInv'
<1>1. TypeOK /\ LocalOK(t)
  BY DEF IInv
<1>2. /\ OwnOnly(t) /\ lk'[t] = lk[t] /\ ret'[t] = ret[t] /\ sm'[t] = sm[t]
      /\ (pc'[t] = pc[t] /\ arg'[t] = arg[t])
         \/ (pc[t] \in {"setyield", "created"} /\ pc'[t] = "user")
  BY <1>1 DEF OwnOnly, TypeOK, lockArgs
<1>3. TypeOK'
  <2>1. /\ running' \in Thread /\ status' \in [Thread -> Status]
        /\ ready_list' \in Seq(Thread)
    BY ReschedTypes
  <2>2. pc' \in [Thread -> Labels]
    BY <1>1 DEF TypeOK, Labels
  <2>3. arg' \in [Thread -> Thread \cup Lock \cup CondVar \cup Priorities \cup {NULL}]
    BY <1>1 DEF TypeOK
  <2>4. QED
    BY <1>1, <2>1, <2>2, <2>3 DEF TypeOK, prioVars, lockArgs, semaVars, lockVars
<1>4. LocalOK(t)'
  BY <1>1, <1>2, ThreadAssumption
  DEF LocalOK, Stack, Params, Outside, InAcquire, InRelease, Creating, prioVars, lockArgs
<1>5. /\ Creating(t)' <=> Creating(t)
      /\ Creating(t) => arg'[t] = arg[t]
      /\ Waiting(t) => Waiting(t)'
  BY <1>1, <1>2, ThreadAssumption
  DEF LocalOK, Stack, Outside, Creating, Waiting
<1>6. /\ \A l \in Lock : Owns(t, l)' <=> Owns(t, l)
      /\ \A l \in Lock : Wants(t, l)' <=> Wants(t, l)
  BY <1>2 DEF Owns, Flying, Wants, InFlight, Acquiring, lockVars
<1>7. /\ pc'[t] # "woken"
      /\ pc'[t] \notin {"blocker", "donate"} \/ preempts' # 0
      /\ pc'[t] \in {"tid", "release", "up"} \cup InFlight => pc'[t] = pc[t] /\ lk'[t] = lk[t]
  BY <1>2 DEF InFlight
<1>8. status[t] \in Live
  BY BeforeSchedule DEF Live
<1>9. UNCHANGED <<waiters, cond_waiters, value, holder, donator, priority_old>>
  BY DEF semaVars, lockVars, prioVars
<1>10. QED
  BY <1>2, <1>3, <1>4, <1>5, <1>6, <1>7, <1>8, <1>9, RunStep

(* thread_yield() called by a client *)
LEMMA YieldCall ==
    ASSUME IInv, NEW t \in Thread, Yield(t), ThreadFrame
    PROVE  IInv'
<1>1. running = t /\ pc[t] = "user"
  BY DEF Yield, At
<1>2. Resched(status)
  BY <1>1, BeforeSchedule, Yielding DEF Yield
<1>3. QED
  BY <1>1, <1>2, TurnStep DEF Yield, ThreadFrame, IInv, TypeOK

(* the end of a time slice *)
LEMMA TickStep ==
    ASSUME IInv, NEW t \in Thread, Tick(t), ThreadFrame
    PROVE  IInv'
<1>1. running = t /\ pc[t] # "woken"
  BY DEF Tick
<1>2. Resched(status)
  BY <1>1, BeforeSchedule, Yielding DEF Tick
<1>3. preempts' \in 0 .. MaxPreempt /\ preempts' # 0
  BY ThreadAssumption DEF Tick, IInv, TypeOK
<1>4. QED
  BY <1>1, <1>2, <1>3, TurnStep DEF Tick, ThreadFrame

(* thread_set_priority() compares the new priority with the run queue *)
LEMMA SetYieldStep ==
    ASSUME IInv, NEW t \in Thread, SetYield(t), ThreadFrame
    PROVE  IInv'
<1>1. running = t /\ pc[t] = "setyield"
  BY DEF SetYield, At
<1>2. Resched(status)
  <2>1. CASE thread_yield(t, status, ready_list)
    BY <1>1, <2>1, BeforeSchedule, Yielding
  <2>2. CASE UNCHANGED schedVars
    BY <1>1, <2>2, BeforeSchedule, GoingOn DEF schedVars
  <2>3. QED
    BY <2>1, <2>2 DEF SetYield
<1>3. QED
  BY <1>1, <1>2, TurnStep DEF SetYield, Goto, ThreadFrame, IInv, TypeOK

(* thread_create() compares the new thread's priority with the creator's *)
LEMMA CreateYieldStep ==
    ASSUME IInv, NEW t \in Thread, CreateYield(t), ThreadFrame
    PROVE  IInv'
<1>1. running = t /\ pc[t] = "created"
  BY DEF CreateYield, At
<1>2. Resched(status)
  <2>1. CASE thread_yield(t, status, ready_list)
    BY <1>1, <2>1, BeforeSchedule, Yielding
  <2>2. CASE UNCHANGED schedVars
    BY <1>1, <2>2, BeforeSchedule, GoingOn DEF schedVars
  <2>3. QED
    BY <2>1, <2>2 DEF CreateYield
<1>3. QED
  BY <1>1, <1>2, TurnStep DEF CreateYield, Goto, ThreadFrame, IInv, TypeOK

(* the idle thread lets another run *)
LEMMA IdleTurn ==
    ASSUME IInv, IdleStep, ThreadFrame
    PROVE  IInv'
<1> DEFINE st == [status EXCEPT ![Idle] = "BLOCKED"]
<1>1. running = Idle /\ Idle \in Thread /\ pc[Idle] = "idle"
  BY ThreadAssumption DEF IdleStep, At
<1>2. /\ st \in [Thread -> Status] /\ st[Idle] # "UNUSED"
      /\ \A u \in Thread \ {Idle} : st[u] = status[u]
  BY <1>1, BeforeSchedule DEF Status
<1>3. QueueOK(st, ready_list)
  <2>1. ReadyIn(st) = ReadyIn(status)
    BY <1>2 DEF ReadyIn
  <2>2. QED
    BY <2>1, BeforeSchedule DEF QueueOK
<1>4. Schedule(st, ready_list)
  BY DEF IdleStep, thread_block
<1> HIDE DEF st
<1>5. Resched(st)
  BY <1>2, <1>3, <1>4, BeforeSchedule, Dispatch
<1>6. Resched(status)
  BY <1>2, <1>5 DEF Resched
<1>7. QED
  BY <1>1, <1>6, TurnStep DEF IdleStep, ThreadFrame, IInv, TypeOK

(* thread_exit() *)
LEMMA ExitCall ==
    ASSUME IInv, NEW t \in Thread, Exit(t), ThreadFrame
    PROVE  IInv'
<1> DEFINE st == [status EXCEPT ![t] = "DYING"]
<1>1. TypeOK /\ LocalOK(t)
  BY DEF IInv
<1>2. running = t /\ pc[t] = "user"
  BY DEF Exit, At
<1>3. lk[t] = NULL /\ ret[t] = NULL /\ sm[t] = NULL /\ t # Idle
  BY <1>1, <1>2 DEF LocalOK, Stack, Outside
<1>4. /\ st \in [Thread -> Status] /\ st[Idle] # "UNUSED" /\ st[t] = "DYING"
      /\ \A u \in Thread \ {t} : st[u] = status[u]
  BY <1>3, BeforeSchedule DEF Status
<1>5. QueueOK(st, ready_list)
  <2>1. ReadyIn(st) = ReadyIn(status)
    BY <1>2, <1>4, BeforeSchedule DEF ReadyIn
  <2>2. QED
    BY <2>1, BeforeSchedule DEF QueueOK
<1>6. Schedule(st, ready_list)
  BY DEF Exit
<1> HIDE DEF st
<1>7. Resched(st)
  BY <1>4, <1>5, <1>6, BeforeSchedule, Dispatch
<1>8. OwnOnly(t) /\ pc'[t] = "exited" /\ lk'[t] = NULL /\ ret'[t] = NULL /\ sm'[t] = NULL
  BY <1>1, <1>3 DEF Exit, Goto, OwnOnly, TypeOK, lockArgs
<1>9. TypeOK'
  <2>1. pc' \in [Thread -> Labels]
    BY <1>1 DEF Exit, Goto, TypeOK, Labels
  <2>2. QED
    BY <1>1, <1>7, <2>1, ReschedTypes
    DEF TypeOK, Exit, ThreadFrame, prioVars, lockArgs, semaVars, lockVars
<1>10. LocalOK(t)'
  BY <1>1, <1>3, <1>8, ThreadAssumption
  DEF LocalOK, Stack, Params, Outside, InAcquire, InRelease, Creating
<1>11. /\ ~Creating(t) /\ ~Creating(t)' /\ ~Waiting(t)
       /\ \A l \in Lock : ~Wants(t, l) /\ ~Wants(t, l)' /\ ~Flying(t, l) /\ ~Flying(t, l)'
  BY <1>2, <1>3, <1>8, ThreadAssumption
  DEF Creating, Waiting, Wants, Flying, InFlight, Acquiring
<1>12. /\ UNCHANGED <<waiters, cond_waiters, value, holder, donator, priority_old, preempts>>
       /\ \A l \in Lock : Owns(t, l)' <=> Owns(t, l)
  BY <1>11 DEF Exit, ThreadFrame, prioVars, semaVars, lockVars, Owns
<1>13. pc'[t] \notin {"tid", "release", "up"} \cup InFlight
  BY <1>8 DEF InFlight
<1>14. QED
  BY <1>2, <1>4, <1>7, <1>8, <1>9, <1>10, <1>11, <1>12, <1>13, RunStep

(* thread_create() called by a client: init_thread() and allocate_tid() *)
LEMMA CreateCall ==
    ASSUME IInv, NEW t \in Thread, NEW c \in Thread, NEW p \in Priorities,
           Create(t, c, p, tid_lock), ThreadFrame
    PROVE  IInv'
<1>1. TypeOK /\ LocalOK(t) /\ status[t] = "RUNNING" /\ running = t /\ pc[t] = "user"
  BY DEF IInv, SchedOK, Create, At
<1>2. lk[t] = NULL /\ ret[t] = NULL /\ sm[t] = NULL /\ tid_lock \in Lock
  BY <1>1, KernelAssumption DEF LocalOK, Stack, Outside
<1>3. status[c] = "UNUSED" /\ pc[c] = "user" /\ c # t /\ c # Idle
  BY <1>1, ThreadAssumption DEF IInv, CreateOK, Create, LocalOK, Stack
<1>4. /\ OwnOnly(t) /\ pc'[t] = "acquire" /\ lk'[t] = tid_lock /\ ret'[t] = "tid"
      /\ sm'[t] = NULL /\ arg'[t] = c
  BY <1>1, <1>2 DEF Create, Goto, OwnOnly, TypeOK
<1>5. /\ \A u \in Thread \ {c} : status'[u] = status[u] /\ priority_old'[u] = priority_old[u]
      /\ status'[c] = "BLOCKED"
  BY <1>1 DEF Create, TypeOK
<1>6. /\ UNCHANGED <<running, ready_list, preempts, halted, sm, loc>>
      /\ UNCHANGED <<value, waiters, holder, donator, donators, blocker, cond_waiters>>
  BY DEF Create, ThreadFrame, semaVars, lockVars
<1>7. TypeOK'
  <2>1. status' \in [Thread -> Status]
    BY <1>1 DEF Create, TypeOK, Status
  <2>2. priority' \in [Thread -> Priorities] /\ priority_old' \in [Thread -> Priorities]
    BY <1>1 DEF Create, TypeOK
  <2>3. pc' \in [Thread -> Labels]
    BY <1>1 DEF Create, Goto, TypeOK, Labels
  <2>4. lk' \in [Thread -> Lock \cup {NULL}]
    BY <1>1, KernelAssumption DEF Create, TypeOK
  <2>5. ret' \in [Thread -> {"user", "tid", "unblock", "await", NULL}]
    BY <1>1 DEF Create, TypeOK
  <2>6. arg' \in [Thread -> Thread \cup Lock \cup CondVar \cup Priorities \cup {NULL}]
    BY <1>1 DEF Create, TypeOK
  <2>7. QED
    BY <1>1, <1>6, <2>1, <2>2, <2>3, <2>4, <2>5, <2>6 DEF TypeOK
<1>8. \A u \in Thread : LocalOK(u)'
  <2>1. LocalOK(t)'
    BY <1>1, <1>2, <1>4, ThreadAssumption
    DEF LocalOK, Stack, Params, Outside, InAcquire, InRelease, Creating
  <2>2. \A u \in Thread \ {t} : LocalOK(u)'
    BY <1>3, <1>4, <1>5 DEF IInv, OwnOnly, LocalOK, Stack, Params, Creating
  <2>3. QED
    BY <2>1, <2>2
<1>9. /\ ~Creating(t) /\ Creating(t)'
      /\ \A u \in Thread \ {t} :
            (Creating(u)' <=> Creating(u)) /\ arg'[u] = arg[u]
  BY <1>1, <1>2, <1>4, ThreadAssumption DEF Creating, OwnOnly
<1>10. /\ \A d \in Thread : BeingCreated(d) => BeingCreated(d)'
       /\ BeingCreated(c)'
  <2>1. \A d \in Thread : BeingCreated(d) <=> \E u \in Thread : arg[u] = d /\ Creating(u)
    BY DEF BeingCreated, Creating
  <2>2. \A d \in Thread : BeingCreated(d)' <=> \E u \in Thread : arg'[u] = d /\ Creating(u)'
    BY DEF BeingCreated, Creating
  <2>3. QED
    BY <1>4, <1>9, <2>1, <2>2
<1>11. \A s \in Sema : Asleep(s)' = Asleep(s) /\ Awakened(s)' = Awakened(s)
  BY <1>1, <1>3, <1>4, <1>5 DEF Asleep, Awakened, OwnOnly
<1>12. SchedOK'
  <2>1. ReadyIn(status') = ReadyIn(status)
    BY <1>3, <1>5 DEF ReadyIn
  <2>2. \A u \in Thread \ {Idle} : /\ status'[u] = "BLOCKED" => pc'[u] = "woken" \/ BeingCreated(u)'
                                   /\ status'[u] = "DYING" => pc'[u] = "exited"
    BY <1>1, <1>4, <1>5, <1>10 DEF IInv, SchedOK, OwnOnly
  <2>3. QED
    BY <1>1, <1>3, <1>5, <1>6, <1>11, <2>1, <2>2 DEF IInv, SchedOK, QueueOK
<1>13. CreateOK'
  <2>1. \A u \in Thread : Creating(u) => arg[u] \in Thread \ {t, c}
    BY <1>1, <1>3 DEF IInv, CreateOK, LocalOK, Params
  <2>2. QED
    BY <1>1, <1>3, <1>4, <1>5, <1>9, <2>1 DEF IInv, CreateOK, OwnOnly
<1>14. CondOK'
  <2>1. \A d \in CondVar : ToSet(cond_waiters[d]) \subseteq Thread
    BY DEF IInv, TypeOK, ToSet
  <2>2. \A u \in Thread : Waiting(u) => Waiting(u)'
    BY <1>1, <1>2, <1>4, ThreadAssumption DEF OwnOnly, Waiting
  <2>3. QED
    BY <1>6, <2>1, <2>2 DEF IInv, CondOK
<1>15. NoLostWakeup'
  BY <1>6, <1>11 DEF IInv, NoLostWakeup
<1>16. OwnOK'
  <2>1. \A l \in Lock : ~Flying(t, l)'
    BY <1>4 DEF Flying, InFlight
  <2>2. \A l \in Lock : donator[l] = t => holder[l] = t
    BY <1>1 DEF IInv, OwnOK, Owns, Flying, Wants, InFlight, Acquiring
  <2>3. pc'[t] \notin InFlight \cup {"release", "tid", "up"}
    BY <1>4 DEF InFlight
  <2>4. QED
    BY <1>4, <1>6, <2>1, <2>2, <2>3, OwnFrame
<1>17. CoopOK'
  BY <1>1, <1>4, <1>6, CoopFrame
<1>18. QED
  BY <1>7, <1>8, <1>12, <1>13, <1>14, <1>15, <1>16, <1>17 DEF IInv

(* thread_create() unblocks the new thread *)
LEMMA CreateUnblockStep ==
    ASSUME IInv, NEW t \in Thread, CreateUnblock(t), ThreadFrame
    PROVE  IInv'
<1> DEFINE c == arg[t]
<1>1. TypeOK /\ LocalOK(t) /\ status[t] = "RUNNING" /\ running = t /\ pc[t] = "unblock"
  BY DEF IInv, SchedOK, CreateUnblock, At
<1>2. lk[t] = NULL /\ ret[t] = NULL /\ sm[t] = NULL /\ Creating(t)
  BY <1>1 DEF LocalOK, Stack, Outside, Creating
<1>3. c \in Thread /\ status[c] = "BLOCKED" /\ pc[c] = "user" /\ c # t /\ c # Idle
  BY <1>1, <1>2, ThreadAssumption DEF IInv, CreateOK, LocalOK, Stack, Params
<1>4. /\ OwnOnly(t) /\ pc'[t] = "created" /\ lk'[t] = NULL /\ ret'[t] = NULL
      /\ sm'[t] = NULL /\ arg'[t] = c
  BY <1>1, <1>2 DEF CreateUnblock, Goto, OwnOnly, TypeOK, lockArgs
<1>5. status' = StatusWith(c) /\ ready_list' = QueueWith(c) /\ running' = t
  BY <1>1 DEF CreateUnblock
<1>6. /\ UNCHANGED <<preempts, halted, ret, lk, sm, loc, arg, priority, priority_old>>
      /\ UNCHANGED <<value, waiters, holder, donator, donators, blocker, cond_waiters>>
  BY DEF CreateUnblock, ThreadFrame, semaVars, lockVars, prioVars, lockArgs
<1> HIDE DEF c
<1>7. /\ status' \in [Thread -> Status] /\ status'[t] = "RUNNING"
      /\ QueueOK(status', ready_list')
  BY <1>1, <1>3, <1>5, Unblocking
<1>8. status'[c] = "READY" /\ \A u \in Thread \ {c} : status'[u] = status[u]
  BY <1>1, <1>3, <1>5 DEF StatusWith, TypeOK
<1>9. TypeOK'
  <2>1. pc' \in [Thread -> Labels]
    BY <1>1 DEF CreateUnblock, Goto, TypeOK, Labels
  <2>2. ready_list' \in Seq(Thread)
    BY <1>7 DEF QueueOK, Distinct
  <2>3. QED
    BY <1>1, <1>5, <1>6, <1>7, <2>1, <2>2 DEF TypeOK
<1>10. \A u \in Thread : LocalOK(u)'
  <2>1. LocalOK(t)'
    BY <1>1, <1>2, <1>3, <1>4, ThreadAssumption
    DEF LocalOK, Stack, Params, Outside, InAcquire, InRelease, Creating
  <2>2. \A u \in Thread \ {t} : LocalOK(u)'
    BY <1>4, <1>6 DEF IInv, OwnOnly, LocalOK, Stack, Params, Creating
  <2>3. QED
    BY <2>1, <2>2
<1>11. /\ ~Creating(t)'
       /\ \A u \in Thread \ {t} :
             (Creating(u)' <=> Creating(u)) /\ arg'[u] = arg[u]
  BY <1>4, ThreadAssumption DEF Creating, OwnOnly
<1>12. \A d \in Thread \ {c} : BeingCreated(d) => BeingCreated(d)'
  <2>1. \A d \in Thread : BeingCreated(d) <=> \E u \in Thread : arg[u] = d /\ Creating(u)
    BY DEF BeingCreated, Creating
  <2>2. \A d \in Thread : BeingCreated(d)' <=> \E u \in Thread : arg'[u] = d /\ Creating(u)'
    BY DEF BeingCreated, Creating
  <2>3. QED
    BY <1>11, <2>1, <2>2 DEF c
<1>13. \A s \in Sema : Asleep(s)' = Asleep(s) /\ Awakened(s)' = Awakened(s)
  BY <1>1, <1>3, <1>4, <1>8 DEF Asleep, Awakened, OwnOnly
<1>14. SchedOK'
  <2>1. \A u \in Thread \ {Idle} : /\ status'[u] = "BLOCKED" => pc'[u] = "woken" \/ BeingCreated(u)'
                                   /\ status'[u] = "DYING" => pc'[u] = "exited"
    BY <1>1, <1>4, <1>8, <1>12 DEF IInv, SchedOK, OwnOnly
  <2>2. QED
    BY <1>5, <1>6, <1>7, <1>13, <2>1 DEF IInv, SchedOK
<1>15. CreateOK'
  <2>1. \A u \in Thread \ {t} : Creating(u) => arg[u] \in Thread \ {t, c}
    BY <1>1, <1>2 DEF IInv, CreateOK, LocalOK, Params, c
  <2>2. QED
    BY <1>1, <1>4, <1>8, <1>11, <2>1 DEF IInv, CreateOK, OwnOnly
<1>16. CondOK'
  <2>1. \A d \in CondVar : ToSet(cond_waiters[d]) \subseteq Thread
    BY DEF IInv, TypeOK, ToSet
  <2>2. \A u \in Thread : Waiting(u) => Waiting(u)'
    BY <1>1, <1>2, <1>4, ThreadAssumption DEF OwnOnly, Waiting
  <2>3. QED
    BY <1>6, <2>1, <2>2 DEF IInv, CondOK
<1>17. NoLostWakeup'
  BY <1>6, <1>13 DEF IInv, NoLostWakeup
<1>18. OwnOK'
  <2>1. \A l \in Lock : ~Flying(t, l)'
    BY <1>4 DEF Flying, InFlight
  <2>2. \A l \in Lock : donator[l] = t => holder[l] = t
    BY <1>1 DEF IInv, OwnOK, Owns, Flying, Wants, InFlight, Acquiring
  <2>3. pc'[t] \notin InFlight \cup {"release", "tid", "up"}
    BY <1>4 DEF InFlight
  <2>4. QED
    BY <1>4, <1>6, <2>1, <2>2, <2>3, OwnFrame
<1>19. CoopOK'
  BY <1>1, <1>4, <1>6, CoopFrame
<1>20. QED
  BY <1>9, <1>10, <1>14, <1>15, <1>16, <1>17, <1>18, <1>19 DEF IInv

-----------------------------------------------------------------------------
(***************************************************************************)
(* semaphore_up(): nobody waits, or one of the threads asleep on the       *)
(* semaphore is taken off its waiters and made ready.                      *)
(***************************************************************************)
WakesNone(s) == waiters[s] = <<>> /\ UNCHANGED waiters /\ Resched(status)

Wakes(s, w) ==
    /\ Resched(StatusWith(w))
    /\ waiters' \in [Sema -> Seq(Thread)]
    /\ Distinct(waiters'[s], Thread) /\ ToSet(waiters'[s]) = Asleep(s) \ {w}
    /\ \A r \in Sema \ {s} : waiters'[r] = waiters[r]

Raised(s) ==
    /\ value' \in [Sema -> Nat] /\ value'[s] = value[s] + 1
    /\ \A r \in Sema \ {s} : value'[r] = value[r]
    /\ WakesNone(s) \/ \E w \in Asleep(s) : Wakes(s, w)

(* semaphore_up() does one or the other *)
LEMMA SemaphoreUp ==
    ASSUME IInv, NEW t \in Thread, running = t, NEW s \in Sema, semaphore_up(t, s)
    PROVE  Raised(s)
<1>1. TypeOK
  BY DEF IInv
<1>2. /\ value' \in [Sema -> Nat] /\ value'[s] = value[s] + 1
      /\ \A r \in Sema \ {s} : value'[r] = value[r]
  BY <1>1 DEF semaphore_up, TypeOK
<1>3. CASE waiters[s] = <<>>
  <2>1. UNCHANGED <<running, status, ready_list, waiters>>
    BY <1>3 DEF semaphore_up, schedVars
  <2>2. Resched(status)
    BY <2>1, BeforeSchedule, GoingOn
  <2>3. QED
    BY <1>2, <1>3, <2>1, <2>2 DEF Raised, WakesNone
<1>4. CASE waiters[s] # <<>>
  <2> DEFINE w == WokenBy(s)
             rest == Front(list_sort(waiters[s], priority))
  <2>1. priority \in [Thread -> Int]
    <3>1. Priorities \subseteq Int
      BY ThreadAssumption
    <3>2. QED
      BY <1>1, <3>1 DEF TypeOK
  <2>2. Distinct(waiters[s], Thread) /\ ToSet(waiters[s]) = Asleep(s)
    BY DEF IInv, SchedOK
  <2>3. /\ w \in Asleep(s) /\ w \in Thread /\ Distinct(rest, Thread)
        /\ ToSet(rest) = Asleep(s) \ {w}
    BY <1>4, <2>1, <2>2, SortPop DEF WokenBy
  <2>4. waiters' = [waiters EXCEPT ![s] = rest]
    BY <1>4 DEF semaphore_up
  <2>5. \/ thread_yield(t, StatusWith(w), QueueWith(w))
        \/ ready_list' = QueueWith(w) /\ status' = StatusWith(w) /\ running' = t
    BY <1>4 DEF semaphore_up
  <2> HIDE DEF w, rest
  <2>6. status[w] = "BLOCKED" /\ w # Idle
    BY <2>3, ThreadAssumption DEF Asleep, IInv, LocalOK, Stack
  <2>7. /\ StatusWith(w) \in [Thread -> Status] /\ StatusWith(w)[Idle] # "UNUSED"
        /\ StatusWith(w)[t] = "RUNNING"
        /\ QueueOK(StatusWith(w), QueueWith(w))
    BY <2>3, <2>6, Unblocking
  <2>8. Resched(StatusWith(w))
    BY <2>5, <2>7, BeforeSchedule, Yielding, GoingOn
  <2>9. rest \in Seq(Thread)
    BY <2>3 DEF Distinct
  <2>10. Wakes(s, w)
    BY <1>1, <2>3, <2>4, <2>8, <2>9 DEF Wakes, TypeOK
  <2>11. QED
    BY <1>2, <2>3, <2>10 DEF Raised
<1>5. QED
  BY <1>3, <1>4

(***************************************************************************)
(* The same, by the set W of the threads that are woken.                   *)
(***************************************************************************)
Rise(s, W) ==
    /\ W \subseteq Asleep(s) /\ (waiters[s] # <<>> => \E w \in Thread : W = {w})
    /\ waiters' \in [Sema -> Seq(Thread)]
    /\ Distinct(waiters'[s], Thread) /\ ToSet(waiters'[s]) = Asleep(s) \ W
    /\ \A r \in Sema \ {s} : waiters'[r] = waiters[r]
    /\ \A u \in W : status'[u] \in Live
    /\ \A u \in Thread \ (W \cup {Idle}) :
          status'[u] = status[u] \/ (status'[u] \in Live /\ status[u] \in Live)
    /\ running' \in Thread /\ status' \in [Thread -> Status]
    /\ status'[running'] = "RUNNING" /\ status'[Idle] # "UNUSED"
    /\ QueueOK(status', ready_list')

(* What semaphore_up() does is such a step: it wakes nobody or one waiter. *)
LEMMA RaisedWakes ==
    ASSUME IInv, NEW s \in Sema, Raised(s)
    PROVE  \E W : Rise(s, W)
<1>1. TypeOK
  BY DEF IInv
<1>2. CASE WakesNone(s)
  <2>1. /\ waiters' \in [Sema -> Seq(Thread)] /\ waiters[s] = <<>>
        /\ Distinct(waiters'[s], Thread) /\ ToSet(waiters'[s]) = Asleep(s) \ {}
        /\ \A r \in Sema \ {s} : waiters'[r] = waiters[r]
    BY <1>1, <1>2 DEF WakesNone, TypeOK, IInv, SchedOK
  <2>2. Rise(s, {})
    BY <1>2, <2>1 DEF WakesNone, Resched, Rise
  <2>3. QED
    BY <2>2
<1>3. ASSUME NEW w \in Asleep(s), Wakes(s, w)
      PROVE  Rise(s, {w})
  <2>1. w \in Thread /\ w # Idle
    BY <1>3, ThreadAssumption DEF Asleep, IInv, LocalOK, Stack
  <2>2. StatusWith(w)[w] = "READY" /\ \A u \in Thread \ {w} : StatusWith(w)[u] = status[u]
    BY <1>1, <2>1 DEF StatusWith, TypeOK
  <2>3. status'[w] \in Live
    BY <1>3, <2>1, <2>2 DEF Wakes, Resched, Live
  <2>4. \A u \in Thread \ {w, Idle} :
           status'[u] = status[u] \/ (status'[u] \in Live /\ status[u] \in Live)
    BY <1>3, <2>2 DEF Wakes, Resched
  <2>5. QED
    BY <1>3, <2>1, <2>3, <2>4 DEF Wakes, Resched, Rise
<1>4. QED
  BY <1>2, <1>3 DEF Raised

(***************************************************************************)
(* A step of t that raises semaphore s.                                    *)
(***************************************************************************)
LEMMA UpStep ==
    ASSUME IInv, NEW t \in Thread, NEW s \in Sema, running = t, OwnOnly(t), LocalOK(t)',
           pc[t] # "woken", pc'[t] # "woken", Raised(s), UNCHANGED priority_old,
           Creating(t)' <=> Creating(t), Creating(t) => arg'[t] = arg[t]
    PROVE  /\ running' \in Thread /\ status' \in [Thread -> Status]
           /\ ready_list' \in Seq(Thread) /\ waiters' \in [Sema -> Seq(Thread)]
           /\ \A u \in Thread : LocalOK(u)'
           /\ SchedOK' /\ CreateOK' /\ NoLostWakeup'
<1>1. status[t] = "RUNNING" /\ TypeOK
  BY DEF IInv, SchedOK
<1>2. \A u \in Thread : LocalOK(u)'
  BY DEF IInv, OwnOnly, LocalOK, Stack, Params, Creating
<1>3. \A u \in Thread : (Creating(u)' <=> Creating(u)) /\ (Creating(u) => arg'[u] = arg[u])
  BY DEF OwnOnly, Creating
<1>4. \A c \in Thread : BeingCreated(c)' <=> BeingCreated(c)
  BY <1>3 DEF BeingCreated, Creating
<1>5. Idle \in Thread /\ pc[Idle] = "idle" /\ pc'[Idle] = "idle"
  BY <1>2, ThreadAssumption DEF IInv, LocalOK, Stack
<1>6. PICK W : Rise(s, W)
  BY RaisedWakes
<1>7. /\ \A u \in Thread \ (W \cup {Idle}) :
            status'[u] = status[u] \/ (status'[u] \in Live /\ status[u] \in Live)
      /\ \A u \in W : /\ status'[u] \in Live /\ status[u] = "BLOCKED" /\ u # Idle /\ u # t
                      /\ u \in Thread /\ pc[u] = "woken" /\ sm[u] = s
  BY <1>1, <1>5, <1>6 DEF Rise, Asleep
<1>8. /\ \A u \in Thread : pc'[u] = "woken" <=> pc[u] = "woken"
      /\ \A u \in Thread : pc[u] = "woken" => sm'[u] = sm[u]
  BY DEF OwnOnly
<1>9. Asleep(s)' = Asleep(s) \ W /\ Awakened(s)' = Awakened(s) \cup W
  BY <1>5, <1>7, <1>8 DEF Asleep, Awakened, Live
<1>10. \A r \in Sema \ {s} : Asleep(r)' = Asleep(r) /\ Awakened(r)' = Awakened(r)
  BY <1>5, <1>7, <1>8 DEF Asleep, Awakened, Live
<1>11. SchedOK'
  <2>1. \A u \in Thread \ {Idle} :
           status'[u] = "BLOCKED" => pc'[u] = "woken" \/ BeingCreated(u)'
    BY <1>4, <1>7, <1>8 DEF IInv, SchedOK, Live
  <2>2. \A u \in Thread \ {Idle} : status'[u] = "DYING" => pc'[u] = "exited"
    BY <1>1, <1>7 DEF IInv, SchedOK, OwnOnly, Live
  <2>3. \A r \in Sema : Distinct(waiters'[r], Thread) /\ ToSet(waiters'[r]) = Asleep(r)'
    BY <1>6, <1>9, <1>10 DEF IInv, SchedOK, Rise
  <2>4. QED
    BY <1>6, <2>1, <2>2, <2>3 DEF SchedOK, Rise
<1>12. CreateOK'
  <2>1. \A u \in Thread : Creating(u) => arg[u] \in Thread \ ({Idle, t} \cup W)
    BY <1>1, <1>5, <1>7 DEF IInv, CreateOK, LocalOK, Params
  <2>2. \A u \in Thread : Creating(u)' => status'[arg'[u]] = "BLOCKED" /\ pc'[arg'[u]] = "user"
    BY <1>3, <1>7, <2>1 DEF IInv, CreateOK, OwnOnly, Live
  <2>3. \A u, v \in Thread : Creating(u)' /\ Creating(v)' /\ arg'[u] = arg'[v] => u = v
    BY <1>3 DEF IInv, CreateOK
  <2>4. \A u \in Thread : status'[u] = "UNUSED" => pc'[u] = "user"
    BY <1>1, <1>6, <1>7 DEF IInv, CreateOK, OwnOnly, Live, Rise
  <2>5. QED
    BY <2>2, <2>3, <2>4 DEF CreateOK
<1>13. NoLostWakeup'
  <2>1. \A r \in Sema \ {s} : waiters'[r] # <<>> => value'[r] <= Cardinality(Awakened(r)')
    BY <1>6, <1>10 DEF IInv, NoLostWakeup, Rise, Raised
  <2>2. waiters'[s] # <<>> => value'[s] <= Cardinality(Awakened(s)')
    <3>1. HAVE waiters'[s] # <<>>
    <3>2. waiters[s] # <<>>
      <4>1. Asleep(s) # {}
        BY <1>6, <3>1, NothingListed DEF Rise
      <4>2. QED
        BY <1>1, <4>1, NothingListed DEF TypeOK, IInv, SchedOK
    <3>3. PICK w \in Thread : W = {w}
      BY <1>6, <3>2 DEF Rise
    <3>4. w \notin Awakened(s)
      BY <1>7, <3>3 DEF Awakened
    <3>5. IsFiniteSet(Awakened(s))
      BY ThreadAssumption, FS_Subset DEF Awakened
    <3>6. /\ Cardinality(Awakened(s)') = Cardinality(Awakened(s)) + 1
          /\ Cardinality(Awakened(s)) \in Nat
      BY <1>9, <3>3, <3>4, <3>5, FS_AddElement, FS_CardinalityType
    <3>7. value[s] <= Cardinality(Awakened(s)) /\ value[s] \in Nat
      BY <1>1, <3>2 DEF IInv, NoLostWakeup, TypeOK
    <3>8. QED
      BY <3>6, <3>7 DEF Raised
  <2>3. QED
    BY <2>1, <2>2 DEF NoLostWakeup
<1>14. ready_list' \in Seq(Thread)
  BY <1>6 DEF Rise, QueueOK, Distinct
<1>15. QED
  BY <1>2, <1>6, <1>11, <1>12, <1>13, <1>14 DEF Rise

(***************************************************************************)
(* A step that raises a semaphore that is not a lock's and leaves the      *)
(* stack of the running thread as it is.                                   *)
(***************************************************************************)
LEMMA RaiseStep ==
    ASSUME IInv, NEW t \in Thread, NEW s \in Sema \ Lock, running = t, Raised(s),
           pc[t] # "woken", running' = t \/ pc[t] \notin {"blocker", "donate"},
           UNCHANGED <<prioVars, preempts, halted, pc, lockArgs, arg, lockVars>>,
           cond_waiters' \in [CondVar -> Seq(Thread)], CondOK'
    PROVE  IInv'
<1>1. /\ UNCHANGED <<priority, priority_old, preempts, halted, pc, ret, lk, sm, loc, arg>>
      /\ UNCHANGED <<holder, donator, donators, blocker>>
  BY DEF prioVars, lockArgs, lockVars
<1>2. OwnOnly(t) /\ LocalOK(t)'
  BY <1>1 DEF OwnOnly, IInv, LocalOK, Stack, Params, Creating
<1>3. /\ running' \in Thread /\ status' \in [Thread -> Status]
      /\ ready_list' \in Seq(Thread) /\ waiters' \in [Sema -> Seq(Thread)]
      /\ \A u \in Thread : LocalOK(u)'
      /\ SchedOK' /\ CreateOK' /\ NoLostWakeup'
  <2>1. (Creating(t)' <=> Creating(t)) /\ arg'[t] = arg[t] /\ pc'[t] # "woken"
    BY <1>1 DEF Creating
  <2>2. QED
    BY <1>1, <1>2, <2>1, UpStep
<1>4. TypeOK'
  BY <1>1, <1>3 DEF IInv, TypeOK, Raised
<1>5. OwnOK'
  <2>1. \A l \in Lock : value'[l] = value[l]
    BY DEF Raised, Sema
  <2>2. \A u \in Thread, l \in Lock : (Owns(u, l)' <=> Owns(u, l)) /\ (Wants(u, l)' <=> Wants(u, l))
    BY <1>1 DEF Owns, Flying, Wants
  <2>3. QED
    BY <1>1, <2>1, <2>2 DEF IInv, OwnOK
<1>6. CoopOK'
  BY <1>1 DEF IInv, CoopOK
<1>7. QED
  BY <1>3, <1>4, <1>5, <1>6 DEF IInv

(* The waiters of condition variables, when no thread's own semaphore is raised. *)
LEMMA CondFrame ==
    ASSUME IInv, NEW t \in Thread, OwnOnly(t), UNCHANGED cond_waiters,
           \A u \in Thread : value'[u] = value[u], Waiting(t) => Waiting(t)'
    PROVE  CondOK'
<1>1. \A c \in CondVar : ToSet(cond_waiters[c]) \subseteq Thread
  BY DEF IInv, TypeOK, ToSet
<1>2. \A u \in Thread : Waiting(u) => Waiting(u)'
  BY DEF OwnOnly, Waiting
<1>3. QED
  BY <1>1, <1>2 DEF IInv, CondOK

(* A panic stops the machine where it is. *)
LEMMA PanicStep ==
    ASSUME IInv, halted' = "panic",
           UNCHANGED <<schedVars, prioVars, preempts, pc, lockArgs, arg, semaVars, lockVars,
                       cond_waiters>>
    PROVE  IInv'
<1>1. /\ UNCHANGED <<running, status, ready_list, priority, priority_old, preempts, pc>>
      /\ UNCHANGED <<ret, lk, sm, loc, arg, value, waiters, holder, donator, donators>>
      /\ UNCHANGED <<blocker, cond_waiters>>
  BY DEF schedVars, prioVars, lockArgs, semaVars, lockVars
<1>2. TypeOK'
  BY <1>1 DEF IInv, TypeOK
<1>3. \A t \in Thread : LocalOK(t)'
  BY <1>1 DEF IInv, LocalOK, Stack, Params, Creating
<1>4. SchedOK' /\ CreateOK'
  BY <1>1 DEF IInv, SchedOK, CreateOK, QueueOK, ReadyIn, Asleep, BeingCreated, Creating
<1>5. OwnOK' /\ CondOK'
  BY <1>1 DEF IInv, OwnOK, CondOK, Owns, Flying, Wants, Waiting
<1>6. NoLostWakeup' /\ CoopOK'
  BY <1>1 DEF IInv, NoLostWakeup, Awakened, CoopOK
<1>7. QED
  BY <1>2, <1>3, <1>4, <1>5, <1>6 DEF IInv

(* semaphore_up() called by a client *)
LEMMA UpCall ==
    ASSUME IInv, NEW t \in Thread, NEW s \in ClientSema, Up(t, s), SemaFrame
    PROVE  IInv'
<1>1. s \in Sema \ Lock /\ running = t /\ pc[t] = "user"
  BY SemaAssumption DEF Sema, Up, At
<1>2. Raised(s)
  BY <1>1, SemaphoreUp DEF Up
<1>3. CondOK'
  <2>1. \A u \in Thread : value'[u] = value[u]
    BY <1>2, SemaAssumption DEF Raised, Sema
  <2>2. OwnOnly(t) /\ UNCHANGED cond_waiters /\ (Waiting(t) => Waiting(t)')
    BY DEF Up, SemaFrame, OwnOnly, Waiting, lockArgs
  <2>3. QED
    BY <2>1, <2>2, CondFrame
<1>4. QED
  BY <1>1, <1>2, <1>3, RaiseStep DEF Up, SemaFrame, IInv, TypeOK

(* semaphore_up() called by an interrupt handler: it never gets to yield *)
LEMMA InterruptUpStep ==
    ASSUME IInv, NEW t \in Thread, NEW s \in ClientSema, InterruptUp(t, s), SemaFrame
    PROVE  IInv'
<1>1. s \in Sema \ Lock /\ running = t /\ pc[t] # "woken"
  BY SemaAssumption DEF Sema, InterruptUp
<1>2. CASE halted' = "panic" /\ UNCHANGED <<schedVars, semaVars>>
  BY <1>2, PanicStep DEF InterruptUp, SemaFrame
<1>3. CASE /\ ~(waiters[s] # <<>> /\ priority[WokenBy(s)] > priority[t])
           /\ semaphore_up(t, s) /\ UNCHANGED halted
  <2>1. Raised(s)
    BY <1>1, <1>3, SemaphoreUp
  <2>2. running' = t
    BY <1>1, <1>3 DEF semaphore_up, schedVars
  <2>3. CondOK'
    <3>1. \A u \in Thread : value'[u] = value[u]
      BY <2>1, SemaAssumption DEF Raised, Sema
    <3>2. OwnOnly(t) /\ UNCHANGED cond_waiters /\ (Waiting(t) => Waiting(t)')
      BY DEF InterruptUp, SemaFrame, OwnOnly, Waiting, lockArgs
    <3>3. QED
      BY <3>1, <3>2, CondFrame
  <2>4. QED
    BY <1>1, <1>3, <2>1, <2>2, <2>3, RaiseStep DEF InterruptUp, SemaFrame, IInv, TypeOK
<1>4. QED
  BY <1>2, <1>3 DEF InterruptUp

(* condvar_signal(): a waiter is taken off the list and its semaphore raised *)
LEMMA SignalStep ==
    ASSUME IInv, NEW t \in Thread, NEW c \in CondVar, running = t,
           pc[t] \in {"user", "broadcast"}, cond_waiters[c] # <<>>, condvar_signal(t, c),
           UNCHANGED <<prioVars, preempts, pc, lockArgs, arg, lockVars>>
    PROVE  IInv'
<1>1. CASE halted' = "panic" /\ UNCHANGED <<schedVars, semaVars, cond_waiters>>
  BY <1>1, PanicStep
<1>2. CASE LET sorted == list_sort(cond_waiters[c], priority)
           IN  /\ semaphore_up(t, Last(sorted))
               /\ cond_waiters' = [cond_waiters EXCEPT ![c] = Front(sorted)]
               /\ UNCHANGED halted
  <2> DEFINE w == Last(list_sort(cond_waiters[c], priority))
             rest == Front(list_sort(cond_waiters[c], priority))
  <2>1. priority \in [Thread -> Int]
    <3>1. Priorities \subseteq Int
      BY ThreadAssumption
    <3>2. QED
      BY <3>1 DEF IInv, TypeOK
  <2>2. Distinct(cond_waiters[c], Thread)
    BY DEF IInv, CondOK
  <2>3. /\ w \in ToSet(cond_waiters[c]) /\ w \in Thread /\ Distinct(rest, Thread)
        /\ ToSet(rest) = ToSet(cond_waiters[c]) \ {w}
    BY <2>1, <2>2, SortPop
  <2>4. /\ semaphore_up(t, w) /\ UNCHANGED halted
        /\ cond_waiters' = [cond_waiters EXCEPT ![c] = rest]
    BY <1>2
  <2> HIDE DEF w, rest
  <2>5. w \in Sema \ Lock
    BY <2>3, SemaAssumption DEF Sema
  <2>6. Raised(w)
    BY <2>4, <2>5, SemaphoreUp
  <2>7. rest \in Seq(Thread)
    BY <2>3 DEF Distinct
  <2>8. cond_waiters' \in [CondVar -> Seq(Thread)]
    BY <2>4, <2>7 DEF IInv, TypeOK
  <2>9. cond_waiters'[c] = rest /\ \A d \in CondVar \ {c} : cond_waiters'[d] = cond_waiters[d]
    BY <2>4 DEF IInv, TypeOK
  <2>10. \A d \in CondVar : ToSet(cond_waiters'[d]) \subseteq ToSet(cond_waiters[d]) \ {w}
    BY <2>3, <2>9 DEF IInv, CondOK
  <2>11. \A d \in CondVar : ToSet(cond_waiters[d]) \subseteq Thread
    BY DEF IInv, TypeOK, ToSet
  <2>12. \A u \in Thread \ {w} : value'[u] = value[u] /\ (Waiting(u)' <=> Waiting(u))
    BY <2>6 DEF Raised, Sema, Waiting, lockArgs
  <2>13. CondOK'
    <3>1. \A d \in CondVar : Distinct(cond_waiters'[d], Thread)
      BY <2>3, <2>9 DEF IInv, CondOK
    <3>2. \A d \in CondVar : \A u \in ToSet(cond_waiters'[d]) : value'[u] = 0 /\ Waiting(u)'
      BY <2>10, <2>11, <2>12 DEF IInv, CondOK
    <3>3. \A d, e \in CondVar : d # e => ToSet(cond_waiters'[d]) \cap ToSet(cond_waiters'[e]) = {}
      BY <2>10 DEF IInv, CondOK
    <3>4. QED
      BY <3>1, <3>2, <3>3 DEF CondOK
  <2>14. QED
    BY <2>4, <2>5, <2>6, <2>8, <2>13, RaiseStep
<1>3. QED
  BY <1>1, <1>2 DEF condvar_signal

(* condvar_signal() called by a client *)
LEMMA SignalCall ==
    ASSUME IInv, NEW t \in Thread, NEW c \in CondVar, Signal(t, c)
    PROVE  IInv'
  BY SignalStep DEF Signal, At

(* one turn of condvar_broadcast() *)
LEMMA BroadcastTurn ==
    ASSUME IInv, NEW t \in Thread, BroadcastStep(t)
    PROVE  IInv'
<1>1. running = t /\ pc[t] = "broadcast" /\ arg[t] \in CondVar
  BY DEF BroadcastStep, At, IInv, LocalOK, Params
<1>2. CASE cond_waiters[arg[t]] # <<>>
  BY <1>1, <1>2, SignalStep DEF BroadcastStep
<1>3. CASE cond_waiters[arg[t]] = <<>>
  <2>1. /\ Goto(t, "user") /\ arg' = [arg EXCEPT ![t] = NULL]
        /\ UNCHANGED <<running, status, ready_list, halted, value, waiters, cond_waiters>>
        /\ UNCHANGED <<priority, priority_old, preempts, ret, lk, sm, loc>>
        /\ UNCHANGED <<holder, donator, donators, blocker>>
    BY <1>3 DEF BroadcastStep, schedVars, semaVars, prioVars, lockArgs, lockVars
  <2>2. TypeOK /\ LocalOK(t) /\ OwnOK
    BY DEF IInv
  <2>3. lk[t] = NULL /\ ret[t] = NULL /\ sm[t] = NULL
    BY <1>1, <2>2 DEF LocalOK, Stack, Outside
  <2>4. OwnOnly(t) /\ pc'[t] = "user"
    BY <2>1, <2>2 DEF OwnOnly, Goto, TypeOK
  <2>5. TypeOK'
    <3>1. pc' \in [Thread -> Labels]
      BY <2>1, <2>2 DEF Goto, TypeOK, Labels
    <3>2. arg' \in [Thread -> Thread \cup Lock \cup CondVar \cup Priorities \cup {NULL}]
      BY <2>1, <2>2 DEF TypeOK
    <3>3. QED
      BY <2>1, <2>2, <3>1, <3>2 DEF TypeOK
  <2>6. LocalOK(t)'
    BY <1>1, <2>1, <2>2, <2>3, <2>4, ThreadAssumption
    DEF LocalOK, Stack, Params, Outside, InAcquire, InRelease, Creating
  <2>7. Quiet(t)
    BY <1>1, <2>1, <2>3, <2>4, <2>6, ThreadAssumption DEF Quiet, Creating, Waiting
  <2>8. KeepsLocks(t)
    BY <1>1, <2>1, <2>2, <2>3, <2>4
    DEF KeepsLocks, Flying, InFlight, Wants, Owns, OwnOK, Acquiring
  <2>9. QED
    BY <2>1, <2>4, <2>5, <2>7, <2>8, QuietIInv
<1>4. QED
  BY <1>2, <1>3

(* lock_release() raises the lock's semaphore *)
LEMMA ReleaseUpStep ==
    ASSUME IInv, NEW t \in Thread, ReleaseUp(t), LockFrame
    PROVE  IInv'
<1>1. TypeOK /\ LocalOK(t) /\ OwnOK /\ running = t /\ pc[t] = "up"
  BY DEF IInv, ReleaseUp, At
<1>a. lk[t] \in Lock
  BY <1>1 DEF LocalOK, Stack, InRelease
<1>b. PICK s \in Lock : s = lk[t]
  BY <1>a
<1>2. /\ s \in Lock /\ s \in Sema /\ ret[t] \in {"user", "unblock", "await"}
      /\ sm[t] = NULL /\ donator[s] # t /\ holder[s] = NULL
  BY <1>1, <1>b DEF LocalOK, Stack, InRelease, OwnOK, InFlight, Sema
<1>3. Raised(s)
  BY <1>1, <1>2, <1>b, SemaphoreUp DEF ReleaseUp
<1>4. /\ UNCHANGED <<priority, priority_old, preempts, halted, sm, loc, arg>>
      /\ UNCHANGED <<holder, donator, donators, blocker, cond_waiters>>
  BY DEF ReleaseUp, LockFrame, prioVars, lockVars
<1>5. OwnOnly(t) /\ pc'[t] = ret[t] /\ lk'[t] = NULL /\ ret'[t] = NULL
  BY <1>1, <1>4 DEF ReleaseUp, Goto, OwnOnly, TypeOK
<1>6. sm'[t] = NULL /\ arg'[t] = arg[t]
  BY <1>2, <1>4
<1>7. LocalOK(t)'
  BY <1>1, <1>2, <1>4, <1>5, <1>6, ThreadAssumption
  DEF LocalOK, Stack, Params, Outside, InAcquire, InRelease, Creating
<1>8. (Creating(t)' <=> Creating(t)) /\ (Waiting(t) => Waiting(t)') /\ pc'[t] # "woken"
  BY <1>1, <1>2, <1>5, <1>6, ThreadAssumption DEF Creating, Waiting
<1>9. /\ running' \in Thread /\ status' \in [Thread -> Status]
      /\ ready_list' \in Seq(Thread) /\ waiters' \in [Sema -> Seq(Thread)]
      /\ \A u \in Thread : LocalOK(u)'
      /\ SchedOK' /\ CreateOK' /\ NoLostWakeup'
  BY <1>1, <1>2, <1>3, <1>4, <1>5, <1>6, <1>7, <1>8, UpStep
<1>10. TypeOK'
  <2>1. pc' \in [Thread -> Labels]
    <3>1. ret[t] \in Labels
      BY <1>2 DEF Labels
    <3>2. QED
      BY <1>1, <3>1 DEF ReleaseUp, Goto, TypeOK
  <2>2. lk' \in [Thread -> Lock \cup {NULL}]
    BY <1>1 DEF ReleaseUp, TypeOK
  <2>3. ret' \in [Thread -> {"user", "tid", "unblock", "await", NULL}]
    BY <1>1 DEF ReleaseUp, TypeOK
  <2>4. QED
    BY <1>1, <1>3, <1>4, <1>9, <2>1, <2>2, <2>3 DEF TypeOK, Raised
<1>11. CondOK'
  <2>1. \A u \in Thread : value'[u] = value[u]
    BY <1>2, <1>3, SemaAssumption DEF Raised, Sema
  <2>2. QED
    BY <1>4, <1>5, <1>8, <2>1, CondFrame
<1>12. OwnOK'
  <2>1. Owns(t, s) /\ value[s] = 0 /\ \A u \in Thread \ {t} : ~Owns(u, s)
    BY <1>1, <1>2, <1>b DEF OwnOK, Owns, Flying, InFlight
  <2>2. \A u \in Thread : ~Owns(u, s)'
    BY <1>2, <1>4, <1>5, <2>1, ThreadAssumption, SemaAssumption DEF Owns, Flying, OwnOnly
  <2>3. \A u \in Thread, l \in Lock \ {s} : Owns(u, l)' <=> Owns(u, l)
    BY <1>1, <1>2, <1>4, <1>5, <1>b, SemaAssumption DEF Owns, Flying, OwnOnly
  <2>4. value'[s] = 1 /\ \A l \in Lock \ {s} : value'[l] = value[l]
    BY <1>3, <2>1 DEF Raised, Sema
  <2>5. /\ \A l \in Lock : value'[l] <= 1
        /\ \A l \in Lock, u \in Thread : Owns(u, l)' => value'[l] = 0
        /\ \A l \in Lock, u, v \in Thread : Owns(u, l)' /\ Owns(v, l)' => u = v
    BY <1>1, <2>2, <2>3, <2>4 DEF OwnOK
  <2>6. /\ \A u \in Thread : pc'[u] \in InFlight => holder'[lk'[u]] = NULL
        /\ \A u \in Thread : pc'[u] = "release" => holder'[lk'[u]] = u
        /\ \A u \in Thread : pc'[u] = "tid" => holder'[tid_lock] = u
        /\ \A u \in Thread : pc'[u] = "up" => donator'[lk'[u]] # u
    BY <1>1, <1>2, <1>4, <1>5 DEF OwnOK, OwnOnly, InFlight
  <2>7. ASSUME NEW l \in Lock, NEW u \in Thread, donator'[l] = u
        PROVE  Owns(u, l)' \/ Wants(u, l)'
    <3>1. Owns(u, l) \/ Wants(u, l)
      BY <1>1, <1>4, <2>7 DEF OwnOK
    <3>2. u = t => ~Wants(u, l) /\ l # s
      BY <1>1, <1>2, <1>4, <2>7 DEF Wants, Acquiring
    <3>3. Wants(u, l) => Wants(u, l)'
      BY <1>5, <3>2 DEF Wants, OwnOnly
    <3>4. l = s => ~Owns(u, l)
      BY <2>1, <3>2
    <3>5. QED
      BY <2>3, <3>1, <3>3, <3>4
  <2>8. QED
    BY <2>5, <2>6, <2>7 DEF OwnOK
<1>13. CoopOK'
  BY <1>1, <1>2, <1>4, <1>5, CoopFrame
<1>14. QED
  BY <1>9, <1>10, <1>11, <1>12, <1>13 DEF IInv

-----------------------------------------------------------------------------
(* semaphore_down() finds a zero and blocks *)
LEMMA DownBlockStep ==
    ASSUME IInv, NEW t \in Thread, DownBlock(t), SemaFrame
    PROVE  IInv'
<1> DEFINE st == [status EXCEPT ![t] = "BLOCKED"]
<1>1. /\ TypeOK /\ LocalOK(t) /\ running = t /\ pc[t] \in {"down", "woken"}
      /\ status[t] = "RUNNING" /\ value[sm[t]] = 0
  BY DEF IInv, SchedOK, DownBlock, InDown
<1>2. sm[t] \in Sema /\ t # Idle
  BY <1>1 DEF LocalOK, Stack, Sema
<1>3. /\ UNCHANGED <<priority, priority_old, preempts, halted, ret, lk, sm, loc, arg, value>>
      /\ UNCHANGED <<holder, donator, donators, blocker, cond_waiters>>
  BY DEF DownBlock, SemaFrame, prioVars, lockArgs, lockVars
<1>4. OwnOnly(t) /\ pc'[t] = "woken"
  BY <1>1, <1>3 DEF DownBlock, Goto, OwnOnly, TypeOK
<1>5. /\ st \in [Thread -> Status] /\ st[Idle] # "UNUSED" /\ st[t] = "BLOCKED"
      /\ \A u \in Thread \ {t} : st[u] = status[u]
  BY <1>2, BeforeSchedule DEF Status
<1>6. QueueOK(st, ready_list)
  <2>1. ReadyIn(st) = ReadyIn(status)
    BY <1>1, <1>5 DEF ReadyIn
  <2>2. QED
    BY <2>1, BeforeSchedule DEF QueueOK
<1>7. Schedule(st, ready_list)
  BY DEF DownBlock, thread_block
<1>9. PICK s \in Sema : s = sm[t]
  BY <1>2
<1>8. waiters' = [waiters EXCEPT ![s] = PushFront(waiters[s], t)]
  BY <1>9 DEF DownBlock
<1> HIDE DEF st
<1>10. Resched(st)
  BY <1>5, <1>6, <1>7, BeforeSchedule, Dispatch
<1>11. /\ \A u \in Thread \ {t, Idle} :
             status'[u] = status[u] \/ (status'[u] \in Live /\ status[u] \in Live)
       /\ status'[t] = "BLOCKED"
  BY <1>2, <1>5, <1>10 DEF Resched, Live
<1>12. t \notin Asleep(s)
  BY <1>1 DEF Asleep
<1>13. /\ Distinct(waiters'[s], Thread) /\ ToSet(waiters'[s]) = Asleep(s) \cup {t}
       /\ \A r \in Sema \ {s} : waiters'[r] = waiters[r]
       /\ waiters' \in [Sema -> Seq(Thread)]
  <2>1. Distinct(waiters[s], Thread) /\ ToSet(waiters[s]) = Asleep(s)
    BY <1>2 DEF IInv, SchedOK
  <2>2. /\ Distinct(PushFront(waiters[s], t), Thread)
        /\ ToSet(PushFront(waiters[s], t)) = ToSet(waiters[s]) \cup {t}
    BY <1>12, <2>1, PushElements
  <2>3. PushFront(waiters[s], t) \in Seq(Thread)
    BY <2>2 DEF Distinct
  <2>4. QED
    BY <1>1, <1>2, <1>8, <2>1, <2>2, <2>3 DEF TypeOK
<1>14. TypeOK'
  <2>1. pc' \in [Thread -> Labels]
    BY <1>1 DEF DownBlock, Goto, TypeOK, Labels
  <2>2. QED
    BY <1>1, <1>3, <1>10, <1>13, <2>1, ReschedTypes DEF TypeOK
<1>15. \A u \in Thread : LocalOK(u)'
  <2>1. LocalOK(t)'
    BY <1>1, <1>3, <1>4, ThreadAssumption
    DEF LocalOK, Stack, Params, Outside, InAcquire, InRelease, Creating
  <2>2. QED
    BY <1>3, <1>4, <2>1 DEF IInv, OwnOnly, LocalOK, Stack, Params, Creating
<1>16. \A u \in Thread : (Creating(u)' <=> Creating(u)) /\ arg'[u] = arg[u]
  BY <1>1, <1>3, <1>4 DEF OwnOnly, Creating
<1>17. \A c \in Thread : BeingCreated(c)' <=> BeingCreated(c)
  BY <1>16 DEF BeingCreated, Creating
<1>18. Idle \in Thread /\ pc[Idle] = "idle" /\ pc'[Idle] = "idle"
  BY <1>15, ThreadAssumption DEF IInv, LocalOK, Stack
<1>19. \A r \in Sema \ {s} : Asleep(r)' = Asleep(r) /\ Awakened(r)' = Awakened(r)
  BY <1>3, <1>4, <1>9, <1>11, <1>18 DEF Asleep, Awakened, OwnOnly, Live
<1>20. Asleep(s)' = Asleep(s) \cup {t}
  BY <1>3, <1>4, <1>9, <1>11, <1>18 DEF Asleep, OwnOnly, Live
<1>21. SchedOK'
  <2>1. \A u \in Thread \ {Idle} : /\ status'[u] = "BLOCKED" => pc'[u] = "woken" \/ BeingCreated(u)'
                                   /\ status'[u] = "DYING" => pc'[u] = "exited"
    BY <1>4, <1>11, <1>17 DEF IInv, SchedOK, OwnOnly, Live
  <2>2. \A r \in Sema : Distinct(waiters'[r], Thread) /\ ToSet(waiters'[r]) = Asleep(r)'
    BY <1>13, <1>19, <1>20 DEF IInv, SchedOK
  <2>3. QED
    BY <1>10, <2>1, <2>2 DEF SchedOK, Resched
<1>22. CreateOK'
  <2>1. \A u \in Thread : Creating(u) => arg[u] \in Thread \ {Idle, t}
    BY <1>1, <1>18 DEF IInv, CreateOK, LocalOK, Params
  <2>2. \A u \in Thread : Creating(u)' => status'[arg'[u]] = "BLOCKED" /\ pc'[arg'[u]] = "user"
    BY <1>4, <1>11, <1>16, <2>1 DEF IInv, CreateOK, OwnOnly, Live
  <2>3. \A u \in Thread : status'[u] = "UNUSED" => pc'[u] = "user"
    BY <1>4, <1>10, <1>11 DEF IInv, CreateOK, OwnOnly, Live, Resched
  <2>4. QED
    BY <1>16, <2>2, <2>3 DEF IInv, CreateOK
<1>23. NoLostWakeup'
  <2>1. IsFiniteSet(Awakened(s)')
    <3>1. Awakened(s)' \subseteq Thread
      BY DEF Awakened
    <3>2. QED
      BY <3>1, ThreadAssumption, FS_Subset
  <2>2. value'[s] = 0 /\ value'[s] <= Cardinality(Awakened(s)')
    BY <1>1, <1>3, <1>9, <2>1, FS_CardinalityType
  <2>3. QED
    BY <1>3, <1>13, <1>19, <2>2 DEF IInv, NoLostWakeup
<1>24. CondOK'
  <2>1. Waiting(t) => Waiting(t)'
    BY <1>1, <1>3, <1>4 DEF Waiting
  <2>2. QED
    BY <1>3, <1>4, <2>1, CondFrame
<1>25. OwnOK'
  <2>1. \A l \in Lock : ~Flying(t, l)' /\ (Wants(t, l)' <=> Wants(t, l)) /\ ~Flying(t, l)
    BY <1>1, <1>3, <1>4 DEF Flying, InFlight, Wants, Acquiring
  <2>2. \A l \in Lock : donator[l] = t => holder[l] = t \/ Wants(t, l)'
    BY <2>1 DEF IInv, OwnOK, Owns
  <2>3. pc'[t] \notin InFlight \cup {"release", "tid", "up"}
    BY <1>4 DEF InFlight
  <2>4. QED
    BY <1>3, <1>4, <2>1, <2>2, <2>3, OwnFrame
<1>26. CoopOK'
  BY <1>1, <1>3, <1>4, CoopFrame
<1>27. QED
  BY <1>14, <1>15, <1>21, <1>22, <1>23, <1>24, <1>25, <1>26 DEF IInv

(* semaphore_down() takes a unit *)
LEMMA DownTakeStep ==
    ASSUME IInv, NEW t \in Thread, DownTake(t), SemaFrame
    PROVE  IInv'
<1>1. /\ TypeOK /\ LocalOK(t) /\ OwnOK /\ running = t /\ pc[t] \in {"down", "woken"}
      /\ status[t] = "RUNNING"
  BY DEF IInv, SchedOK, DownTake, InDown
<1>2. \/ sm[t] \in Lock /\ lk[t] = sm[t] /\ ret[t] \in {"user", "tid"}
      \/ sm[t] \in ClientSema /\ lk[t] = NULL /\ ret[t] = NULL
      \/ sm[t] = t /\ lk[t] = NULL /\ ret[t] = NULL /\ arg[t] \in Lock
  BY <1>1 DEF LocalOK, Stack
<1>3. sm[t] \in Sema
  BY <1>2 DEF Sema
<1>4. PICK s \in Sema : s = sm[t]
  BY <1>3
<1>5. /\ UNCHANGED <<running, status, ready_list, priority, priority_old, preempts, halted>>
      /\ UNCHANGED <<ret, lk, loc, arg, waiters, holder, donator, donators, blocker>>
      /\ UNCHANGED cond_waiters
  BY DEF DownTake, SemaFrame, schedVars, prioVars, lockVars
<1>6. /\ value' \in [Sema -> Nat] /\ value[s] \in Nat /\ value[s] > 0 /\ value'[s] = value[s] - 1
      /\ \A r \in Sema \ {s} : value'[r] = value[r]
  BY <1>1, <1>4 DEF DownTake, TypeOK
<1>7. OwnOnly(t) /\ pc'[t] = AfterDown(t) /\ sm'[t] = NULL
  BY <1>1, <1>5 DEF DownTake, Goto, OwnOnly, TypeOK
<1>8. \/ /\ s \in Lock /\ lk[t] = s /\ ret[t] \in {"user", "tid"} /\ pc'[t] = "holder"
      \/ /\ s \in ClientSema /\ lk[t] = NULL /\ ret[t] = NULL /\ pc'[t] = "user"
      \/ /\ s = t /\ lk[t] = NULL /\ ret[t] = NULL /\ arg[t] \in Lock /\ pc'[t] = "reacquire"
  BY <1>2, <1>4, <1>7, SemaAssumption DEF AfterDown
<1>9. TypeOK'
  <2>1. pc' \in [Thread -> Labels]
    <3>1. AfterDown(t) \in Labels
      BY DEF AfterDown, Labels
    <3>2. QED
      BY <1>1, <3>1 DEF DownTake, Goto, TypeOK
  <2>2. sm' \in [Thread -> Sema \cup {NULL}]
    BY <1>1 DEF DownTake, TypeOK
  <2>3. QED
    BY <1>1, <1>5, <1>6, <2>1, <2>2 DEF TypeOK
<1>10. \A u \in Thread : LocalOK(u)'
  <2>1. LocalOK(t)'
    BY <1>1, <1>5, <1>7, <1>8, ThreadAssumption
    DEF LocalOK, Stack, Params, Outside, InAcquire, InRelease, Creating
  <2>2. QED
    BY <1>5, <1>7, <2>1 DEF IInv, OwnOnly, LocalOK, Stack, Params, Creating
<1>11. \A u \in Thread : (Creating(u)' <=> Creating(u)) /\ arg'[u] = arg[u]
  BY <1>1, <1>5, <1>7, <1>8 DEF OwnOnly, Creating
<1>12. \A c \in Thread : BeingCreated(c)' <=> BeingCreated(c)
  BY <1>11 DEF BeingCreated, Creating
<1>13. \A r \in Sema : Asleep(r)' = Asleep(r)
  BY <1>1, <1>5, <1>7, <1>8 DEF Asleep, OwnOnly
<1>14. SchedOK'
  <2>1. \A u \in Thread \ {Idle} : /\ status'[u] = "BLOCKED" => pc'[u] = "woken" \/ BeingCreated(u)'
                                   /\ status'[u] = "DYING" => pc'[u] = "exited"
    BY <1>1, <1>5, <1>7, <1>12 DEF IInv, SchedOK, OwnOnly
  <2>2. QED
    BY <1>5, <1>13, <2>1 DEF IInv, SchedOK, QueueOK, ReadyIn
<1>15. CreateOK'
  <2>1. \A u \in Thread : Creating(u) => arg[u] \in Thread \ {t}
    BY <1>1 DEF IInv, CreateOK, LocalOK, Params
  <2>2. QED
    BY <1>1, <1>5, <1>7, <1>11, <2>1 DEF IInv, CreateOK, OwnOnly
<1>16. \A r \in Sema \ {s} : Awakened(r)' = Awakened(r)
  BY <1>4, <1>5, <1>7, <1>8 DEF Awakened, OwnOnly
<1>17. NoLostWakeup'
  <2>1. waiters[s] # <<>> => value'[s] <= Cardinality(Awakened(s)')
    <3>1. HAVE waiters[s] # <<>>
    <3>2. value[s] <= Cardinality(Awakened(s))
      BY <3>1 DEF IInv, NoLostWakeup
    <3>3. IsFiniteSet(Awakened(s))
      <4>1. Awakened(s) \subseteq Thread
        BY DEF Awakened
      <4>2. QED
        BY <4>1, ThreadAssumption, FS_Subset
    <3>4. Cardinality(Awakened(s)) \in Nat
      BY <3>3, FS_CardinalityType
    <3>5. CASE pc[t] = "woken"
      <4>1. t \in Awakened(s) /\ Awakened(s)' = Awakened(s) \ {t}
        BY <1>1, <1>4, <1>5, <1>7, <1>8, <3>5 DEF Awakened, OwnOnly
      <4>2. Cardinality(Awakened(s) \ {t}) = Cardinality(Awakened(s)) - 1
        BY <3>3, <4>1, FS_RemoveElement
      <4>3. QED
        BY <1>6, <3>2, <3>4, <4>1, <4>2
    <3>6. CASE pc[t] # "woken"
      <4>1. Awakened(s)' = Awakened(s)
        BY <1>5, <1>7, <1>8, <3>6 DEF Awakened, OwnOnly
      <4>2. QED
        BY <1>6, <3>2, <3>4, <4>1
    <3>7. QED
      BY <3>5, <3>6
  <2>2. QED
    BY <1>5, <1>6, <1>16, <2>1 DEF IInv, NoLostWakeup
<1>18. CondOK'
  <2>1. \A c \in CondVar : ToSet(cond_waiters[c]) \subseteq Thread
    BY <1>1 DEF TypeOK, ToSet
  <2>2. \A c \in CondVar : t \notin ToSet(cond_waiters[c])
    BY <1>1, <1>4, <1>6, <1>8, ThreadAssumption, SemaAssumption DEF IInv, CondOK, Waiting
  <2>3. \A u \in Thread \ {t} : value'[u] = value[u] /\ (Waiting(u)' <=> Waiting(u))
    BY <1>5, <1>6, <1>7, <1>8, SemaAssumption DEF OwnOnly, Waiting, Sema
  <2>4. QED
    BY <1>5, <2>1, <2>2, <2>3 DEF IInv, CondOK
<1>19. OwnOK'
  <2>1. CASE s \in Lock
    <3>1. lk[t] = s /\ pc'[t] = "holder"
      BY <1>8, <2>1, SemaAssumption
    <3>2. value'[s] = 0 /\ \A u \in Thread : ~Owns(u, s)
      BY <1>1, <1>6, <2>1 DEF OwnOK
    <3>3. holder[s] = NULL
      BY <1>1, <2>1, <3>2 DEF Owns, TypeOK
    <3>4. /\ \A u \in Thread : Owns(u, s)' <=> u = t
          /\ \A u \in Thread, l \in Lock \ {s} : Owns(u, l)' <=> Owns(u, l)
      BY <1>1, <1>5, <1>7, <3>1, <3>2, <3>3, ThreadAssumption DEF Owns, Flying, InFlight, OwnOnly
    <3>5. \A l \in Lock \ {s} : value'[l] = value[l]
      BY <1>6 DEF Sema
    <3>6. /\ \A l \in Lock : value'[l] <= 1
          /\ \A l \in Lock, u \in Thread : Owns(u, l)' => value'[l] = 0
          /\ \A l \in Lock, u, v \in Thread : Owns(u, l)' /\ Owns(v, l)' => u = v
      BY <1>1, <3>2, <3>4, <3>5 DEF OwnOK
    <3>7. /\ \A u \in Thread : pc'[u] \in InFlight => holder'[lk'[u]] = NULL
          /\ \A u \in Thread : pc'[u] = "release" => holder'[lk'[u]] = u
          /\ \A u \in Thread : pc'[u] = "tid" => holder'[tid_lock] = u
          /\ \A u \in Thread : pc'[u] = "up" => donator'[lk'[u]] # u
      BY <1>1, <1>5, <1>7, <3>1, <3>3 DEF OwnOK, OwnOnly
    <3>8. ASSUME NEW l \in Lock, NEW u \in Thread, donator'[l] = u
          PROVE  Owns(u, l)' \/ Wants(u, l)'
      <4>1. Owns(u, l) \/ Wants(u, l)
        BY <1>1, <1>5, <3>8 DEF OwnOK
      <4>2. CASE u = t
        BY <3>1, <3>4, <4>1, <4>2 DEF Wants
      <4>3. CASE u # t
        <5>1. Wants(u, l) => Wants(u, l)'
          BY <1>7, <4>3 DEF Wants, OwnOnly
        <5>2. QED
          BY <3>2, <3>4, <4>1, <5>1
      <4>4. QED
        BY <4>2, <4>3
    <3>9. QED
      BY <3>6, <3>7, <3>8 DEF OwnOK
  <2>2. CASE s \notin Lock
    <3>1. lk[t] = NULL /\ pc'[t] \in {"user", "reacquire"}
      BY <1>8, <2>2
    <3>2. \A l \in Lock : ~Flying(t, l)' /\ (donator[l] = t => holder[l] = t)
      BY <1>1, <3>1, SemaAssumption DEF Flying, InFlight, OwnOK, Owns, Wants
    <3>3. pc'[t] \notin InFlight \cup {"release", "tid", "up"}
      BY <3>1 DEF InFlight
    <3>4. \A l \in Lock : value'[l] = value[l]
      BY <1>6, <2>2 DEF Sema
    <3>5. QED
      BY <1>5, <1>7, <3>2, <3>3, <3>4, OwnFrame
  <2>3. QED
    BY <2>1, <2>2
<1>20. CoopOK'
  BY <1>1, <1>5, <1>7, <1>8, CoopFrame
<1>21. QED
  BY <1>9, <1>10, <1>14, <1>15, <1>17, <1>18, <1>19, <1>20 DEF IInv

(* condvar_wait() called by a client: its semaphore is queued *)
LEMMA WaitCall ==
    ASSUME IInv, NEW t \in Thread, NEW c \in CondVar, Wait(t, c)
    PROVE  IInv'
<1> DEFINE l == CondLock[c]
<1>1. /\ TypeOK /\ LocalOK(t) /\ OwnOK /\ running = t /\ pc[t] = "user"
      /\ status[t] = "RUNNING" /\ holder[l] = t
  BY DEF IInv, SchedOK, Wait, At, Holds
<1>2. l \in Lock /\ lk[t] = NULL /\ ret[t] = NULL /\ sm[t] = NULL
  BY <1>1, CondAssumption DEF LocalOK, Stack, Outside
<1>3. /\ UNCHANGED <<running, status, ready_list, priority, priority_old, preempts, halted>>
      /\ UNCHANGED <<sm, loc, holder, donator, donators, blocker>>
  BY DEF Wait, schedVars, prioVars, lockVars
<1>4. /\ OwnOnly(t) /\ pc'[t] = "release" /\ lk'[t] = l /\ ret'[t] = "await"
      /\ sm'[t] = NULL /\ arg'[t] = l
  BY <1>1, <1>2, <1>3 DEF Wait, CallRelease, Goto, OwnOnly, TypeOK
<1> HIDE DEF l
<1>5. \A u \in Thread : (Creating(u)' <=> Creating(u)) /\ (Creating(u) => arg'[u] = arg[u])
  BY <1>1, <1>2, <1>4, ThreadAssumption DEF OwnOnly, Creating
<1>6. /\ value' \in [Sema -> Nat] /\ value'[t] = 0
      /\ \A r \in Sema \ {t} : value'[r] = value[r]
  BY <1>1 DEF Wait, TypeOK, Sema
<1>7. UNCHANGED waiters
  <2>1. Asleep(t) = {}
    BY <1>1, SemaAssumption DEF Asleep, IInv, LocalOK, Stack
  <2>2. t \in Sema /\ waiters[t] = <<>>
    BY <1>1, <2>1, NothingListed DEF IInv, SchedOK, TypeOK, Sema
  <2>3. QED
    BY <1>1, <2>2 DEF Wait, TypeOK
<1>8. t \notin ToSet(cond_waiters[c]) /\ \A d \in CondVar : t \notin ToSet(cond_waiters[d])
  BY <1>1, <1>2, ThreadAssumption DEF IInv, CondOK, Waiting
<1>9. /\ Distinct(cond_waiters'[c], Thread)
      /\ ToSet(cond_waiters'[c]) = ToSet(cond_waiters[c]) \cup {t}
      /\ \A d \in CondVar \ {c} : cond_waiters'[d] = cond_waiters[d]
      /\ cond_waiters' \in [CondVar -> Seq(Thread)]
  <2>1. /\ Distinct(Append(cond_waiters[c], t), Thread)
        /\ ToSet(Append(cond_waiters[c], t)) = ToSet(cond_waiters[c]) \cup {t}
    BY <1>8, PushElements DEF IInv, CondOK
  <2>2. Append(cond_waiters[c], t) \in Seq(Thread)
    BY <2>1 DEF Distinct
  <2>3. QED
    BY <1>1, <2>1, <2>2 DEF Wait, TypeOK
<1>10. TypeOK'
  <2>1. pc' \in [Thread -> Labels]
    BY <1>1 DEF Wait, CallRelease, Goto, TypeOK, Labels
  <2>2. lk' \in [Thread -> Lock \cup {NULL}]
    BY <1>1, <1>2 DEF Wait, CallRelease, TypeOK, l
  <2>3. ret' \in [Thread -> {"user", "tid", "unblock", "await", NULL}]
    BY <1>1 DEF Wait, CallRelease, TypeOK
  <2>4. arg' \in [Thread -> Thread \cup Lock \cup CondVar \cup Priorities \cup {NULL}]
    BY <1>1, <1>2 DEF Wait, TypeOK, l
  <2>5. QED
    BY <1>1, <1>3, <1>6, <1>7, <1>9, <2>1, <2>2, <2>3, <2>4 DEF TypeOK
<1>11. \A u \in Thread : LocalOK(u)'
  <2>1. LocalOK(t)'
    BY <1>1, <1>2, <1>4, ThreadAssumption
    DEF LocalOK, Stack, Params, Outside, InAcquire, InRelease, Creating
  <2>2. QED
    BY <1>3, <1>4, <2>1 DEF IInv, OwnOnly, LocalOK, Stack, Params, Creating
<1>12. \A d \in Thread : BeingCreated(d)' <=> BeingCreated(d)
  BY <1>5 DEF BeingCreated, Creating
<1>13. \A r \in Sema : Asleep(r)' = Asleep(r) /\ Awakened(r)' = Awakened(r)
  BY <1>1, <1>3, <1>4 DEF Asleep, Awakened, OwnOnly
<1>14. SchedOK'
  <2>1. \A u \in Thread \ {Idle} : /\ status'[u] = "BLOCKED" => pc'[u] = "woken" \/ BeingCreated(u)'
                                   /\ status'[u] = "DYING" => pc'[u] = "exited"
    BY <1>1, <1>3, <1>4, <1>12 DEF IInv, SchedOK, OwnOnly
  <2>2. QED
    BY <1>3, <1>7, <1>13, <2>1 DEF IInv, SchedOK, QueueOK, ReadyIn
<1>15. CreateOK'
  <2>1. \A u \in Thread : Creating(u) => arg[u] \in Thread \ {t}
    BY <1>1 DEF IInv, CreateOK, LocalOK, Params
  <2>2. QED
    BY <1>1, <1>3, <1>4, <1>5, <2>1 DEF IInv, CreateOK, OwnOnly
<1>16. NoLostWakeup'
  <2>1. waiters[t] = <<>>
    BY <1>1, <1>7 DEF Wait, TypeOK, Sema
  <2>2. QED
    BY <1>6, <1>7, <1>13, <2>1 DEF IInv, NoLostWakeup
<1>17. CondOK'
  <2>1. \A d \in CondVar : ToSet(cond_waiters[d]) \subseteq Thread
    BY <1>1 DEF TypeOK, ToSet
  <2>2. Waiting(t)' /\ \A u \in Thread \ {t} : value'[u] = value[u] /\ (Waiting(u)' <=> Waiting(u))
    BY <1>4, <1>6 DEF OwnOnly, Waiting, Sema
  <2>3. \A d \in CondVar : Distinct(cond_waiters'[d], Thread)
    BY <1>9 DEF IInv, CondOK
  <2>4. \A d \in CondVar : \A u \in ToSet(cond_waiters'[d]) : value'[u] = 0 /\ Waiting(u)'
    BY <1>6, <1>8, <1>9, <2>1, <2>2 DEF IInv, CondOK
  <2>5. \A d, e \in CondVar : d # e => ToSet(cond_waiters'[d]) \cap ToSet(cond_waiters'[e]) = {}
    <3>1. \A d \in CondVar :
             ToSet(cond_waiters'[d]) = IF d = c THEN ToSet(cond_waiters[d]) \cup {t}
                                                ELSE ToSet(cond_waiters[d])
      BY <1>9
    <3>2. \A d, e \in CondVar : d # e =>
             \A u : ~(u \in ToSet(cond_waiters[d]) /\ u \in ToSet(cond_waiters[e]))
      BY DEF IInv, CondOK
    <3>3. QED
      BY <1>8, <3>1, <3>2
  <2>6. QED
    BY <2>3, <2>4, <2>5 DEF CondOK
<1>18. OwnOK'
  <2>1. \A k \in Lock : ~Flying(t, k)' /\ (donator[k] = t => holder[k] = t)
    BY <1>1, <1>4 DEF Flying, InFlight, OwnOK, Owns, Wants, Acquiring
  <2>2. \A k \in Lock : value'[k] = value[k]
    BY <1>6, SemaAssumption DEF Sema
  <2>3. pc'[t] \notin InFlight \cup {"tid", "up"} /\ holder[lk'[t]] = t
    BY <1>1, <1>4 DEF InFlight
  <2>4. QED
    BY <1>3, <1>4, <2>1, <2>2, <2>3, OwnFrame
<1>19. CoopOK'
  BY <1>1, <1>3, <1>4, CoopFrame
<1>20. QED
  BY <1>10, <1>11, <1>14, <1>15, <1>16, <1>17, <1>18, <1>19 DEF IInv

-----------------------------------------------------------------------------
(* The invariant holds in the initial state. *)
LEMMA InitIInv == Init => IInv
<1> SUFFICES ASSUME Init PROVE IInv
  OBVIOUS
<1> USE DEF Init, ThreadInit, SemaInit, LockInit, CondInit
<1>1. Idle \in Thread /\ Main \in Thread /\ Idle # Main /\ InitReady \in Seq(Thread)
  BY ThreadAssumption
<1>2. \A t \in Thread : Contains(InitReady, t) <=> t \in ToSet(InitReady)
  BY <1>1 DEF Contains, ToSet
<1>3. TypeOK
  <2>1. status \in [Thread -> Status]
    BY DEF Status
  <2>2. priority \in [Thread -> Priorities] /\ priority_old \in [Thread -> Priorities]
    BY ThreadAssumption
  <2>3. value \in [Sema -> Nat] /\ waiters \in [Sema -> Seq(Thread)]
    BY SemaAssumption DEF Sema
  <2>4. pc \in [Thread -> Labels]
    BY DEF Labels
  <2>5. preempts \in 0 .. MaxPreempt
    BY ThreadAssumption
  <2>6. QED
    BY <1>1, <2>1, <2>2, <2>3, <2>4, <2>5 DEF TypeOK
<1>4. \A t \in Thread : LocalOK(t)
  BY ThreadAssumption
  DEF LocalOK, Stack, Params, Outside, InAcquire, InRelease, Creating
<1>5. \A t \in Thread : ~Creating(t)
  BY ThreadAssumption DEF Creating
<1>6. SchedOK
  <2>1. ToSet(InitReady) \subseteq Thread \ {Idle, Main}
    BY ThreadAssumption DEF ToSet
  <2>2. QueueOK(status, ready_list)
    <3>1. Distinct(InitReady, Thread)
      BY <1>1, ThreadAssumption DEF Distinct
    <3>2. ReadyIn(status) = ToSet(InitReady)
      BY <1>2, <2>1 DEF ReadyIn
    <3>3. QED
      BY <3>1, <3>2 DEF QueueOK
  <2>3. \A s \in Sema : Asleep(s) = {} /\ Distinct(waiters[s], Thread) /\ ToSet(waiters[s]) = {}
    BY EmptyList DEF Asleep
  <2>4. QED
    BY <1>1, <2>2, <2>3 DEF SchedOK
<1>7. CreateOK
  BY <1>1, <1>5 DEF CreateOK
<1>8. OwnOK
  <2>1. \A t \in Thread, l \in Lock : ~Owns(t, l) /\ ~Wants(t, l) /\ donator[l] # t
    BY ThreadAssumption, SemaAssumption DEF Owns, Flying, Wants, InFlight, Acquiring
  <2>2. \A l \in Lock : value[l] = 1
    BY SemaAssumption DEF Sema
  <2>3. \A t \in Thread : pc[t] \notin InFlight \cup {"release", "tid", "up"}
    BY DEF InFlight
  <2> HIDE DEF Init, ThreadInit, SemaInit, LockInit, CondInit
  <2>4. QED
    BY <2>1, <2>2, <2>3 DEF OwnOK
<1>9. CondOK
  BY EmptyList DEF CondOK
<1>10. NoLostWakeup /\ CoopOK
  BY DEF NoLostWakeup, CoopOK
<1>11. QED
  BY <1>3, <1>4, <1>6, <1>7, <1>8, <1>9, <1>10 DEF IInv

(* A step that changes nothing. *)
LEMMA StutterIInv ==
    ASSUME IInv, UNCHANGED vars
    PROVE  IInv'
<1>1. /\ UNCHANGED <<running, status, ready_list, priority, priority_old, preempts, pc>>
      /\ UNCHANGED <<ret, lk, sm, loc, arg, value, waiters, holder, donator, donators>>
      /\ UNCHANGED <<blocker, cond_waiters, halted>>
  BY DEF vars, threadVars, semaVars, lockVars
<1>2. TypeOK'
  BY <1>1 DEF IInv, TypeOK
<1>3. \A t \in Thread : LocalOK(t)'
  BY <1>1 DEF IInv, LocalOK, Stack, Params, Creating
<1>4. SchedOK' /\ CreateOK'
  BY <1>1 DEF IInv, SchedOK, CreateOK, QueueOK, ReadyIn, Asleep, BeingCreated, Creating
<1>5. OwnOK' /\ CondOK'
  BY <1>1 DEF IInv, OwnOK, CondOK, Owns, Flying, Wants, Waiting
<1>6. NoLostWakeup' /\ CoopOK'
  BY <1>1 DEF IInv, NoLostWakeup, Awakened, CoopOK
<1>7. QED
  BY <1>2, <1>3, <1>4, <1>5, <1>6 DEF IInv

(* Every step preserves the invariant. *)
LEMMA NextIInv == IInv /\ [Next]_vars => IInv'
<1> SUFFICES ASSUME IInv, [Next]_vars PROVE IInv'
  OBVIOUS
<1>1. ASSUME NEW t \in Thread, ThreadStep(t) PROVE IInv'
  <2>1. NewPriorities \subseteq Priorities /\ CreatePriorities \subseteq Priorities
    BY KernelAssumption
  <2>2. QED
    BY <1>1, <2>1, YieldCall, ExitCall, SetPriorityCall, SetBothStep, SetOldStep, SetYieldStep,
       CreateCall, AllocateTidStep, CreateUnblockStep, CreateYieldStep, TickStep
    DEF ThreadStep
<1>2. ASSUME NEW t \in Thread, SemaStep(t) PROVE IInv'
  <2>1. IntrSema \subseteq ClientSema
    BY KernelAssumption
  <2>2. QED
    BY <1>2, <2>1, DownCall, UpCall, InterruptUpStep, DownBlockStep, DownTakeStep DEF SemaStep
<1>3. ASSUME NEW t \in Thread, AcquireStep(t) PROVE IInv'
  <2>1. ClientLock \subseteq Lock
    BY DEF ClientLock
  <2>2. QED
    BY <1>3, <2>1, AcquireCall, TestHolderStep, PushLockStep, SetDonatorStep, CompareStep,
       SetBlockerStep, DonateStep, DonateChainStep, SetHolderStep DEF AcquireStep
<1>4. ASSUME NEW t \in Thread, ReleaseStep(t) PROVE IInv'
  <2>1. ClientLock \subseteq Lock
    BY DEF ClientLock
  <2>2. QED
    BY <1>4, <2>1, ReleaseCall, ClearHolderStep, RevokeStep, RestoreStep, AssignPriorityStep,
       ResetDonatorStep, ReleaseUpStep DEF ReleaseStep
<1>5. ASSUME NEW t \in Thread, CondStep(t) PROVE IInv'
  BY <1>5, WaitCall, SignalCall, BroadcastCall, AwaitStep, ReacquireStep, BroadcastTurn
  DEF CondStep
<1>6. CASE IdleStep /\ ThreadFrame
  BY <1>6, IdleTurn
<1>7. CASE Stuck \/ UNCHANGED vars
  BY <1>7, StutterIInv DEF Stuck
<1>8. QED
  BY <1>1, <1>2, <1>3, <1>4, <1>5, <1>6, <1>7 DEF Next

(* The inductive invariant. *)
LEMMA SpecIInv == Spec => []IInv
  BY InitIInv, NextIInv, PTL DEF Spec

-----------------------------------------------------------------------------
(***************************************************************************)
(* Type correctness of the thread system.                                  *)
(***************************************************************************)
THEOREM KernelTypes == Spec => []TypeOK
<1>1. IInv => TypeOK
  BY DEF IInv
<1>2. QED
  BY <1>1, SpecIInv, PTL

(***************************************************************************)
(* lock_acquire() hands a lock to one thread at a time, for any number of  *)
(* threads and locks and however they are preempted.                       *)
(***************************************************************************)
THEOREM KernelLockExclusion == Spec => []LockExclusion
<1>1. IInv => LockExclusion
  <2> SUFFICES ASSUME IInv PROVE LockExclusion
    OBVIOUS
  <2>1. \A l \in Lock : \A t \in Owners(l) : t \in Thread /\ Owns(t, l)
    BY DEF Owners, Owns, Flying
  <2>2. QED
    BY <2>1 DEF IInv, OwnOK, LockExclusion
<1>2. QED
  BY <1>1, SpecIInv, PTL

(***************************************************************************)
(* lock->donator names a thread that waits for the lock or owns it.        *)
(***************************************************************************)
THEOREM KernelDonatorAlive == Spec => []DonatorAlive
<1>1. IInv => DonatorAlive
  <2> SUFFICES ASSUME IInv, NEW l \in Lock, donator[l] # NULL
               PROVE  \/ donator[l] \in Owners(l)
                      \/ lk[donator[l]] = l /\ pc[donator[l]] \in Acquiring \cup {"fault"}
    BY DEF DonatorAlive
  <2>1. donator[l] \in Thread
    BY DEF IInv, TypeOK
  <2>2. Owns(donator[l], l) \/ Wants(donator[l], l)
    BY <2>1 DEF IInv, OwnOK
  <2>3. QED
    BY <2>1, <2>2 DEF Owns, Flying, Wants, Owners
<1>2. QED
  BY <1>1, SpecIInv, PTL

(***************************************************************************)
(* No unit of a semaphore is left before threads that sleep on it.         *)
(***************************************************************************)
THEOREM KernelNoLostWakeup == Spec => []NoLostWakeup
<1>1. IInv => NoLostWakeup
  BY DEF IInv
<1>2. QED
  BY <1>1, SpecIInv, PTL

(* Where a thread is listed: on the run queue, or on the waiters of a semaphore. *)
LEMMA ListedAt ==
    ASSUME IInv, NEW t \in Thread \ {Idle}
    PROVE  /\ status[t] = "READY" =>
                /\ \E i \in DOMAIN ready_list : ready_list[i] = t
                /\ \E x : Places(t) = {x}
           /\ status[t] # "READY" => ~\E i \in DOMAIN ready_list : ready_list[i] = t
           /\ status[t] = "BLOCKED" /\ ~BeingCreated(t) => \E x : Places(t) = {x}
           /\ ~(status[t] = "READY" \/ (status[t] = "BLOCKED" /\ ~BeingCreated(t))) =>
                Places(t) = {}
<1> DEFINE R == {j \in DOMAIN ready_list : ready_list[j] = t}
           Q(s) == {j \in DOMAIN waiters[s] : waiters[s][j] = t}
<1>1. /\ (R # {} <=> status[t] = "READY")
      /\ \A i, j \in R : i = j
  <2>1. t \in ToSet(ready_list) <=> status[t] = "READY"
    BY DEF IInv, SchedOK, QueueOK, ReadyIn
  <2>2. t \in ToSet(ready_list) <=> R # {}
    BY DEF ToSet
  <2>3. \A i, j \in DOMAIN ready_list : ready_list[i] = ready_list[j] => i = j
    BY DEF IInv, SchedOK, QueueOK, Distinct
  <2>4. QED
    BY <2>1, <2>2, <2>3
<1>2. \A s \in Sema : /\ (Q(s) # {} <=> t \in Asleep(s))
                      /\ \A i, j \in Q(s) : i = j
  <2> SUFFICES ASSUME NEW s \in Sema
               PROVE  /\ (Q(s) # {} <=> t \in Asleep(s))
                      /\ \A i, j \in Q(s) : i = j
    OBVIOUS
  <2>1. t \in ToSet(waiters[s]) <=> t \in Asleep(s)
    BY DEF IInv, SchedOK
  <2>2. t \in ToSet(waiters[s]) <=> Q(s) # {}
    BY DEF ToSet
  <2>3. \A i, j \in DOMAIN waiters[s] : waiters[s][i] = waiters[s][j] => i = j
    BY DEF IInv, SchedOK, Distinct
  <2>4. QED
    BY <2>1, <2>2, <2>3
<1>3. Places(t) = {<<"ready", i>> : i \in R} \cup UNION {{<<s, i>> : i \in Q(s)} : s \in Sema}
  BY DEF Places
<1> HIDE DEF R, Q
<1>4. CASE status[t] = "READY"
  <2>1. PICK i : R = {i}
    BY <1>1, <1>4
  <2>2. \A s \in Sema : Q(s) = {}
    BY <1>2, <1>4 DEF Asleep
  <2>3. Places(t) = {<<"ready", i>>}
    BY <1>3, <2>1, <2>2
  <2>4. QED
    BY <1>4, <2>1, <2>3 DEF R
<1>5. CASE status[t] # "READY"
  <2>1. R = {}
    BY <1>1, <1>5
  <2>2. ~\E i \in DOMAIN ready_list : ready_list[i] = t
    BY <2>1 DEF R
  <2>3. CASE status[t] = "BLOCKED" /\ ~BeingCreated(t)
    <3>1. pc[t] = "woken" /\ sm[t] \in Sema /\ t \in Asleep(sm[t])
      BY <2>3 DEF IInv, SchedOK, LocalOK, Stack, Sema, Asleep
    <3>2. PICK r \in Sema : r = sm[t]
      BY <3>1
    <3>3. PICK i : Q(r) = {i}
      <4>1. t \in Asleep(r)
        BY <3>1, <3>2
      <4>2. Q(r) # {} /\ \A i, j \in Q(r) : i = j
        BY <1>2, <4>1
      <4>3. PICK i \in Q(r) : TRUE
        BY <4>2
      <4>4. Q(r) = {i}
        BY <4>2, <4>3
      <4>5. QED
        BY <4>4
    <3>4. \A s \in Sema \ {r} : Q(s) = {}
      BY <1>2, <3>2 DEF Asleep
    <3>5. Places(t) = {<<r, i>>}
      BY <1>3, <2>1, <3>3, <3>4
    <3>6. QED
      BY <1>5, <2>2, <2>3, <3>5
  <2>4. CASE ~(status[t] = "BLOCKED" /\ ~BeingCreated(t))
    <3>1. BeingCreated(t) => pc[t] = "user"
      BY DEF IInv, CreateOK, BeingCreated, Creating
    <3>2. \A s \in Sema : Q(s) = {}
      BY <1>2, <2>4, <3>1 DEF Asleep
    <3>3. Places(t) = {}
      BY <1>3, <2>1, <3>2
    <3>4. QED
      BY <1>5, <2>2, <2>4, <3>3
  <2>5. QED
    BY <2>3, <2>4
<1>6. QED
  BY <1>4, <1>5

(***************************************************************************)
(* No thread that sleeps in a semaphore, a lock or a condition variable is *)
(* forgotten, although one list_elem serves all the lists.                 *)
(***************************************************************************)
THEOREM KernelWaitersKept == Spec => []WaitersKept
<1>1. IInv => OneList
  <2> SUFFICES ASSUME IInv, NEW t \in Thread \ {Idle}
               PROVE  LET waiting == status[t] = "BLOCKED" /\ ~BeingCreated(t)
                      IN  /\ Cardinality(Places(t)) = IF status[t] = "READY" \/ waiting
                                                      THEN 1 ELSE 0
                          /\ (\E i \in DOMAIN ready_list : ready_list[i] = t)
                               <=> status[t] = "READY"
    BY DEF OneList
  <2>1. \A x : Cardinality({x}) = 1
    BY FS_Singleton
  <2>2. Cardinality({}) = 0
    BY FS_EmptySet
  <2>3. QED
    BY <2>1, <2>2, ListedAt
<1>2. IInv => WaiterLive
  <2> SUFFICES ASSUME IInv, NEW c \in CondVar, NEW i \in DOMAIN cond_waiters[c]
               PROVE  LET t == cond_waiters[c][i]
                      IN  /\ status[t] # "DYING"
                          /\ value[t] = 0
                          /\ ret[t] = "await" \/ pc[t] = "await" \/ sm[t] = t
                          /\ \A j \in DOMAIN cond_waiters[c] :
                                cond_waiters[c][j] = t => i = j
    BY DEF WaiterLive
  <2>1. PICK t : t = cond_waiters[c][i]
    OBVIOUS
  <2>2. t \in ToSet(cond_waiters[c]) /\ t \in Thread
    BY <2>1 DEF ToSet, IInv, TypeOK
  <2>3. value[t] = 0 /\ Waiting(t)
    BY <2>2 DEF IInv, CondOK
  <2>4. pc[t] \notin {"exited", "idle"}
    BY <2>2, <2>3, ThreadAssumption DEF IInv, LocalOK, Stack, Outside, Waiting
  <2>5. status[t] # "DYING"
    BY <2>2, <2>4 DEF IInv, SchedOK, LocalOK, Stack
  <2>6. \A j \in DOMAIN cond_waiters[c] : cond_waiters[c][j] = cond_waiters[c][i] => i = j
    BY DEF IInv, CondOK, Distinct
  <2>7. QED
    BY <2>1, <2>3, <2>5, <2>6 DEF Waiting
<1>3. IInv => WaitersKept
  BY <1>1, <1>2 DEF IInv, WaitersKept
<1>4. QED
  BY <1>3, SpecIInv, PTL

-----------------------------------------------------------------------------
(* A step after which the thread that runs has overtaken no other. *)
InTurn ==
    \A i, j \in DOMAIN ready_list :
        i < j /\ priority[ready_list[i]] = priority[ready_list[j]] =>
            running' # ready_list[i]

(* The thread on the processor is not on the run queue. *)
LEMMA GoesOnInTurn ==
    ASSUME IInv, running' = running
    PROVE  InTurn
<1>1. running \notin ToSet(ready_list)
  BY DEF IInv, SchedOK, QueueOK, ReadyIn
<1>2. QED
  BY <1>1 DEF InTurn, ToSet

(* schedule() on a run queue that is ready_list after k others, or more *)
LEMMA DispatchInTurn ==
    ASSUME IInv, NEW st, NEW rl, Distinct(rl, Thread), Schedule(st, rl), NEW k \in Nat,
           \A i \in DOMAIN ready_list : i + k \in DOMAIN rl /\ rl[i + k] = ready_list[i]
    PROVE  InTurn
<1>1. priority \in [Thread -> Int]
  <2>1. Priorities \subseteq Int
    BY ThreadAssumption
  <2>2. QED
    BY <2>1 DEF IInv, TypeOK
<1>2. rl \in Seq(Thread) /\ DOMAIN rl = 1 .. Len(rl) /\ DOMAIN ready_list \subseteq Nat
  <2>1. rl \in Seq(Thread) /\ ready_list \in Seq(Thread)
    BY DEF Distinct, IInv, TypeOK
  <2>2. QED
    BY <2>1
<1>3. CASE rl = <<>>
  <2>1. running' = Idle
    BY <1>3 DEF Schedule
  <2>2. Idle \notin ToSet(ready_list)
    BY DEF IInv, SchedOK, QueueOK, ReadyIn
  <2>3. QED
    BY <2>1, <2>2 DEF InTurn, ToSet
<1>4. CASE rl # <<>>
  <2>1. PICK m \in 1 .. Len(rl) : /\ Last(list_sort(rl, priority)) = rl[m]
                                  /\ \A j \in 1 .. Len(rl) : Precedes(rl, priority, j, m)
    BY <1>1, <1>2, <1>4, SortLast
  <2>2. running' = rl[m]
    BY <1>4, <2>1 DEF Schedule
  <2> SUFFICES ASSUME NEW i \in DOMAIN ready_list, NEW j \in DOMAIN ready_list, i < j,
                      priority[ready_list[i]] = priority[ready_list[j]],
                      running' = ready_list[i]
               PROVE  FALSE
    BY DEF InTurn
  <2>3. /\ i + k \in 1 .. Len(rl) /\ rl[i + k] = ready_list[i]
        /\ j + k \in 1 .. Len(rl) /\ rl[j + k] = ready_list[j]
    BY <1>2
  <2>4. m = i + k
    BY <2>2, <2>3 DEF Distinct
  <2>5. Precedes(rl, priority, j + k, i + k)
    BY <2>1, <2>3, <2>4
  <2>6. rl[i + k] \in Thread /\ rl[j + k] \in Thread
    BY <1>2, <2>3
  <2>7. j + k <= i + k
    BY <1>1, <2>3, <2>5, <2>6 DEF Precedes
  <2>8. QED
    BY <1>2, <2>7
<1>5. QED
  BY <1>3, <1>4

(* thread_yield() puts the caller at the far end of the run queue. *)
LEMMA YieldInTurn ==
    ASSUME IInv, NEW t \in Thread, NEW st, NEW rl, Distinct(rl, Thread),
           t = Idle \/ t \notin ToSet(rl), thread_yield(t, st, rl),
           \A i \in DOMAIN ready_list : i \in DOMAIN rl /\ rl[i] = ready_list[i]
    PROVE  InTurn
<1>1. DOMAIN ready_list \subseteq Nat
  <2>1. ready_list \in Seq(Thread)
    BY DEF IInv, TypeOK
  <2>2. QED
    BY <2>1
<1>2. CASE t = Idle
  <2>1. Schedule([st EXCEPT ![t] = "READY"], rl)
    BY <1>2 DEF thread_yield
  <2>2. \A i \in DOMAIN ready_list : i + 0 \in DOMAIN rl /\ rl[i + 0] = ready_list[i]
    BY <1>1
  <2>3. QED
    BY <2>1, <2>2, DispatchInTurn
<1>3. CASE t # Idle
  <2>1. Schedule([st EXCEPT ![t] = "READY"], PushFront(rl, t))
    BY <1>3 DEF thread_yield
  <2>2. Distinct(PushFront(rl, t), Thread)
    BY <1>3, PushElements
  <2>3. \A i \in DOMAIN ready_list :
           i + 1 \in DOMAIN PushFront(rl, t) /\ PushFront(rl, t)[i + 1] = ready_list[i]
    <3>1. rl \in Seq(Thread)
      BY DEF Distinct
    <3>2. \A i \in 1 .. Len(rl) : /\ i + 1 \in DOMAIN PushFront(rl, t)
                                  /\ PushFront(rl, t)[i + 1] = rl[i]
      BY <3>1 DEF PushFront
    <3>3. QED
      BY <3>1, <3>2
  <2>4. QED
    BY <2>1, <2>2, <2>3, DispatchInTurn
<1>4. QED
  BY <1>2, <1>3

(* The caller yields with the run queue as it is. *)
LEMMA TurnsInTurn ==
    ASSUME IInv, NEW t \in Thread, running = t, thread_yield(t, status, ready_list)
    PROVE  InTurn
<1>1. Distinct(ready_list, Thread) /\ t \notin ToSet(ready_list)
  BY DEF IInv, SchedOK, QueueOK, ReadyIn
<1>2. QED
  BY <1>1, YieldInTurn

(* The caller blocks or dies. *)
LEMMA LeavesInTurn ==
    ASSUME IInv, NEW st, Schedule(st, ready_list)
    PROVE  InTurn
<1>1. Distinct(ready_list, Thread)
  BY DEF IInv, SchedOK, QueueOK
<1>2. DOMAIN ready_list \subseteq Nat
  <2>1. ready_list \in Seq(Thread)
    BY DEF IInv, TypeOK
  <2>2. QED
    BY <2>1
<1>3. \A i \in DOMAIN ready_list : /\ i + 0 \in DOMAIN ready_list
                                   /\ ready_list[i + 0] = ready_list[i]
  BY <1>2
<1>4. QED
  BY <1>1, <1>3, DispatchInTurn

(* semaphore_up() queues the thread it wakes behind the others. *)
LEMMA UpInTurn ==
    ASSUME IInv, NEW t \in Thread, running = t, NEW s \in Sema, semaphore_up(t, s)
    PROVE  InTurn
<1>1. CASE waiters[s] = <<>>
  BY <1>1, GoesOnInTurn DEF semaphore_up, schedVars
<1>2. CASE waiters[s] # <<>>
  <2> DEFINE w == WokenBy(s)
  <2>1. priority \in [Thread -> Int]
    <3>1. Priorities \subseteq Int
      BY ThreadAssumption
    <3>2. QED
      BY <3>1 DEF IInv, TypeOK
  <2>2. Distinct(waiters[s], Thread) /\ ToSet(waiters[s]) = Asleep(s)
    BY DEF IInv, SchedOK
  <2>3. w \in Asleep(s)
    BY <1>2, <2>1, <2>2, SortPop DEF WokenBy
  <2>4. \/ thread_yield(t, StatusWith(w), QueueWith(w))
        \/ running' = t
    BY <1>2 DEF semaphore_up
  <2> HIDE DEF w
  <2>5. w \in Thread /\ w # t /\ w \notin ToSet(ready_list)
    BY <2>3 DEF Asleep, IInv, SchedOK, QueueOK, ReadyIn
  <2>6. Distinct(ready_list, Thread) /\ t \notin ToSet(ready_list)
    BY DEF IInv, SchedOK, QueueOK, ReadyIn
  <2>7. Distinct(QueueWith(w), Thread) /\ t \notin ToSet(QueueWith(w))
    BY <2>5, <2>6, PushElements DEF QueueWith
  <2>8. \A i \in DOMAIN ready_list :
           i \in DOMAIN QueueWith(w) /\ QueueWith(w)[i] = ready_list[i]
    <3>1. ready_list \in Seq(Thread)
      BY DEF IInv, TypeOK
    <3>2. QED
      BY <2>5, <3>1 DEF QueueWith
  <2>9. QED
    BY <2>4, <2>7, <2>8, YieldInTurn, GoesOnInTurn
<1>3. QED
  BY <1>1, <1>2

(* condvar_signal() raises the semaphore of one waiter. *)
LEMMA SignalInTurn ==
    ASSUME IInv, NEW t \in Thread, running = t, NEW c \in CondVar, cond_waiters[c] # <<>>,
           condvar_signal(t, c)
    PROVE  InTurn
<1>1. priority \in [Thread -> Int]
  <2>1. Priorities \subseteq Int
    BY ThreadAssumption
  <2>2. QED
    BY <2>1 DEF IInv, TypeOK
<1>2. Last(list_sort(cond_waiters[c], priority)) \in Sema
  <2>1. Distinct(cond_waiters[c], Thread)
    BY DEF IInv, CondOK
  <2>2. QED
    BY <1>1, <2>1, SortPop DEF Sema
<1>3. \/ running' = running
      \/ semaphore_up(t, Last(list_sort(cond_waiters[c], priority)))
  BY DEF condvar_signal, schedVars
<1>4. QED
  BY <1>2, <1>3, UpInTurn, GoesOnInTurn

(***************************************************************************)
(* Threads of one priority take turns: a thread is never dispatched past   *)
(* one of its priority that is queued behind it in the run queue.          *)
(***************************************************************************)
THEOREM KernelNoOvertaking == Spec => NoOvertaking
<1>1. ASSUME IInv, NEW t \in Thread, ThreadStep(t) PROVE InTurn
  <2>1. running = t
    BY <1>1 DEF ThreadStep, Yield, Exit, SetPriority, SetBoth, SetOld, SetYield, Create,
       AllocateTid, CreateUnblock, CreateYield, Tick, At
  <2>2. \/ running' = running
        \/ thread_yield(t, status, ready_list)
        \/ Schedule([status EXCEPT ![t] = "DYING"], ready_list)
    BY <1>1 DEF ThreadStep, Yield, Exit, SetPriority, SetBoth, SetOld, SetYield, Create,
       AllocateTid, CreateUnblock, CreateYield, Tick, schedVars
  <2>3. QED
    BY <1>1, <2>1, <2>2, GoesOnInTurn, TurnsInTurn, LeavesInTurn
<1>2. ASSUME IInv, NEW t \in Thread, SemaStep(t) PROVE InTurn
  <2>1. running = t
    BY <1>2 DEF SemaStep, Down, Up, InterruptUp, DownBlock, DownTake, InDown, At
  <2>2. IntrSema \subseteq Sema /\ ClientSema \subseteq Sema
    BY KernelAssumption DEF Sema
  <2>3. \/ running' = running
        \/ \E s \in Sema : semaphore_up(t, s)
        \/ Schedule([status EXCEPT ![t] = "BLOCKED"], ready_list)
    BY <1>2, <2>2 DEF SemaStep, Down, Up, InterruptUp, DownBlock, DownTake, thread_block, schedVars
  <2>4. QED
    BY <1>2, <2>1, <2>3, GoesOnInTurn, UpInTurn, LeavesInTurn
<1>3. ASSUME IInv, NEW t \in Thread, AcquireStep(t) PROVE InTurn
  <2>1. running' = running
    BY <1>3 DEF AcquireStep, Acquire, TestHolder, PushLock, SetDonator, Compare, SetBlocker,
       Donate, DonateChain, SetHolder, Elsewhere, schedVars
  <2>2. QED
    BY <1>3, <2>1, GoesOnInTurn
<1>4. ASSUME IInv, NEW t \in Thread, ReleaseStep(t) PROVE InTurn
  <2>1. \/ running' = running
        \/ ReleaseUp(t)
    BY <1>4 DEF ReleaseStep, Release, ClearHolder, Revoke, Restore, AssignPriority,
       ResetDonator, Elsewhere, schedVars
  <2>2. ASSUME ReleaseUp(t) PROVE running = t /\ lk[t] \in Sema /\ semaphore_up(t, lk[t])
    BY <1>4, <2>2 DEF ReleaseUp, At, Sema, IInv, LocalOK, Stack, InRelease
  <2>3. QED
    BY <1>4, <2>1, <2>2, GoesOnInTurn, UpInTurn
<1>5. ASSUME IInv, NEW t \in Thread, CondStep(t) PROVE InTurn
  <2>1. \/ running' = running
        \/ running = t /\ \E c \in CondVar : cond_waiters[c] # <<>> /\ condvar_signal(t, c)
        \/ /\ running = t /\ pc[t] = "broadcast"
           /\ cond_waiters[arg[t]] # <<>> /\ condvar_signal(t, arg[t])
    BY <1>5 DEF CondStep, Wait, Signal, Broadcast, Await, Reacquire, BroadcastStep, At, schedVars
  <2>2. pc[t] = "broadcast" => arg[t] \in CondVar
    BY <1>5 DEF IInv, LocalOK, Params
  <2>3. QED
    BY <1>5, <2>1, <2>2, GoesOnInTurn, SignalInTurn
<1>6. ASSUME IInv, IdleStep PROVE InTurn
  BY <1>6, LeavesInTurn DEF IdleStep, thread_block
<1>7. ASSUME IInv, Stuck \/ UNCHANGED vars PROVE InTurn
  BY <1>7, GoesOnInTurn DEF Stuck, vars, threadVars
<1>8. IInv /\ [Next]_vars => InTurn
  BY <1>1, <1>2, <1>3, <1>4, <1>5, <1>6, <1>7 DEF Next
<1>9. IInv /\ [Next]_vars =>
         [\A i, j \in DOMAIN ready_list :
             i < j /\ priority[ready_list[i]] = priority[ready_list[j]] =>
                running' # ready_list[i]]_vars
  BY <1>8 DEF InTurn
<1>10. QED
  BY <1>9, SpecIInv, PTL DEF Spec, NoOvertaking

-----------------------------------------------------------------------------
(* A step that takes thread u below its own priority only by changing that. *)
StaysAbove(u) ==
    priority[u] >= priority_old[u] /\ priority_old'[u] = priority_old[u] =>
        priority'[u] >= priority_old[u]

(* The steps that change a priority; in all others it stays. *)
Reprioritizes(t) ==
    \/ SetBoth(t)
    \/ \E c \in Thread, p \in CreatePriorities : Create(t, c, p, tid_lock)
    \/ Donate(t)
    \/ AssignPriority(t)

(***************************************************************************)
(* Donation only raises: without preemption nothing but                    *)
(* thread_set_priority() takes a thread below its own priority.            *)
(***************************************************************************)
THEOREM KernelNeverBelowBase == Spec => NeverBelowBase
<1>1. ASSUME IInv, [Next]_vars, preempts' = 0, NEW u \in Thread PROVE StaysAbove(u)
  <2>1. TypeOK
    BY <1>1 DEF IInv
  <2>2. Priorities \subseteq Int /\ NewPriorities \subseteq Priorities
        /\ CreatePriorities \subseteq Priorities
    BY ThreadAssumption, KernelAssumption
  <2>3. priority \in [Thread -> Int] /\ priority_old \in [Thread -> Int]
    BY <2>1, <2>2 DEF TypeOK
  <2>4. UNCHANGED priority \/ \E t \in Thread : Reprioritizes(t)
    <3>1. ASSUME NEW t \in Thread, ThreadStep(t) PROVE UNCHANGED priority \/ Reprioritizes(t)
      BY <3>1 DEF Reprioritizes, ThreadStep, Yield, Exit, SetPriority, SetOld, SetYield,
         AllocateTid, CreateUnblock, CreateYield, Tick, prioVars
    <3>2. ASSUME NEW t \in Thread, SemaStep(t) PROVE UNCHANGED priority
      BY <3>2 DEF SemaStep, Down, Up, InterruptUp, DownBlock, DownTake, prioVars
    <3>3. ASSUME NEW t \in Thread, AcquireStep(t) PROVE UNCHANGED priority \/ Reprioritizes(t)
      BY <3>3 DEF Reprioritizes, AcquireStep, Acquire, TestHolder, PushLock, SetDonator,
         Compare, SetBlocker, DonateChain, SetHolder, prioVars
    <3>4. ASSUME NEW t \in Thread, ReleaseStep(t) PROVE UNCHANGED priority \/ Reprioritizes(t)
      BY <3>4 DEF Reprioritizes, ReleaseStep, Release, ClearHolder, Revoke, Restore,
         ResetDonator, ReleaseUp, prioVars
    <3>5. ASSUME NEW t \in Thread, CondStep(t) PROVE UNCHANGED priority
      BY <3>5 DEF CondStep, Wait, Signal, Broadcast, Await, Reacquire, BroadcastStep, prioVars
    <3>6. ASSUME IdleStep \/ Stuck \/ UNCHANGED vars PROVE UNCHANGED priority
      BY <3>6 DEF IdleStep, Stuck, vars, threadVars, prioVars
    <3>7. QED
      BY <1>1, <3>1, <3>2, <3>3, <3>4, <3>5, <3>6 DEF Next
  <2>5. ASSUME NEW t \in Thread, SetBoth(t) PROVE StaysAbove(u)
    <3>1. arg[t] \in Int
      BY <1>1, <2>2, <2>5 DEF SetBoth, At, IInv, LocalOK, Params
    <3>2. QED
      BY <2>3, <2>5, <3>1 DEF SetBoth, StaysAbove
  <2>6. ASSUME NEW t \in Thread, NEW c \in Thread, NEW p \in CreatePriorities,
               Create(t, c, p, tid_lock)
        PROVE  StaysAbove(u)
    BY <2>2, <2>3, <2>6 DEF Create, StaysAbove
  <2>7. ASSUME NEW t \in Thread, Donate(t) PROVE StaysAbove(u)
    <3>1. preempts = 0 /\ pc[t] = "donate"
      BY <1>1, <2>7 DEF Donate, At, Elsewhere
    <3>2. holder[loc[t]] \in Thread /\ priority[t] > priority[holder[loc[t]]]
      BY <1>1, <3>1 DEF IInv, CoopOK
    <3>3. holder[loc[t]] # NULL
      BY <3>2, ThreadAssumption
    <3>4. priority' = [priority EXCEPT ![holder[loc[t]]] = priority[t]]
      BY <2>7, <3>3 DEF Donate
    <3>5. QED
      BY <2>3, <3>2, <3>4 DEF StaysAbove
  <2>8. ASSUME NEW t \in Thread, AssignPriority(t) PROVE StaysAbove(u)
    <3>1. loc[t] \in Int /\ loc[t] >= priority_old[t]
      BY <1>1, <2>2, <2>8 DEF AssignPriority, At, IInv, LocalOK, Params
    <3>2. QED
      BY <2>3, <2>8, <3>1 DEF AssignPriority, StaysAbove
  <2>9. QED
    BY <2>4, <2>5, <2>6, <2>7, <2>8 DEF Reprioritizes, StaysAbove
<1>2. IInv /\ [Next]_vars =>
         [preempts' = 0 =>
            \A t \in Thread :
               priority[t] >= priority_old[t] /\ UNCHANGED priority_old[t] =>
                  priority'[t] >= priority_old[t]]_vars
  BY <1>1 DEF StaysAbove
<1>3. QED
  BY <1>2, SpecIInv, PTL DEF Spec, NeverBelowBase

-----------------------------------------------------------------------------
(***************************************************************************)
(* The donators lists while no time slice has run out.  A thread is never  *)
(* interrupted between list_contains() and lock->donator = ..., nor        *)
(* between lock->holder = NULL and list_remove(), so whenever another      *)
(* thread looks, a lock is on the list of its holder exactly when it has a *)
(* donator.                                                                *)
(***************************************************************************)
Relinking == {"push", "donator", "revoke"}

Linked(l) == \E u \in Thread : l \in donators[u]

LinkOK ==
    preempts = 0 =>
        /\ halted # "corrupt"
        /\ \A t \in Thread : pc[t] \in Relinking => running = t
        /\ \A u \in Thread : \A l \in donators[u] :
              holder[l] = u \/ (lk[u] = l /\ pc[u] = "revoke")
        /\ \A l \in Lock : Linked(l) => \/ donator[l] # NULL
                                        \/ \E t \in Thread : lk[t] = l /\ pc[t] = "donator"
        /\ \A l \in Lock : donator[l] # NULL => Linked(l)
        /\ \A t \in Thread : pc[t] = "donator" => Linked(lk[t])
        /\ \A t \in Thread : pc[t] = "push" => ~Linked(lk[t]) /\ holder[lk[t]] # NULL

(* The thread on the processor is not at work on a donators list. *)
LEMMA LinkFrame ==
    ASSUME IInv, LinkOK, NEW t \in Thread, running = t, OwnOnly(t),
           pc[t] \notin Relinking, pc'[t] \notin Relinking,
           UNCHANGED <<holder, donator, donators>>,
           preempts' = 0 => preempts = 0, halted' # "corrupt"
    PROVE  LinkOK'
<1> SUFFICES ASSUME preempts' = 0 PROVE LinkOK'
  BY DEF LinkOK
<1>1. \A u \in Thread : pc[u] \notin Relinking
  BY DEF LinkOK
<1>2. \A u \in Thread : pc'[u] \notin Relinking
  BY <1>1 DEF OwnOnly
<1>3. /\ \A u \in Thread : \A l \in donators[u] : holder[l] = u
      /\ \A l \in Lock : Linked(l) <=> donator[l] # NULL
  BY <1>1 DEF LinkOK, Relinking
<1>4. \A l : Linked(l)' <=> Linked(l)
  BY DEF Linked
<1>5. QED
  BY <1>2, <1>3, <1>4 DEF LinkOK, Relinking

(* Nothing that the donators lists depend on changes. *)
LEMMA LinkStays ==
    ASSUME LinkOK, UNCHANGED <<running, pc, lk, holder, donator, donators>>,
           preempts' = 0 => preempts = 0, halted' # "corrupt"
    PROVE  LinkOK'
<1>1. \A l : Linked(l)' <=> Linked(l)
  BY DEF Linked
<1>2. QED
  BY <1>1 DEF LinkOK

(* list_push_back() of a lock that is on no list, and the two tests before *)
(* and the assignment after it.                                            *)
LEMMA LinkAcquire ==
    ASSUME IInv, LinkOK, NEW t \in Thread, preempts' = 0,
           TestHolder(t) \/ PushLock(t) \/ SetDonator(t)
    PROVE  LinkOK'
<1>1. preempts = 0 /\ running' = running /\ running = t /\ lk' = lk /\ holder' = holder
  BY DEF TestHolder, PushLock, SetDonator, Elsewhere, schedVars, lockVars, At
<1>2. /\ halted = "no" /\ lk[t] \in Lock /\ pc \in [Thread -> Labels]
      /\ pc[t] \in {"acquire", "push", "donator"}
  BY DEF IInv, TypeOK, LocalOK, Stack, InAcquire, TestHolder, PushLock, SetDonator, At
<1>3. \A u \in Thread \ {t} : pc[u] \notin Relinking
  BY <1>1 DEF LinkOK
<1>4. \A u \in Thread : \A l \in donators[u] : holder[l] = u
  BY <1>1, <1>2, <1>3 DEF LinkOK, Relinking
<1>5. CASE TestHolder(t)
  <2>1. UNCHANGED <<donator, donators>> /\ halted' = halted
    BY <1>5 DEF TestHolder, lockVars
  <2>2. \A l : Linked(l)' <=> Linked(l)
    BY <2>1 DEF Linked
  <2>3. \A l \in Lock : Linked(l) <=> donator[l] # NULL
    BY <1>1, <1>3, <1>5 DEF LinkOK, Relinking, TestHolder, At
  <2>4. CASE pc' = [pc EXCEPT ![t] = "down"]
    BY <1>1, <1>2, <1>3, <1>4, <2>1, <2>2, <2>3, <2>4 DEF LinkOK, Relinking
  <2>5. CASE /\ holder[lk[t]] # NULL /\ lk[t] \in donators[holder[lk[t]]]
             /\ pc' = [pc EXCEPT ![t] = "donator"]
    <3>1. holder[lk[t]] \in Thread
      BY <1>2, <2>5 DEF IInv, TypeOK
    <3>2. Linked(lk[t])
      BY <2>5, <3>1 DEF Linked
    <3>3. QED
      BY <1>1, <1>2, <1>3, <1>4, <2>1, <2>2, <2>3, <2>5, <3>2 DEF LinkOK, Relinking
  <2>6. CASE /\ holder[lk[t]] # NULL /\ lk[t] \notin donators[holder[lk[t]]]
             /\ pc' = [pc EXCEPT ![t] = "push"]
    <3>1. ~Linked(lk[t])
      BY <1>4, <2>6 DEF Linked
    <3>2. QED
      BY <1>1, <1>2, <1>3, <1>4, <2>1, <2>2, <2>3, <2>6, <3>1 DEF LinkOK, Relinking
  <2>7. QED
    BY <1>5, <2>4, <2>5, <2>6 DEF TestHolder, GoDown, Goto
<1>6. CASE PushLock(t)
  <2>1. ~Linked(lk[t]) /\ holder[lk[t]] # NULL
    BY <1>1, <1>6 DEF LinkOK, PushLock, At
  <2>2. holder[lk[t]] \in Thread
    BY <1>2, <2>1 DEF IInv, TypeOK
  <2>3. PICK h \in Thread : h = holder[lk[t]]
    BY <2>2
  <2>4. /\ donators' = [donators EXCEPT ![h] = @ \cup {lk[t]}]
        /\ pc' = [pc EXCEPT ![t] = "donator"] /\ UNCHANGED <<halted, donator>>
    BY <1>6, <2>1, <2>3 DEF PushLock, Goto, Linked
  <2>5. \A l \in Lock : Linked(l)' <=> Linked(l) \/ l = lk[t]
    BY <2>3, <2>4 DEF Linked, IInv, TypeOK
  <2>6. \A u \in Thread : \A l \in donators'[u] : holder[l] = u
    BY <1>4, <2>3, <2>4 DEF IInv, TypeOK
  <2>7. \A l \in Lock : Linked(l) <=> donator[l] # NULL
    BY <1>1, <1>3, <1>6 DEF LinkOK, Relinking, PushLock, At
  <2>8. Linked(lk[t])'
    BY <1>1, <1>2, <2>5 DEF Linked
  <2>9. QED
    BY <1>1, <1>2, <1>3, <2>4, <2>5, <2>6, <2>7, <2>8 DEF LinkOK, Relinking
<1>7. CASE SetDonator(t)
  <2>1. Linked(lk[t])
    BY <1>1, <1>7 DEF LinkOK, SetDonator, At
  <2>2. /\ donator' = [donator EXCEPT ![lk[t]] = t] /\ pc' = [pc EXCEPT ![t] = "compare"]
        /\ UNCHANGED <<donators, halted>>
    BY <1>7 DEF SetDonator, Goto
  <2>3. \A l : Linked(l)' <=> Linked(l)
    BY <2>2 DEF Linked
  <2>4. \A l \in Lock : Linked(l) => donator[l] # NULL \/ l = lk[t]
    BY <1>1, <1>2, <1>3 DEF LinkOK, Relinking
  <2>5. \A l \in Lock : (donator'[l] # NULL <=> donator[l] # NULL \/ l = lk[t])
    BY <1>2, <2>2, ThreadAssumption DEF IInv, TypeOK
  <2>6. QED
    BY <1>1, <1>2, <1>3, <1>4, <2>1, <2>2, <2>3, <2>4, <2>5 DEF LinkOK, Relinking
<1>8. QED
  BY <1>5, <1>6, <1>7

(* A lock is on no list once its holder has revoked its donation. *)
LEMMA LinkRelease ==
    ASSUME IInv, LinkOK, NEW t \in Thread, preempts' = 0,
           SetHolder(t) \/ ClearHolder(t) \/ Revoke(t) \/ ResetDonator(t)
    PROVE  LinkOK'
<1>1. preempts = 0 /\ running' = running /\ running = t
  BY DEF SetHolder, ClearHolder, Revoke, ResetDonator, Elsewhere, schedVars, At
<1>2. /\ halted = "no" /\ lk[t] \in Lock /\ pc \in [Thread -> Labels]
      /\ lk \in [Thread -> Lock \cup {NULL}]
  BY DEF IInv, TypeOK, LocalOK, Stack, InAcquire, InRelease, SetHolder, ClearHolder, Revoke,
     ResetDonator, At
<1>3. \A u \in Thread \ {t} : pc[u] \notin Relinking
  BY <1>1 DEF LinkOK
<1>4. \A u \in Thread \ {t} : \A l \in donators[u] : holder[l] = u
  BY <1>1, <1>3 DEF LinkOK, Relinking
<1>5. \A l \in Lock : donator[l] # NULL => Linked(l)
  BY <1>1 DEF LinkOK
<1>6. pc[t] # "donator" => \A l \in Lock : Linked(l) => donator[l] # NULL
  BY <1>1, <1>3 DEF LinkOK, Relinking
<1>7. CASE SetHolder(t)
  <2>1. pc[t] = "holder" /\ holder[lk[t]] = NULL
    BY <1>7 DEF SetHolder, At, IInv, OwnOK, InFlight
  <2>2. \A u \in Thread : \A l \in donators[u] : holder[l] = u
    BY <1>1, <1>4, <2>1 DEF LinkOK
  <2>3. \A u \in Thread : lk[t] \notin donators[u]
    BY <2>1, <2>2, ThreadAssumption
  <2>4. /\ holder' = [holder EXCEPT ![lk[t]] = t] /\ lk' = [lk EXCEPT ![t] = NULL]
        /\ pc' = [pc EXCEPT ![t] = ret[t]] /\ UNCHANGED <<donator, donators, halted>>
    BY <1>7 DEF SetHolder, Goto
  <2>5. ret[t] \in {"user", "tid"}
    BY <2>1 DEF IInv, LocalOK, Stack, InAcquire
  <2>6. pc'[t] \notin Relinking /\ \A u \in Thread \ {t} : pc'[u] \notin Relinking
    BY <1>2, <1>3, <2>4, <2>5 DEF Relinking
  <2>7. \A u \in Thread : \A l \in donators'[u] : holder'[l] = u
    BY <2>2, <2>3, <2>4 DEF IInv, TypeOK
  <2>8. \A l : Linked(l)' <=> Linked(l)
    BY <2>4 DEF Linked
  <2>9. QED
    BY <1>1, <1>2, <1>5, <1>6, <2>1, <2>4, <2>6, <2>7, <2>8 DEF LinkOK, Relinking
<1>8. CASE ClearHolder(t)
  <2>1. pc[t] = "release"
    BY <1>8 DEF ClearHolder, At
  <2>2. \A u \in Thread : \A l \in donators[u] : holder[l] = u
    BY <1>1, <1>4, <2>1 DEF LinkOK
  <2>3. holder[lk[t]] = t
    BY <2>1 DEF IInv, OwnOK
  <2>4. /\ holder' = [holder EXCEPT ![lk[t]] = NULL] /\ pc' = [pc EXCEPT ![t] = "revoke"]
        /\ UNCHANGED <<donator, donators, halted, lk>>
    BY <1>8 DEF ClearHolder, Goto, Elsewhere
  <2>5. \A u \in Thread : \A l \in donators'[u] :
           holder'[l] = u \/ (lk'[u] = l /\ pc'[u] = "revoke")
    BY <1>2, <2>2, <2>3, <2>4 DEF IInv, TypeOK
  <2>6. \A l : Linked(l)' <=> Linked(l)
    BY <2>4 DEF Linked
  <2>7. QED
    BY <1>1, <1>2, <1>3, <1>5, <1>6, <2>1, <2>4, <2>5, <2>6 DEF LinkOK, Relinking
<1>9. CASE Revoke(t)
  <2>1. pc[t] = "revoke" /\ holder[lk[t]] = NULL
    BY <1>9 DEF Revoke, At, IInv, OwnOK, InFlight
  <2>2. UNCHANGED <<holder, lk>>
    BY <1>9 DEF Revoke, Elsewhere
  <2>3. \A u \in Thread : \A l \in donators[u] : holder[l] = u \/ l = lk[t]
    BY <1>1, <1>4 DEF LinkOK
  <2>4. CASE donator[lk[t]] = NULL
    <3>1. pc' = [pc EXCEPT ![t] = "reset"] /\ UNCHANGED <<halted, donator, donators>>
      BY <1>9, <2>4 DEF Revoke, Goto
    <3>2. ~Linked(lk[t])
      BY <1>2, <1>6, <2>1, <2>4
    <3>3. \A u \in Thread : \A l \in donators[u] : holder[l] = u
      BY <2>3, <3>2 DEF Linked
    <3>4. \A l : Linked(l)' <=> Linked(l)
      BY <3>1 DEF Linked
    <3>5. QED
      BY <1>1, <1>2, <1>3, <1>5, <1>6, <2>1, <2>2, <3>1, <3>3, <3>4 DEF LinkOK, Relinking
  <2>5. CASE donator[lk[t]] # NULL
    <3>1. Linked(lk[t])
      BY <1>2, <1>5, <2>5
    <3>2. /\ donators' = [u \in Thread |-> donators[u] \ {lk[t]}]
          /\ donator' = [donator EXCEPT ![lk[t]] = NULL]
          /\ pc' = [pc EXCEPT ![t] = "restore"] /\ UNCHANGED halted
      BY <1>9, <2>5, <3>1 DEF Revoke, Goto, Linked
    <3>3. \A l : Linked(l)' <=> Linked(l) /\ l # lk[t]
      BY <3>2 DEF Linked
    <3>4. \A u \in Thread : \A l \in donators'[u] : holder[l] = u
      BY <2>3, <3>2
    <3>5. \A l \in Lock : (donator'[l] # NULL <=> donator[l] # NULL /\ l # lk[t])
      BY <1>2, <3>2 DEF IInv, TypeOK
    <3>6. QED
      BY <1>1, <1>2, <1>3, <1>5, <1>6, <2>1, <2>2, <3>2, <3>3, <3>4, <3>5 DEF LinkOK, Relinking
  <2>6. QED
    BY <2>4, <2>5
<1>10. CASE ResetDonator(t)
  <2>1. pc[t] = "reset" /\ holder[lk[t]] = NULL
    BY <1>10 DEF ResetDonator, At, IInv, OwnOK, InFlight
  <2>2. \A u \in Thread : \A l \in donators[u] : holder[l] = u
    BY <1>1, <1>4, <2>1 DEF LinkOK
  <2>3. ~Linked(lk[t])
    BY <2>1, <2>2, ThreadAssumption DEF Linked
  <2>4. /\ donator' = [donator EXCEPT ![lk[t]] = NULL] /\ pc' = [pc EXCEPT ![t] = "up"]
        /\ UNCHANGED <<holder, donators, halted, lk>>
    BY <1>10 DEF ResetDonator, Goto, Elsewhere
  <2>5. \A l : Linked(l)' <=> Linked(l)
    BY <2>4 DEF Linked
  <2>6. \A l \in Lock : (donator'[l] # NULL <=> donator[l] # NULL /\ l # lk[t])
    BY <1>2, <2>4 DEF IInv, TypeOK
  <2>7. QED
    BY <1>1, <1>2, <1>3, <1>5, <1>6, <2>1, <2>2, <2>3, <2>4, <2>5, <2>6 DEF LinkOK, Relinking
<1>11. QED
  BY <1>7, <1>8, <1>9, <1>10

(* what LinkFrame asks of a step *)
Apart(t) ==
    /\ running = t /\ OwnOnly(t) /\ pc[t] \notin Relinking /\ pc'[t] \notin Relinking
    /\ UNCHANGED <<holder, donator, donators, preempts>> /\ halted' # "corrupt"

(* The other operations leave the donators lists alone. *)
LEMMA ThreadApart ==
    ASSUME IInv, NEW t \in Thread, ThreadStep(t), ~Tick(t)
    PROVE  Apart(t)
<1> USE DEF At, Goto, Apart, OwnOnly, Relinking, ThreadFrame, lockVars, lockArgs
<1>1. /\ pc \in [Thread -> Labels] /\ ret \in [Thread -> {"user", "tid", "unblock", "await", NULL}]
      /\ lk \in [Thread -> Lock \cup {NULL}]
      /\ arg \in [Thread -> Thread \cup Lock \cup CondVar \cup Priorities \cup {NULL}]
  BY DEF IInv, TypeOK
<1>2. CASE Yield(t) /\ ThreadFrame
  BY <1>2 DEF Yield
<1>3. CASE Exit(t) /\ ThreadFrame
  BY <1>1, <1>3 DEF Exit
<1>4. CASE (\E p \in NewPriorities : SetPriority(t, p)) /\ ThreadFrame
  BY <1>1, <1>4 DEF SetPriority, schedVars
<1>5. CASE (SetBoth(t) \/ SetOld(t)) /\ ThreadFrame
  BY <1>1, <1>5 DEF SetBoth, SetOld, schedVars
<1>6. CASE SetYield(t) /\ ThreadFrame
  BY <1>1, <1>6 DEF SetYield
<1>7. CASE (\E c \in Thread, p \in CreatePriorities : Create(t, c, p, tid_lock)) /\ ThreadFrame
  BY <1>1, <1>7 DEF Create
<1>8. CASE (AllocateTid(t, tid_lock) \/ CreateUnblock(t)) /\ ThreadFrame
  BY <1>1, <1>8 DEF AllocateTid, CreateUnblock, schedVars
<1>9. CASE CreateYield(t) /\ ThreadFrame
  BY <1>1, <1>9 DEF CreateYield
<1>10. QED
  BY <1>2, <1>3, <1>4, <1>5, <1>6, <1>7, <1>8, <1>9 DEF ThreadStep

(* Nor do semaphores; an interrupt handler may raise one meanwhile. *)
LEMMA SemaApart ==
    ASSUME IInv, NEW t \in Thread, SemaStep(t)
    PROVE  \/ Apart(t)
           \/ /\ UNCHANGED <<running, pc, lk, holder, donator, donators, preempts>>
              /\ halted' # "corrupt"
<1> USE DEF At, Goto, Apart, OwnOnly, Relinking, SemaFrame, lockVars, lockArgs
<1>1. pc \in [Thread -> Labels] /\ sm \in [Thread -> Sema \cup {NULL}]
  BY DEF IInv, TypeOK
<1>2. CASE (\E s \in ClientSema : Down(t, s)) /\ SemaFrame
  BY <1>1, <1>2 DEF Down
<1>3. CASE (\E s \in ClientSema : Up(t, s)) /\ SemaFrame
  BY <1>1, <1>3 DEF Up
<1>4. ASSUME NEW s \in IntrSema, InterruptUp(t, s), SemaFrame
      PROVE  /\ UNCHANGED <<running, pc, lk, holder, donator, donators, preempts>>
             /\ halted' # "corrupt"
  <2>1. \/ halted' = "panic" /\ UNCHANGED schedVars
        \/ /\ halted' = "no" /\ semaphore_up(t, s)
           /\ ~(waiters[s] # <<>> /\ priority[WokenBy(s)] > priority[t])
    BY <1>4 DEF InterruptUp
  <2>2. running' = running /\ halted' # "corrupt"
    BY <2>1 DEF semaphore_up, schedVars
  <2>3. QED
    BY <1>4, <2>2 DEF InterruptUp
<1>5. CASE DownBlock(t) /\ SemaFrame
  BY <1>1, <1>5 DEF DownBlock, InDown
<1>6. CASE DownTake(t) /\ SemaFrame
  BY <1>1, <1>6 DEF DownTake, InDown, AfterDown
<1>7. QED
  BY <1>2, <1>3, <1>4, <1>5, <1>6 DEF SemaStep

(* The statements of lock_acquire() that do not deal with the lists. *)
LEMMA AcquireApart ==
    ASSUME IInv, NEW t \in Thread, AcquireStep(t)
    PROVE  Apart(t) \/ TestHolder(t) \/ PushLock(t) \/ SetDonator(t) \/ SetHolder(t)
<1> USE DEF At, Goto, Apart, OwnOnly, Relinking, Elsewhere, lockVars, lockArgs
<1>1. /\ pc \in [Thread -> Labels] /\ ret \in [Thread -> {"user", "tid", "unblock", "await", NULL}]
      /\ lk \in [Thread -> Lock \cup {NULL}] /\ sm \in [Thread -> Sema \cup {NULL}]
      /\ loc \in [Thread -> Lock \cup Priorities \cup {NULL}]
  BY DEF IInv, TypeOK
<1>2. CASE \E l \in ClientLock : Acquire(t, l)
  BY <1>1, <1>2 DEF Acquire, CallAcquire
<1>3. CASE Compare(t)
  BY <1>1, <1>3 DEF Compare, Fault, GoDown
<1>4. CASE SetBlocker(t)
  BY <1>1, <1>4 DEF SetBlocker
<1>5. CASE Donate(t)
  BY <1>1, <1>5 DEF Donate, Fault
<1>6. CASE DonateChain(t)
  BY <1>1, <1>6 DEF DonateChain, Fault, GoDown
<1>7. QED
  BY <1>2, <1>3, <1>4, <1>5, <1>6 DEF AcquireStep

(* The statements of lock_release() that do not deal with the lists. *)
LEMMA ReleaseApart ==
    ASSUME IInv, NEW t \in Thread, ReleaseStep(t)
    PROVE  Apart(t) \/ ClearHolder(t) \/ Revoke(t) \/ ResetDonator(t)
<1> USE DEF At, Goto, Apart, OwnOnly, Relinking, Elsewhere, lockVars, lockArgs
<1>1. /\ pc \in [Thread -> Labels] /\ ret \in [Thread -> {"user", "tid", "unblock", "await", NULL}]
      /\ lk \in [Thread -> Lock \cup {NULL}] /\ sm \in [Thread -> Sema \cup {NULL}]
      /\ loc \in [Thread -> Lock \cup Priorities \cup {NULL}]
  BY DEF IInv, TypeOK
<1>2. CASE \E l \in ClientLock : Release(t, l)
  BY <1>1, <1>2 DEF Release, CallRelease
<1>3. CASE Restore(t)
  BY <1>1, <1>3 DEF Restore, Fault
<1>4. CASE AssignPriority(t)
  BY <1>1, <1>4 DEF AssignPriority
<1>5. CASE ReleaseUp(t)
  <2>1. ret[t] \in {"user", "unblock", "await"}
    BY <1>5 DEF ReleaseUp, IInv, LocalOK, Stack, InRelease
  <2>2. QED
    BY <1>1, <1>5, <2>1 DEF ReleaseUp
<1>6. QED
  BY <1>2, <1>3, <1>4, <1>5 DEF ReleaseStep

(* Condition variables leave the donators lists alone. *)
LEMMA CondApart ==
    ASSUME IInv, NEW t \in Thread, CondStep(t)
    PROVE  Apart(t)
<1> USE DEF At, Goto, Apart, OwnOnly, Relinking, lockVars, lockArgs
<1>1. /\ pc \in [Thread -> Labels] /\ ret \in [Thread -> {"user", "tid", "unblock", "await", NULL}]
      /\ lk \in [Thread -> Lock \cup {NULL}] /\ sm \in [Thread -> Sema \cup {NULL}]
      /\ arg \in [Thread -> Thread \cup Lock \cup CondVar \cup Priorities \cup {NULL}]
  BY DEF IInv, TypeOK
<1>2. CASE \E c \in CondVar : Wait(t, c)
  BY <1>1, <1>2 DEF Wait, CallRelease
<1>3. CASE \E c \in CondVar : Signal(t, c)
  BY <1>1, <1>3 DEF Signal, condvar_signal
<1>4. CASE \E c \in CondVar : Broadcast(t, c)
  BY <1>1, <1>4 DEF Broadcast
<1>5. CASE Await(t)
  BY <1>1, <1>5 DEF Await
<1>6. CASE Reacquire(t)
  BY <1>1, <1>6 DEF Reacquire, CallAcquire
<1>7. CASE BroadcastStep(t)
  BY <1>1, <1>7 DEF BroadcastStep, condvar_signal
<1>8. QED
  BY <1>2, <1>3, <1>4, <1>5, <1>6, <1>7 DEF CondStep

(***************************************************************************)
(* Without preemption no lockelem is linked twice or unlinked when it is   *)
(* not on a list, for any number of threads, locks and nested acquires.    *)
(***************************************************************************)
THEOREM KernelLinkedOnce == Spec => []LinkedOnce
<1>1. Init => LinkOK
  <2> SUFFICES ASSUME Init PROVE LinkOK
    OBVIOUS
  <2>1. /\ halted = "no" /\ donators = [t \in Thread |-> {}] /\ donator = [l \in Lock |-> NULL]
        /\ pc = [t \in Thread |-> IF t = Idle THEN "idle" ELSE "user"]
    BY DEF Init, ThreadInit, LockInit
  <2>2. \A l : ~Linked(l)
    BY <2>1 DEF Linked
  <2>3. QED
    BY <2>1, <2>2 DEF LinkOK, Relinking
<1>2. IInv /\ LinkOK /\ [Next]_vars => LinkOK'
  <2> SUFFICES ASSUME IInv, LinkOK, [Next]_vars, preempts' = 0 PROVE LinkOK'
    BY DEF LinkOK
  <2>1. ASSUME NEW t \in Thread, Apart(t) PROVE LinkOK'
    BY <2>1, LinkFrame DEF Apart
  <2>2. ASSUME NEW t \in Thread, ThreadStep(t) PROVE LinkOK'
    <3>1. preempts \in Nat
      BY ThreadAssumption DEF IInv, TypeOK
    <3>2. ~Tick(t)
      BY <3>1 DEF Tick
    <3>3. QED
      BY <2>1, <2>2, <3>2, ThreadApart
  <2>3. ASSUME NEW t \in Thread, SemaStep(t) PROVE LinkOK'
    BY <2>1, <2>3, SemaApart, LinkStays
  <2>4. ASSUME NEW t \in Thread, AcquireStep(t) PROVE LinkOK'
    BY <2>1, <2>4, AcquireApart, LinkAcquire, LinkRelease
  <2>5. ASSUME NEW t \in Thread, ReleaseStep(t) PROVE LinkOK'
    BY <2>1, <2>5, ReleaseApart, LinkRelease
  <2>6. ASSUME NEW t \in Thread, CondStep(t) PROVE LinkOK'
    BY <2>1, <2>6, CondApart
  <2>7. CASE IdleStep /\ ThreadFrame
    <3>1. Idle \in Thread
      BY ThreadAssumption
    <3>2. Apart(Idle)
      BY <2>7 DEF IdleStep, Apart, At, OwnOnly, Relinking, ThreadFrame, lockVars, lockArgs
    <3>3. QED
      BY <2>1, <3>1, <3>2
  <2>8. CASE Stuck \/ UNCHANGED vars
    <3>1. UNCHANGED <<running, pc, lk, holder, donator, donators, preempts, halted>>
      BY <2>8 DEF Stuck, vars, threadVars, lockVars
    <3>2. QED
      BY <3>1, LinkStays DEF LinkOK
  <2>9. QED
    BY <2>2, <2>3, <2>4, <2>5, <2>6, <2>7, <2>8 DEF Next
<1>3. LinkOK => LinkedOnce
  BY DEF LinkOK, LinkedOnce
<1>4. QED
  BY <1>1, <1>2, <1>3, SpecIInv, PTL DEF Spec

-----------------------------------------------------------------------------
(***************************************************************************)
(* Client code that contends for no lock.  Only thread_create() takes one, *)
(* tid_lock, and as one thread creates the others it finds the lock free.  *)
(* So nothing is donated, and every priority is the thread's own.          *)
(***************************************************************************)
FreeLabels == {"user", "idle", "exited", "setboth", "setyield", "tid", "unblock",
               "created", "down", "woken", "acquire", "holder", "release", "revoke",
               "reset", "up"}

Free(t) ==
    /\ pc[t] \in FreeLabels
    /\ lk[t] # NULL => /\ "create" \in Calls[t] /\ lk[t] = tid_lock
                       /\ ret[t] \in {"tid", "unblock"}
    /\ pc[t] = "tid" => "create" \in Calls[t]
    /\ sm[t] # t
    /\ priority_old[t] = priority[t]
    /\ pc[t] = "setyield" => arg[t] = priority[t]
    /\ \A l \in Lock : holder[l] = t => l = tid_lock /\ pc[t] \in {"tid", "release"}

FreeOK == (\A t \in Thread : Free(t)) /\ \A l \in Lock : donator[l] = NULL

(* Thread t yields before its own code goes on, or no thread that is ready *)
(* has a higher priority.                                                  *)
OrderOK ==
    /\ status[Idle] \in {"BLOCKED", "RUNNING"}
    /\ halted = "no" =>
          \A u \in Thread :
             status[u] = "READY" => \/ priority[u] <= priority[running]
                                    \/ pc[running] = "setyield"
                                    \/ pc[running] = "created" /\ arg[running] = u

(* what a step of t does to other threads, but for new ones *)
Aside(t) ==
    \A u \in Thread \ {t} :
        /\ priority'[u] = priority[u] /\ priority_old'[u] = priority_old[u]
        /\ \A l \in Lock : holder'[l] = u => holder[l] = u

(* It is enough to look at the thread that takes the step. *)
LEMMA FreeFrame ==
    ASSUME FreeOK, NEW t \in Thread, OwnOnly(t), Aside(t), Free(t)',
           \A l \in Lock : donator'[l] = NULL
    PROVE  FreeOK'
  BY DEF FreeOK, Free, OwnOnly, Aside

(* The operations of threads, from a state without contention. *)
LEMMA ThreadFree ==
    ASSUME IInv, FreeOK, Uncontended, NEW t \in Thread, ThreadStep(t)
    PROVE  FreeOK'
<1>1. /\ pc \in [Thread -> Labels] /\ ret \in [Thread -> {"user", "tid", "unblock", "await", NULL}]
      /\ lk \in [Thread -> Lock \cup {NULL}]
      /\ arg \in [Thread -> Thread \cup Lock \cup CondVar \cup Priorities \cup {NULL}]
      /\ priority \in [Thread -> Priorities] /\ priority_old \in [Thread -> Priorities]
  BY DEF IInv, TypeOK
<1>2. UNCHANGED <<holder, donator>>
  BY DEF ThreadStep, ThreadFrame, lockVars
<1>3. Free(t) /\ \A l \in Lock : donator'[l] = NULL
  BY <1>2 DEF FreeOK
<1> USE DEF At, Goto, OwnOnly, Aside, lockArgs, prioVars
<1>4. CASE Yield(t) \/ Tick(t)
  <2>1. UNCHANGED <<pc, ret, lk, sm, loc, arg, priority, priority_old>>
    BY <1>4 DEF Yield, Tick
  <2>2. QED
    BY <1>2, <1>3, <2>1, FreeFrame DEF Free
<1>5. CASE Exit(t)
  <2>1. Free(t)' /\ OwnOnly(t) /\ Aside(t)
    BY <1>1, <1>2, <1>3, <1>5 DEF Exit, Free, FreeLabels
  <2>2. QED
    BY <1>3, <2>1, FreeFrame
<1>6. CASE \E p \in NewPriorities : SetPriority(t, p)
  <2>1. Free(t)' /\ OwnOnly(t) /\ Aside(t)
    BY <1>1, <1>2, <1>3, <1>6 DEF SetPriority, Free, FreeLabels
  <2>2. QED
    BY <1>3, <2>1, FreeFrame
<1>7. CASE SetBoth(t)
  <2>1. Free(t)' /\ OwnOnly(t) /\ Aside(t)
    BY <1>1, <1>2, <1>3, <1>7 DEF SetBoth, Free, FreeLabels
  <2>2. QED
    BY <1>3, <2>1, FreeFrame
<1>8. CASE SetOld(t)
  BY <1>3, <1>8 DEF SetOld, Free, FreeLabels
<1>9. CASE SetYield(t) \/ CreateYield(t)
  <2>1. Free(t)' /\ OwnOnly(t) /\ Aside(t)
    BY <1>1, <1>2, <1>3, <1>9 DEF SetYield, CreateYield, Free, FreeLabels
  <2>2. QED
    BY <1>3, <2>1, FreeFrame
<1>10. ASSUME NEW c \in Thread, NEW p \in CreatePriorities, "create" \in Calls[t],
              Create(t, c, p, tid_lock)
       PROVE  FreeOK'
  <2>1. c # t /\ pc[c] = "user"
    BY <1>10 DEF Create, IInv, SchedOK, CreateOK
  <2>2. /\ priority' = [priority EXCEPT ![c] = p] /\ priority_old' = [priority_old EXCEPT ![c] = p]
        /\ OwnOnly(t)
    BY <1>1, <1>10 DEF Create
  <2>3. Free(t)'
    BY <1>1, <1>2, <1>3, <1>10, <2>1 DEF Create, Free, FreeLabels
  <2>4. \A u \in Thread \ {t} : Free(u)'
    BY <1>1, <1>2, <2>1, <2>2 DEF FreeOK, Free
  <2>5. QED
    BY <1>3, <2>3, <2>4 DEF FreeOK
<1>11. CASE AllocateTid(t, tid_lock) \/ CreateUnblock(t)
  <2>1. Free(t)' /\ OwnOnly(t) /\ Aside(t)
    BY <1>1, <1>2, <1>3, <1>11 DEF AllocateTid, CreateUnblock, Free, FreeLabels
  <2>2. QED
    BY <1>3, <2>1, FreeFrame
<1>12. QED
  BY <1>4, <1>5, <1>6, <1>7, <1>8, <1>9, <1>10, <1>11 DEF ThreadStep

(* The operations of semaphores. *)
LEMMA SemaFree ==
    ASSUME IInv, FreeOK, NEW t \in Thread, SemaStep(t)
    PROVE  FreeOK'
<1>1. pc \in [Thread -> Labels] /\ sm \in [Thread -> Sema \cup {NULL}]
  BY DEF IInv, TypeOK
<1>2. UNCHANGED <<holder, donator, priority, priority_old, ret, lk, arg, loc>>
  BY DEF SemaStep, SemaFrame, lockVars, lockArgs, prioVars, Down, Up, InterruptUp, DownBlock,
     DownTake
<1>3. Free(t) /\ \A l \in Lock : donator'[l] = NULL
  BY <1>2 DEF FreeOK
<1> USE DEF At, Goto, OwnOnly, Aside, lockArgs
<1>4. CASE \E s \in ClientSema : Down(t, s)
  <2>1. ClientSema \cap Thread = {}
    BY SemaAssumption
  <2>2. Free(t)' /\ OwnOnly(t) /\ Aside(t)
    BY <1>1, <1>2, <1>3, <1>4, <2>1 DEF Down, Free, FreeLabels
  <2>3. QED
    BY <1>3, <2>2, FreeFrame
<1>5. CASE (\E s \in ClientSema : Up(t, s)) \/ \E s \in IntrSema : InterruptUp(t, s)
  <2>1. UNCHANGED <<pc, sm>>
    BY <1>5 DEF Up, InterruptUp
  <2>2. QED
    BY <1>2, <1>3, <2>1, FreeFrame DEF Free
<1>6. CASE DownBlock(t)
  <2>1. Free(t)' /\ OwnOnly(t) /\ Aside(t)
    BY <1>1, <1>2, <1>3, <1>6 DEF DownBlock, InDown, Free, FreeLabels
  <2>2. QED
    BY <1>3, <2>1, FreeFrame
<1>7. CASE DownTake(t)
  <2>1. NULL \notin Thread
    BY ThreadAssumption
  <2>2. Free(t)' /\ OwnOnly(t) /\ Aside(t)
    BY <1>1, <1>2, <1>3, <1>7, <2>1 DEF DownTake, InDown, AfterDown, Free, FreeLabels
  <2>3. QED
    BY <1>3, <2>2, FreeFrame
<1>8. QED
  BY <1>4, <1>5, <1>6, <1>7 DEF SemaStep

(* lock_acquire() of tid_lock finds no holder. *)
LEMMA AcquireFree ==
    ASSUME IInv, FreeOK, Uncontended, NEW t \in Thread, AcquireStep(t)
    PROVE  FreeOK' /\ UNCHANGED priority
<1>1. /\ pc \in [Thread -> Labels] /\ ret \in [Thread -> {"user", "tid", "unblock", "await", NULL}]
      /\ lk \in [Thread -> Lock \cup {NULL}] /\ sm \in [Thread -> Sema \cup {NULL}]
      /\ holder \in [Lock -> Thread \cup {NULL}]
  BY DEF IInv, TypeOK
<1>2. Free(t) /\ \A l \in Lock : donator[l] = NULL
  BY DEF FreeOK
<1>3. Lock \cap Thread = {} /\ NULL \notin Lock /\ NULL \notin Thread
  BY SemaAssumption, ThreadAssumption
<1> USE DEF At, Goto, OwnOnly, Aside, lockArgs, lockVars, prioVars
<1>4. TestHolder(t) \/ SetHolder(t)
  BY <1>2 DEF AcquireStep, Uncontended, Free, FreeLabels, PushLock, SetDonator, Compare,
     SetBlocker, Donate, DonateChain
<1>5. CASE TestHolder(t)
  <2>1. pc[t] = "acquire" /\ lk[t] \in Lock
    BY <1>5 DEF TestHolder, IInv, LocalOK, Stack, InAcquire
  <2>2. holder[lk[t]] = NULL
    <3> SUFFICES ASSUME NEW u \in Thread, holder[lk[t]] = u PROVE FALSE
      BY <1>1, <2>1
    <3>1. Free(u) /\ lk[t] = tid_lock /\ "create" \in Calls[t] /\ pc[u] \in {"tid", "release"}
      BY <1>2, <1>3, <2>1 DEF FreeOK, Free
    <3>2. "create" \in Calls[u]
      <4>1. pc[u] = "release" => lk[u] \in Lock
        BY DEF IInv, LocalOK, Stack, InRelease
      <4>2. QED
        BY <1>3, <3>1, <4>1 DEF Free
    <3>3. t = u
      BY <3>1, <3>2 DEF Uncontended
    <3>4. QED
      BY <2>1, <3>1, <3>3
  <2>3. /\ pc' = [pc EXCEPT ![t] = "down"] /\ sm' = [sm EXCEPT ![t] = lk[t]]
        /\ UNCHANGED <<holder, donator, priority, priority_old, ret, lk, arg, loc>>
    BY <1>5, <2>2 DEF TestHolder, GoDown, Elsewhere
  <2>4. Free(t)' /\ OwnOnly(t) /\ Aside(t)
    BY <1>1, <1>2, <1>3, <2>1, <2>3 DEF Free, FreeLabels
  <2>5. QED
    BY <1>2, <2>3, <2>4, FreeFrame
<1>6. CASE SetHolder(t)
  <2>1. pc[t] = "holder" /\ lk[t] \in Lock /\ ret[t] \in {"user", "tid"}
    BY <1>6 DEF SetHolder, IInv, LocalOK, Stack, InAcquire
  <2>2. lk[t] = tid_lock /\ ret[t] = "tid" /\ "create" \in Calls[t]
    BY <1>2, <1>3, <2>1 DEF Free
  <2>3. /\ holder' = [holder EXCEPT ![tid_lock] = t] /\ lk' = [lk EXCEPT ![t] = NULL]
        /\ pc' = [pc EXCEPT ![t] = "tid"] /\ ret' = [ret EXCEPT ![t] = NULL]
        /\ UNCHANGED <<donator, priority, priority_old, sm, arg, loc>>
    BY <1>6, <2>2 DEF SetHolder
  <2>4. Free(t)' /\ OwnOnly(t) /\ Aside(t)
    BY <1>1, <1>2, <2>1, <2>2, <2>3 DEF Free, FreeLabels
  <2>5. QED
    BY <1>2, <2>3, <2>4, FreeFrame
<1>7. QED
  BY <1>4, <1>5, <1>6

(* lock_release() of tid_lock finds no donator. *)
LEMMA ReleaseFree ==
    ASSUME IInv, FreeOK, NEW t \in Thread, ReleaseStep(t)
    PROVE  FreeOK' /\ UNCHANGED priority
<1>1. /\ pc \in [Thread -> Labels] /\ ret \in [Thread -> {"user", "tid", "unblock", "await", NULL}]
      /\ lk \in [Thread -> Lock \cup {NULL}]
      /\ holder \in [Lock -> Thread \cup {NULL}] /\ donator \in [Lock -> Thread \cup {NULL}]
  BY DEF IInv, TypeOK
<1>2. Free(t) /\ \A l \in Lock : donator[l] = NULL
  BY DEF FreeOK
<1>3. NULL \notin Lock /\ NULL \notin Thread
  BY SemaAssumption, ThreadAssumption
<1> USE DEF At, Goto, OwnOnly, Aside, lockArgs, lockVars, prioVars
<1>4. ClearHolder(t) \/ Revoke(t) \/ ResetDonator(t) \/ ReleaseUp(t)
  BY <1>2 DEF ReleaseStep, Free, FreeLabels, Release, Restore, AssignPriority, Holds, ClientLock
<1>5. lk[t] \in Lock /\ pc[t] \in InRelease
  BY <1>4 DEF ClearHolder, Revoke, ResetDonator, ReleaseUp, IInv, LocalOK, Stack, InRelease
<1>6. CASE ClearHolder(t)
  <2>1. holder[lk[t]] = t /\ lk[t] = tid_lock
    BY <1>2, <1>3, <1>5, <1>6 DEF ClearHolder, IInv, OwnOK, Free
  <2>2. Free(t)' /\ OwnOnly(t) /\ Aside(t) /\ UNCHANGED <<donator, priority>>
    BY <1>1, <1>2, <1>3, <1>6, <2>1 DEF ClearHolder, Elsewhere, Free, FreeLabels
  <2>3. QED
    BY <1>2, <2>2, FreeFrame
<1>7. CASE Revoke(t) \/ ResetDonator(t)
  <2>1. \A l \in Lock : holder[l] # t
    BY <1>2, <1>7 DEF Revoke, ResetDonator, Free
  <2>2. UNCHANGED <<holder, priority, priority_old, ret, lk, arg, sm, loc>>
    BY <1>7 DEF Revoke, ResetDonator, Elsewhere
  <2>3. \A l \in Lock : donator'[l] = NULL
    BY <1>1, <1>2, <1>5, <1>7 DEF Revoke, ResetDonator
  <2>4. pc' = [pc EXCEPT ![t] = "reset"] \/ pc' = [pc EXCEPT ![t] = "up"]
    BY <1>2, <1>5, <1>7 DEF Revoke, ResetDonator
  <2>5. Free(t)' /\ OwnOnly(t) /\ Aside(t)
    BY <1>1, <1>2, <2>1, <2>2, <2>4 DEF Free, FreeLabels
  <2>6. QED
    BY <2>2, <2>3, <2>5, FreeFrame
<1>8. CASE ReleaseUp(t)
  <2>1. \A l \in Lock : holder[l] # t
    BY <1>2, <1>8 DEF ReleaseUp, Free
  <2>2. ret[t] = "unblock"
    BY <1>2, <1>3, <1>5 DEF Free, IInv, LocalOK, Stack
  <2>3. /\ pc' = [pc EXCEPT ![t] = "unblock"] /\ lk' = [lk EXCEPT ![t] = NULL]
        /\ ret' = [ret EXCEPT ![t] = NULL]
        /\ UNCHANGED <<holder, donator, priority, priority_old, arg, sm, loc>>
    BY <1>8, <2>2 DEF ReleaseUp
  <2>4. Free(t)' /\ OwnOnly(t) /\ Aside(t)
    BY <1>1, <1>2, <2>1, <2>3 DEF Free, FreeLabels
  <2>5. QED
    BY <1>2, <2>3, <2>4, FreeFrame
<1>9. QED
  BY <1>4, <1>6, <1>7, <1>8

(* No thread can wait for a condition or signal one. *)
LEMMA NoCondition ==
    ASSUME FreeOK, Uncontended, NEW t \in Thread
    PROVE  ~CondStep(t)
<1>1. Free(t)
  BY DEF FreeOK
<1>2. CondLock \in [CondVar -> Lock]
  BY CondAssumption
<1>3. QED
  BY <1>1, <1>2 DEF CondStep, Uncontended, Free, FreeLabels, Wait, Signal, Broadcast, Await,
     Reacquire, BroadcastStep, At, Holds

(* No thread that is ready has a higher priority than the one that runs. *)
Best ==
    /\ status'[Idle] \in {"BLOCKED", "RUNNING"}
    /\ \A u \in Thread : status'[u] = "READY" => priority[u] <= priority[running']

(* schedule() runs the best of the threads on the run queue. *)
LEMMA DispatchBest ==
    ASSUME NEW st \in [Thread -> Status], NEW rl, QueueOK(st, rl),
           st[Idle] \in {"BLOCKED", "RUNNING"}, priority \in [Thread -> Int], Schedule(st, rl)
    PROVE  Best
<1>1. rl \in Seq(Thread) /\ ToSet(rl) = ReadyIn(st) /\ Idle \in Thread
  BY ThreadAssumption DEF QueueOK, Distinct
<1>2. CASE rl = <<>>
  <2>1. running' = Idle /\ status' = [st EXCEPT ![Idle] = "RUNNING"]
    BY <1>2 DEF Schedule
  <2>2. ReadyIn(st) = {}
    BY <1>1, <1>2, EmptyList
  <2>3. QED
    BY <1>1, <2>1, <2>2 DEF Best, ReadyIn
<1>3. CASE rl # <<>>
  <2>1. PICK m \in 1 .. Len(rl) : /\ Last(list_sort(rl, priority)) = rl[m]
                                  /\ \A j \in 1 .. Len(rl) : Precedes(rl, priority, j, m)
    BY <1>1, <1>3, SortLast
  <2>2. running' = rl[m] /\ status' = [st EXCEPT ![rl[m]] = "RUNNING"]
    BY <1>3, <2>1 DEF Schedule
  <2>3. rl[m] \in Thread
    BY <1>1
  <2>4. ASSUME NEW u \in Thread, status'[u] = "READY" PROVE priority[u] <= priority[running']
    <3>1. u \in ToSet(rl)
      BY <1>1, <2>2, <2>3, <2>4 DEF ReadyIn
    <3>2. PICK j \in 1 .. Len(rl) : rl[j] = u
      BY <1>1, <3>1 DEF ToSet
    <3>3. QED
      BY <2>1, <2>2, <2>3, <3>2 DEF Precedes
  <2>5. status'[Idle] \in {"BLOCKED", "RUNNING"}
    BY <1>1, <2>2, <2>3
  <2>6. QED
    BY <2>4, <2>5 DEF Best
<1>4. QED
  BY <1>2, <1>3

(* thread_yield() by a thread other than the idle thread. *)
LEMMA YieldBest ==
    ASSUME NEW t \in Thread \ {Idle}, NEW st \in [Thread -> Status], NEW rl, QueueOK(st, rl),
           st[Idle] \in {"BLOCKED", "RUNNING"}, st[t] = "RUNNING",
           priority \in [Thread -> Int], thread_yield(t, st, rl)
    PROVE  Best
<1>1. PICK st1 \in [Thread -> Status] : st1 = [st EXCEPT ![t] = "READY"]
  BY DEF Status
<1>2. t \notin ToSet(rl)
  BY DEF QueueOK, ReadyIn
<1>3. Distinct(PushFront(rl, t), Thread) /\ ToSet(PushFront(rl, t)) = ToSet(rl) \cup {t}
  BY <1>2, PushElements DEF QueueOK
<1>4. ReadyIn(st1) = ReadyIn(st) \cup {t}
  BY <1>1 DEF ReadyIn
<1>5. QueueOK(st1, PushFront(rl, t))
  BY <1>3, <1>4 DEF QueueOK
<1>6. Schedule(st1, PushFront(rl, t))
  BY <1>1 DEF thread_yield
<1>7. st1[Idle] \in {"BLOCKED", "RUNNING"}
  BY <1>1, ThreadAssumption
<1>8. QED
  BY <1>5, <1>6, <1>7, DispatchBest

(* what the steps start from *)
LEMMA OrderBefore ==
    ASSUME IInv, OrderOK
    PROVE  /\ priority \in [Thread -> Int] /\ status \in [Thread -> Status]
           /\ status[running] = "RUNNING" /\ QueueOK(status, ready_list)
           /\ status[Idle] \in {"BLOCKED", "RUNNING"}
           /\ \A u \in Thread : status[u] = "READY" <=> u \in ToSet(ready_list)
<1>1. Priorities \subseteq Int
  BY ThreadAssumption
<1>2. QED
  BY <1>1 DEF IInv, TypeOK, SchedOK, QueueOK, ReadyIn, OrderOK

(* A step that makes nobody ready, by a thread with nothing left to compare. *)
LEMMA OrderStays ==
    ASSUME OrderOK, UNCHANGED <<running, status, priority>>, halted' = "no" => halted = "no",
           pc[running] \notin {"setyield", "created"} \/ UNCHANGED <<pc, arg>>
    PROVE  OrderOK'
  BY DEF OrderOK

(* After schedule() the order holds whatever the threads are at. *)
LEMMA OrderBest ==
    ASSUME Best, UNCHANGED priority
    PROVE  OrderOK'
  BY DEF OrderOK, Best

(* semaphore_up() yields to the thread it wakes, or that has no priority    *)
(* over the caller.                                                         *)
LEMMA OrderUp ==
    ASSUME IInv, OrderOK, NEW t \in Thread, running = t, halted = "no", NEW s \in Sema,
           semaphore_up(t, s), UNCHANGED priority,
           \/ t # Idle /\ pc[t] \notin {"setyield", "created"}
           \/ /\ UNCHANGED <<pc, arg>>
              /\ ~(waiters[s] # <<>> /\ priority[WokenBy(s)] > priority[t])
    PROVE  OrderOK'
<1>1. /\ priority \in [Thread -> Int] /\ status \in [Thread -> Status]
      /\ status[running] = "RUNNING" /\ QueueOK(status, ready_list)
      /\ status[Idle] \in {"BLOCKED", "RUNNING"}
  BY OrderBefore
<1>2. CASE waiters[s] = <<>>
  <2>1. UNCHANGED <<running, status>>
    BY <1>2 DEF semaphore_up, schedVars
  <2>2. QED
    BY <2>1, OrderStays
<1>3. CASE waiters[s] # <<>>
  <2>1. Distinct(waiters[s], Thread) /\ ToSet(waiters[s]) = Asleep(s)
    BY DEF IInv, SchedOK
  <2>2. PICK w \in Asleep(s) : w = WokenBy(s)
    BY <1>1, <1>3, <2>1, SortPop DEF WokenBy
  <2>3. w \in Thread /\ status[w] = "BLOCKED" /\ w # Idle
    BY <2>2, ThreadAssumption DEF Asleep, IInv, LocalOK, Stack
  <2>4. CASE priority[w] > priority[t]
    <3>1. thread_yield(t, StatusWith(w), QueueWith(w)) /\ t # Idle
      BY <1>3, <2>2, <2>4 DEF semaphore_up
    <3>2. /\ StatusWith(w) \in [Thread -> Status]
          /\ StatusWith(w)[t] = "RUNNING"
          /\ QueueOK(StatusWith(w), QueueWith(w))
      BY <2>3, Unblocking
    <3>3. StatusWith(w)[Idle] \in {"BLOCKED", "RUNNING"}
      BY <1>1, <2>3, ThreadAssumption DEF StatusWith
    <3>4. Best
      BY <1>1, <3>1, <3>2, <3>3, YieldBest
    <3>5. QED
      BY <3>4, OrderBest
  <2>5. CASE ~(priority[w] > priority[t])
    <3>1. status' = [status EXCEPT ![w] = "READY"] /\ running' = running
      BY <1>3, <2>2, <2>5 DEF semaphore_up, StatusWith
    <3>2. priority[w] <= priority[t]
      BY <1>1, <2>3, <2>5
    <3>3. QED
      BY <1>1, <2>3, <3>1, <3>2, ThreadAssumption DEF OrderOK
  <2>6. QED
    BY <2>4, <2>5
<1>4. QED
  BY <1>2, <1>3

(* The operations of threads keep the order. *)
LEMMA ThreadOrder ==
    ASSUME IInv, FreeOK, OrderOK, NEW t \in Thread, ThreadStep(t)
    PROVE  OrderOK'
<1>1. /\ priority \in [Thread -> Int] /\ status \in [Thread -> Status]
      /\ status[running] = "RUNNING" /\ QueueOK(status, ready_list)
      /\ status[Idle] \in {"BLOCKED", "RUNNING"}
      /\ \A u \in Thread : status[u] = "READY" <=> u \in ToSet(ready_list)
  BY OrderBefore
<1>2. /\ pc \in [Thread -> Labels]
      /\ arg \in [Thread -> Thread \cup Lock \cup CondVar \cup Priorities \cup {NULL}]
      /\ ready_list \in Seq(Thread) /\ Idle \in Thread
  BY ThreadAssumption DEF IInv, TypeOK
<1>3. pc[t] # "idle" => t # Idle
  BY DEF IInv, LocalOK, Stack
<1>4. ASSUME running = t, t # Idle, thread_yield(t, status, ready_list), UNCHANGED priority
      PROVE  OrderOK'
  BY <1>1, <1>4, YieldBest, OrderBest
<1> USE DEF At, Goto, prioVars
<1>5. CASE Yield(t) \/ Tick(t)
  BY <1>3, <1>4, <1>5 DEF Yield, Tick
<1>6. CASE Exit(t)
  <2>1. running = t /\ t # Idle /\ UNCHANGED priority
    BY <1>3, <1>6 DEF Exit
  <2>2. PICK st \in [Thread -> Status] : st = [status EXCEPT ![t] = "DYING"]
    BY <1>1 DEF Status
  <2>3. ReadyIn(st) = ReadyIn(status)
    BY <1>1, <2>1, <2>2 DEF ReadyIn
  <2>4. QueueOK(st, ready_list) /\ st[Idle] \in {"BLOCKED", "RUNNING"}
    BY <1>1, <1>2, <2>1, <2>2, <2>3 DEF QueueOK
  <2>5. Schedule(st, ready_list)
    BY <1>6, <2>2 DEF Exit
  <2>6. QED
    BY <1>1, <2>1, <2>4, <2>5, DispatchBest, OrderBest
<1>7. CASE (\E p \in NewPriorities : SetPriority(t, p)) \/ AllocateTid(t, tid_lock)
  BY <1>7, OrderStays DEF SetPriority, AllocateTid, schedVars
<1>8. CASE SetBoth(t)
  BY <1>2, <1>8 DEF SetBoth, OrderOK, schedVars
<1>9. CASE SetOld(t)
  BY <1>9 DEF SetOld, FreeOK, Free, FreeLabels
<1>10. CASE SetYield(t)
  <2>1. running = t /\ pc[t] = "setyield" /\ arg[t] = priority[t] /\ t # Idle /\ UNCHANGED priority
    BY <1>3, <1>10 DEF SetYield, FreeOK, Free
  <2>2. CASE thread_yield(t, status, ready_list)
    BY <1>4, <2>1, <2>2
  <2>3. CASE /\ ready_list # <<>> => ~MustYieldTo(ready_list, arg[t])
             /\ UNCHANGED schedVars
    <3>1. \A u \in Thread : status[u] = "READY" => priority[u] <= priority[t]
      <4> SUFFICES ASSUME NEW u \in Thread, status[u] = "READY" PROVE priority[u] <= priority[t]
        OBVIOUS
      <4>1. PICK i \in DOMAIN ready_list : ready_list[i] = u
        BY <1>1 DEF ToSet
      <4>2. ready_list # <<>>
        BY <4>1
      <4>3. ~(arg[t] < priority[u])
        BY <2>3, <4>1, <4>2 DEF MustYieldTo
      <4>4. QED
        BY <1>1, <2>1, <4>3
    <3>2. QED
      BY <1>1, <2>1, <2>3, <3>1 DEF OrderOK, schedVars
  <2>4. QED
    BY <1>10, <2>2, <2>3 DEF SetYield
<1>11. ASSUME NEW c \in Thread, NEW p \in CreatePriorities, Create(t, c, p, tid_lock)
       PROVE  OrderOK'
  <2>1. /\ running = t /\ running' = t /\ pc[t] = "user" /\ c # t /\ c # Idle
        /\ status' = [status EXCEPT ![c] = "BLOCKED"] /\ priority' = [priority EXCEPT ![c] = p]
        /\ halted' = halted
    BY <1>1, <1>11 DEF Create
  <2>2. QED
    BY <1>1, <2>1 DEF OrderOK
<1>12. CASE CreateUnblock(t)
  <2>1. arg[t] \in Thread /\ status[arg[t]] = "BLOCKED" /\ pc[arg[t]] = "user"
    BY <1>12 DEF CreateUnblock, IInv, LocalOK, Params, CreateOK, Creating
  <2>2. PICK c \in Thread : c = arg[t]
    BY <2>1
  <2>3. c # Idle
    BY <1>2, <2>1, <2>2 DEF IInv, LocalOK, Stack
  <2>4. /\ running = t /\ running' = t /\ pc[t] = "unblock" /\ halted' = halted
        /\ status' = [status EXCEPT ![c] = "READY"] /\ pc' = [pc EXCEPT ![t] = "created"]
        /\ UNCHANGED <<priority, arg>>
    BY <1>12, <2>2 DEF CreateUnblock, StatusWith
  <2>5. QED
    BY <1>1, <1>2, <2>2, <2>3, <2>4 DEF OrderOK
<1>13. CASE CreateYield(t)
  <2>1. running = t /\ pc[t] = "created" /\ t # Idle /\ UNCHANGED <<priority, halted>>
    BY <1>3, <1>13 DEF CreateYield
  <2>2. arg[t] \in Thread
    BY <2>1 DEF IInv, LocalOK, Params
  <2>3. CASE thread_yield(t, status, ready_list)
    BY <1>4, <2>1, <2>3
  <2>4. CASE /\ status[arg[t]] # "DYING" => ~(priority[t] < priority[arg[t]])
             /\ UNCHANGED schedVars
    BY <1>1, <2>1, <2>2, <2>4 DEF OrderOK, schedVars
  <2>5. QED
    BY <1>13, <2>3, <2>4 DEF CreateYield
<1>14. QED
  BY <1>5, <1>6, <1>7, <1>8, <1>9, <1>10, <1>11, <1>12, <1>13 DEF ThreadStep

(* A thread that sleeps leaves the processor to the best that is ready. *)
LEMMA BlockOrder ==
    ASSUME IInv, OrderOK, NEW t \in Thread, running = t, thread_block(t), UNCHANGED priority
    PROVE  OrderOK'
<1>1. /\ priority \in [Thread -> Int] /\ status \in [Thread -> Status]
      /\ status[running] = "RUNNING" /\ QueueOK(status, ready_list)
      /\ status[Idle] \in {"BLOCKED", "RUNNING"}
  BY OrderBefore
<1>2. PICK st \in [Thread -> Status] : st = [status EXCEPT ![t] = "BLOCKED"]
  BY <1>1 DEF Status
<1>3. ReadyIn(st) = ReadyIn(status) /\ st[Idle] \in {"BLOCKED", "RUNNING"}
  BY <1>1, <1>2, ThreadAssumption DEF ReadyIn
<1>4. QueueOK(st, ready_list) /\ Schedule(st, ready_list)
  BY <1>1, <1>2, <1>3 DEF QueueOK, thread_block
<1>5. QED
  BY <1>1, <1>3, <1>4, DispatchBest, OrderBest

(* The operations of semaphores keep the order. *)
LEMMA SemaOrder ==
    ASSUME IInv, OrderOK, NEW t \in Thread, SemaStep(t)
    PROVE  OrderOK'
<1>1. IntrSema \subseteq Sema /\ ClientSema \subseteq Sema
  BY KernelAssumption DEF Sema
<1>2. pc[t] # "idle" => t # Idle
  BY DEF IInv, LocalOK, Stack
<1> USE DEF At, Goto, prioVars
<1>3. CASE (\E s \in ClientSema : Down(t, s)) \/ DownTake(t)
  BY <1>3, OrderStays DEF Down, DownTake, InDown, schedVars
<1>4. ASSUME NEW s \in ClientSema, Up(t, s) PROVE OrderOK'
  BY <1>1, <1>2, <1>4, OrderUp DEF Up
<1>5. ASSUME NEW s \in IntrSema, InterruptUp(t, s) PROVE OrderOK'
  <2>1. CASE halted' = "panic" /\ UNCHANGED schedVars
    BY <1>5, <2>1 DEF OrderOK, schedVars
  <2>2. CASE /\ semaphore_up(t, s)
             /\ ~(waiters[s] # <<>> /\ priority[WokenBy(s)] > priority[t])
    BY <1>1, <1>5, <2>2, OrderUp DEF InterruptUp
  <2>3. QED
    BY <1>5, <2>1, <2>2 DEF InterruptUp
<1>6. CASE DownBlock(t)
  BY <1>6, BlockOrder DEF DownBlock, InDown
<1>7. QED
  BY <1>3, <1>4, <1>5, <1>6 DEF SemaStep

(***************************************************************************)
(* Client code that contends for no lock always runs at the greatest       *)
(* priority of the threads that are ready: every operation that makes a    *)
(* thread ready or lowers the caller's priority yields in time, with       *)
(* interrupts and preemptions at any point of it.                          *)
(***************************************************************************)
THEOREM KernelRunsHighest ==
    ASSUME Uncontended
    PROVE  Spec => []RunsHighest
<1>1. Init => FreeOK /\ OrderOK
  <2> SUFFICES ASSUME Init PROVE FreeOK /\ OrderOK
    OBVIOUS
  <2>1. /\ running = Main /\ halted = "no" /\ priority = InitPriority
        /\ priority_old = InitPriority /\ lk = [t \in Thread |-> NULL]
        /\ sm = [t \in Thread |-> NULL] /\ holder = [l \in Lock |-> NULL]
        /\ donator = [l \in Lock |-> NULL]
        /\ pc = [t \in Thread |-> IF t = Idle THEN "idle" ELSE "user"]
    BY DEF Init, ThreadInit, LockInit
  <2>2. NULL \notin Thread /\ Idle \in Thread /\ Main \in Thread /\ Idle # Main
    BY ThreadAssumption
  <2>3. FreeOK
    BY <2>1, <2>2 DEF FreeOK, Free, FreeLabels
  <2>4. status[Idle] = "BLOCKED"
    BY <2>2 DEF Init, ThreadInit
  <2>5. ASSUME NEW u \in Thread, status[u] = "READY" PROVE priority[u] <= priority[running]
    <3>1. Contains(InitReady, u)
      BY <2>2, <2>5 DEF Init, ThreadInit
    <3>2. PICK i \in DOMAIN InitReady : InitReady[i] = u
      BY <3>1, ThreadAssumption DEF Contains
    <3>3. InitPriority[InitReady[i]] <= InitPriority[Main]
      BY ThreadAssumption
    <3>4. QED
      BY <2>1, <3>2, <3>3
  <2>6. QED
    BY <2>3, <2>4, <2>5 DEF OrderOK
<1>2. IInv /\ FreeOK /\ OrderOK /\ [Next]_vars => FreeOK' /\ OrderOK'
  <2> SUFFICES ASSUME IInv, FreeOK, OrderOK, [Next]_vars PROVE FreeOK' /\ OrderOK'
    OBVIOUS
  <2>1. ASSUME NEW t \in Thread, ThreadStep(t) PROVE FreeOK' /\ OrderOK'
    BY <2>1, ThreadFree, ThreadOrder
  <2>2. ASSUME NEW t \in Thread, SemaStep(t) PROVE FreeOK' /\ OrderOK'
    BY <2>2, SemaFree, SemaOrder
  <2>3. ASSUME NEW t \in Thread, AcquireStep(t) PROVE FreeOK' /\ OrderOK'
    <3>1. FreeOK' /\ UNCHANGED priority
      BY <2>3, AcquireFree
    <3>2. TestHolder(t) \/ SetHolder(t)
      BY <2>3 DEF AcquireStep, Uncontended, FreeOK, Free, FreeLabels, At, PushLock, SetDonator,
         Compare, SetBlocker, Donate, DonateChain
    <3>3. /\ UNCHANGED <<running, status, halted>> /\ running = t
          /\ pc[t] \in {"acquire", "holder"}
      BY <3>2 DEF TestHolder, SetHolder, At, Elsewhere, schedVars
    <3>4. QED
      BY <3>1, <3>3, OrderStays
  <2>4. ASSUME NEW t \in Thread, ReleaseStep(t) PROVE FreeOK' /\ OrderOK'
    <3>1. FreeOK' /\ UNCHANGED priority
      BY <2>4, ReleaseFree
    <3>2. ClearHolder(t) \/ Revoke(t) \/ ResetDonator(t) \/ ReleaseUp(t)
      BY <2>4 DEF ReleaseStep, FreeOK, Free, FreeLabels, At, Release, Restore, AssignPriority,
         Holds, ClientLock
    <3>3. CASE ClearHolder(t) \/ Revoke(t) \/ ResetDonator(t)
      <4>1. /\ UNCHANGED <<running, status>> /\ running = t /\ halted = "no"
            /\ pc[t] \in {"release", "revoke", "reset"}
        BY <3>3 DEF ClearHolder, Revoke, ResetDonator, At, Elsewhere, schedVars
      <4>2. QED
        BY <3>1, <4>1, OrderStays
    <3>4. CASE ReleaseUp(t)
      <4>1. running = t /\ halted = "no" /\ pc[t] = "up" /\ semaphore_up(t, lk[t])
        BY <3>4 DEF ReleaseUp, At
      <4>2. lk[t] \in Sema /\ t # Idle
        BY <4>1 DEF IInv, LocalOK, Stack, InRelease, Sema
      <4>3. QED
        BY <3>1, <4>1, <4>2, OrderUp
    <3>5. QED
      BY <3>2, <3>3, <3>4
  <2>5. ASSUME NEW t \in Thread PROVE ~CondStep(t)
    BY NoCondition
  <2>6. CASE IdleStep /\ ThreadFrame
    <3>1. /\ Idle \in Thread /\ running = Idle /\ thread_block(Idle)
          /\ UNCHANGED <<priority, priority_old, pc, lk, ret, sm, arg, holder, donator>>
      BY <2>6, ThreadAssumption DEF IdleStep, At, prioVars, lockArgs, ThreadFrame, lockVars
    <3>2. FreeOK'
      BY <3>1 DEF FreeOK, Free
    <3>3. QED
      BY <3>1, <3>2, BlockOrder
  <2>7. CASE Stuck \/ UNCHANGED vars
    <3>1. /\ UNCHANGED <<priority, priority_old, pc, lk, ret, sm, arg, holder, donator>>
          /\ UNCHANGED <<running, status, halted>>
      BY <2>7 DEF Stuck, vars, threadVars, lockVars
    <3>2. QED
      BY <3>1, OrderStays DEF FreeOK, Free
  <2>8. QED
    BY <2>1, <2>2, <2>3, <2>4, <2>5, <2>6, <2>7 DEF Next
<1>3. OrderOK => RunsHighest
  BY DEF OrderOK, RunsHighest
<1>4. QED
  BY <1>1, <1>2, <1>3, SpecIInv, PTL DEF Spec
=============================================================================
