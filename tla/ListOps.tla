------------------------------- MODULE ListOps -------------------------------
(***************************************************************************)
(* The operations of lib/kernel/list.c that the kernel's scheduling and    *)
(* synchronization code relies on.  A list of list_elem is a sequence of   *)
(* the structures the elements are embedded in; list_push_back is Append,  *)
(* list_pop_back is Front/Last, and the two operations whose exact result  *)
(* matters to the scheduler are defined here.                              *)
(***************************************************************************)
EXTENDS Integers, Sequences, FiniteSets, SequencesExt

(* list_push_front() *)
PushFront(s, e) == <<e>> \o s

(***************************************************************************)
(* list_sort() is a natural merge sort, which is stable.  The place of     *)
(* element i in the result is the number of elements that precede it: the  *)
(* ones with a smaller key and, among equal keys, the ones before it.      *)
(* key is the function that the list_less_func compares.                   *)
(* The merge itself is translated in Library, whose LibraryRight compares  *)
(* it with this operator.                                                  *)
(***************************************************************************)
(* variant: a merge that takes the later of two equal elements first *)
PrecedesReversingTies(s, key, j, i) ==
    \/ key[s[j]] < key[s[i]]
    \/ key[s[j]] = key[s[i]] /\ j >= i

Precedes(s, key, j, i) ==
    \/ key[s[j]] < key[s[i]]
    \/ key[s[j]] = key[s[i]] /\ j <= i

Place(s, key, i) == Cardinality({j \in DOMAIN s : Precedes(s, key, j, i)})

list_sort(s, key) ==
    [p \in DOMAIN s |-> s[CHOOSE i \in DOMAIN s : Place(s, key, i) = p]]

=============================================================================
