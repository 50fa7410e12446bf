------------------------------ MODULE BlockStore ------------------------------
(***************************************************************************)
(* What callers of buffer_cache_read() and buffer_cache_write() rely on: a *)
(* store of sectors in which a read returns the value last written.        *)
(***************************************************************************)
EXTENDS Integers

CONSTANTS Sectors, Values

VARIABLES
  store,      \* the value of each sector
  got,        \* what the last read returned
  parity      \* of the number of operations, so that each is a step of its own

Init == store \in [Sectors -> Values] /\ got \in Values /\ parity = 0

Read(s) == got' = store[s] /\ UNCHANGED store
Write(s, v) == store' = [store EXCEPT ![s] = v] /\ UNCHANGED got

Next ==
  /\ parity' = 1 - parity
  /\ \E s \in Sectors :
       \/ Read(s)
       \/ \E v \in Values : Write(s, v)

Spec == Init /\ [][Next]_<<store, got, parity>>
=============================================================================
