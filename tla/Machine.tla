------------------------------- MODULE Machine -------------------------------
(***************************************************************************)
(* The parts of the Pintos machine of Lab 3 that are checked on their own: *)
(* the console's input and output, the disks, the allocators, the hash     *)
(* tables, the address spaces of processes, the round-robin kernel threads *)
(* and the C library.  A behaviour exercises one of them (unit) while the  *)
(* others stay in their first state, so that what one part calls of        *)
(* another is modelled where it is used.                                   *)
(***************************************************************************)
EXTENDS Console, Disk, Heap, HashTable, AddressSpaces, RoundRobin, Library

VARIABLE unit      \* the part that is exercised

vars == <<unit, consoleVars, diskVars, heapVars, hashVars, spaceVars, threadVars, libcall>>

Init ==
    /\ unit \in {"console", "disk", "heap", "hash", "spaces", "threads", "library"}
    /\ ConsoleInit /\ HeapInit /\ HashInit /\ SpaceInit /\ RoundRobinInit /\ LibraryInit
    /\ DiskInit /\ (unit # "disk" => drive = CHOOSE d \in Drives : TRUE)
    /\ unit # "spaces" => pools = CHOOSE n \in PoolSizes : TRUE

Next ==
    \/ /\ unit = "console" /\ ConsoleNext
       /\ UNCHANGED <<unit, diskVars, heapVars, hashVars, spaceVars, threadVars, libcall>>
    \/ /\ unit = "disk" /\ DiskNext
       /\ UNCHANGED <<unit, consoleVars, heapVars, hashVars, spaceVars, threadVars, libcall>>
    \/ /\ unit = "heap" /\ HeapNext
       /\ UNCHANGED <<unit, consoleVars, diskVars, hashVars, spaceVars, threadVars, libcall>>
    \/ /\ unit = "hash" /\ HashNext
       /\ UNCHANGED <<unit, consoleVars, diskVars, heapVars, spaceVars, threadVars, libcall>>
    \/ /\ unit = "spaces" /\ SpaceNext
       /\ UNCHANGED <<unit, consoleVars, diskVars, heapVars, hashVars, threadVars, libcall>>
    \/ /\ unit = "threads" /\ RoundRobinNext
       /\ UNCHANGED <<unit, consoleVars, diskVars, heapVars, hashVars, spaceVars, libcall>>
    \/ /\ unit = "library" /\ LibraryNext
       /\ UNCHANGED <<unit, consoleVars, diskVars, heapVars, hashVars, spaceVars, threadVars>>

Spec == Init /\ [][Next]_vars
=============================================================================
