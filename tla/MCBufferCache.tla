---------------------------- MODULE MCBufferCache ----------------------------
(* Instance of BufferCache for TLC.                                          *)
EXTENDS BufferCache, TLC

\* threads are interchangeable: none is named by the specification
ThreadSymmetry == Permutations(Threads)
==============================================================================
