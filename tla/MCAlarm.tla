------------------------------- MODULE MCAlarm -------------------------------
(***************************************************************************)
(* Alarm for TLC: one nap that is due at once and one that is due later.   *)
(***************************************************************************)
EXTENDS Alarm

CONSTANTS A, B

TwoCreated == <<A, B>>

ShortNaps == {-1, 2}
=============================================================================
