----------------------------- MODULE MCEventLog ------------------------------
(***************************************************************************)
(* The subscription with a log of three records that all match, the second *)
(* too long for the reader: what a source misses is then a gap of one.     *)
(***************************************************************************)
EXTENDS EventLog

MCMatching == 1..3
MCTooLong == {2}
MCNone == {}
=============================================================================
