------------------------------ MODULE MCSpool -------------------------------
(***************************************************************************)
(* The spool on a small instance: lines of one or three bytes of which the *)
(* longer does not fit the reader's buffer, limits two records or four     *)
(* bytes apart, so that each limit bites without the other.                *)
(***************************************************************************)
EXTENDS Spool

MCSizes == {1, 2, 4}
MCRejected == {2}
MCSmallSizes == {1}
MCNone == {}
=============================================================================
