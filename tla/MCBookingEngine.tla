-------------------------- MODULE MCBookingEngine --------------------------
(* A small instance of BookingEngine.  The event has seats 1 and 2; seat 3 *)
(* is asked for and does not exist.  The lists give requests that overlap, *)
(* one that is capped, one for the unknown seat, one with a repeated seat. *)
EXTENDS BookingEngine

CONSTANT e1

MCSeatEvent == <<e1, e1>>
MCSeatId == 1..3
MCArgs == {<<2>>, <<2, 1, 3>>, <<3>>, <<1, 1>>}

Symmetry == Permutations(Worker) \cup Permutations(User)
=============================================================================
