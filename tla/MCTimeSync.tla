------------------------------ MODULE MCTimeSync ------------------------------
(* A small instance of the time synchronisation. *)
EXTENDS TimeSync

SomeOffsets    == {-9, 0, 9}
SomeEstimates  == {-9, -4, 0, 2, 9}
SomeDelays     == {0, 1, 3, 12}
SomeRoundTrips == {-3, 2, 4}
===============================================================================
