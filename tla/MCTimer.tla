------------------------------ MODULE MCTimer ------------------------------
(* A second is four microseconds long and counts two ticks; 2^32 is 64.     *)
EXTENDS Timer
=============================================================================
