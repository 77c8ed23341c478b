---------------------------- MODULE MCGateGame ----------------------------
(* Three clients for each gate.  The number 256, of two bytes, is read as 16. *)
EXTENDS GateGame, TLC

Collide == <<16, 17, 256>>
Symmetry == Permutations(Routers)
=============================================================================
