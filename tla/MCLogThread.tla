---------------------------- MODULE MCLogThread ----------------------------
(* TLC instances of LogThread; the .cfg files give the bounds.             *)
EXTENDS LogThread
=============================================================================
