----------------------------- MODULE MCRobots -----------------------------
(* Two robots, of which one reconnects more often than the other.          *)
EXTENDS Robots
=============================================================================
