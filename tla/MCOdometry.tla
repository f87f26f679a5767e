----------------------------- MODULE MCOdometry -----------------------------
(***************************************************************************)
(* Start poses for TLC: the shipped trajectories all start at rotation 0;  *)
(* a second one starts somewhere else and faces another way.               *)
(***************************************************************************)
EXTENDS Odometry

ShippedPoses == {[x |-> 0, y |-> 0, rot |-> 0]}
TwoPoses     == ShippedPoses \cup {[x |-> 1, y |-> 0, rot |-> 1]}
=============================================================================
