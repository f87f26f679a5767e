------------------------------ MODULE MCDrive ------------------------------
(* The sets of the runs of Drive. *)
EXTENDS Drive

\* One end of the stick, the edge of the dead zone and the first value beyond it.
EdgeAxes == {-10, 1, 2}

AutoForward == {0, 4000}
=============================================================================
