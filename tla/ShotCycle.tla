------------------------------ MODULE ShotCycle ------------------------------
(***************************************************************************)
(* What the shooter promises its clients, without its counters: a note is  *)
(* loaded until someone stops loading; a shot warms the flywheels up for   *)
(* WarmPeriods periods and then feeds the note for FeedPeriods periods,    *)
(* in that order and to the end, unless someone aborts it.  A shot starts  *)
(* only from rest, and it always ends.                                     *)
(***************************************************************************)
EXTENDS Integers

CONSTANTS WarmPeriods, FeedPeriods

VARIABLES
  phase,  \* what the shooter is doing
  left    \* periods left of the warm-up or of the feed, 0 elsewhere

cycle == <<phase, left>>

Init == phase = "rest" /\ left = 0

Load  == phase = "rest" /\ phase' = "load" /\ left' = 0
Fire  == phase = "rest" /\ phase' = "warm" /\ left' = WarmPeriods
Abort == phase # "rest" /\ phase' = "rest" /\ left' = 0

Count    == phase \in {"warm", "feed"} /\ left > 1 /\ left' = left - 1 /\ UNCHANGED phase
Feed     == phase = "warm" /\ left = 1 /\ phase' = "feed" /\ left' = FeedPeriods
Complete == phase = "feed" /\ left = 1 /\ phase' = "rest" /\ left' = 0

Period == Count \/ Feed \/ Complete
Next   == Load \/ Fire \/ Abort \/ Period

Safety == Init /\ [][Next]_cycle
Spec   == Safety /\ WF_cycle(Period)
=============================================================================
