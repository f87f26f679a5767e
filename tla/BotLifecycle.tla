---------------------------- MODULE BotLifecycle ----------------------------
(***************************************************************************)
(* What the host promises a Lua program (the descriptor at the end of      *)
(* robot/teleop.bot, the methods of src/engine.hpp): the program runs only *)
(* after it was prepared, never after it failed and never after it was     *)
(* cleaned up, and a working program is cleaned up before another one      *)
(* takes its place.                                                        *)
(***************************************************************************)
VARIABLE life

Init == life = "none"

\* Another program is loaded, initialised and prepared.
Install == life \in {"none", "stopped", "broken"} /\ life' \in {"ready", "broken"}

Work   == life \in {"ready", "running"} /\ life' \in {"running", "broken"}
Finish == life \in {"ready", "running"} /\ life' \in {"stopped", "broken"}

\* The process of the robot dies in the program's run function.
Lost == life = "running" /\ life' = "none"

Next == Install \/ Work \/ Finish \/ Lost

Spec == Init /\ [][Next]_life
=============================================================================
