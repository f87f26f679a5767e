----------------------------- MODULE AutoRoutine -----------------------------
(***************************************************************************)
(* What an autonomous period does: a shot if one is due, then the path,    *)
(* then the turn, then standing still, in that order, each stage once, and *)
(* all of them if the period is long enough.                               *)
(***************************************************************************)
VARIABLE stage

Init == stage = "off"

\* A shot that another mode left unfinished goes on.
Begin == stage = "off" /\ stage' \in {"armed", "shooting"}
Leave == stage # "off" /\ stage' = "off"

Fire  == stage = "armed" /\ stage' = "shooting"
Go    == stage \in {"armed", "shooting"} /\ stage' = "path"
Turn  == stage = "path" /\ stage' = "spin"
Finish == stage = "spin" /\ stage' = "done"

Advance == Fire \/ Go \/ Turn \/ Finish
Next == Begin \/ Leave \/ Advance

Safety == Init /\ [][Next]_stage
Spec == Safety /\ WF_stage(Advance)
=============================================================================
