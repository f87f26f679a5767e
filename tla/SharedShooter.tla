---------------------------- MODULE SharedShooter ----------------------------
(***************************************************************************)
(* How the autonomous routine and the Lua programs share one shooter: a    *)
(* program that runs got the shooter reset; autonomous gets it as it is    *)
(* and asks for a shot at most once, in its first period; a period of      *)
(* either, once it has begun, processes the shooter once, after everything *)
(* else; and nobody touches it otherwise.  What a shooter is does not      *)
(* matter.                                                                 *)
(***************************************************************************)
CONSTANTS
  New,         \* a shooter as it is built
  Reset(_),
  Shoot(_),
  Process(_),
  Runs(_)      \* what one run of a program may make of a shooter

VARIABLES
  user,        \* who has the shooter
  owed,        \* whether a period of theirs has begun, and the shooter its process()
  due,         \* whether autonomous has yet to ask for its shot
  shooter

sharing == <<user, owed, due, shooter>>

Init == user = "nobody" /\ owed = FALSE /\ due = FALSE /\ shooter = New

Enter == user # "dead" /\ ~owed /\ owed' = TRUE

EnterAuto ==
  /\ Enter /\ user # "auto" /\ user' = "auto"
  /\ due' \in BOOLEAN
  /\ UNCHANGED shooter

\* The program, or one that stopped before its first run.
EnterProgram ==
  /\ Enter /\ user' \in {"program", "stopped"}
  /\ due' = FALSE
  /\ shooter' = Reset(shooter)

\* A mode whose program could not be loaded.
EnterWithout ==
  /\ Enter /\ user' = "stopped"
  /\ due' = FALSE
  /\ UNCHANGED shooter

Leave ==
  /\ user # "dead" /\ user' = "nobody"
  /\ ~owed /\ UNCHANGED owed
  /\ due' = FALSE
  /\ UNCHANGED shooter

BeginPeriod ==
  /\ user \in {"auto", "program", "stopped"} /\ ~owed /\ owed' = TRUE
  /\ UNCHANGED <<user, due, shooter>>

Period == owed /\ owed' = FALSE

AutoPeriod ==
  /\ Period /\ user = "auto" /\ UNCHANGED user
  /\ shooter' = Process(IF due THEN Shoot(shooter) ELSE shooter)
  /\ due' = FALSE

\* An error in the run stops the program for good.
ProgramPeriod ==
  /\ Period /\ user = "program" /\ user' \in {"program", "stopped"}
  /\ \E s \in Runs(shooter) : shooter' = Process(s)
  /\ UNCHANGED due

\* The program does not run: it stopped, or nobody holds the gamepad.
IdlePeriod ==
  /\ Period /\ user \in {"program", "stopped"}
  /\ shooter' = Process(shooter)
  /\ UNCHANGED <<user, due>>

\* The program failed as it was cleaned up.
StopProgram ==
  /\ ~owed /\ user = "program" /\ user' = "stopped"
  /\ UNCHANGED <<owed, due, shooter>>

\* The robot's program dies in a run, and is started again.
Die ==
  /\ Period /\ user = "program" /\ user' = "dead"
  /\ shooter' \in Runs(shooter)
  /\ UNCHANGED due
Restart ==
  /\ user = "dead" /\ user' = "nobody"
  /\ owed' = FALSE /\ due' = FALSE /\ shooter' = New

Next ==
  \/ EnterAuto \/ EnterProgram \/ EnterWithout \/ Leave \/ BeginPeriod
  \/ AutoPeriod \/ ProgramPeriod \/ IdlePeriod
  \/ StopProgram \/ Die \/ Restart

Spec == Init /\ [][Next]_sharing
=============================================================================
