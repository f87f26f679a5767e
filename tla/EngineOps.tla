----------------------------- MODULE EngineOps -----------------------------
(***************************************************************************)
(* The host's view of one Lua program: class Engine (src/engine.hpp) as a  *)
(* value, its methods as operators.  Nothing in the class enforces the     *)
(* order of the calls; stage records the method called last, so that the   *)
(* order RobotMain really uses can be stated and checked, and raised the   *)
(* methods in which the program raised an error, which _error forgets when *)
(* the next method is called.                                              *)
(***************************************************************************)
CONSTANTS
  Bots,    \* the program files in the deploy directory
  Faults   \* what may go wrong: a subset of FaultKinds

(***************************************************************************)
(* "load": the file is missing, does not parse or returns no table.        *)
(* "init" .. "cleanup": that function of the program raises a Lua error.   *)
(* "trajectory": the entry of config.lua for the chosen start is malformed *)
(* (used by RobotMain only).                                               *)
(***************************************************************************)
FaultKinds == {"load", "init", "prepare", "run", "cleanup", "trajectory"}

Stages == {"none", "new", "init", "prepare", "run", "cleanup"}

EngineType ==
  [bot : Bots \cup {"none"}, stage : Stages, err : BOOLEAN, raised : SUBSET FaultKinds]

\* The null EnginePtr of a RobotMain that has loaded nothing yet.
NoEngine == [bot |-> "none", stage |-> "none", err |-> FALSE, raised |-> {}]

\* How a step of a program may turn out: TRUE when it works.
Outcomes(kind) == IF kind \in Faults THEN BOOLEAN ELSE {TRUE}

\* instantiate() always returns an engine; a failure is kept in its _error.
Instantiate(bot, ok) ==
  [bot |-> bot, stage |-> "new", err |-> ~ok, raised |-> IF ok THEN {} ELSE {"load"}]

Raised(e, kind, ok) == IF ok THEN e.raised ELSE e.raised \cup {kind}

\* PMETHOD: clear the error, call the function if the table has it, keep what
\* it raised.  The method returns ~err.
Call(e, method, ok) ==
  [e EXCEPT !.stage = method, !.err = ~ok, !.raised = Raised(e, method, ok)]

\* run(): no error handling, _error is not touched.
Run(e, ok) == [e EXCEPT !.stage = "run", !.raised = Raised(e, "run", ok)]
=============================================================================
