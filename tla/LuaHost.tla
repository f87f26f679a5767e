------------------------------ MODULE LuaHost ------------------------------
(***************************************************************************)
(* The life of a process that hosts Lua: the robot program (src/main.cpp)  *)
(* and the unit tests (test/main.cpp), from their static Lifecycle to its  *)
(* destruction, with the members of RobotMain, the functions Lua has of    *)
(* them (src/bindings.cpp) and the references an Engine has into Lua; and, *)
(* for the promises of scripting.hpp, a client that calls its functions    *)
(* in any order.                                                           *)
(***************************************************************************)
EXTENDS LuaState, Sequences, Integers

CONSTANTS
  Programs,  \* the programs: some of "firmware", "tests", "client"
  Static     \* the static Lifecycle of firmware and tests

ASSUME LuaHostAssumption == Static \in Lifecycles

VARIABLES
  program,   \* which one runs
  pc,        \* where it is
  built,     \* how many of the Members live
  binding,   \* the position in BindOrder, while binding and releasing
  engine     \* the state the engine's references belong to

vars == <<luaVars, program, pc, built, binding, engine>>

\* The members of RobotMain that matter here in the order of their declaration.
Members   == <<"engine", "params", "gamepad", "drivetrain", "lifter", "shooter">>
BindOrder == <<"params", "shooter", "lifter", "drivetrain", "gamepad">>

Living == {Members[i] : i \in 1 .. built}

Init ==
  /\ LuaInit
  /\ program \in Programs
  /\ pc = IF program = "client" THEN "client" ELSE "start"
  /\ built = 0 /\ binding = 1 /\ engine = NoState

-----------------------------------------------------------------------------
(* Before the robot.                                                       *)

StaticInit ==
  /\ pc = "start"
  /\ Construct(Static)
  /\ pc' = IF program = "tests" THEN "path" ELSE "boot"
  /\ UNCHANGED <<program, built, binding, engine>>

SetPath ==
  /\ pc = "path"
  /\ set_path
  /\ pc' = "boot"
  /\ UNCHANGED <<program, built, binding, engine>>

\* main() throws when it fails.
Boot ==
  /\ pc = "boot"
  /\ \E result \in BOOLEAN : bootstrap(result) /\ pc' = IF result THEN "members" ELSE "failed"
  /\ UNCHANGED <<program, built, binding, engine>>

-----------------------------------------------------------------------------
(* RobotMain.                                                              *)

\* The configuration is read by the constructors.
BuildMember ==
  /\ pc = "members" /\ built < Len(Members)
  /\ built' = built + 1
  /\ pc' = IF built' = Len(Members) THEN "bind" ELSE pc
  /\ UNCHANGED <<luaVars, program, binding, engine>>

\* A sol::error in the constructor of a member, which the tests catch: the members
\* built so far are destroyed, without the body of ~RobotMain().
MemberThrows ==
  /\ pc = "members" /\ built \in 2 .. Len(Members) - 1
  /\ pc' = IF program = "tests" THEN "destroy" ELSE "failed"
  /\ UNCHANGED <<luaVars, program, built, binding, engine>>

BindMember ==
  /\ pc = "bind"
  /\ Bind(BindOrder[binding])
  /\ IF binding = Len(BindOrder)
     THEN pc' = "init" /\ binding' = 1
     ELSE UNCHANGED pc /\ binding' = binding + 1
  /\ UNCHANGED <<lifecycle, state, boostraped, searchDir, program, built, engine>>

\* When it throws, the tests have not got hold of the robot yet and leak it.
RobotInit ==
  /\ pc = "init"
  /\ pc' \in {"run", IF program = "tests" THEN "leaked" ELSE "failed"}
  /\ UNCHANGED <<luaVars, program, built, binding, engine>>

\* A mode loads its program, or a test requires the modules; either may fail early.
LoadEngine ==
  /\ pc = "run"
  /\ RequireGamepad \/ UNCHANGED lua
  /\ engine' \in {engine, state}
  /\ UNCHANGED <<lifecycle, state, boostraped, searchDir, program, pc, built, binding>>

\* Variant the runs must reject: the robot is never destroyed, its Lifecycle is.
ExitWithoutRobot ==
  /\ pc = "run"
  /\ pc' = "statics"
  /\ UNCHANGED <<luaVars, program, built, binding, engine>>

\* ~RobotMain() begins: engine.reset().
Exit ==
  /\ pc = "run"
  /\ pc' = "release"
  /\ engine' = NoState
  /\ UNCHANGED <<luaVars, program, built, binding>>

ReleaseMember ==
  /\ pc = "release"
  /\ Unbind(BindOrder[binding])
  /\ IF binding = Len(BindOrder)
     THEN pc' = "destroy" /\ binding' = 1
     ELSE UNCHANGED pc /\ binding' = binding + 1
  /\ UNCHANGED <<lifecycle, state, boostraped, searchDir, program, built, engine>>

DestroyMember ==
  /\ pc = "destroy"
  /\ built' = built - 1
  /\ pc' = IF built' = 0 THEN "statics" ELSE pc
  /\ UNCHANGED <<luaVars, program, binding, engine>>

\* A leaked robot stays where it is.
StaticExit ==
  /\ pc \in {"statics", "leaked"}
  /\ Destruct(Static)
  /\ pc' = IF pc = "leaked" THEN pc ELSE "done"
  /\ UNCHANGED <<program, built, binding, engine>>

-----------------------------------------------------------------------------
ClientCalls ==
  /\ pc = "client"
  /\ \/ \E l \in Lifecycles : Construct(l) \/ Destruct(l)
     \/ set_path
     \/ \E result \in BOOLEAN : bootstrap(result)
  /\ UNCHANGED <<program, pc, built, binding, engine>>

Next ==
  \/ StaticInit \/ SetPath \/ Boot
  \/ BuildMember \/ MemberThrows \/ BindMember \/ RobotInit
  \/ LoadEngine \/ Exit \/ ReleaseMember \/ DestroyMember
  \/ StaticExit
  \/ ClientCalls

Spec == Init /\ [][Next]_vars

-----------------------------------------------------------------------------
\* Every variable has its type; Lua has no more of an object's functions than were
\* bound, and gamepad.lua caches the four it names.
TypeOK ==
  /\ lifecycle \in [Lifecycles -> {"none", "alive", "gone", "threw"}]
  /\ state \in Lifecycles \cup {NoState} /\ engine \in Lifecycles \cup {NoState}
  /\ boostraped \in BOOLEAN /\ searchDir \in BOOLEAN
  /\ lua \in [ path : BOOLEAN, config : BOOLEAN, cached : SUBSET GamepadCaches,
               tables : [Objects -> SUBSET AllFunctions] ]
  /\ \A o \in Objects : lua.tables[o] \subseteq Functions[o]
  /\ program \in Programs
  /\ pc \in {"client", "start", "path", "boot", "members", "bind", "init", "run",
             "release", "destroy", "statics", "leaked", "done", "failed"}
  /\ built \in 0 .. Len(Members) /\ binding \in 1 .. Len(BindOrder)

\* The functions a Lua program can reach that call the object.
Reaches(o) == lua.tables[o] \cup (IF o = "gamepad" THEN lua.cached ELSE {})

\* "Release instances from lua" (main.cpp:225), as far as it is done: in every way a
\* process ends, no table in Lua has a function that calls an object that is not there,
\* but for the gamepad's pov; and gamepad.lua has references to a gamepad that is not
\* there only where the destructor released one that had been bound, which left pov.
LuaReachesLiving ==
  /\ \A o \in Objects \ Living :
       lua.tables[o] \subseteq (IF o = "gamepad" THEN {"pov"} ELSE {})
  /\ "gamepad" \notin Living /\ lua.cached # {} => lua.tables["gamepad"] = {"pov"}

\* The robot of the tests whose RobotInit() threw, after its Lua state was closed: no
\* destructor of a member runs any more.
OutlivesState == pc = "leaked" /\ lifecycle[Static] = "gone"

\* "Our lua engine must exist before and after the robot's ctor and dtor"
\* (main.cpp:562): while any member of RobotMain lives, and before the first and after
\* the last one, the state is there, with the configuration, and takes modules from the
\* directory the programs are loaded from.  The one exception is a leaked robot.
StateSpansRobot ==
  (Living # {} \/ pc \in {"members", "statics"}) /\ ~OutlivesState
    => state = Static /\ lua.config /\ (searchDir => lua.path)

\* An engine's references are released before the state they point into is closed, in
\* every way a process ends.
EngineInOpenState == engine # NoState => engine = state

\* No state is left behind: the open one's Lifecycle lives, however many were made.
StateHasOwner == state # NoState => lifecycle[state] = "alive"

\* As long as no Lifecycle was made beside another one, each has its state for as long
\* as it lives.
LifecycleHasState ==
  (\A l \in Lifecycles : lifecycle[l] # "threw")
    => \A l \in Lifecycles : lifecycle[l] = "alive" => state = l

\* In whatever order Lifecycles are made and destroyed, a state and its owner keep each
\* other.
OwnerHasState == StateHasOwner /\ LifecycleHasState

-----------------------------------------------------------------------------
(* What a comment says and the code does not do.                           *)

\* "Release instances from lua" (main.cpp:225), after the destructor of RobotMain.
Released == \A o \in Objects \ Living : Reaches(o) = {}
=============================================================================
