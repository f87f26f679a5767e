----------------------------- MODULE LuaState -----------------------------
(***************************************************************************)
(* The Lua state (src/scripting.cpp): one global state, which objects of   *)
(* class Lifecycle make and destroy, the search path, and bootstrap(),     *)
(* which loads config.lua into it.  Flag and path are globals too and      *)
(* outlive the state.  Its operations, for the programs of LuaHost.        *)
(***************************************************************************)
CONSTANTS
  Lifecycles,  \* the objects of class Lifecycle
  NoState      \* the null pointer

ASSUME LuaStateAssumption == NoState \notin Lifecycles

\* The C++ objects with functions in Lua and the names of these, in the table of each.
Functions ==
  [ params     |-> {"speed", "rotation", "brake"},
    shooter    |-> {"shooting", "loading", "ready", "intake", "shoot", "stop"},
    lifter     |-> {"move_up", "move_down", "stop"},
    drivetrain |-> {"drive"},
    gamepad    |-> {"raw_axis", "raw_button", "raw_button_pressed",
                    "raw_button_released", "pov"} ]

Objects == DOMAIN Functions

AllFunctions == UNION {Functions[o] : o \in Objects}

VARIABLES
  lifecycle,   \* of each: "none" yet, "alive", "gone", or "threw" from its constructor
  state,       \* the Lifecycle whose state is the open one
  boostraped,  \* the flag, as the source spells it
  searchDir,   \* whether a search path was set
  lua          \* what the open state holds

luaVars == <<lifecycle, state, boostraped, searchDir, lua>>

\* "tables" are the functions of cxx.<object> that call the object, "cached" those
\* that gamepad.lua took from its table.
FreshLua ==
  [ path   |-> FALSE, config |-> FALSE,
    tables |-> [o \in Objects |-> {}], cached |-> {} ]

LuaInit ==
  /\ lifecycle = [l \in Lifecycles |-> "none"]
  /\ state = NoState
  /\ boostraped = FALSE /\ searchDir = FALSE
  /\ lua = FreshLua

-----------------------------------------------------------------------------
destroy == state' = NoState /\ lua' = FreshLua

\* Variant the runs must reject: init() alone, which leaves a state it finds.
ShareState(l) ==
  /\ lifecycle[l] = "none"
  /\ lifecycle' = [lifecycle EXCEPT ![l] = "alive"]
  /\ IF state = NoState THEN state' = l /\ lua' = FreshLua ELSE UNCHANGED <<state, lua>>
  /\ UNCHANGED <<boostraped, searchDir>>

\* The constructor destroys the state it finds, and then throws.
Construct(l) ==
  /\ lifecycle[l] = "none"
  /\ \/ /\ state # NoState
        /\ destroy
        /\ lifecycle' = [lifecycle EXCEPT ![l] = "threw"]
     \/ /\ state = NoState
        /\ state' = l /\ lua' = FreshLua
        /\ lifecycle' = [lifecycle EXCEPT ![l] = "alive"]
  /\ UNCHANGED <<boostraped, searchDir>>

\* The destructor destroys the open state, whoever made it.
Destruct(l) ==
  /\ lifecycle[l] = "alive"
  /\ lifecycle' = [lifecycle EXCEPT ![l] = "gone"]
  /\ destroy
  /\ UNCHANGED <<boostraped, searchDir>>

\* With a path that is not empty.
set_path ==
  /\ state # NoState
  /\ searchDir' = TRUE
  /\ lua' = [lua EXCEPT !.path = TRUE]
  /\ UNCHANGED <<lifecycle, state, boostraped>>

\* Variant the runs must reject: the error of the script is not looked at.
BootstrapUnchecked(result) ==
  /\ result = TRUE
  /\ state # NoState
  /\ boostraped' = TRUE
  /\ searchDir' \in {searchDir, TRUE}
  /\ \E loads \in BOOLEAN : lua' = [lua EXCEPT !.path = searchDir', !.config = loads]
  /\ UNCHANGED <<lifecycle, state>>

\* A path is looked for when none was set, and may not be found; config.lua may not be
\* found or raise.
bootstrap(result) ==
  \/ boostraped /\ result = TRUE /\ UNCHANGED luaVars
  \/ /\ ~boostraped /\ state # NoState
     /\ searchDir' \in {searchDir, TRUE}
     /\ lua' = [lua EXCEPT !.path = @ \/ (searchDir' /\ ~searchDir), !.config = @ \/ result]
     /\ boostraped' = result
     /\ UNCHANGED <<lifecycle, state>>

\* bind(self) and bind(nullptr) of an object.
Bind(o) == lua' = [lua EXCEPT !.tables[o] = Functions[o]]

\* Variant the runs must reject: one more function of the gamepad is forgotten.
ForgetsAxis(o) ==
  IF o = "gamepad" THEN Functions[o] \ {"pov", "raw_axis"} ELSE Functions[o]

Cleared(o) == IF o = "gamepad" THEN Functions[o] \ {"pov"} ELSE Functions[o]

Unbind(o) == lua' = [lua EXCEPT !.tables[o] = @ \ Cleared(o)]

\* gamepad.lua: it is loaded once, package.loaded keeps it.
GamepadCaches == {"raw_axis", "raw_button", "raw_button_pressed", "raw_button_released"}

\* Variant the runs must reject: all the functions are cached.
RequireWhole == lua' = [lua EXCEPT !.cached = IF @ = {} THEN lua.tables["gamepad"] ELSE @]

RequireGamepad ==
  lua' = [lua EXCEPT !.cached = IF @ = {} THEN GamepadCaches \cap lua.tables["gamepad"] ELSE @]
=============================================================================
