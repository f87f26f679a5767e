--------------------------- MODULE LuaHostProofs ---------------------------
(***************************************************************************)
(* Theorems about LuaHost, for every set of Lifecycle objects and of       *)
(* programs.                                                               *)
(***************************************************************************)
EXTENDS LuaHost, TLAPS

LuaData == [ path : BOOLEAN, config : BOOLEAN, cached : SUBSET GamepadCaches,
             tables : [Objects -> SUBSET AllFunctions] ]

RobotAt == {"members", "bind", "init", "run", "release", "destroy", "statics"}

\* What StateSpansRobot promises a robot.
Ready == state = Static /\ lua.config /\ (searchDir => lua.path)

\* Where a program is tells what it has: the state, the configuration, an engine.  A
\* program that failed, or leaked its robot, has what it had when it did.
Whereabouts ==
  /\ pc = "start" => state = NoState /\ lifecycle[Static] = "none"
                   /\ ~boostraped /\ ~searchDir
  /\ pc \in {"path", "boot"} => state = Static /\ lifecycle[Static] = "alive" /\ ~boostraped
                                /\ (searchDir => lua.path)
  /\ pc \in RobotAt => Ready /\ lifecycle[Static] = "alive"
  /\ pc = "leaked" => OutlivesState \/ Ready
  /\ pc = "failed" => built = 0 \/ Ready
  /\ pc \in {"client", "start", "path", "boot", "statics", "done"} => built = 0
  /\ engine # NoState => pc = "run" /\ engine = Static

\* What a destroyed object may leave in its table.
Leaves(o)  == IF o = "gamepad" THEN {"pov"} ELSE {}
AllGone    == \A o \in Objects : lua.tables[o] \subseteq Leaves(o)
NothingYet == (\A o \in Objects : lua.tables[o] = {}) /\ lua.cached = {}

\* The functions that reach an object: none before it lives, all while it does, and
\* those that are forgotten from when its position in the destructor was passed.
Reached ==
  /\ pc \in {"client", "start", "path", "boot", "members"} => NothingYet
  /\ pc \in {"bind", "init", "run", "release", "leaked"} => built = Len(Members)
  /\ pc = "release" => \A i \in 1 .. binding - 1 :
       lua.tables[BindOrder[i]] \subseteq Functions[BindOrder[i]] \ Cleared(BindOrder[i])
  /\ pc = "destroy" => AllGone /\ built # 0
  /\ pc \in {"statics", "done", "failed"} => built = Len(Members) \/ AllGone
  /\ pc \in {"init", "run"} => binding = 1

HostInv == TypeOK /\ StateHasOwner /\ LifecycleHasState /\ Whereabouts /\ Reached

-----------------------------------------------------------------------------
(* The operations on the Lua state.                                        *)

LEMMA FreshType ==
  /\ FreshLua \in LuaData
  /\ \A o \in Objects : FreshLua.tables[o] = {}
  /\ FreshLua.cached = {}
BY DEF FreshLua, LuaData

LEMMA Lengths == Len(Members) = 6 /\ Len(BindOrder) = 5
BY DEF Members, BindOrder

LEMMA ObjectNames == Objects = {"params", "shooter", "lifter", "drivetrain", "gamepad"}
BY DEF Objects, Functions

LEMMA FunctionNames ==
  ASSUME NEW o \in Objects
  PROVE  Functions[o] \in SUBSET AllFunctions
BY DEF AllFunctions

LEMMA AllLiving == built = 6 => Objects \subseteq Living
<1>. SUFFICES ASSUME built = 6, NEW o \in Objects PROVE o \in Living OBVIOUS
<1>1. PICK i \in 2 .. 6 : o = Members[i]
  <2>1. /\ Members[2] = "params" /\ Members[3] = "gamepad" /\ Members[4] = "drivetrain"
        /\ Members[5] = "lifter" /\ Members[6] = "shooter"
    BY DEF Members
  <2>2. 2 \in 2 .. 6 /\ 3 \in 2 .. 6 /\ 4 \in 2 .. 6 /\ 5 \in 2 .. 6 /\ 6 \in 2 .. 6 OBVIOUS
  <2>3. CASE o = "params" BY <2>1, <2>2, <2>3
  <2>4. CASE o = "gamepad" BY <2>1, <2>2, <2>4
  <2>5. CASE o = "drivetrain" BY <2>1, <2>2, <2>5
  <2>6. CASE o = "lifter" BY <2>1, <2>2, <2>6
  <2>7. CASE o = "shooter" BY <2>1, <2>2, <2>7
  <2>. QED BY <2>3, <2>4, <2>5, <2>6, <2>7, ObjectNames
<1>2. i \in 1 .. built BY <1>1
<1>. QED BY <1>1, <1>2 DEF Living

\* Every object has its position in the order of binding.
LEMMA BindOrderCovers ==
  /\ \A i \in 1 .. 5 : BindOrder[i] \in Objects
  /\ \A o \in Objects : \E i \in 1 .. 5 : o = BindOrder[i]
<1>1. /\ BindOrder[1] = "params" /\ BindOrder[2] = "shooter" /\ BindOrder[3] = "lifter"
      /\ BindOrder[4] = "drivetrain" /\ BindOrder[5] = "gamepad"
  BY DEF BindOrder
<1>2. \A i \in 1 .. 5 : i = 1 \/ i = 2 \/ i = 3 \/ i = 4 \/ i = 5 OBVIOUS
<1>3. 1 \in 1 .. 5 /\ 2 \in 1 .. 5 /\ 3 \in 1 .. 5 /\ 4 \in 1 .. 5 /\ 5 \in 1 .. 5 OBVIOUS
<1>4. \A i \in 1 .. 5 : BindOrder[i] \in Objects BY <1>1, <1>2, ObjectNames
<1>5. ASSUME NEW o \in Objects PROVE \E i \in 1 .. 5 : o = BindOrder[i]
  <2>1. CASE o = "params" BY <1>1, <1>3, <2>1
  <2>2. CASE o = "shooter" BY <1>1, <1>3, <2>2
  <2>3. CASE o = "lifter" BY <1>1, <1>3, <2>3
  <2>4. CASE o = "drivetrain" BY <1>1, <1>3, <2>4
  <2>5. CASE o = "gamepad" BY <1>1, <1>3, <2>5
  <2>. QED BY <2>1, <2>2, <2>3, <2>4, <2>5, ObjectNames
<1>. QED BY <1>4, <1>5

LEMMA ClearedLeaves ==
  ASSUME NEW o \in Objects
  PROVE  Functions[o] \ Cleared(o) \subseteq Leaves(o)
BY DEF Cleared, Leaves

LEMMA NothingIsGone == TypeOK /\ NothingYet => AllGone
BY DEF NothingYet, AllGone, Leaves

\* A Lifecycle that is made or destroyed keeps the promises on the state's owner.
LEMMA ConstructOwner ==
  ASSUME TypeOK, StateHasOwner, LifecycleHasState, NEW l \in Lifecycles, Construct(l)
  PROVE  /\ lifecycle' \in [Lifecycles -> {"none", "alive", "gone", "threw"}]
         /\ state' \in Lifecycles \cup {NoState} /\ lua' = FreshLua
         /\ StateHasOwner' /\ LifecycleHasState'
<1>. USE DEF TypeOK
<1>1. CASE state # NoState
  <2>1. state' = NoState /\ lua' = FreshLua /\ lifecycle' = [lifecycle EXCEPT ![l] = "threw"]
    BY <1>1 DEF Construct, destroy
  <2>2. lifecycle'[l] = "threw" BY <2>1
  <2>. QED BY <2>1, <2>2 DEF StateHasOwner, LifecycleHasState
<1>2. CASE state = NoState
  <2>1. state' = l /\ lua' = FreshLua /\ lifecycle' = [lifecycle EXCEPT ![l] = "alive"]
    BY <1>2 DEF Construct
  <2>2. lifecycle'[l] = "alive" /\ \A o \in Lifecycles \ {l} : lifecycle'[o] = lifecycle[o]
    BY <2>1
  <2>3. lifecycle[l] = "none" BY DEF Construct
  <2>4. LifecycleHasState'
    <3>. SUFFICES ASSUME \A o \in Lifecycles : lifecycle'[o] # "threw",
                         NEW o \in Lifecycles, lifecycle'[o] = "alive", o # l
                  PROVE  FALSE
      BY <2>1 DEF LifecycleHasState
    <3>1. \A p \in Lifecycles : lifecycle[p] # "threw" BY <2>2, <2>3
    <3>2. state = o BY <2>2, <3>1 DEF LifecycleHasState
    <3>. QED BY <1>2, <3>2, LuaStateAssumption
  <2>. QED BY <2>1, <2>2, <2>4 DEF StateHasOwner
<1>. QED BY <1>1, <1>2

LEMMA DestructOwner ==
  ASSUME TypeOK, StateHasOwner, LifecycleHasState, NEW l \in Lifecycles, Destruct(l)
  PROVE  /\ lifecycle' \in [Lifecycles -> {"none", "alive", "gone", "threw"}]
         /\ state' = NoState /\ lua' = FreshLua
         /\ StateHasOwner' /\ LifecycleHasState'
<1>. USE DEF TypeOK
<1>1. state' = NoState /\ lua' = FreshLua /\ lifecycle' = [lifecycle EXCEPT ![l] = "gone"]
  BY DEF Destruct, destroy
<1>2. lifecycle'[l] = "gone" /\ \A o \in Lifecycles \ {l} : lifecycle'[o] = lifecycle[o]
  BY <1>1
<1>3. lifecycle[l] = "alive" BY DEF Destruct
<1>4. LifecycleHasState'
  <2>. SUFFICES ASSUME \A o \in Lifecycles : lifecycle'[o] # "threw",
                       NEW o \in Lifecycles, lifecycle'[o] = "alive"
                PROVE  FALSE
    BY DEF LifecycleHasState
  <2>1. \A p \in Lifecycles : lifecycle[p] # "threw" BY <1>2, <1>3
  <2>2. o # l /\ lifecycle[o] = "alive" BY <1>2
  <2>3. state = o /\ state = l BY <1>3, <2>1, <2>2 DEF LifecycleHasState
  <2>. QED BY <2>2, <2>3
<1>. QED BY <1>1, <1>4 DEF StateHasOwner

\* What is left alone stays true.
LEMMA OwnerUnchanged ==
  ASSUME StateHasOwner, LifecycleHasState, UNCHANGED <<lifecycle, state>>
  PROVE  StateHasOwner' /\ LifecycleHasState'
BY DEF StateHasOwner, LifecycleHasState

LEMMA SetPathType ==
  ASSUME TypeOK, set_path
  PROVE  /\ lua' \in LuaData /\ lua'.path /\ lua'.tables = lua.tables
         /\ lua'.cached = lua.cached /\ lua'.config = lua.config
         /\ searchDir' = TRUE
BY DEF TypeOK, LuaData, set_path

LEMMA BootstrapType ==
  ASSUME TypeOK, NEW result \in BOOLEAN, bootstrap(result)
  PROVE  /\ lua' \in LuaData /\ lua'.tables = lua.tables /\ lua'.cached = lua.cached
         /\ boostraped' \in BOOLEAN /\ searchDir' \in BOOLEAN
         /\ UNCHANGED <<lifecycle, state>>
         /\ ~boostraped /\ result => lua'.config
         /\ (searchDir => lua.path) => (searchDir' => lua'.path)
<1>1. CASE boostraped /\ result = TRUE /\ UNCHANGED luaVars
  BY <1>1 DEF TypeOK, LuaData, luaVars
<1>2. CASE /\ ~boostraped /\ state # NoState
           /\ searchDir' \in {searchDir, TRUE}
           /\ lua' = [lua EXCEPT !.path = @ \/ (searchDir' /\ ~searchDir),
                                 !.config = @ \/ result]
           /\ boostraped' = result
           /\ UNCHANGED <<lifecycle, state>>
  <2>1. lua \in LuaData /\ searchDir \in BOOLEAN BY DEF TypeOK, LuaData
  <2>2. searchDir' \in BOOLEAN BY <1>2, <2>1
  <2>3. /\ lua'.path = (lua.path \/ (searchDir' /\ ~searchDir))
        /\ lua'.config = (lua.config \/ result)
        /\ lua'.tables = lua.tables /\ lua'.cached = lua.cached
        /\ lua' = [path |-> lua'.path, config |-> lua'.config, cached |-> lua.cached,
                   tables |-> lua.tables]
    BY <1>2, <2>1 DEF LuaData
  <2>4. lua'.path \in BOOLEAN /\ lua'.config \in BOOLEAN BY <2>3
  <2>5. lua' \in LuaData BY <2>1, <2>3, <2>4 DEF LuaData
  <2>. QED BY <1>2, <2>2, <2>3, <2>5
<1>. QED BY <1>1, <1>2 DEF bootstrap

-----------------------------------------------------------------------------
(* The inductive invariant.                                                *)

LEMMA InitHostInv == Init => HostInv
<1>. SUFFICES ASSUME Init PROVE HostInv OBVIOUS
<1>. USE DEF Init, LuaInit
<1>1. TypeOK
  <2>1. lua \in LuaData /\ \A o \in Objects : lua.tables[o] \subseteq Functions[o]
    BY FreshType
  <2>2. built \in 0 .. Len(Members) /\ binding \in 1 .. Len(BindOrder) BY Lengths
  <2>. QED BY <2>1, <2>2 DEF TypeOK, LuaData
<1>2. StateHasOwner /\ LifecycleHasState BY DEF StateHasOwner, LifecycleHasState
<1>3. pc \in {"client", "start"} OBVIOUS
<1>4. Whereabouts BY <1>3, LuaHostAssumption DEF Whereabouts, RobotAt, Ready
<1>5. NothingYet BY FreshType DEF NothingYet
<1>6. Reached BY <1>3, <1>5 DEF Reached
<1>. QED BY <1>1, <1>2, <1>4, <1>6 DEF HostInv

LEMMA StaticInitStep == HostInv /\ StaticInit => HostInv'
<1>. SUFFICES ASSUME HostInv, StaticInit PROVE HostInv' OBVIOUS
<1>. USE DEF StaticInit
<1>1. TypeOK /\ StateHasOwner /\ LifecycleHasState BY DEF HostInv
<1>2. Static \in Lifecycles BY LuaHostAssumption
<1>3. /\ lifecycle' \in [Lifecycles -> {"none", "alive", "gone", "threw"}]
      /\ state' \in Lifecycles \cup {NoState} /\ lua' = FreshLua
      /\ StateHasOwner' /\ LifecycleHasState'
  BY <1>1, <1>2, ConstructOwner
<1>4. state = NoState /\ ~boostraped /\ ~searchDir /\ engine = NoState
  BY DEF HostInv, Whereabouts
<1>5. state' = Static /\ lifecycle'[Static] = "alive" /\ UNCHANGED <<boostraped, searchDir>>
  BY <1>1, <1>2, <1>4 DEF Construct, TypeOK
<1>6. pc' \in {"path", "boot"} /\ UNCHANGED <<program, built, binding, engine>> OBVIOUS
<1>7. TypeOK'
  <2>1. lua' \in LuaData /\ \A o \in Objects : lua'.tables[o] \subseteq Functions[o]
    BY <1>3, FreshType
  <2>. QED BY <1>1, <1>3, <1>5, <1>6, <2>1 DEF TypeOK, LuaData
<1>8. Whereabouts'
  <2>1. pc = "start" /\ built' = 0 BY DEF HostInv, Whereabouts
  <2>. QED BY <1>4, <1>5, <1>6, <2>1 DEF Whereabouts, RobotAt
<1>9. NothingYet' BY <1>3, FreshType DEF NothingYet
<1>10. Reached' BY <1>6, <1>9 DEF Reached
<1>. QED BY <1>3, <1>7, <1>8, <1>10 DEF HostInv

LEMMA SetPathStep == HostInv /\ SetPath => HostInv'
<1>. SUFFICES ASSUME HostInv, SetPath PROVE HostInv' OBVIOUS
<1>. USE DEF SetPath
<1>1. TypeOK /\ StateHasOwner /\ LifecycleHasState BY DEF HostInv
<1>2. /\ lua' \in LuaData /\ lua'.path /\ lua'.tables = lua.tables
      /\ lua'.cached = lua.cached /\ searchDir' = TRUE
  BY <1>1, SetPathType
<1>3. UNCHANGED <<lifecycle, state, boostraped, program, built, binding, engine>>
      /\ pc = "path" /\ pc' = "boot"
  BY DEF set_path
<1>4. TypeOK' BY <1>1, <1>2, <1>3 DEF TypeOK, LuaData
<1>5. StateHasOwner' /\ LifecycleHasState' BY <1>1, <1>3, OwnerUnchanged
<1>6. Whereabouts' BY <1>2, <1>3 DEF HostInv, Whereabouts, RobotAt, Ready
<1>7. NothingYet' BY <1>2, <1>3 DEF HostInv, Reached, NothingYet
<1>8. Reached' BY <1>3, <1>7 DEF Reached
<1>. QED BY <1>4, <1>5, <1>6, <1>8 DEF HostInv

LEMMA BootStep == HostInv /\ Boot => HostInv'
<1>. SUFFICES ASSUME HostInv, Boot PROVE HostInv' OBVIOUS
<1>1. TypeOK /\ StateHasOwner /\ LifecycleHasState BY DEF HostInv
<1>2. PICK result \in BOOLEAN :
        bootstrap(result) /\ pc' = IF result THEN "members" ELSE "failed"
  BY DEF Boot
<1>3. /\ lua' \in LuaData /\ lua'.tables = lua.tables /\ lua'.cached = lua.cached
      /\ boostraped' \in BOOLEAN /\ searchDir' \in BOOLEAN
      /\ UNCHANGED <<lifecycle, state>>
      /\ ~boostraped /\ result => lua'.config
      /\ (searchDir => lua.path) => (searchDir' => lua'.path)
  BY <1>1, <1>2, BootstrapType
<1>4. pc = "boot" /\ UNCHANGED <<program, built, binding, engine>> BY DEF Boot
<1>5. pc' \in {"members", "failed"} /\ (pc' = "members" => result) BY <1>2
<1>6. TypeOK' BY <1>1, <1>3, <1>4, <1>5 DEF TypeOK, LuaData
<1>7. StateHasOwner' /\ LifecycleHasState' BY <1>1, <1>3, OwnerUnchanged
<1>8. Whereabouts' BY <1>3, <1>4, <1>5 DEF HostInv, Whereabouts, RobotAt, Ready
<1>9. NothingYet' BY <1>3, <1>4 DEF HostInv, Reached, NothingYet
<1>10. AllGone' BY <1>6, <1>9 DEF NothingYet, AllGone, Leaves
<1>11. Reached' BY <1>5, <1>9, <1>10 DEF Reached
<1>. QED BY <1>6, <1>7, <1>8, <1>11 DEF HostInv

LEMMA BuildStep == HostInv /\ BuildMember => HostInv'
<1>. SUFFICES ASSUME HostInv, BuildMember PROVE HostInv' OBVIOUS
<1>. USE DEF BuildMember, luaVars
<1>1. TypeOK /\ StateHasOwner /\ LifecycleHasState BY DEF HostInv
<1>2. UNCHANGED <<lifecycle, state, boostraped, searchDir, lua, program, binding, engine>>
      /\ pc = "members" /\ built' = built + 1 /\ built < Len(Members)
      /\ pc' = IF built' = Len(Members) THEN "bind" ELSE "members"
  OBVIOUS
<1>3. built' \in 0 .. Len(Members) BY <1>1, <1>2, Lengths DEF TypeOK
<1>4. TypeOK' BY <1>1, <1>2, <1>3 DEF TypeOK
<1>5. StateHasOwner' /\ LifecycleHasState' BY <1>1, <1>2, OwnerUnchanged
<1>6. Whereabouts' BY <1>2 DEF HostInv, Whereabouts, RobotAt, Ready
<1>7. Reached' BY <1>2 DEF HostInv, Reached, NothingYet
<1>. QED BY <1>4, <1>5, <1>6, <1>7 DEF HostInv

LEMMA MemberThrowsStep == HostInv /\ MemberThrows => HostInv'
<1>. SUFFICES ASSUME HostInv, MemberThrows PROVE HostInv' OBVIOUS
<1>. USE DEF MemberThrows, luaVars
<1>1. TypeOK /\ StateHasOwner /\ LifecycleHasState BY DEF HostInv
<1>2. UNCHANGED <<lifecycle, state, boostraped, searchDir, lua, program, built, binding, engine>>
      /\ pc = "members" /\ pc' \in {"destroy", "failed"} /\ built # 0
  BY Lengths
<1>3. TypeOK' BY <1>1, <1>2 DEF TypeOK
<1>4. StateHasOwner' /\ LifecycleHasState' BY <1>1, <1>2, OwnerUnchanged
<1>5. Whereabouts' BY <1>2 DEF HostInv, Whereabouts, RobotAt, Ready
<1>6. NothingYet BY <1>2 DEF HostInv, Reached
<1>7. AllGone' BY <1>2, <1>6 DEF NothingYet, AllGone, Leaves
<1>8. Reached' BY <1>2, <1>7 DEF Reached
<1>. QED BY <1>3, <1>4, <1>5, <1>8 DEF HostInv

LEMMA BindStep == HostInv /\ BindMember => HostInv'
<1>. SUFFICES ASSUME HostInv, BindMember PROVE HostInv' OBVIOUS
<1>. USE DEF BindMember
<1>1. TypeOK /\ StateHasOwner /\ LifecycleHasState BY DEF HostInv
<1>. DEFINE o == BindOrder[binding]
<1>2. o \in Objects BY <1>1, BindOrderCovers, Lengths DEF TypeOK
<1>3. UNCHANGED <<lifecycle, state, boostraped, searchDir, program, built, engine>>
      /\ pc = "bind" /\ lua' = [lua EXCEPT !.tables[o] = Functions[o]]
      /\ \/ pc' = "init" /\ binding' = 1
         \/ pc' = "bind" /\ binding' = binding + 1 /\ binding # Len(BindOrder)
  BY DEF Bind
<1>4. binding' \in 1 .. Len(BindOrder) BY <1>1, <1>3, Lengths DEF TypeOK
<1>5. /\ lua' \in LuaData /\ lua'.config = lua.config /\ lua'.path = lua.path
      /\ \A p \in Objects : lua'.tables[p] \subseteq Functions[p]
  <2>1. Functions[o] \in SUBSET AllFunctions BY <1>2, FunctionNames
  <2>. HIDE DEF o
  <2>. QED BY <1>1, <1>2, <1>3, <2>1 DEF TypeOK, LuaData
<1>6. TypeOK' BY <1>1, <1>3, <1>4, <1>5 DEF TypeOK, LuaData
<1>7. StateHasOwner' /\ LifecycleHasState' BY <1>1, <1>3, OwnerUnchanged
<1>8. Whereabouts' BY <1>3, <1>5 DEF HostInv, Whereabouts, RobotAt, Ready
<1>9. Reached' BY <1>3 DEF HostInv, Reached
<1>. QED BY <1>6, <1>7, <1>8, <1>9 DEF HostInv

LEMMA RobotInitStep == HostInv /\ RobotInit => HostInv'
<1>. SUFFICES ASSUME HostInv, RobotInit PROVE HostInv' OBVIOUS
<1>. USE DEF RobotInit, luaVars
<1>1. TypeOK /\ StateHasOwner /\ LifecycleHasState BY DEF HostInv
<1>2. UNCHANGED <<lifecycle, state, boostraped, searchDir, lua, program, built, binding, engine>>
      /\ pc = "init" /\ pc' \in {"run", "leaked", "failed"}
  OBVIOUS
<1>3. TypeOK' BY <1>1, <1>2 DEF TypeOK
<1>4. StateHasOwner' /\ LifecycleHasState' BY <1>1, <1>2, OwnerUnchanged
<1>5. Whereabouts' BY <1>2 DEF HostInv, Whereabouts, RobotAt, Ready
<1>6. Reached' BY <1>2 DEF HostInv, Reached
<1>. QED BY <1>3, <1>4, <1>5, <1>6 DEF HostInv

LEMMA LoadStep == HostInv /\ LoadEngine => HostInv'
<1>. SUFFICES ASSUME HostInv, LoadEngine PROVE HostInv' OBVIOUS
<1>. USE DEF LoadEngine
<1>1. TypeOK /\ StateHasOwner /\ LifecycleHasState BY DEF HostInv
<1>2. UNCHANGED <<lifecycle, state, boostraped, searchDir, program, pc, built, binding>>
      /\ pc = "run" /\ engine' \in {engine, state}
  OBVIOUS
<1>3. lua' \in LuaData /\ lua'.tables = lua.tables /\ lua'.config = lua.config
      /\ lua'.path = lua.path
  <2>1. CASE RequireGamepad BY <1>1, <2>1 DEF RequireGamepad, TypeOK, LuaData
  <2>2. CASE UNCHANGED lua BY <1>1, <2>2 DEF TypeOK, LuaData
  <2>. QED BY <2>1, <2>2
<1>4. TypeOK' BY <1>1, <1>2, <1>3 DEF TypeOK, LuaData
<1>5. StateHasOwner' /\ LifecycleHasState' BY <1>1, <1>2, OwnerUnchanged
<1>6. Whereabouts' BY <1>2, <1>3 DEF HostInv, Whereabouts, RobotAt, Ready
<1>7. Reached' BY <1>2 DEF HostInv, Reached
<1>. QED BY <1>4, <1>5, <1>6, <1>7 DEF HostInv

LEMMA ExitStep == HostInv /\ Exit => HostInv'
<1>. SUFFICES ASSUME HostInv, Exit PROVE HostInv' OBVIOUS
<1>. USE DEF Exit, luaVars
<1>1. TypeOK /\ StateHasOwner /\ LifecycleHasState BY DEF HostInv
<1>2. UNCHANGED <<lifecycle, state, boostraped, searchDir, lua, program, built, binding>>
      /\ pc = "run" /\ pc' = "release" /\ engine' = NoState
  OBVIOUS
<1>3. TypeOK' BY <1>1, <1>2 DEF TypeOK
<1>4. StateHasOwner' /\ LifecycleHasState' BY <1>1, <1>2, OwnerUnchanged
<1>5. Whereabouts' BY <1>2 DEF HostInv, Whereabouts, RobotAt, Ready
<1>6. Reached'
  <2>1. built' = Len(Members) /\ binding' = 1 BY <1>2 DEF HostInv, Reached
  <2>2. 1 .. binding' - 1 = {} BY <2>1
  <2>. QED BY <1>2, <2>1, <2>2 DEF Reached
<1>. QED BY <1>3, <1>4, <1>5, <1>6 DEF HostInv

LEMMA ReleaseStep == HostInv /\ ReleaseMember => HostInv'
<1>. SUFFICES ASSUME HostInv, ReleaseMember PROVE HostInv' OBVIOUS
<1>. USE DEF ReleaseMember
<1>1. TypeOK /\ StateHasOwner /\ LifecycleHasState BY DEF HostInv
<1>. DEFINE o == BindOrder[binding]
<1>2. o \in Objects /\ binding \in 1 .. 5 BY <1>1, BindOrderCovers, Lengths DEF TypeOK
<1>3. UNCHANGED <<lifecycle, state, boostraped, searchDir, program, built, engine>>
      /\ pc = "release" /\ lua' = [lua EXCEPT !.tables[o] = @ \ Cleared(o)]
      /\ \/ pc' = "destroy" /\ binding' = 1 /\ binding = 5
         \/ pc' = "release" /\ binding' = binding + 1 /\ binding # 5
  BY Lengths DEF Unbind
<1>4. binding' \in 1 .. Len(BindOrder) BY <1>2, <1>3, Lengths
<1>. HIDE DEF o
<1>5. /\ lua' \in LuaData /\ lua'.config = lua.config /\ lua'.path = lua.path
      /\ lua'.tables[o] = lua.tables[o] \ Cleared(o)
      /\ \A p \in Objects \ {o} : lua'.tables[p] = lua.tables[p]
      /\ lua'.cached = lua.cached
  <2>1. lua \in LuaData /\ lua.tables \in [Objects -> SUBSET AllFunctions]
    BY <1>1 DEF TypeOK, LuaData
  <2>2. lua.tables[o] \ Cleared(o) \in SUBSET AllFunctions BY <1>2, <2>1
  <2>. QED BY <1>2, <1>3, <2>1, <2>2 DEF LuaData
<1>6. TypeOK' BY <1>1, <1>2, <1>3, <1>4, <1>5 DEF TypeOK, LuaData
<1>7. StateHasOwner' /\ LifecycleHasState' BY <1>1, <1>3, OwnerUnchanged
<1>8. Whereabouts' BY <1>3, <1>5 DEF HostInv, Whereabouts, RobotAt, Ready
<1>9. \A i \in 1 .. binding :
        lua'.tables[BindOrder[i]] \subseteq Functions[BindOrder[i]] \ Cleared(BindOrder[i])
  <2>. SUFFICES ASSUME NEW i \in 1 .. binding
                PROVE  lua'.tables[BindOrder[i]]
                         \subseteq Functions[BindOrder[i]] \ Cleared(BindOrder[i])
    OBVIOUS
  <2>1. BindOrder[i] \in Objects BY <1>2, BindOrderCovers
  <2>2. CASE BindOrder[i] = o BY <1>1, <1>2, <1>5, <2>2 DEF TypeOK
  <2>3. CASE BindOrder[i] # o
    <3>1. i \in 1 .. binding - 1 BY <1>2, <2>3 DEF o
    <3>2. lua.tables[BindOrder[i]] \subseteq Functions[BindOrder[i]] \ Cleared(BindOrder[i])
      BY <1>3, <3>1 DEF HostInv, Reached
    <3>. QED BY <1>5, <2>1, <2>3, <3>2
  <2>. QED BY <2>2, <2>3
<1>10. built' = Len(Members) /\ built' # 0 BY <1>3, Lengths DEF HostInv, Reached
<1>11. ASSUME pc' = "release" PROVE Reached'
  <2>1. 1 .. binding' - 1 = 1 .. binding BY <1>2, <1>3, <1>11
  <2>2. \A i \in 1 .. binding' - 1 :
          lua'.tables[BindOrder[i]] \subseteq Functions[BindOrder[i]] \ Cleared(BindOrder[i])
    BY <1>9, <2>1
  <2>. QED BY ONLY <1>10, <1>11, <2>2 DEF Reached
<1>12. ASSUME pc' = "destroy" PROVE Reached'
  <2>1. binding = 5 BY <1>3, <1>12
  <2>2. ASSUME NEW p \in Objects PROVE lua'.tables[p] \subseteq Leaves(p)
    <3>1. PICK i \in 1 .. 5 : p = BindOrder[i] BY BindOrderCovers
    <3>2. lua'.tables[p] \subseteq Functions[p] \ Cleared(p) BY <1>9, <2>1, <3>1
    <3>. QED BY <3>2, ClearedLeaves
  <2>3. AllGone' BY <2>2 DEF AllGone, Leaves
  <2>. QED BY ONLY <1>10, <1>12, <2>3 DEF Reached
<1>. QED BY <1>3, <1>6, <1>7, <1>8, <1>11, <1>12 DEF HostInv

LEMMA DestroyStep == HostInv /\ DestroyMember => HostInv'
<1>. SUFFICES ASSUME HostInv, DestroyMember PROVE HostInv' OBVIOUS
<1>. USE DEF DestroyMember, luaVars
<1>1. TypeOK /\ StateHasOwner /\ LifecycleHasState BY DEF HostInv
<1>2. UNCHANGED <<lifecycle, state, boostraped, searchDir, lua, program, binding, engine>>
      /\ pc = "destroy" /\ built' = built - 1
      /\ pc' = IF built' = 0 THEN "statics" ELSE "destroy"
  OBVIOUS
<1>3. AllGone /\ built # 0 BY <1>2 DEF HostInv, Reached
<1>4. built' \in 0 .. Len(Members) BY <1>1, <1>2, <1>3, Lengths DEF TypeOK
<1>5. TypeOK' BY <1>1, <1>2, <1>4 DEF TypeOK
<1>6. StateHasOwner' /\ LifecycleHasState' BY <1>1, <1>2, OwnerUnchanged
<1>7. Whereabouts' BY <1>2 DEF HostInv, Whereabouts, RobotAt, Ready
<1>8. AllGone' BY <1>2, <1>3 DEF AllGone
<1>9. Reached' BY <1>2, <1>8 DEF Reached
<1>. QED BY <1>5, <1>6, <1>7, <1>9 DEF HostInv

LEMMA StaticExitStep == HostInv /\ StaticExit => HostInv'
<1>. SUFFICES ASSUME HostInv, StaticExit PROVE HostInv' OBVIOUS
<1>. USE DEF StaticExit
<1>1. TypeOK /\ StateHasOwner /\ LifecycleHasState BY DEF HostInv
<1>2. Static \in Lifecycles BY LuaHostAssumption
<1>3. /\ lifecycle' \in [Lifecycles -> {"none", "alive", "gone", "threw"}]
      /\ state' = NoState /\ lua' = FreshLua
      /\ StateHasOwner' /\ LifecycleHasState'
  BY <1>1, <1>2, DestructOwner
<1>4. /\ \/ pc = "statics" /\ pc' = "done"
         \/ pc = "leaked" /\ pc' = "leaked" /\ lifecycle'[Static] = "gone"
      /\ UNCHANGED <<program, built, binding, engine, boostraped, searchDir>>
  BY <1>1, <1>2 DEF Destruct, TypeOK
<1>5. lua' \in LuaData /\ \A o \in Objects : lua'.tables[o] \subseteq Functions[o]
  BY <1>3, FreshType
<1>6. TypeOK' BY <1>1, <1>3, <1>4, <1>5 DEF TypeOK, LuaData
<1>7. Whereabouts' BY <1>4 DEF HostInv, Whereabouts, RobotAt, OutlivesState
<1>8. AllGone' BY <1>3, FreshType DEF AllGone, Leaves
<1>9. Reached' BY <1>4, <1>8 DEF HostInv, Reached
<1>. QED BY <1>3, <1>6, <1>7, <1>9 DEF HostInv

LEMMA ClientStep == HostInv /\ ClientCalls => HostInv'
<1>. SUFFICES ASSUME HostInv, ClientCalls PROVE HostInv' OBVIOUS
<1>1. TypeOK /\ StateHasOwner /\ LifecycleHasState BY DEF HostInv
<1>2. pc = "client" /\ UNCHANGED <<program, pc, built, binding, engine>> BY DEF ClientCalls
<1>3. NothingYet /\ engine = NoState /\ built = 0 BY <1>2 DEF HostInv, Reached, Whereabouts
<1>4. Whereabouts' BY <1>2, <1>3 DEF Whereabouts, RobotAt, Ready
<1>5. SUFFICES TypeOK' /\ StateHasOwner' /\ LifecycleHasState' /\ NothingYet'
  BY <1>2, <1>4 DEF HostInv, Reached
<1>6. ASSUME lua' = FreshLua PROVE NothingYet' /\ lua' \in LuaData
                                   /\ \A o \in Objects : lua'.tables[o] \subseteq Functions[o]
  BY <1>6, FreshType DEF NothingYet
<1>7. ASSUME NEW l \in Lifecycles, Construct(l)
      PROVE  TypeOK' /\ StateHasOwner' /\ LifecycleHasState' /\ NothingYet'
  <2>1. UNCHANGED <<boostraped, searchDir>> BY <1>7 DEF Construct
  <2>2. /\ lifecycle' \in [Lifecycles -> {"none", "alive", "gone", "threw"}]
        /\ state' \in Lifecycles \cup {NoState} /\ lua' = FreshLua
        /\ StateHasOwner' /\ LifecycleHasState'
    BY <1>1, <1>7, ConstructOwner
  <2>. QED BY <1>1, <1>2, <1>6, <2>1, <2>2 DEF TypeOK, LuaData
<1>8. ASSUME NEW l \in Lifecycles, Destruct(l)
      PROVE  TypeOK' /\ StateHasOwner' /\ LifecycleHasState' /\ NothingYet'
  <2>1. UNCHANGED <<boostraped, searchDir>> BY <1>8 DEF Destruct
  <2>2. /\ lifecycle' \in [Lifecycles -> {"none", "alive", "gone", "threw"}]
        /\ state' = NoState /\ lua' = FreshLua /\ StateHasOwner' /\ LifecycleHasState'
    BY <1>1, <1>8, DestructOwner
  <2>. QED BY <1>1, <1>2, <1>6, <2>1, <2>2 DEF TypeOK, LuaData
<1>9. ASSUME set_path
      PROVE  TypeOK' /\ StateHasOwner' /\ LifecycleHasState' /\ NothingYet'
  <2>1. UNCHANGED <<lifecycle, state, boostraped>> BY <1>9 DEF set_path
  <2>2. /\ lua' \in LuaData /\ lua'.tables = lua.tables /\ lua'.cached = lua.cached
        /\ searchDir' = TRUE
    BY <1>1, <1>9, SetPathType
  <2>3. StateHasOwner' /\ LifecycleHasState' BY <1>1, <2>1, OwnerUnchanged
  <2>. QED BY <1>1, <1>2, <1>3, <2>1, <2>2, <2>3 DEF TypeOK, LuaData, NothingYet
<1>10. ASSUME NEW result \in BOOLEAN, bootstrap(result)
       PROVE  TypeOK' /\ StateHasOwner' /\ LifecycleHasState' /\ NothingYet'
  <2>1. /\ lua' \in LuaData /\ lua'.tables = lua.tables /\ lua'.cached = lua.cached
        /\ boostraped' \in BOOLEAN /\ searchDir' \in BOOLEAN
        /\ UNCHANGED <<lifecycle, state>>
    BY <1>1, <1>10, BootstrapType
  <2>2. StateHasOwner' /\ LifecycleHasState' BY <1>1, <2>1, OwnerUnchanged
  <2>. QED BY <1>1, <1>2, <1>3, <2>1, <2>2 DEF TypeOK, LuaData, NothingYet
<1>. QED BY <1>7, <1>8, <1>9, <1>10 DEF ClientCalls

LEMMA HostStep == HostInv /\ [Next]_vars => HostInv'
<1>. SUFFICES ASSUME HostInv, [Next]_vars PROVE HostInv' OBVIOUS
<1>1. CASE UNCHANGED vars
  <2>1. UNCHANGED <<lifecycle, state, boostraped, searchDir, lua, program, pc, built, binding,
                    engine>>
    BY <1>1 DEF vars, luaVars
  <2>2. TypeOK' BY <2>1 DEF HostInv, TypeOK
  <2>3. StateHasOwner' /\ LifecycleHasState' BY <2>1, OwnerUnchanged DEF HostInv
  <2>4. Whereabouts' BY <2>1 DEF HostInv, Whereabouts, Ready, OutlivesState
  <2>5. Reached' BY <2>1 DEF HostInv, Reached, AllGone, NothingYet
  <2>. QED BY <2>2, <2>3, <2>4, <2>5 DEF HostInv
<1>. QED BY <1>1, StaticInitStep, SetPathStep, BootStep, BuildStep, MemberThrowsStep, BindStep,
            RobotInitStep, LoadStep, ExitStep, ReleaseStep, DestroyStep, StaticExitStep,
            ClientStep
         DEF Next

LEMMA HostAlways == Spec => []HostInv
<1>. QED BY InitHostInv, HostStep, PTL DEF Spec

-----------------------------------------------------------------------------
(***************************************************************************)
(* The gamepad is bound before gamepad.lua is required, and its destructor *)
(* leaves pov in a table that gamepad.lua took functions from.             *)
(***************************************************************************)
PovRemains == pc \in {"init", "run"} \/ lua.cached # {} => "pov" \in lua.tables["gamepad"]

LEMMA PovNames == "pov" \in Functions["gamepad"] /\ "pov" \notin Cleared("gamepad")
BY DEF Functions, Cleared

\* What a step does to the tables, when it is not a step of bindings.cpp or gamepad.lua.
LEMMA OtherStep ==
  ASSUME HostInv, [Next]_vars, ~BindMember, ~ReleaseMember, ~LoadEngine
  PROVE  /\ \/ lua'.tables = lua.tables /\ lua'.cached = lua.cached
            \/ lua'.cached = {}
         /\ pc' \in {"init", "run"} => pc \in {"init", "run"} /\ lua' = lua
<1>. USE DEF luaVars
<1>1. TypeOK BY DEF HostInv
<1>2. CASE UNCHANGED vars BY <1>2 DEF vars
<1>3. CASE StaticInit
  BY <1>3, FreshType DEF StaticInit, Construct, destroy
<1>4. CASE SetPath BY <1>1, <1>4, SetPathType DEF SetPath
<1>5. CASE Boot
  <2>1. PICK result \in BOOLEAN :
          bootstrap(result) /\ pc' = IF result THEN "members" ELSE "failed"
    BY <1>5 DEF Boot
  <2>. QED BY <1>1, <2>1, BootstrapType
<1>6. CASE BuildMember \/ MemberThrows \/ RobotInit \/ Exit \/ DestroyMember
  BY <1>6 DEF BuildMember, MemberThrows, RobotInit, Exit, DestroyMember
<1>7. CASE StaticExit
  BY <1>7, FreshType DEF StaticExit, Destruct, destroy
<1>8. CASE ClientCalls
  <2>1. pc' = "client" BY <1>8 DEF ClientCalls, HostInv
  <2>2. CASE \E l \in Lifecycles : Construct(l) \/ Destruct(l)
    BY <2>1, <2>2, FreshType DEF Construct, Destruct, destroy
  <2>3. CASE set_path BY <1>1, <2>1, <2>3, SetPathType
  <2>4. CASE \E result \in BOOLEAN : bootstrap(result) BY <1>1, <2>1, <2>4, BootstrapType
  <2>. QED BY <1>8, <2>2, <2>3, <2>4 DEF ClientCalls
<1>. QED BY <1>2, <1>3, <1>4, <1>5, <1>6, <1>7, <1>8 DEF Next

LEMMA PovStep == HostInv /\ PovRemains /\ [Next]_vars => PovRemains'
<1>. SUFFICES ASSUME HostInv, PovRemains, [Next]_vars PROVE PovRemains' OBVIOUS
<1>0. lua \in LuaData /\ "gamepad" \in Objects BY ObjectNames DEF HostInv, TypeOK, LuaData
<1>1. CASE BindMember
  <2>. DEFINE o == BindOrder[binding]
  <2>1. lua' = [lua EXCEPT !.tables[o] = Functions[o]] BY <1>1 DEF BindMember, Bind
  <2>2. lua'.cached = lua.cached BY <1>0, <2>1 DEF LuaData
  <2>3. CASE o = "gamepad"
    BY <1>0, <2>1, <2>3, PovNames DEF LuaData, PovRemains
  <2>4. CASE o # "gamepad"
    <3>1. lua'.tables["gamepad"] = lua.tables["gamepad"] BY <1>0, <2>1, <2>4 DEF LuaData
    <3>2. binding # 5 BY <2>4 DEF BindOrder
    <3>3. pc' = "bind" BY <1>1, <3>2, Lengths DEF BindMember
    <3>. QED BY <2>2, <3>1, <3>3 DEF PovRemains
  <2>. QED BY <2>3, <2>4
<1>2. CASE ReleaseMember
  <2>. DEFINE o == BindOrder[binding]
  <2>1. lua' = [lua EXCEPT !.tables[o] = @ \ Cleared(o)] BY <1>2 DEF ReleaseMember, Unbind
  <2>2. lua'.cached = lua.cached BY <1>0, <2>1 DEF LuaData
  <2>3. "pov" \in lua.tables["gamepad"] => "pov" \in lua'.tables["gamepad"]
    BY <1>0, <2>1, PovNames DEF LuaData
  <2>4. pc' \in {"destroy", "release"} BY <1>2 DEF ReleaseMember
  <2>. QED BY <2>2, <2>3, <2>4 DEF PovRemains
<1>3. CASE LoadEngine
  <2>1. pc = "run" /\ (RequireGamepad \/ UNCHANGED lua) BY <1>3 DEF LoadEngine
  <2>2. lua'.tables = lua.tables BY <1>0, <2>1 DEF RequireGamepad, LuaData
  <2>. QED BY <2>1, <2>2 DEF PovRemains
<1>4. CASE ~BindMember /\ ~ReleaseMember /\ ~LoadEngine
  BY <1>4, OtherStep DEF PovRemains
<1>. QED BY <1>1, <1>2, <1>3, <1>4

LEMMA PovAlways == Spec => []PovRemains
<1>1. Init => PovRemains BY FreshType DEF Init, LuaInit, PovRemains
<1>. QED BY <1>1, PovStep, HostAlways, PTL DEF Spec

-----------------------------------------------------------------------------
\* Type correctness: no table of Lua holds a function that was not bound to its object.
THEOREM TypeCorrect == Spec => []TypeOK
<1>1. HostInv => TypeOK BY DEF HostInv
<1>. QED BY <1>1, HostAlways, PTL

\* In whatever order Lifecycle objects are made and destroyed, the open state's Lifecycle
\* lives and, until a constructor throws, every living Lifecycle has its state.
THEOREM OwnerHasStateCorrect == Spec => []OwnerHasState
<1>1. HostInv => OwnerHasState BY DEF HostInv, OwnerHasState
<1>. QED BY <1>1, HostAlways, PTL

\* The state is open, and configured, for as long as a member of RobotMain lives and just
\* before and after; only a robot that nobody destroys is left without it.
THEOREM StateSpansRobotCorrect == Spec => []StateSpansRobot
<1>1. HostInv => StateSpansRobot
  <2>. SUFFICES ASSUME HostInv, Living # {} \/ pc \in {"members", "statics"}, ~OutlivesState
                PROVE  Ready
    BY DEF StateSpansRobot, Ready
  <2>1. CASE pc \in {"members", "statics"} BY <2>1 DEF HostInv, Whereabouts, RobotAt
  <2>2. CASE Living # {}
    <3>1. built # 0 BY <2>2 DEF Living
    <3>. QED BY <3>1 DEF HostInv, TypeOK, Whereabouts, RobotAt
  <2>. QED BY <2>1, <2>2
<1>. QED BY <1>1, HostAlways, PTL

\* An engine never outlives the state its references point into.
THEOREM EngineInOpenStateCorrect == Spec => []EngineInOpenState
<1>1. HostInv => EngineInOpenState
  BY DEF HostInv, Whereabouts, EngineInOpenState, RobotAt, Ready
<1>. QED BY <1>1, HostAlways, PTL

\* Lua's tables reach no object that is not there, but for pov, which the destructor
\* forgets; and what gamepad.lua took is left only of a gamepad it released.
THEOREM LuaReachesLivingCorrect == Spec => []LuaReachesLiving
<1>1. HostInv /\ PovRemains => LuaReachesLiving
  <2>. SUFFICES ASSUME HostInv, PovRemains, NEW o \in Objects, o \notin Living
                PROVE  /\ lua.tables[o] \subseteq Leaves(o)
                       /\ o = "gamepad" /\ lua.cached # {} => lua.tables[o] = {"pov"}
    BY ObjectNames DEF LuaReachesLiving, Leaves
  <2>1. built # Len(Members) BY AllLiving, Lengths
  <2>2. pc \in {"client", "start", "path", "boot", "members", "destroy", "statics", "done",
                "failed"}
    BY <2>1 DEF HostInv, TypeOK, Reached
  <2>3. NothingYet \/ AllGone BY <2>1, <2>2 DEF HostInv, Reached
  <2>4. AllGone BY <2>3, NothingIsGone DEF HostInv
  <2>5. lua.tables[o] \subseteq Leaves(o) BY <2>4 DEF AllGone
  <2>6. ASSUME o = "gamepad", lua.cached # {} PROVE lua.tables[o] = {"pov"}
    <3>1. "pov" \in lua.tables[o] BY <2>6 DEF PovRemains
    <3>. QED BY <2>5, <2>6, <3>1 DEF Leaves
  <2>. QED BY <2>5, <2>6
<1>. QED BY <1>1, HostAlways, PovAlways, PTL
-----------------------------------------------------------------------------
(***************************************************************************)
(* What the flag behind bootstrap() (scripting.cpp) tells a program that   *)
(* calls it again: as long as no state was destroyed, that the open one    *)
(* has the configuration.  It says nothing of a state made after another.  *)
(***************************************************************************)
FlagTells ==
  boostraped => \/ \E l \in Lifecycles : lifecycle[l] \in {"gone", "threw"}
                \/ state # NoState /\ lua.config

THEOREM FlagTellsCorrect == Spec => []FlagTells
<1>1. Init => FlagTells BY DEF Init, LuaInit, FlagTells
<1>2. HostInv /\ FlagTells /\ [Next]_vars => FlagTells'
  <2>. SUFFICES ASSUME HostInv, FlagTells, [Next]_vars PROVE FlagTells' OBVIOUS
  <2>. USE DEF luaVars
  <2>1. TypeOK /\ lua \in LuaData BY DEF HostInv, TypeOK, LuaData
  <2>2. ASSUME UNCHANGED <<lifecycle, state, boostraped>>, lua.config => lua'.config
        PROVE  FlagTells'
    BY <2>2 DEF FlagTells
  <2>3. ASSUME NEW l \in Lifecycles, Construct(l) PROVE FlagTells'
    <3>1. CASE state # NoState
      <4>1. lifecycle'[l] = "threw" BY <2>1, <2>3, <3>1 DEF Construct, TypeOK
      <4>. QED BY <4>1 DEF FlagTells
    <3>2. CASE state = NoState
      <4>1. /\ lifecycle' = [lifecycle EXCEPT ![l] = "alive"] /\ lifecycle[l] = "none"
            /\ boostraped' = boostraped
        BY <2>3, <3>2 DEF Construct
      <4>2. ASSUME boostraped PROVE \E p \in Lifecycles : lifecycle'[p] \in {"gone", "threw"}
        <5>1. PICK p \in Lifecycles : lifecycle[p] \in {"gone", "threw"}
          BY <3>2, <4>2 DEF FlagTells
        <5>. QED BY <2>1, <4>1, <5>1 DEF TypeOK
      <4>. QED BY <4>1, <4>2 DEF FlagTells
    <3>. QED BY <3>1, <3>2
  <2>4. ASSUME NEW l \in Lifecycles, Destruct(l) PROVE FlagTells'
    <3>1. lifecycle'[l] = "gone" BY <2>1, <2>4 DEF Destruct, TypeOK
    <3>. QED BY <3>1 DEF FlagTells
  <2>5. ASSUME set_path PROVE FlagTells'
    <3>1. lua'.config = lua.config /\ UNCHANGED <<lifecycle, state, boostraped>>
      BY <2>1, <2>5, SetPathType DEF set_path
    <3>. QED BY <2>2, <3>1
  <2>6. ASSUME NEW result \in BOOLEAN, bootstrap(result) PROVE FlagTells'
    <3>1. CASE UNCHANGED luaVars BY <2>2, <3>1
    <3>2. CASE ~boostraped /\ state # NoState /\ boostraped' = result
      <4>1. state' = state /\ (result => lua'.config) BY <2>1, <2>6, <3>2, BootstrapType
      <4>. QED BY <3>2, <4>1 DEF FlagTells
    <3>. QED BY <2>6, <3>1, <3>2 DEF bootstrap
  <2>7. ASSUME UNCHANGED <<lifecycle, state, boostraped>>, lua'.config = lua.config
        PROVE  FlagTells'
    BY <2>2, <2>7
  <2>8. CASE UNCHANGED vars BY <2>7, <2>8 DEF vars
  <2>9. CASE StaticInit \/ StaticExit
    BY <2>3, <2>4, <2>9, LuaHostAssumption DEF StaticInit, StaticExit
  <2>10. CASE SetPath BY <2>5, <2>10 DEF SetPath
  <2>11. CASE Boot BY <2>6, <2>11 DEF Boot
  <2>12. CASE BindMember \/ ReleaseMember
    BY <2>1, <2>7, <2>12 DEF BindMember, ReleaseMember, Bind, Unbind, LuaData
  <2>13. CASE LoadEngine BY <2>1, <2>7, <2>13 DEF LoadEngine, RequireGamepad, LuaData
  <2>14. CASE BuildMember \/ MemberThrows \/ RobotInit \/ Exit \/ DestroyMember
    BY <2>7, <2>14 DEF BuildMember, MemberThrows, RobotInit, Exit, DestroyMember
  <2>15. CASE ClientCalls BY <2>3, <2>4, <2>5, <2>6, <2>15 DEF ClientCalls
  <2>. QED BY <2>8, <2>9, <2>10, <2>11, <2>12, <2>13, <2>14, <2>15 DEF Next
<1>. QED BY <1>1, <1>2, HostAlways, PTL DEF Spec
=============================================================================
