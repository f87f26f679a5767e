-------------------------- MODULE RobotMainProofs --------------------------
(***************************************************************************)
(* Theorems about RobotMain for every configuration of the shooter, every  *)
(* set of programs, faults and trajectories, every length of the path and  *)
(* of the turn, and any order of modes.                                    *)
(***************************************************************************)
EXTENDS RobotMain, ShooterOpsProofs

-----------------------------------------------------------------------------
(* Types.                                                                  *)

TypeInv == TypeOK /\ ClockInStep(shooter)

LEMMA NoEngineType == NoEngine \in EngineType
  BY DEF NoEngine, EngineType, Stages

LEMMA RaisedType ==
  ASSUME NEW e \in EngineType, NEW kind \in FaultKinds, NEW ok \in BOOLEAN
  PROVE  Raised(e, kind, ok) \in SUBSET FaultKinds
  BY DEF EngineType, Raised

LEMMA CallType ==
  ASSUME NEW e \in EngineType, NEW ok \in BOOLEAN,
         NEW method \in {"init", "prepare", "run", "cleanup"}
  PROVE  /\ Call(e, method, ok) \in EngineType
         /\ Call(e, method, ok).bot = e.bot
         /\ Call(e, method, ok).stage = method
         /\ Call(e, method, ok).err = ~ok
  <1>1. Raised(e, method, ok) \in SUBSET FaultKinds
    BY RaisedType DEF FaultKinds
  <1>2. method \in Stages
    BY DEF Stages
  <1> QED
    BY <1>1, <1>2 DEF Call, EngineType

LEMMA RunType ==
  ASSUME NEW e \in EngineType, NEW ok \in BOOLEAN
  PROVE  /\ Run(e, ok) \in EngineType
         /\ Run(e, ok).bot = e.bot
         /\ Run(e, ok).stage = "run"
         /\ Run(e, ok).err = e.err
  <1>1. Raised(e, "run", ok) \in SUBSET FaultKinds
    BY RaisedType DEF FaultKinds
  <1> QED
    BY <1>1 DEF Run, EngineType, Stages

LEMMA InstantiateType ==
  ASSUME NEW bot \in Bots
  PROVE  /\ Instantiate(bot, TRUE) \in EngineType
         /\ Instantiate(bot, TRUE).bot = bot
  BY DEF Instantiate, EngineType, Stages

LEMMA OutcomesType ==
  ASSUME NEW kind PROVE Outcomes(kind) \subseteq BOOLEAN
  BY DEF Outcomes

\* What a program may do in one run keeps the shooter well formed.
LEMMA OneCallOK ==
  ASSUME NEW s, WellFormed(s), ClockInStep(s), NEW t \in OneCall(s)
  PROVE  WellFormed(t) /\ ClockInStep(t)
  <1>1. CASE t = s
    BY <1>1
  <1>2. CASE t = Intake(s)
    BY <1>2, IntakeOK
  <1>3. CASE t = Stop(s)
    BY <1>3, StopOK
  <1>4. CASE \E l \in Levels : t = LuaShoot(s, l)
    BY <1>4, LuaShootOK, LevelsAreNumbers
  <1> QED
    BY <1>1, <1>2, <1>3, <1>4 DEF OneCall

LEMMA AfterRunOK ==
  ASSUME NEW s, WellFormed(s), ClockInStep(s), NEW t \in AfterRun(s)
  PROVE  WellFormed(t) /\ ClockInStep(t)
  <1>1. CASE MaxCalls = 1
    BY <1>1, OneCallOK DEF AfterRun
  <1>2. CASE MaxCalls # 1
    <2>1. PICK u \in OneCall(s) : t \in OneCall(u)
      BY <1>2 DEF AfterRun
    <2> QED
      BY <2>1, OneCallOK
  <1> QED
    BY <1>1, <1>2

\* The engine, the error flag and the shooter after a mode entry of a Lua mode.
LEMMA EnterProgramType ==
  ASSUME TypeInv, NEW bot \in Bots, EnterProgram(bot)
  PROVE  /\ engine' \in EngineType
         /\ luaErrorEncountered' \in BOOLEAN
         /\ WellFormed(shooter') /\ ClockInStep(shooter')
         /\ ~luaErrorEncountered' =>
              engine'.bot = bot /\ engine'.stage = "prepare" /\ ~engine'.err
         /\ engine' = engine \/ engine'.stage = "prepare"
         /\ engine' # engine => engine'.err = luaErrorEncountered'
  <1>1. CASE LoadFails
    BY <1>1 DEF LoadFails, TypeInv, TypeOK
  <1>2. ASSUME NEW inited \in Outcomes("init"), NEW prepared \in Outcomes("prepare"),
               engine' = Call(Call(Instantiate(bot, TRUE), "init", inited), "prepare", prepared),
               luaErrorEncountered' = ~prepared, shooter' = Reset(shooter)
        PROVE  /\ engine' \in EngineType
               /\ engine'.bot = bot /\ engine'.stage = "prepare" /\ engine'.err = ~prepared
               /\ prepared \in BOOLEAN
               /\ WellFormed(shooter') /\ ClockInStep(shooter')
    <2>1. inited \in BOOLEAN /\ prepared \in BOOLEAN
      BY OutcomesType
    <2> DEFINE e == Call(Instantiate(bot, TRUE), "init", inited)
    <2>2. e \in EngineType /\ e.bot = bot
      <3> DEFINE i == Instantiate(bot, TRUE)
      <3>1. i \in EngineType /\ i.bot = bot
        BY InstantiateType
      <3> HIDE DEF i
      <3>2. Call(i, "init", inited) \in EngineType /\ Call(i, "init", inited).bot = i.bot
        BY <2>1, <3>1, CallType
      <3> QED
        BY <3>1, <3>2 DEF i
    <2> HIDE DEF e
    <2>3. /\ Call(e, "prepare", prepared) \in EngineType
          /\ Call(e, "prepare", prepared).bot = bot
          /\ Call(e, "prepare", prepared).stage = "prepare"
          /\ Call(e, "prepare", prepared).err = ~prepared
      BY <2>1, <2>2, CallType
    <2>4. engine' = Call(e, "prepare", prepared)
      BY <1>2 DEF e
    <2>5. WellFormed(shooter') /\ ClockInStep(shooter')
      BY <1>2, ResetOK DEF TypeInv, TypeOK
    <2> QED
      BY <2>1, <2>3, <2>4, <2>5
  <1>3. CASE LoadAndPrepare(bot)
    BY <1>2, <1>3 DEF LoadAndPrepare
  <1> QED
    BY <1>1, <1>3 DEF EnterProgram

LEMMA ReloadType ==
  ASSUME TypeInv, reloadTrajectory
  PROVE  /\ autoInfo' \in [name : Trajectories \cup {"", "Fallback"}, shoot : BOOLEAN]
         /\ hasShot' \in BOOLEAN /\ hasStartedMoving' \in BOOLEAN
  <1>1. CASE ReloadParsed
    <2>1. PICK name \in Trajectories :
            /\ autoInfo' = [name |-> name, shoot |-> name \in ShootYes]
            /\ hasShot' = ~(name \notin ShootNo)
            /\ hasStartedMoving' = FALSE
      BY <1>1 DEF ReloadParsed, Info, ShouldShoot
    <2>2. name \in Trajectories \cup {"", "Fallback"}
      OBVIOUS
    <2>3. (name \in ShootYes) \in BOOLEAN
      <3>1. CASE name \in ShootYes
        BY <3>1
      <3>2. CASE name \notin ShootYes
        BY <3>2
      <3> QED
        BY <3>1, <3>2
    <2>4. (~(name \notin ShootNo)) \in BOOLEAN
      BY Zenon
    <2> QED
      BY <2>1, <2>2, <2>3, <2>4
  <1>2. CASE ReloadFallback
    BY <1>2 DEF ReloadFallback, Fallback, TypeInv, TypeOK
  <1> QED
    BY <1>1, <1>2 DEF reloadTrajectory

\* The autonomous callback: the shooter it leaves behind is well formed.
LEMMA AutoShooterOK ==
  ASSUME TypeInv
  PROVE  WellFormed(AutoShooter) /\ ClockInStep(AutoShooter)
  <1>1. /\ WellFormed(Shoot(shooter)) /\ ClockInStep(Shoot(shooter))
        /\ WellFormed(shooter) /\ ClockInStep(shooter)
    BY ShootOK DEF TypeInv, TypeOK
  <1>2. CASE hasShot
    BY <1>1, <1>2, ProcessOK DEF AutoShooter
  <1>3. CASE ~hasShot
    BY <1>1, <1>3, ProcessOK DEF AutoShooter
  <1> QED
    BY <1>2, <1>3

LEMMA TimesType == PathTime \in Nat /\ SpinTime \in Nat /\ MaxLag \in Nat \ {0}
  BY RobotAssumption, Zenon DEF RobotAssumption

LEMMA TimerType == TimerCap \in Nat /\ 0 \in 0 .. TimerCap
  BY TimesType DEF TimerCap

LEMMA RecordTypes ==
  /\ NoInfo \in [name : Trajectories \cup {"", "Fallback"}, shoot : BOOLEAN]
  /\ NoAuto \in [clean : BOOLEAN, fired : Nat, completed : Nat]
  BY DEF NoInfo, NoAuto

LEMMA InitType == Init => TypeInv
  BY NoEngineType, NewShooterOK, TimerType, RecordTypes DEF Init, TypeInv, TypeOK

\* The type invariant in four parts, so that a step proves the parts it touches.
LoopTypes ==
  /\ pc \in {"boot", "wait", "exit", "init", "periodic", "dead"}
  /\ word \in Modes \cup {"none"} /\ lastMode \in Modes \cup {"none"}
LuaTypes ==
  /\ engine \in EngineType
  /\ luaErrorEncountered \in BOOLEAN /\ protectedLuaCalls \in BOOLEAN
  /\ gamepadConnected \in BOOLEAN
AutoTypes ==
  /\ autoInfo \in [name : Trajectories \cup {"", "Fallback"}, shoot : BOOLEAN]
  /\ hasShot \in BOOLEAN /\ hasStartedMoving \in BOOLEAN
  /\ timer \in 0 .. TimerCap
  /\ auto \in [clean : BOOLEAN, fired : Nat, completed : Nat]
ShooterSound == WellFormed(shooter) /\ ClockInStep(shooter)
DriveType == drive \in {"zero", "path", "spin", "lua"}

LEMMA TypeParts ==
  TypeInv <=> LoopTypes /\ LuaTypes /\ AutoTypes /\ ShooterSound /\ DriveType
  BY Zenon DEF TypeInv, TypeOK, LoopTypes, LuaTypes, AutoTypes, ShooterSound, DriveType

LEMMA TypePartsNext ==
  TypeInv' <=> LoopTypes' /\ LuaTypes' /\ AutoTypes' /\ ShooterSound' /\ DriveType'
  BY Zenon DEF TypeInv, TypeOK, LoopTypes, LuaTypes, AutoTypes, ShooterSound, DriveType

LEMMA LuaKept == LuaTypes /\ UNCHANGED luaVars => LuaTypes'
  BY DEF LuaTypes, luaVars
LEMMA AutoKept == AutoTypes /\ UNCHANGED autoVars => AutoTypes'
  BY DEF AutoTypes, autoVars
LEMMA ShooterKept == ShooterSound /\ UNCHANGED shooter => ShooterSound'
  BY DEF ShooterSound
LEMMA DriveKept == DriveType /\ UNCHANGED drive => DriveType'
  BY DEF DriveType

\* What an entry, the end of a period and a fresh start do to the loop.
LEMMA LoopMoves ==
  ASSUME LoopTypes
  PROVE  /\ Enter => LoopTypes'
         /\ EndPeriod => LoopTypes'
         /\ pc' \in {"wait", "init", "dead"} /\ UNCHANGED <<word, lastMode>> => LoopTypes'
  BY DEF LoopTypes, Enter, EndPeriod

LEMMA ReadWordType == ASSUME LoopTypes, AutoTypes, ReadWord PROVE LoopTypes' /\ AutoTypes'
  <1>1. LoopTypes'
    <2>1. PICK m \in Modes : /\ word' = m
                             /\ pc' = IF m = lastMode THEN "periodic" ELSE "exit"
      BY DEF ReadWord
    <2>2. lastMode' = lastMode
      BY DEF ReadWord
    <2>3. pc' \in {"periodic", "exit"}
      BY <2>1
    <2>4. word' \in Modes
      BY <2>1
    <2> QED
      BY <2>2, <2>3, <2>4 DEF LoopTypes
  <1>2. timer \in Nat /\ TimerCap \in Nat /\ timer \in 0 .. TimerCap
    <2>1. timer \in 0 .. TimerCap
      BY Zenon DEF AutoTypes
    <2> QED
      BY <2>1, TimerType
  <1>3. timer' \in 0 .. TimerCap
    <2>1. CASE lastMode = "auto"
      <3>1. PICK lag \in 1 .. MaxLag : timer' = Smaller(timer + lag, TimerCap)
        BY <2>1 DEF ReadWord
      <3>2. lag \in Nat
        BY TimesType
      <3> QED
        BY <3>1, <3>2, <1>2 DEF Smaller
    <2>2. CASE lastMode # "auto"
      BY <2>2, <1>2 DEF ReadWord
    <2> QED
      BY <2>1, <2>2
  <1>4. /\ autoInfo' = autoInfo /\ hasShot' = hasShot
        /\ hasStartedMoving' = hasStartedMoving /\ auto' = auto
    BY DEF ReadWord
  <1>5. AutoTypes'
    BY <1>3, <1>4 DEF AutoTypes
  <1> QED
    BY <1>1, <1>5

LEMMA LuaExitType == ASSUME LuaTypes, LuaExit PROVE LuaTypes'
  <1>1. engine' \in EngineType /\ luaErrorEncountered' \in BOOLEAN
    <2>1. CASE luaErrorEncountered
      BY <2>1 DEF LuaExit, LuaTypes
    <2>2. CASE ~luaErrorEncountered
      <3>1. PICK ok \in Outcomes("cleanup") :
              engine' = Call(engine, "cleanup", ok) /\ luaErrorEncountered' = ~ok
        BY <2>2 DEF LuaExit
      <3>2. ok \in BOOLEAN
        BY OutcomesType
      <3> QED
        BY <3>1, <3>2, CallType DEF LuaTypes
    <2> QED
      BY <2>1, <2>2
  <1>2. protectedLuaCalls' = protectedLuaCalls /\ gamepadConnected' = gamepadConnected
    BY DEF LuaExit
  <1> QED
    BY <1>1, <1>2 DEF LuaTypes

LEMMA EntryType ==
  ASSUME TypeInv, NEW bot \in Bots, EnterProgram(bot),
         protectedLuaCalls' \in BOOLEAN, UNCHANGED gamepadConnected
  PROVE  LuaTypes' /\ ShooterSound'
  <1>1. /\ engine' \in EngineType /\ luaErrorEncountered' \in BOOLEAN
        /\ WellFormed(shooter') /\ ClockInStep(shooter')
    BY EnterProgramType
  <1>2. gamepadConnected' \in BOOLEAN
    BY TypeParts DEF LuaTypes
  <1> QED
    BY <1>1, <1>2 DEF LuaTypes, ShooterSound

\* The counters of the history grow by nothing or by one.
LEMMA Counted ==
  ASSUME NEW n \in Nat, NEW P PROVE n + (IF P THEN 1 ELSE 0) \in {n, n + 1}
  <1>1. CASE P
    BY <1>1
  <1>2. CASE ~P
    BY <1>2
  <1> QED
    BY <1>1, <1>2

LEMMA AutonomousPeriodicType ==
  ASSUME AutoTypes, AutonomousPeriodic PROVE AutoTypes' /\ DriveType'
  <1>1. hasStartedMoving' \in BOOLEAN /\ timer' \in 0 .. TimerCap
    <2>1. CASE IsShooting(AutoShooter)
      BY <2>1 DEF AutonomousPeriodic, AutoTypes
    <2>2. CASE ~IsShooting(AutoShooter)
      <3>1. hasStartedMoving' = TRUE /\ timer' \in {timer, 0}
        BY <2>2 DEF AutonomousPeriodic
      <3> QED
        BY <3>1, TimerType DEF AutoTypes
    <2> QED
      BY <2>1, <2>2
  <1>2. DriveType'
    BY DEF AutonomousPeriodic, AutoDrive, DriveType
  <1>3. autoInfo' = autoInfo /\ hasShot' = TRUE
    BY DEF AutonomousPeriodic
  <1>4. auto' \in [clean : BOOLEAN, fired : Nat, completed : Nat]
    <2> DEFINE F == ~hasShot /\ IsIdle(shooter)
               C == (IsShooting(shooter) \/ (~hasShot /\ IsIdle(shooter)))
                      /\ ~IsShooting(AutoShooter)
               f == auto.fired + (IF F THEN 1 ELSE 0)
               c == auto.completed + (IF C THEN 1 ELSE 0)
    <2>1. auto' = [auto EXCEPT !.fired = f, !.completed = c]
      BY DEF AutonomousPeriodic
    <2>2. auto.fired \in Nat /\ auto.completed \in Nat
      BY DEF AutoTypes
    <2> HIDE DEF F, C
    <2>3. f \in {auto.fired, auto.fired + 1} /\ c \in {auto.completed, auto.completed + 1}
      BY <2>2, Counted
    <2> HIDE DEF f, c
    <2>4. f \in Nat /\ c \in Nat
      BY <2>2, <2>3
    <2> QED
      BY <2>1, <2>4, Zenon DEF AutoTypes
  <1> QED
    BY <1>1, <1>2, <1>3, <1>4 DEF AutoTypes

LEMMA LuaStepType ==
  ASSUME LuaTypes, ShooterSound, LuaPeriodicSafe \/ LuaPeriodicUnsafe
  PROVE  LuaTypes' /\ ShooterSound'
  <1>1. \A s \in AfterRun(shooter) : WellFormed(s) /\ ClockInStep(s)
    BY AfterRunOK DEF ShooterSound
  <1>2. CASE LuaPeriodicSafe
    <2>1. PICK ok \in Outcomes("run") :
            engine' = Call(engine, "run", ok) /\ luaErrorEncountered' = ~ok
      BY <1>2 DEF LuaPeriodicSafe
    <2>2. engine' \in EngineType /\ luaErrorEncountered' \in BOOLEAN
      BY <2>1, OutcomesType, CallType DEF LuaTypes
    <2>3. PICK s \in AfterRun(shooter) : shooter' = Process(s)
      BY <1>2 DEF LuaPeriodicSafe
    <2>4. protectedLuaCalls' = protectedLuaCalls /\ gamepadConnected' = TRUE
      BY <1>2 DEF LuaPeriodicSafe, InControl
    <2>5. ShooterSound'
      BY <1>1, <2>3, ProcessOK DEF ShooterSound
    <2> QED
      BY <2>2, <2>4, <2>5 DEF LuaTypes
  <1>3. CASE LuaPeriodicUnsafe
    <2>1. PICK ok \in Outcomes("run"), s \in AfterRun(shooter) :
            /\ engine' = Run(engine, ok)
            /\ \/ pc' = "wait" /\ shooter' = Process(s)
               \/ pc' = "dead" /\ shooter' = s
      BY <1>3 DEF LuaPeriodicUnsafe
    <2>2. engine' \in EngineType
      BY <2>1, OutcomesType, RunType DEF LuaTypes
    <2>3. shooter' = Process(s) \/ shooter' = s
      BY <2>1
    <2>4. ShooterSound'
      BY <1>1, <2>3, ProcessOK DEF ShooterSound
    <2>5. /\ protectedLuaCalls' = protectedLuaCalls /\ gamepadConnected' = TRUE
          /\ luaErrorEncountered' = luaErrorEncountered
      BY <1>3 DEF LuaPeriodicUnsafe, InControl
    <2> QED
      BY <2>2, <2>4, <2>5 DEF LuaTypes
  <1> QED
    BY <1>2, <1>3

LEMMA RestartIsInit == Restart => TypeInv'
  <1> SUFFICES ASSUME Restart PROVE TypeInv'
    OBVIOUS
  <1>1. LoopTypes'
    BY DEF Restart, LoopTypes
  <1>2. LuaTypes'
    BY NoEngineType DEF Restart, LuaTypes
  <1>3. AutoTypes'
    <2>1. /\ autoInfo' = NoInfo /\ auto' = NoAuto /\ hasShot' = FALSE
          /\ hasStartedMoving' = FALSE /\ timer' = 0
      BY DEF Restart
    <2> QED
      BY <2>1, RecordTypes, TimerType DEF AutoTypes
  <1>4. ShooterSound'
    BY NewShooterOK DEF Restart, ShooterSound
  <1>5. DriveType'
    BY DEF Restart, DriveType
  <1> QED
    BY <1>1, <1>2, <1>3, <1>4, <1>5, TypePartsNext

LEMMA NextType == TypeInv /\ [Next]_vars => TypeInv'
  <1> SUFFICES ASSUME TypeInv, [Next]_vars PROVE TypeInv'
    OBVIOUS
  <1>p. LoopTypes /\ LuaTypes /\ AutoTypes /\ ShooterSound /\ DriveType
    BY TypeParts
  <1>1. CASE RobotInit
    <2>1. LoopTypes'
      BY <1>p, <1>1, LoopMoves DEF RobotInit, LoopTypes
    <2>2. AutoTypes'
      BY <1>p, <1>1, ReloadType DEF RobotInit, AutoTypes
    <2> QED
      BY <1>p, <1>1, <2>1, <2>2, LuaKept, ShooterKept, DriveKept, TypePartsNext
      DEF RobotInit
  <1>2. CASE ReadWord
    <2>1. UNCHANGED <<luaVars, shooter, drive>>
      BY <1>2 DEF ReadWord
    <2> QED
      BY <1>p, <1>2, <2>1, ReadWordType, LuaKept, ShooterKept, DriveKept, TypePartsNext
  <1>3. CASE QuietExit
    <2>1. LoopTypes'
      BY <1>p, <1>3, LoopMoves DEF QuietExit
    <2>2. AutoTypes'
      BY <1>p, <1>3, RecordTypes DEF QuietExit, AutoTypes
    <2> QED
      BY <1>p, <1>3, <2>1, <2>2, LuaKept, ShooterKept, DriveKept, TypePartsNext
      DEF QuietExit
  <1>4. CASE LuaExit
    <2>1. pc' \in {"wait", "init", "dead"} /\ UNCHANGED <<word, lastMode>>
      BY <1>4 DEF LuaExit
    <2>2. UNCHANGED <<autoVars, shooter, drive>>
      BY <1>4 DEF LuaExit
    <2> QED
      BY <1>p, <1>4, <2>1, <2>2, LoopMoves, LuaExitType, AutoKept, ShooterKept, DriveKept,
         TypePartsNext
  <1>5. CASE DisabledInit
    BY <1>p, <1>5, LoopMoves, LuaKept, AutoKept, ShooterKept, DriveKept, TypePartsNext
    DEF DisabledInit
  <1>6. CASE AutonomousInit
    <2>1. auto' \in [clean : BOOLEAN, fired : Nat, completed : Nat]
      <3>1. auto' = [clean |-> IsIdle(shooter), fired |-> 0, completed |-> 0]
        BY <1>6 DEF AutonomousInit, NoAuto
      <3>2. IsIdle(shooter) \in BOOLEAN
        BY DEF IsIdle
      <3> QED
        BY <3>1, <3>2
    <2>2. /\ autoInfo' \in [name : Trajectories \cup {"", "Fallback"}, shoot : BOOLEAN]
          /\ hasShot' \in BOOLEAN /\ hasStartedMoving' \in BOOLEAN
      BY <1>6, ReloadType DEF AutonomousInit
    <2>3. timer' \in 0 .. TimerCap
      BY <1>6, TimerType DEF AutonomousInit
    <2>4. AutoTypes'
      BY <2>1, <2>2, <2>3 DEF AutoTypes
    <2>5. Enter /\ UNCHANGED <<luaVars, shooter, drive>>
      BY <1>6 DEF AutonomousInit
    <2> QED
      BY <1>p, <2>4, <2>5, LoopMoves, LuaKept, ShooterKept, DriveKept, TypePartsNext
  <1>7. CASE TeleopInit
    <2>1. /\ Enter /\ EnterProgram(TeleopBot) /\ protectedLuaCalls' = FALSE
          /\ UNCHANGED <<gamepadConnected, autoVars, drive>>
      BY <1>7 DEF TeleopInit
    <2>2. TeleopBot \in Bots
      BY RobotAssumption DEF RobotAssumption
    <2>3. LuaTypes' /\ ShooterSound'
      BY <2>1, <2>2, EntryType
    <2> QED
      BY <1>p, <2>1, <2>3, LoopMoves, AutoKept, DriveKept, TypePartsNext
  <1>8. CASE TestInit
    <2>1. PICK bot \in TestBots : EnterProgram(bot)
      BY <1>8 DEF TestInit
    <2>2. /\ Enter /\ protectedLuaCalls' = TRUE
          /\ UNCHANGED <<gamepadConnected, autoVars, drive>>
      BY <1>8 DEF TestInit
    <2>3. bot \in Bots
      BY RobotAssumption DEF RobotAssumption
    <2>4. LuaTypes' /\ ShooterSound'
      BY <2>1, <2>2, <2>3, EntryType
    <2> QED
      BY <1>p, <2>2, <2>4, LoopMoves, AutoKept, DriveKept, TypePartsNext
  <1>9. CASE DisabledPeriodic
    BY <1>p, <1>9, LoopMoves, LuaKept, AutoKept, ShooterKept, TypePartsNext
    DEF DisabledPeriodic, DriveType
  <1>10. CASE AutonomousPeriodic
    <2>1. ShooterSound'
      BY <1>10, AutoShooterOK DEF AutonomousPeriodic, ShooterSound
    <2>2. EndPeriod /\ UNCHANGED luaVars
      BY <1>10 DEF AutonomousPeriodic
    <2> QED
      BY <1>p, <1>10, <2>1, <2>2, AutonomousPeriodicType, LoopMoves, LuaKept, TypePartsNext
  <1>11. CASE LuaPeriodicStopped
    <2>1. ShooterSound'
      BY <1>p, <1>11, ProcessOK DEF LuaPeriodicStopped, ShooterSound
    <2>2. LuaTypes'
      <3>1. /\ engine' = engine /\ luaErrorEncountered' = luaErrorEncountered
            /\ protectedLuaCalls' = protectedLuaCalls /\ gamepadConnected' \in BOOLEAN
        BY <1>11 DEF LuaPeriodicStopped
      <3> QED
        BY <1>p, <3>1 DEF LuaTypes
    <2>3. EndPeriod /\ UNCHANGED autoVars /\ drive' = "zero"
      BY <1>11 DEF LuaPeriodicStopped
    <2>4. DriveType'
      BY <2>3 DEF DriveType
    <2> QED
      BY <1>p, <2>1, <2>2, <2>3, <2>4, LoopMoves, AutoKept, TypePartsNext
  <1>12. CASE LuaPeriodicSafe \/ LuaPeriodicUnsafe
    <2>1. /\ drive' \in {drive, "lua"}
          /\ UNCHANGED <<word, lastMode, autoVars>>
      BY <1>12 DEF LuaPeriodicSafe, LuaPeriodicUnsafe, InControl
    <2>2. pc' \in {"wait", "init", "dead"}
      BY <1>12 DEF LuaPeriodicSafe, LuaPeriodicUnsafe
    <2>3. DriveType'
      BY <1>p, <2>1 DEF DriveType
    <2> QED
      BY <1>p, <1>12, <2>1, <2>2, <2>3, LuaStepType, LoopMoves, AutoKept, TypePartsNext
  <1>13. CASE Restart
    BY <1>13, RestartIsInit
  <1>14. CASE UNCHANGED vars
    <2>1. UNCHANGED <<pc, word, lastMode>> /\ UNCHANGED <<luaVars, autoVars, shooter, drive>>
      BY <1>14 DEF vars, loopVars
    <2>2. LoopTypes'
      BY <1>p, <2>1 DEF LoopTypes
    <2> QED
      BY <1>p, <2>1, <2>2, LuaKept, AutoKept, ShooterKept, DriveKept, TypePartsNext
  <1> QED
    BY <1>1, <1>2, <1>3, <1>4, <1>5, <1>6, <1>7, <1>8, <1>9, <1>10, <1>11, <1>12,
       <1>13, <1>14 DEF Next, Loop, LuaPeriodic

LEMMA TypeInvariant == Spec => []TypeInv
  BY InitType, NextType, PTL DEF Spec

\* Every variable of RobotMain keeps its type, and the shooter stays well formed
\* whatever the programs, the faults and the modes do.
THEOREM TypeCorrect == Spec => []TypeOK
  BY TypeInvariant, PTL DEF TypeInv
-----------------------------------------------------------------------------
(* The host and its programs: LuaHostSafe is inductive given the types.    *)

LEMMA InitHost == Init => LuaHostSafe
  BY DEF Init, LuaHostSafe, LuaModes

LEMMA RunOutcome ==
  ASSUME NEW ok \in Outcomes("run"), ~ok PROVE "run" \in Faults
  BY DEF Outcomes

LEMMA NextHost == TypeInv /\ LuaHostSafe /\ [Next]_vars => LuaHostSafe'
  <1> SUFFICES ASSUME TypeInv, LuaHostSafe, [Next]_vars PROVE LuaHostSafe'
    OBVIOUS
  <1>t. engine \in EngineType /\ luaErrorEncountered \in BOOLEAN
    BY TypeParts DEF LuaTypes
  <1>1. CASE RobotInit \/ ReadWord
    <2>1. /\ UNCHANGED <<lastMode, protectedLuaCalls, luaErrorEncountered, engine>>
          /\ pc \in {"boot", "wait"}
      BY <1>1 DEF RobotInit, ReadWord, luaVars
    <2> QED
      BY <2>1 DEF LuaHostSafe
  <1>2. CASE QuietExit \/ LuaExit
    <2>1. pc' \in {"init", "dead"}
      BY <1>2 DEF QuietExit, LuaExit
    <2> QED
      BY <2>1 DEF LuaHostSafe
  <1>3. CASE DisabledInit \/ AutonomousInit
    <2>1. lastMode' \in {"disabled", "auto"}
      BY <1>3 DEF DisabledInit, AutonomousInit, Enter
    <2> QED
      BY <2>1 DEF LuaHostSafe, LuaModes
  <1>4. CASE TeleopInit
    <2>1. /\ EnterProgram(TeleopBot)
          /\ lastMode' = "teleop" /\ protectedLuaCalls' = FALSE
      BY <1>4 DEF TeleopInit, Enter
    <2>2. TeleopBot \in Bots
      BY RobotAssumption DEF RobotAssumption
    <2>3. ~luaErrorEncountered' =>
             engine'.bot = TeleopBot /\ engine'.stage = "prepare" /\ ~engine'.err
      BY <2>1, <2>2, EnterProgramType
    <2> QED
      BY <2>1, <2>3 DEF LuaHostSafe
  <1>5. CASE TestInit
    <2>1. PICK bot \in TestBots : EnterProgram(bot)
      BY <1>5 DEF TestInit
    <2>2. lastMode' = "test" /\ protectedLuaCalls' = TRUE
      BY <1>5 DEF TestInit, Enter
    <2>3. bot \in Bots
      BY RobotAssumption DEF RobotAssumption
    <2>4. ~luaErrorEncountered' =>
             engine'.bot = bot /\ engine'.stage = "prepare" /\ ~engine'.err
      BY <2>1, <2>3, EnterProgramType
    <2> QED
      BY <2>2, <2>4 DEF LuaHostSafe
  <1>6. CASE DisabledPeriodic \/ AutonomousPeriodic
    <2>1. lastMode' \in {"disabled", "auto"}
      BY <1>6 DEF DisabledPeriodic, AutonomousPeriodic, EndPeriod
    <2> QED
      BY <2>1 DEF LuaHostSafe, LuaModes
  <1>7. CASE LuaPeriodicStopped
    <2>1. /\ UNCHANGED <<lastMode, protectedLuaCalls, luaErrorEncountered, engine>>
          /\ pc = "periodic"
      BY <1>7 DEF LuaPeriodicStopped, EndPeriod
    <2> QED
      BY <2>1 DEF LuaHostSafe
  <1>8. CASE LuaPeriodicSafe \/ LuaPeriodicUnsafe
    <2>1. InControl
      BY <1>8 DEF LuaPeriodicSafe, LuaPeriodicUnsafe
    <2>2. /\ pc = "periodic" /\ lastMode \in LuaModes /\ ~luaErrorEncountered
          /\ lastMode' = lastMode /\ protectedLuaCalls' = protectedLuaCalls
      BY <2>1 DEF InControl
    <2>3. /\ ~luaErrorEncountered' => ~engine'.err
          /\ engine'.stage = "run" /\ engine'.bot = engine.bot
      <3>1. CASE LuaPeriodicSafe
        <4>1. PICK ok \in Outcomes("run") :
                engine' = Call(engine, "run", ok) /\ luaErrorEncountered' = ~ok
          BY <3>1 DEF LuaPeriodicSafe
        <4>2. ok \in BOOLEAN
          BY OutcomesType
        <4>3. /\ engine' \in EngineType /\ engine'.stage = "run"
              /\ engine'.bot = engine.bot /\ engine'.err = ~ok
          BY <1>t, <4>1, <4>2, CallType
        <4> QED
          BY <4>1, <4>3
      <3>2. CASE LuaPeriodicUnsafe
        <4>1. PICK ok \in Outcomes("run") : engine' = Run(engine, ok)
          BY <3>2 DEF LuaPeriodicUnsafe
        <4>2. ~engine.err
          BY <2>2 DEF LuaHostSafe
        <4> QED
          BY <1>t, <4>1, <4>2, OutcomesType, RunType
      <3> QED
        BY <1>8, <3>1, <3>2
    <2> QED
      BY <2>2, <2>3 DEF LuaHostSafe
  <1>9. CASE Restart
    BY <1>9 DEF Restart, LuaHostSafe, LuaModes
  <1>10. CASE UNCHANGED vars
    BY <1>10 DEF vars, loopVars, luaVars, LuaHostSafe
  <1> QED
    BY <1>1, <1>2, <1>3, <1>4, <1>5, <1>6, <1>7, <1>8, <1>9, <1>10
    DEF Next, Loop, LuaPeriodic

\* Whenever a callback is about to call into a program, the engine is the right
\* one, prepared, not failed and not cleaned up (main.cpp 370-466).
THEOREM LuaHostIsSafe == Spec => []LuaHostSafe
  BY InitHost, NextHost, TypeInvariant, PTL DEF Spec

-----------------------------------------------------------------------------
(* What takes the robot program down.                                      *)

DeadInRun == pc = "dead" => engine.stage = "run" /\ ~engine.err

LEMMA InitDies == Init => OnlyTeleopDies /\ DeadInRun
  BY DEF Init, OnlyTeleopDies, DeadInRun

LEMMA HasEngine ==
  ASSUME LuaHostSafe, lastMode \in LuaModes, pc \in {"periodic", "exit"},
         ~luaErrorEncountered
  PROVE  /\ engine # NoEngine /\ engine.stage \in {"prepare", "run"} /\ ~engine.err
         /\ ~protectedLuaCalls => lastMode = "teleop" /\ engine.bot = TeleopBot
  <1>1. /\ protectedLuaCalls = (lastMode = "test")
        /\ engine.stage \in {"prepare", "run"} /\ ~engine.err
        /\ lastMode = "teleop" => engine.bot = TeleopBot
    BY Zenon DEF LuaHostSafe
  <1>2. engine # NoEngine
    BY <1>1 DEF NoEngine
  <1>3. ~protectedLuaCalls => lastMode = "teleop"
    BY <1>1 DEF LuaModes
  <1> QED
    BY <1>1, <1>2, <1>3

LEMMA NextDies ==
  TypeInv /\ LuaHostSafe /\ OnlyTeleopDies /\ DeadInRun /\ [Next]_vars
    => OnlyTeleopDies' /\ DeadInRun'
  <1> SUFFICES ASSUME TypeInv, LuaHostSafe, OnlyTeleopDies, DeadInRun, [Next]_vars
               PROVE  OnlyTeleopDies' /\ DeadInRun'
    OBVIOUS
  <1>t. engine \in EngineType
    BY TypeParts DEF LuaTypes
  <1>1. CASE LuaExit
    <2>1. pc' # "dead"
      <3>1. CASE luaErrorEncountered
        BY <1>1, <3>1 DEF LuaExit
      <3>2. CASE ~luaErrorEncountered
        <4>1. pc = "exit" /\ lastMode \in LuaModes
          BY <1>1 DEF LuaExit
        <4>2. engine # NoEngine
          BY <3>2, <4>1, HasEngine
        <4>3. pc' = IF engine = NoEngine THEN "dead" ELSE "init"
          BY <1>1, <3>2 DEF LuaExit
        <4> QED
          BY <4>2, <4>3
      <3> QED
        BY <3>1, <3>2
    <2> QED
      BY <2>1 DEF OnlyTeleopDies, DeadInRun
  <1>2. CASE LuaPeriodicSafe
    <2>1. InControl /\ pc' = IF engine = NoEngine THEN "dead" ELSE "wait"
      BY <1>2 DEF LuaPeriodicSafe
    <2>2. pc = "periodic" /\ lastMode \in LuaModes /\ ~luaErrorEncountered
      BY <2>1 DEF InControl
    <2>3. engine # NoEngine
      BY <2>2, HasEngine
    <2> QED
      BY <2>1, <2>3 DEF OnlyTeleopDies, DeadInRun
  <1>3. CASE LuaPeriodicUnsafe
    <2>1. PICK ok \in Outcomes("run") :
            /\ engine' = Run(engine, ok)
            /\ IF engine # NoEngine /\ (ok \/ DebugBuild) THEN pc' = "wait" ELSE pc' = "dead"
      BY <1>3 DEF LuaPeriodicUnsafe
    <2>2. InControl /\ ~protectedLuaCalls
      BY <1>3 DEF LuaPeriodicUnsafe
    <2>3. /\ pc = "periodic" /\ lastMode \in LuaModes /\ ~luaErrorEncountered
          /\ lastMode' = lastMode
      BY <2>2 DEF InControl
    <2>4. engine # NoEngine /\ ~engine.err /\ lastMode = "teleop" /\ engine.bot = TeleopBot
      BY <2>2, <2>3, HasEngine
    <2>5. engine'.bot = TeleopBot /\ engine'.stage = "run" /\ ~engine'.err
      BY <1>t, <2>1, <2>4, OutcomesType, RunType
    <2>6. pc' = "dead" => ~ok /\ ~DebugBuild
      BY <2>1, <2>4
    <2>7. ~ok => "run" \in Faults
      BY RunOutcome
    <2> QED
      BY <2>3, <2>4, <2>5, <2>6, <2>7 DEF OnlyTeleopDies, DeadInRun
  <1>4. CASE Restart \/ RobotInit \/ ReadWord \/ QuietExit
    <2>1. pc' # "dead"
      BY <1>4 DEF Restart, RobotInit, ReadWord, QuietExit
    <2> QED
      BY <2>1 DEF OnlyTeleopDies, DeadInRun
  <1>5. CASE DisabledInit \/ AutonomousInit \/ TeleopInit \/ TestInit
    <2>1. pc' # "dead"
      BY <1>5 DEF DisabledInit, AutonomousInit, TeleopInit, TestInit, Enter
    <2> QED
      BY <2>1 DEF OnlyTeleopDies, DeadInRun
  <1>6. CASE DisabledPeriodic \/ AutonomousPeriodic \/ LuaPeriodicStopped
    <2>1. pc' # "dead"
      BY <1>6 DEF DisabledPeriodic, AutonomousPeriodic, LuaPeriodicStopped, EndPeriod
    <2> QED
      BY <2>1 DEF OnlyTeleopDies, DeadInRun
  <1>7. CASE UNCHANGED vars
    BY <1>7 DEF vars, loopVars, luaVars, OnlyTeleopDies, DeadInRun
  <1> QED
    BY <1>1, <1>2, <1>3, <1>4, <1>5, <1>6, <1>7 DEF Next, Loop, LuaPeriodic

LEMMA DiesInvariant == Spec => [](OnlyTeleopDies /\ DeadInRun)
  BY InitDies, NextDies, LuaHostIsSafe, TypeInvariant, PTL DEF Spec

\* The robot program dies only of a run-time error of the teleop program, and only
\* in a release build (main.cpp 442-466, no null engine is ever called).
THEOREM OnlyTeleopCanDie == Spec => []OnlyTeleopDies
  BY DiesInvariant, PTL

-----------------------------------------------------------------------------
(* The host implements BotLifecycle.                                       *)

AtRest == {"none", "stopped", "broken"}

\* No program is live outside a Lua mode, after an error, and at a mode entry.
RestInv ==
  lastMode \notin LuaModes \/ luaErrorEncountered \/ pc \in {"init", "boot"}
    => LifeOf(engine) \in AtRest

LEMMA LifeValues ==
  ASSUME NEW e \in EngineType
  PROVE  /\ e = NoEngine => LifeOf(e) = "none"
         /\ e.stage # "none" /\ e.err => LifeOf(e) = "broken"
         /\ e.stage = "run" /\ ~e.err => LifeOf(e) = "running"
         /\ e.stage = "cleanup" /\ ~e.err => LifeOf(e) = "stopped"
         /\ e.stage = "prepare" /\ ~e.err => LifeOf(e) = "ready"
  <1>1. e.err \in BOOLEAN /\ NoEngine.stage = "none"
    BY DEF EngineType, NoEngine
  <1>2. e.stage # "none" => e # NoEngine
    BY <1>1
  <1>3. CASE e = NoEngine
    BY <1>1, <1>3 DEF LifeOf
  <1>4. CASE e # NoEngine
    BY <1>1, <1>2, <1>4 DEF LifeOf
  <1> QED
    BY <1>3, <1>4

LEMMA InitLife == Init => RestInv /\ Lifecycle!Init
  BY NoEngineType, LifeValues DEF Init, RestInv, AtRest, Lifecycle!Init

LEMMA NextLife ==
  TypeInv /\ LuaHostSafe /\ DeadInRun /\ RestInv /\ [Next]_vars
    => RestInv' /\ [Lifecycle!Next]_(LifeOf(engine))
  <1> SUFFICES ASSUME TypeInv, LuaHostSafe, DeadInRun, RestInv, [Next]_vars
               PROVE  RestInv' /\ [Lifecycle!Next]_(LifeOf(engine))
    OBVIOUS
  <1>t. engine \in EngineType /\ luaErrorEncountered \in BOOLEAN
    BY TypeParts DEF LuaTypes
  <1>1. CASE RobotInit \/ ReadWord
    <2>1. UNCHANGED <<engine, luaErrorEncountered, lastMode>>
          /\ (pc = "boot" \/ pc' \notin {"init", "boot"})
      BY <1>1 DEF RobotInit, ReadWord, luaVars
    <2> QED
      BY <2>1 DEF RestInv
  <1>2. CASE QuietExit
    <2>1. UNCHANGED <<engine, luaErrorEncountered, lastMode>> /\ lastMode \notin LuaModes
      BY <1>2 DEF QuietExit, luaVars
    <2> QED
      BY <2>1 DEF RestInv
  <1>3. CASE LuaExit
    <2>1. CASE luaErrorEncountered
      <3>1. UNCHANGED <<engine, luaErrorEncountered>>
        BY <1>3, <2>1 DEF LuaExit
      <3> QED
        BY <2>1, <3>1 DEF RestInv
    <2>2. CASE ~luaErrorEncountered
      <3>1. PICK ok \in Outcomes("cleanup") : engine' = Call(engine, "cleanup", ok)
        BY <1>3, <2>2 DEF LuaExit
      <3>2. ok \in BOOLEAN
        BY OutcomesType
      <3>3. LifeOf(engine') \in {"stopped", "broken"}
        <4>1. engine' \in EngineType /\ engine'.stage = "cleanup" /\ engine'.err = ~ok
          BY <1>t, <3>1, <3>2, CallType
        <4> QED
          BY <3>2, <4>1, LifeValues
      <3>4. pc = "exit" /\ lastMode \in LuaModes
        BY <1>3 DEF LuaExit
      <3>5. LifeOf(engine) \in {"ready", "running"}
        BY <1>t, <2>2, <3>4, HasEngine, LifeValues
      <3>6. Lifecycle!Finish
        BY <3>3, <3>5 DEF Lifecycle!Finish
      <3> QED
        BY <3>3, <3>6 DEF RestInv, AtRest, Lifecycle!Next
    <2> QED
      BY <2>1, <2>2
  <1>4. CASE DisabledInit \/ AutonomousInit
    <2>1. UNCHANGED engine /\ pc = "init"
      BY <1>4 DEF DisabledInit, AutonomousInit, Enter, luaVars
    <2> QED
      BY <2>1 DEF RestInv
  <1>5. CASE TeleopInit \/ TestInit
    <2>1. PICK bot \in Bots : EnterProgram(bot)
      <3>1. TestBots \subseteq Bots /\ TeleopBot \in Bots
        BY RobotAssumption DEF RobotAssumption
      <3> QED
        BY <1>5, <3>1 DEF TeleopInit, TestInit
    <2>2. /\ engine' \in EngineType
          /\ engine' = engine \/ engine'.stage = "prepare"
          /\ engine' # engine => engine'.err = luaErrorEncountered'
          /\ ~luaErrorEncountered' => engine'.stage = "prepare" /\ ~engine'.err
      BY <2>1, EnterProgramType
    <2>3. /\ pc = "init" /\ pc' = "periodic" /\ lastMode' \in {"teleop", "test"}
      BY <1>5 DEF TeleopInit, TestInit, Enter
    <2>4. LifeOf(engine) \in AtRest
      BY <2>3 DEF RestInv
    <2>5. CASE engine' = engine
      BY <2>3, <2>4, <2>5 DEF RestInv, LuaModes
    <2>6. CASE engine' # engine
      <3>1. engine'.err \in BOOLEAN /\ engine'.stage = "prepare"
        BY <2>2, <2>6 DEF EngineType
      <3>2. /\ LifeOf(engine') \in {"ready", "broken"}
            /\ engine'.err => LifeOf(engine') = "broken"
        BY <2>2, <3>1, LifeValues
      <3>3. Lifecycle!Install
        BY <2>4, <3>2 DEF Lifecycle!Install, AtRest
      <3> QED
        BY <2>2, <2>3, <2>6, <3>2, <3>3 DEF RestInv, AtRest, LuaModes, Lifecycle!Next
    <2> QED
      BY <2>5, <2>6
  <1>6. CASE DisabledPeriodic \/ AutonomousPeriodic \/ LuaPeriodicStopped
    <2>1. /\ UNCHANGED <<engine, luaErrorEncountered, lastMode>>
          /\ pc' \notin {"init", "boot"}
      BY <1>6 DEF DisabledPeriodic, AutonomousPeriodic, LuaPeriodicStopped, EndPeriod, luaVars
    <2> QED
      BY <2>1 DEF RestInv
  <1>7. CASE LuaPeriodicSafe \/ LuaPeriodicUnsafe
    <2>1. InControl
      BY <1>7 DEF LuaPeriodicSafe, LuaPeriodicUnsafe
    <2>2. /\ pc = "periodic" /\ lastMode \in LuaModes /\ ~luaErrorEncountered
          /\ lastMode' = lastMode
      BY <2>1 DEF InControl
    <2>3. engine.stage \in {"prepare", "run"} /\ ~engine.err
      BY <2>2, HasEngine
    <2>4. pc' \in {"wait", "dead"}
      BY <1>7 DEF LuaPeriodicSafe, LuaPeriodicUnsafe
    <2>5. /\ engine' \in EngineType /\ engine'.stage = "run"
          /\ luaErrorEncountered' => engine'.err
      <3>1. CASE LuaPeriodicSafe
        <4>1. PICK ok \in Outcomes("run") :
                engine' = Call(engine, "run", ok) /\ luaErrorEncountered' = ~ok
          BY <3>1 DEF LuaPeriodicSafe
        <4>2. ok \in BOOLEAN
          BY OutcomesType
        <4>3. /\ engine' \in EngineType /\ engine'.stage = "run"
              /\ engine'.bot = engine.bot /\ engine'.err = ~ok
          BY <1>t, <4>1, <4>2, CallType
        <4> QED
          BY <4>1, <4>3
      <3>2. CASE LuaPeriodicUnsafe
        <4>1. PICK ok \in Outcomes("run") : engine' = Run(engine, ok)
          BY <3>2 DEF LuaPeriodicUnsafe
        <4>2. luaErrorEncountered' = luaErrorEncountered
          BY <3>2 DEF LuaPeriodicUnsafe
        <4> QED
          BY <1>t, <2>2, <4>1, <4>2, OutcomesType, RunType
      <3> QED
        BY <1>7, <3>1, <3>2
    <2>6. LifeOf(engine) \in {"ready", "running"}
      BY <1>t, <2>3, LifeValues
    <2>7. /\ LifeOf(engine') \in {"running", "broken"}
          /\ luaErrorEncountered' => LifeOf(engine') = "broken"
      <3>1. engine'.err \in BOOLEAN
        BY <2>5 DEF EngineType
      <3> QED
        BY <2>5, <3>1, LifeValues
    <2>8. Lifecycle!Work
      BY <2>6, <2>7 DEF Lifecycle!Work
    <2> QED
      BY <2>2, <2>4, <2>7, <2>8 DEF RestInv, AtRest, Lifecycle!Next
  <1>8. CASE Restart
    <2>1. pc = "dead" /\ engine' = NoEngine
      BY <1>8 DEF Restart
    <2>2. LifeOf(engine) = "running"
      BY <1>t, <2>1, LifeValues DEF DeadInRun
    <2>3. LifeOf(engine') = "none"
      BY <2>1, NoEngineType, LifeValues
    <2> QED
      BY <2>2, <2>3 DEF RestInv, AtRest, Lifecycle!Next, Lifecycle!Lost
  <1>9. CASE UNCHANGED vars
    BY <1>9 DEF vars, loopVars, luaVars, RestInv
  <1> QED
    BY <1>1, <1>2, <1>3, <1>4, <1>5, <1>6, <1>7, <1>8, <1>9 DEF Next, Loop, LuaPeriodic

\* The calls RobotMain makes on its engine implement BotLifecycle: a program runs
\* only after prepare, never after it failed or was cleaned up, and is replaced only
\* once it is stopped or broken (main.cpp 370-466, engine.hpp 74-102).
THEOREM RefinesBotLifecycle == Spec => ImplementsBotLifecycle
  <1>1. Init => RestInv /\ Lifecycle!Init
    BY InitLife
  <1>2. TypeInv /\ LuaHostSafe /\ DeadInRun /\ RestInv /\ [Next]_vars
          => RestInv' /\ [Lifecycle!Next]_(LifeOf(engine))
    BY NextLife
  <1> QED
    BY <1>1, <1>2, TypeInvariant, LuaHostIsSafe, DiesInvariant, PTL
    DEF Spec, ImplementsBotLifecycle, Lifecycle!Spec

-----------------------------------------------------------------------------
(* Shoot/load overlaps.  They need room for a feed: without it a shot that *)
(* has ended could leave the feed running in the intake direction.         *)

SoundMotors(s) ==
  /\ IsLoading(s) => s.primary < 0
  /\ IsShooting(s) => s.primary > 0 /\ (s.secondary < 0 => s.delay <= WarmTicks)
  /\ IsIdle(s) => s.secondary >= 0

\* The voltages agree with the state of the shooter, but between the entry of a Lua
\* mode, which may have reset a running intake, and its first period.
MotorsInv ==
  pc # "dead" => \/ SoundMotors(shooter)
                 \/ IsIdle(shooter) /\ pc = "periodic" /\ lastMode \in LuaModes

\* process() makes them agree, whatever they were.
LEMMA ProcessIsSound ==
  ASSUME RoomToFeed, NEW s, WellFormed(s), ClockInStep(s)
  PROVE  SoundMotors(Process(s))
  <1>1. IsIdle(s) \/ IsLoading(s) \/ IsShooting(s)
    BY DEF WellFormed, ShooterType, IsIdle, IsLoading, IsShooting
  <1>2. Process(s).secondary \in Int
    BY ProcessOK DEF WellFormed, ShooterType
  <1>3. CASE IsIdle(s)
    BY <1>3, ProcessMotors DEF SoundMotors, IsIdle, IsLoading, IsShooting
  <1>4. CASE IsLoading(s)
    BY <1>4, ProcessMotors DEF SoundMotors, IsIdle, IsLoading, IsShooting
  <1>5. CASE IsShooting(s)
    BY <1>2, <1>5, ProcessMotors DEF SoundMotors, IsIdle, IsLoading, IsShooting
  <1> QED
    BY <1>1, <1>3, <1>4, <1>5

LEMMA NewShooterIsSound == SoundMotors(NewShooter)
  BY DEF SoundMotors, NewShooter, IsIdle, IsLoading, IsShooting

LEMMA AfterRunKeepsMotors ==
  ASSUME NEW s, WellFormed(s), ClockInStep(s), NEW t \in AfterRun(s)
  PROVE  /\ t.primary = s.primary /\ t.secondary = s.secondary
         /\ MaxCalls = 1 /\ IsLoading(s) => ~IsShooting(t)
  <1>0. s \in ShooterType
    BY DEF WellFormed
  <1>1. CASE MaxCalls = 1
    BY <1>0, <1>1, OneCallKeepsMotors DEF AfterRun
  <1>2. CASE MaxCalls # 1
    <2>1. PICK u \in OneCall(s) : t \in OneCall(u)
      BY <1>2 DEF AfterRun
    <2>2. u \in ShooterType
      BY <2>1, OneCallOK DEF WellFormed
    <2> QED
      BY <1>0, <1>2, <2>1, <2>2, OneCallKeepsMotors
  <1> QED
    BY <1>1, <1>2

\* What a step may do to the shooter: leave it, reset it at the entry of a Lua mode,
\* command it in a periodic callback, or lose it.
LEMMA ShooterSteps ==
  ASSUME TypeInv, Next
  PROVE  \/ /\ shooter' = shooter
            /\ pc = "periodic" => lastMode = "disabled"
         \/ /\ shooter' = Reset(shooter)
            /\ pc = "init" /\ pc' = "periodic" /\ lastMode' \in LuaModes
         \/ /\ pc = "periodic" /\ lastMode = "auto"
            /\ shooter' = AutoShooter
         \/ /\ pc = "periodic" /\ lastMode \in LuaModes
            /\ \/ shooter' = Process(shooter)
               \/ \E s \in AfterRun(shooter) :
                    shooter' = Process(s) \/ (shooter' = s /\ pc' = "dead")
         \/ shooter' = NewShooter
  <1>1. CASE RobotInit \/ ReadWord \/ QuietExit \/ LuaExit
    BY <1>1 DEF RobotInit, ReadWord, QuietExit, LuaExit
  <1>2. CASE DisabledInit \/ AutonomousInit
    BY <1>2 DEF DisabledInit, AutonomousInit, Enter
  <1>3. CASE TeleopInit \/ TestInit
    <2>1. /\ pc = "init" /\ pc' = "periodic" /\ lastMode' \in LuaModes
          /\ \E bot \in Bots : EnterProgram(bot)
      <3>1. TestBots \subseteq Bots /\ TeleopBot \in Bots
        BY RobotAssumption DEF RobotAssumption
      <3> QED
        BY <1>3, <3>1 DEF TeleopInit, TestInit, Enter, LuaModes
    <2>2. shooter' = shooter \/ shooter' = Reset(shooter)
      BY <2>1 DEF EnterProgram, LoadFails, LoadAndPrepare
    <2> QED
      BY <2>1, <2>2
  <1>4. CASE DisabledPeriodic \/ AutonomousPeriodic
    BY <1>4 DEF DisabledPeriodic, AutonomousPeriodic, EndPeriod
  <1>5. CASE LuaPeriodicStopped
    BY <1>5 DEF LuaPeriodicStopped, EndPeriod
  <1>6. CASE LuaPeriodicSafe
    BY <1>6 DEF LuaPeriodicSafe, InControl
  <1>7. CASE LuaPeriodicUnsafe
    <2>1. pc = "periodic" /\ lastMode \in LuaModes
      BY <1>7 DEF LuaPeriodicUnsafe, InControl
    <2>2. \E s \in AfterRun(shooter) :
            shooter' = Process(s) \/ (shooter' = s /\ pc' = "dead")
      BY <1>7 DEF LuaPeriodicUnsafe
    <2> QED
      BY <2>1, <2>2
  <1>8. CASE Restart
    BY <1>8 DEF Restart
  <1> QED
    BY <1>1, <1>2, <1>3, <1>4, <1>5, <1>6, <1>7, <1>8 DEF Next, Loop, LuaPeriodic

\* The shooter an autonomous period commands: the one it found, or a shot just begun
\* by an idle one.
LEMMA AutoCommands ==
  ASSUME TypeInv
  PROVE  \E t : /\ WellFormed(t) /\ ClockInStep(t) /\ AutoShooter = Process(t)
                /\ t.secondary = shooter.secondary
                /\ t = shooter \/ IsIdle(shooter)
  <1>1. WellFormed(shooter) /\ ClockInStep(shooter) /\ shooter \in ShooterType
    BY TypeParts DEF ShooterSound, WellFormed
  <1>2. CASE hasShot
    BY <1>1, <1>2 DEF AutoShooter
  <1>3. CASE ~hasShot
    <2>1. WellFormed(Shoot(shooter)) /\ ClockInStep(Shoot(shooter))
      BY <1>1, ShootOK
    <2>2. Shoot(shooter).secondary = shooter.secondary
      BY <1>1, CallsKeepMotors, LevelsAreNumbers
    <2>3. Shoot(shooter) = shooter \/ IsIdle(shooter)
      BY DEF Shoot
    <2> QED
      BY <1>3, <2>1, <2>2, <2>3 DEF AutoShooter
  <1> QED
    BY <1>2, <1>3

LEMMA NextMotors ==
  ASSUME RoomToFeed, TypeInv, MotorsInv, [Next]_vars PROVE MotorsInv'
  <1>s. WellFormed(shooter) /\ ClockInStep(shooter) /\ shooter \in ShooterType
    BY TypeParts DEF ShooterSound, WellFormed
  <1>1. CASE UNCHANGED vars
    BY <1>1 DEF vars, loopVars, MotorsInv
  <1>2. CASE Next
    <2>1. CASE shooter' = shooter /\ (pc = "periodic" => lastMode = "disabled")
      <3>1. pc # "dead" => SoundMotors(shooter)
        BY <2>1 DEF MotorsInv, LuaModes
      <3>2. CASE pc # "dead"
        BY <2>1, <3>1, <3>2 DEF MotorsInv
      <3>3. CASE pc = "dead"
        <4>1. shooter' = NewShooter
          BY <1>2, <3>3
             DEF Next, Loop, LuaPeriodic, RobotInit, ReadWord, QuietExit, LuaExit, Enter,
                 DisabledInit, AutonomousInit, TeleopInit, TestInit, EndPeriod,
                 DisabledPeriodic, AutonomousPeriodic, LuaPeriodicStopped, InControl,
                 LuaPeriodicSafe, LuaPeriodicUnsafe, Restart
        <4> QED
          BY <4>1, NewShooterIsSound DEF MotorsInv
      <3> QED
        BY <3>2, <3>3
    <2>2. CASE shooter' = Reset(shooter) /\ pc' = "periodic" /\ lastMode' \in LuaModes
      BY <1>s, <2>2 DEF MotorsInv, Reset, IsIdle, ShooterType
    <2>3. CASE shooter' = AutoShooter
      BY <2>3, AutoCommands, ProcessIsSound DEF MotorsInv
    <2>4. CASE shooter' = Process(shooter)
      BY <1>s, <2>4, ProcessIsSound DEF MotorsInv
    <2>5. CASE \E s \in AfterRun(shooter) :
                 shooter' = Process(s) \/ (shooter' = s /\ pc' = "dead")
      <3>1. PICK s \in AfterRun(shooter) :
              shooter' = Process(s) \/ (shooter' = s /\ pc' = "dead")
        BY <2>5
      <3>2. WellFormed(s) /\ ClockInStep(s)
        BY <1>s, AfterRunOK
      <3>3. SoundMotors(Process(s))
        BY <3>2, ProcessIsSound
      <3> QED
        BY <3>1, <3>3 DEF MotorsInv
    <2>6. CASE shooter' = NewShooter
      BY <2>6, NewShooterIsSound DEF MotorsInv
    <2> QED
      BY <1>2, ShooterSteps, <2>1, <2>2, <2>3, <2>4, <2>5, <2>6
  <1> QED
    BY <1>1, <1>2

\* A callback that commands the shooter keeps an overlap out, or finds the feed
\* running in the intake direction and a shot to start.
LEMMA OverlapStep ==
  ASSUME RoomToFeed, TypeInv, MotorsInv, Next PROVE OverlapBeginsStep
  <1> DEFINE Overlap(s) == s.primary > 0 /\ s.secondary < 0
  <1> SUFFICES ASSUME ~Overlap(shooter), Overlap(shooter')
               PROVE  /\ pc = "periodic" /\ lastMode \in LuaModes
                      /\ shooter.secondary < 0
                      /\ IsLoading(shooter) \/ IsIdle(shooter)
                      /\ MaxCalls = 1 => IsIdle(shooter)
    BY DEF OverlapBeginsStep, NoShootLoadOverlap
  <1>s. WellFormed(shooter) /\ ClockInStep(shooter) /\ shooter \in ShooterType
    BY TypeParts DEF ShooterSound, WellFormed
  <1>n. /\ shooter.primary \in Int /\ shooter.secondary \in Int
        /\ IsIdle(shooter) \/ IsLoading(shooter) \/ IsShooting(shooter)
    BY <1>s DEF ShooterType, IsIdle, IsLoading, IsShooting
  \* The shooter that process() was given was in a shot, its feed in the intake direction.
  <1>p. ASSUME NEW s, WellFormed(s), ClockInStep(s), shooter' = Process(s)
        PROVE  IsShooting(s) /\ s.secondary < 0
    <2>1. IsIdle(s) \/ IsLoading(s) \/ IsShooting(s)
      BY <1>p DEF WellFormed, ShooterType, IsIdle, IsLoading, IsShooting
    <2>2. Process(s).primary \in Int /\ Process(s).secondary \in Int
      BY <1>p, ProcessOK DEF WellFormed, ShooterType
    <2> QED
      BY <1>p, <2>1, <2>2, ProcessMotors
  \* A callback finds the voltages in agreement with the state.
  <1>q. pc # "dead" /\ IsShooting(shooter) => shooter.primary > 0
    BY DEF MotorsInv, SoundMotors, IsIdle, IsShooting
  <1>1. CASE shooter' = shooter
    BY <1>1
  <1>2. CASE shooter' = Reset(shooter)
    BY <1>s, <1>2 DEF Reset, ShooterType
  <1>3. CASE pc = "periodic" /\ lastMode = "auto" /\ shooter' = AutoShooter
    <2>1. PICK t : /\ WellFormed(t) /\ ClockInStep(t) /\ AutoShooter = Process(t)
                   /\ t.secondary = shooter.secondary
                   /\ t = shooter \/ IsIdle(shooter)
      BY AutoCommands
    <2>2. IsShooting(t) /\ shooter.secondary < 0
      BY <1>3, <1>p, <2>1
    <2>3. ~IsIdle(shooter)
      BY <1>3, <1>n, <2>2 DEF MotorsInv, SoundMotors, LuaModes
    <2> QED
      BY <1>3, <1>q, <2>1, <2>2, <2>3
  <1>4. CASE pc = "periodic" /\ shooter' = Process(shooter)
    BY <1>4, <1>s, <1>p, <1>q
  <1>5. ASSUME pc = "periodic", lastMode \in LuaModes, NEW s \in AfterRun(shooter),
               shooter' = Process(s) \/ shooter' = s
        PROVE  /\ pc = "periodic" /\ lastMode \in LuaModes
               /\ shooter.secondary < 0
               /\ IsLoading(shooter) \/ IsIdle(shooter)
               /\ MaxCalls = 1 => IsIdle(shooter)
    <2>1. /\ s.primary = shooter.primary /\ s.secondary = shooter.secondary
          /\ MaxCalls = 1 /\ IsLoading(shooter) => ~IsShooting(s)
      BY <1>s, AfterRunKeepsMotors
    <2>2. shooter' = Process(s)
      BY <1>5, <2>1
    <2>3. IsShooting(s) /\ shooter.secondary < 0
      BY <1>s, <1>p, <2>1, <2>2, AfterRunOK
    <2>4. ~IsShooting(shooter)
      BY <1>5, <1>q, <2>3
    <2> QED
      BY <1>5, <1>n, <2>1, <2>3, <2>4
  <1>6. CASE shooter' = NewShooter
    BY <1>6 DEF NewShooter
  <1> QED
    BY ShooterSteps, <1>1, <1>2, <1>3, <1>4, <1>5, <1>6

LEMMA MotorsInvariant == RoomToFeed => (Spec => []MotorsInv)
  <1> SUFFICES ASSUME RoomToFeed PROVE Spec => []MotorsInv
    OBVIOUS
  <1>1. Init => MotorsInv
    BY NewShooterIsSound DEF Init, MotorsInv
  <1>2. TypeInv /\ MotorsInv /\ [Next]_vars => MotorsInv'
    BY NextMotors
  <1> QED
    BY <1>1, <1>2, TypeInvariant, PTL DEF Spec

\* Flywheels shooting against a feed in the intake direction: that begins only in a
\* Lua program, never in autonomous, and if programs make one call a period, only after
\* a mode entry has reset a running intake (shooter.cpp 30-42, main.cpp 279, 379, 442-466).
THEOREM OverlapBeginsCorrect == RoomToFeed => (Spec => OverlapBegins)
  <1> SUFFICES ASSUME RoomToFeed PROVE Spec => OverlapBegins
    OBVIOUS
  <1>1. TypeInv /\ MotorsInv /\ [Next]_vars => [OverlapBeginsStep]_vars
    BY OverlapStep
  <1> QED
    BY <1>1, TypeInvariant, MotorsInvariant, PTL DEF Spec, OverlapBegins

\* An overlap that is there at the end of a period is in the warm-up of a shot: it lasts
\* WarmTicks periods at most (process() in shooter.cpp).
THEOREM OverlapEnds == RoomToFeed => (Spec => []OverlapOnlyInWarmup)
  <1> SUFFICES ASSUME RoomToFeed PROVE Spec => []OverlapOnlyInWarmup
    OBVIOUS
  <1>1. TypeInv /\ MotorsInv => OverlapOnlyInWarmup
    <2> SUFFICES ASSUME TypeInv, MotorsInv, shooter.primary > 0, shooter.secondary < 0,
                        pc = "wait"
                 PROVE  IsShooting(shooter) /\ shooter.delay <= WarmTicks
      BY DEF OverlapOnlyInWarmup, NoShootLoadOverlap
    <2>1. SoundMotors(shooter)
      BY DEF MotorsInv
    <2>2. shooter \in ShooterType
      BY TypeParts DEF ShooterSound, WellFormed
    <2> QED
      BY <2>1, <2>2 DEF SoundMotors, ShooterType, IsIdle, IsLoading, IsShooting
  <1> QED
    BY <1>1, TypeInvariant, MotorsInvariant, PTL

-----------------------------------------------------------------------------
(* Errors while a program is loaded.                                       *)

LoadErrors == {"load", "init"}
NoLoadError(e) == e.raised \cap LoadErrors = {}

\* Calling a method other than init leaves no error of the load behind.
LEMMA CallRaises ==
  ASSUME NEW e \in EngineType, NoLoadError(e), NEW ok \in BOOLEAN,
         NEW method \in {"init", "prepare", "run", "cleanup"}, ok \/ method # "init"
  PROVE  /\ NoLoadError(Call(e, method, ok))
         /\ method = "run" => NoLoadError(Run(e, ok))
  <1>1. Raised(e, method, ok) \cap LoadErrors = {}
    BY DEF Raised, NoLoadError, LoadErrors
  <1>2. Call(e, method, ok).raised = Raised(e, method, ok)
    BY DEF Call, EngineType
  <1>3. Run(e, ok).raised = Raised(e, "run", ok)
    BY DEF Run, EngineType
  <1> QED
    BY <1>1, <1>2, <1>3 DEF NoLoadError

LEMMA NextRaised ==
  ASSUME "init" \notin Faults, TypeInv, NoLoadError(engine), [Next]_vars
  PROVE  NoLoadError(engine')
  <1>t. engine \in EngineType
    BY TypeParts DEF LuaTypes
  <1>1. CASE \/ RobotInit \/ ReadWord \/ QuietExit \/ DisabledInit \/ AutonomousInit
             \/ DisabledPeriodic \/ AutonomousPeriodic \/ LuaPeriodicStopped
             \/ UNCHANGED vars
    BY <1>1 DEF RobotInit, ReadWord, QuietExit, DisabledInit, AutonomousInit,
                DisabledPeriodic, AutonomousPeriodic, LuaPeriodicStopped, vars, luaVars
  <1>2. CASE LuaExit
    <2>1. \/ engine' = engine
          \/ \E ok \in Outcomes("cleanup") : engine' = Call(engine, "cleanup", ok)
      BY <1>2 DEF LuaExit
    <2> QED
      BY <1>t, <2>1, OutcomesType, CallRaises
  <1>3. CASE LuaPeriodicSafe \/ LuaPeriodicUnsafe
    <2>1. \E ok \in Outcomes("run") :
            engine' = Call(engine, "run", ok) \/ engine' = Run(engine, ok)
      BY <1>3 DEF LuaPeriodicSafe, LuaPeriodicUnsafe
    <2> QED
      BY <1>t, <2>1, OutcomesType, CallRaises
  <1>4. CASE TeleopInit \/ TestInit
    <2>1. PICK bot \in Bots : LoadFails \/ LoadAndPrepare(bot)
      <3>1. TestBots \subseteq Bots /\ TeleopBot \in Bots
        BY RobotAssumption DEF RobotAssumption
      <3> QED
        BY <1>4, <3>1 DEF TeleopInit, TestInit, EnterProgram
    <2>2. CASE LoadFails
      BY <2>2 DEF LoadFails
    <2>3. CASE LoadAndPrepare(bot)
      <3>1. PICK inited \in Outcomes("init"), prepared \in Outcomes("prepare") :
              engine' = Call(Call(Instantiate(bot, TRUE), "init", inited),
                             "prepare", prepared)
        BY <2>3 DEF LoadAndPrepare
      <3>2. inited = TRUE /\ prepared \in BOOLEAN
        BY OutcomesType DEF Outcomes
      <3> DEFINE i == Instantiate(bot, TRUE)
                 e == Call(i, "init", inited)
      <3>3. i \in EngineType /\ NoLoadError(i)
        BY InstantiateType DEF Instantiate, NoLoadError
      <3> HIDE DEF i
      <3>4. e \in EngineType /\ NoLoadError(e)
        BY <3>2, <3>3, CallType, CallRaises
      <3> HIDE DEF e
      <3>5. NoLoadError(Call(e, "prepare", prepared))
        BY <3>2, <3>4, CallRaises
      <3> QED
        BY <3>1, <3>5 DEF e, i
    <2> QED
      BY <2>1, <2>2, <2>3
  <1>5. CASE Restart
    BY <1>5 DEF Restart, NoEngine, NoLoadError
  <1> QED
    BY <1>1, <1>2, <1>3, <1>4, <1>5 DEF Next, Loop, LuaPeriodic

\* A program whose load failed is never used: the failure of init(), which loadEngine()
\* does not look at, is the only error of a load that loadEngine() misses (main.cpp
\* 370-391, "will throw a runtime error if the loaded engine is in error state").
THEOREM OnlyInitErrorIsMissed ==
  "init" \notin Faults => (Spec => []LoadedWithoutError)
  <1> SUFFICES ASSUME "init" \notin Faults PROVE Spec => []LoadedWithoutError
    OBVIOUS
  <1>1. Init => NoLoadError(engine)
    BY DEF Init, NoEngine, NoLoadError
  <1>2. TypeInv /\ NoLoadError(engine) /\ [Next]_vars => NoLoadError(engine)'
    BY NextRaised
  <1>3. NoLoadError(engine) => LoadedWithoutError
    BY DEF NoLoadError, LoadErrors, LoadedWithoutError
  <1> QED
    BY <1>1, <1>2, <1>3, TypeInvariant, PTL DEF Spec
=============================================================================
