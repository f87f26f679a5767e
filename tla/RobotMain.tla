----------------------------- MODULE RobotMain -----------------------------
(***************************************************************************)
(* Class RobotMain (src/main.cpp): the callbacks of the timed robot, the   *)
(* engine that runs the Lua programs, the autonomous routine and the       *)
(* shooter they share.                                                     *)
(*                                                                         *)
(* The framework's loop is external: each period it reads the driver       *)
(* station, calls the Exit callback of the old mode and the Init callback  *)
(* of the new one when the mode changed, then the Periodic callback.  One  *)
(* action per callback; what the callback reads from outside (the mode,    *)
(* the dashboard choice, the gamepad's connection) is chosen when it reads *)
(* it.  A Lua program is any program: in one run() it makes up to MaxCalls *)
(* calls to the shooter and may or may not command the drivetrain.         *)
(***************************************************************************)
EXTENDS ShooterOps, EngineOps

CONSTANTS
  TestBots,     \* what the "Test Program" chooser offers
  ShootYes,     \* trajectories of config.lua with shoot = true,
  ShootNo,      \* with shoot = false,
  ShootAbsent,  \* and with no shoot entry
  PathTime,     \* trajectory.TotalTime(), in loop periods
  SpinTime,     \* the three seconds of turning after it, in loop periods
  MaxLag,       \* most periods a loop may take (overruns)
  MaxCalls,     \* most shooter calls a program makes in one run(): 1 or 2
  DebugBuild    \* sol::function is sol::protected_function

TeleopBot    == "teleop.bot"
Trajectories == ShootYes \cup ShootNo \cup ShootAbsent

ASSUME RobotAssumption ==
  /\ TeleopBot \in Bots /\ "none" \notin Bots
  /\ TestBots \subseteq Bots
  /\ Faults \subseteq FaultKinds
  /\ "Fallback" \notin Trajectories
  /\ ShootYes \cap ShootNo = {}
  /\ PathTime \in Nat /\ SpinTime \in Nat /\ MaxLag \in Nat \ {0}
  /\ MaxCalls \in {1, 2}
  /\ DebugBuild \in BOOLEAN

Modes    == {"disabled", "auto", "teleop", "test"}
LuaModes == {"teleop", "test"}
TimerCap == PathTime + SpinTime + 1   \* later times are all the same

VARIABLES
  pc,        \* the callback the loop calls next
  word,      \* the mode the loop read from the driver station
  lastMode,  \* the mode whose callbacks run; "none" before the first
  engine,
  luaErrorEncountered,
  protectedLuaCalls,
  gamepadConnected,
  shooter,
  drive,     \* what was last asked of the drivetrain
  autoInfo,
  hasShot,
  hasStartedMoving,
  timer      \* periods since timer.Restart(), counted in autonomous

\* History of the current autonomous period, for the properties only.
VARIABLE auto

loopVars == <<pc, word, lastMode>>
luaVars  == <<engine, luaErrorEncountered, protectedLuaCalls, gamepadConnected>>
autoVars == <<autoInfo, hasShot, hasStartedMoving, timer, auto>>
vars     == <<loopVars, luaVars, autoVars, shooter, drive>>

NoInfo   == [name |-> "", shoot |-> FALSE]
Fallback == [name |-> "Fallback", shoot |-> FALSE]
NoAuto   == [clean |-> FALSE, fired |-> 0, completed |-> 0]

Init ==
  /\ pc = "boot" /\ word = "none" /\ lastMode = "none"
  /\ engine = NoEngine
  /\ luaErrorEncountered = FALSE /\ protectedLuaCalls = FALSE
  /\ gamepadConnected = FALSE
  /\ shooter = NewShooter /\ drive = "zero"
  /\ autoInfo = NoInfo
  /\ hasShot = FALSE /\ hasStartedMoving = FALSE /\ timer = 0
  /\ auto = NoAuto

-----------------------------------------------------------------------------
(* The autonomous settings.  info() and reloadTrajectory() both read the   *)
(* shoot entry, each with a default of its own.                            *)

Info(name)        == [name |-> name, shoot |-> name \in ShootYes]
\* Variant the runs must reject: the setting is not read.
AlwaysShoot(name) == TRUE

ShouldShoot(name) == name \notin ShootNo

\* Variants the runs must reject: the flag is not negated; the move is not re-armed.
ReloadInverted ==
  \E name \in Trajectories :
    /\ autoInfo' = Info(name)
    /\ hasShot' = ShouldShoot(name)
    /\ hasStartedMoving' = FALSE
ReloadKeepsMoving ==
  \E name \in Trajectories :
    /\ autoInfo' = Info(name)
    /\ hasShot' = ~ShouldShoot(name)
    /\ UNCHANGED hasStartedMoving

ReloadParsed ==
  \E name \in Trajectories :
    /\ autoInfo' = Info(name)
    /\ hasShot' = ~ShouldShoot(name)
    /\ hasStartedMoving' = FALSE

\* The catch block: only autoInfo is replaced.
ReloadFallback ==
  /\ "trajectory" \in Faults
  /\ autoInfo' = Fallback
  /\ UNCHANGED <<hasShot, hasStartedMoving>>

reloadTrajectory == ReloadParsed \/ ReloadFallback

RobotInit ==
  /\ pc = "boot"
  /\ reloadTrajectory
  /\ pc' = "wait"
  /\ UNCHANGED <<word, lastMode, luaVars, timer, auto, shooter, drive>>

-----------------------------------------------------------------------------
(* The framework's loop.                                                   *)

\* One period passes and the loop reads the mode.  The timer matters, and is
\* advanced, in autonomous only: AutonomousInit restarts it.
ReadWord ==
  /\ pc = "wait"
  /\ \E m \in Modes :
       /\ word' = m
       /\ pc' = IF m = lastMode THEN "periodic" ELSE "exit"
  /\ IF lastMode = "auto"
     THEN \E lag \in 1 .. MaxLag : timer' = Smaller(timer + lag, TimerCap)
     ELSE UNCHANGED timer
  /\ UNCHANGED <<lastMode, luaVars, autoInfo, hasShot, hasStartedMoving, auto,
                 shooter, drive>>

\* DisabledExit and AutonomousExit collect garbage; at boot there is no mode.
QuietExit ==
  /\ pc = "exit" /\ lastMode \notin LuaModes
  /\ pc' = "init"
  /\ auto' = NoAuto
  /\ UNCHANGED <<word, lastMode, luaVars, autoInfo, hasShot, hasStartedMoving, timer,
                 shooter, drive>>

\* Variant the runs must reject: luaExit() without its early return.
LuaExitAnyway ==
  /\ pc = "exit" /\ lastMode \in LuaModes
  /\ \E ok \in Outcomes("cleanup") :
       /\ engine' = Call(engine, "cleanup", ok)
       /\ luaErrorEncountered' = ~ok
       /\ pc' = IF engine = NoEngine THEN "dead" ELSE "init"
  /\ UNCHANGED <<word, lastMode, protectedLuaCalls, gamepadConnected, autoVars,
                 shooter, drive>>

\* TeleopExit and TestExit: luaExit().
LuaExit ==
  /\ pc = "exit" /\ lastMode \in LuaModes
  /\ IF luaErrorEncountered
     THEN pc' = "init" /\ UNCHANGED <<engine, luaErrorEncountered>>
     ELSE \E ok \in Outcomes("cleanup") :
            /\ engine' = Call(engine, "cleanup", ok)
            /\ luaErrorEncountered' = ~ok
            /\ pc' = IF engine = NoEngine THEN "dead" ELSE "init"
  /\ UNCHANGED <<word, lastMode, protectedLuaCalls, gamepadConnected, autoVars,
                 shooter, drive>>

-----------------------------------------------------------------------------
(* Mode entry.                                                             *)

Enter ==
  /\ pc = "init"
  /\ lastMode' = word
  /\ pc' = "periodic"
  /\ UNCHANGED word

DisabledInit ==
  /\ Enter /\ word = "disabled"
  /\ UNCHANGED <<luaVars, autoVars, shooter, drive>>

\* The shooter is not reset: a shot or an intake left over goes on.
AutonomousInit ==
  /\ Enter /\ word = "auto"
  /\ reloadTrajectory
  /\ timer' = 0
  /\ auto' = [NoAuto EXCEPT !.clean = IsIdle(shooter)]
  /\ UNCHANGED <<luaVars, shooter, drive>>

\* Variant the runs must reject: the failure is not remembered.
LoadFailsQuietly ==
  /\ FALSE \in Outcomes("load")
  /\ luaErrorEncountered' = FALSE
  /\ UNCHANGED <<engine, shooter>>

\* safeLoadEngine(bot) and, when it worked, luaPrepare().  A load that fails
\* leaves the previous engine and the shooter as they are.
LoadFails ==
  /\ FALSE \in Outcomes("load")
  /\ luaErrorEncountered' = TRUE
  /\ UNCHANGED <<engine, shooter>>

LoadAndPrepare(bot) ==
  \E inited \in Outcomes("init"), prepared \in Outcomes("prepare") :
    /\ engine' = Call(Call(Instantiate(bot, TRUE), "init", inited), "prepare", prepared)
    /\ luaErrorEncountered' = ~prepared
    /\ shooter' = Reset(shooter)

EnterProgram(bot) == LoadFails \/ LoadAndPrepare(bot)

TeleopInit ==
  /\ Enter /\ word = "teleop"
  /\ protectedLuaCalls' = FALSE
  /\ EnterProgram(TeleopBot)
  /\ UNCHANGED <<gamepadConnected, autoVars, drive>>

TestInit ==
  /\ Enter /\ word = "test"
  /\ protectedLuaCalls' = TRUE
  /\ \E bot \in TestBots : EnterProgram(bot)
  /\ UNCHANGED <<gamepadConnected, autoVars, drive>>

-----------------------------------------------------------------------------
(* Periodic callbacks.                                                     *)

EndPeriod == pc = "periodic" /\ pc' = "wait" /\ UNCHANGED <<word, lastMode>>

\* Variant the runs must reject: the drivetrain keeps its last command.
DisabledCoasts ==
  /\ EndPeriod /\ lastMode = "disabled"
  /\ UNCHANGED <<luaVars, autoVars, shooter, drive>>

DisabledPeriodic ==
  /\ EndPeriod /\ lastMode = "disabled"
  /\ drive' = "zero"
  /\ UNCHANGED <<luaVars, autoVars, shooter>>

\* Variant the runs must reject: hasShot is not looked at.
AutoShooterAlways == Process(Shoot(shooter))

\* The shooter after the first half of AutonomousPeriodic.
AutoShooter == Process(IF hasShot THEN shooter ELSE Shoot(shooter))

\* Variant the runs must reject: the turn has no end.
AutoDriveForever(elapsed) == IF elapsed <= PathTime THEN "path" ELSE "spin"

AutoDrive(elapsed) ==
  IF elapsed <= PathTime THEN "path"
  ELSE IF elapsed < PathTime + SpinTime THEN "spin" ELSE "zero"

AutonomousPeriodic ==
  /\ EndPeriod /\ lastMode = "auto"
  /\ shooter' = AutoShooter
  /\ hasShot' = TRUE
  /\ IF IsShooting(AutoShooter)
     THEN drive' = "zero" /\ UNCHANGED <<hasStartedMoving, timer>>
     ELSE /\ hasStartedMoving' = TRUE
          /\ timer' = IF hasStartedMoving THEN timer ELSE 0
          /\ drive' = AutoDrive(timer')
  /\ auto' = [auto EXCEPT
       !.fired = @ + IF ~hasShot /\ IsIdle(shooter) THEN 1 ELSE 0,
       !.completed = @ + IF (IsShooting(shooter) \/ (~hasShot /\ IsIdle(shooter)))
                            /\ ~IsShooting(AutoShooter) THEN 1 ELSE 0]
  /\ UNCHANGED <<luaVars, autoInfo>>

\* What one run() of a program may do to the shooter: a call, or a few.
AfterRun(s) == IF MaxCalls = 1 THEN OneCall(s) ELSE UNION {OneCall(t) : t \in OneCall(s)}

\* luaPeriodic() with no gamepad or after an error.
LuaPeriodicStopped ==
  /\ EndPeriod /\ lastMode \in LuaModes
  /\ gamepadConnected' \in BOOLEAN
  /\ ~gamepadConnected' \/ luaErrorEncountered
  /\ drive' = "zero"
  /\ shooter' = Process(shooter)
  /\ UNCHANGED <<engine, luaErrorEncountered, protectedLuaCalls, autoVars>>

InControl ==
  /\ pc = "periodic" /\ lastMode \in LuaModes /\ ~luaErrorEncountered
  /\ gamepadConnected' = TRUE
  /\ drive' \in {drive, "lua"}
  /\ UNCHANGED <<word, lastMode, protectedLuaCalls, autoVars>>

\* Variant the runs must reject: what safe_run() returned is not kept.
LuaPeriodicForgets ==
  /\ InControl /\ protectedLuaCalls
  /\ \E ok \in Outcomes("run") : engine' = Call(engine, "run", ok)
  /\ \E s \in AfterRun(shooter) : shooter' = Process(s)
  /\ pc' = IF engine = NoEngine THEN "dead" ELSE "wait"
  /\ UNCHANGED luaErrorEncountered

\* engine->safe_run(), then shooter.process() whatever it returned.
LuaPeriodicSafe ==
  /\ InControl /\ protectedLuaCalls
  /\ \E ok \in Outcomes("run") :
       /\ engine' = Call(engine, "run", ok)
       /\ luaErrorEncountered' = ~ok
  /\ \E s \in AfterRun(shooter) : shooter' = Process(s)
  /\ pc' = IF engine = NoEngine THEN "dead" ELSE "wait"

\* engine->run(): an error in the program is an exception nobody catches in a
\* release build, and is lost in a debug build.
LuaPeriodicUnsafe ==
  /\ InControl /\ ~protectedLuaCalls
  /\ \E ok \in Outcomes("run"), s \in AfterRun(shooter) :
       /\ engine' = Run(engine, ok)
       /\ IF engine # NoEngine /\ (ok \/ DebugBuild)
          THEN pc' = "wait" /\ shooter' = Process(s)
          ELSE pc' = "dead" /\ shooter' = s
  /\ UNCHANGED luaErrorEncountered

\* The program died; the roboRIO starts it again.
Restart ==
  /\ pc = "dead"
  /\ pc' = "boot" /\ word' = "none" /\ lastMode' = "none"
  /\ engine' = NoEngine
  /\ luaErrorEncountered' = FALSE /\ protectedLuaCalls' = FALSE
  /\ gamepadConnected' = FALSE
  /\ shooter' = NewShooter /\ drive' = "zero"
  /\ autoInfo' = NoInfo
  /\ hasShot' = FALSE /\ hasStartedMoving' = FALSE /\ timer' = 0
  /\ auto' = NoAuto

-----------------------------------------------------------------------------
LuaPeriodic == LuaPeriodicStopped \/ LuaPeriodicSafe \/ LuaPeriodicUnsafe

Loop ==
  \/ RobotInit \/ ReadWord
  \/ QuietExit \/ LuaExit
  \/ DisabledInit \/ AutonomousInit \/ TeleopInit \/ TestInit
  \/ DisabledPeriodic \/ AutonomousPeriodic \/ LuaPeriodic

Next == Loop \/ Restart

Spec == Init /\ [][Next]_vars

\* The framework's loop runs for as long as the program does.
FairSpec == Spec /\ WF_vars(Loop)

-----------------------------------------------------------------------------
\* Every variable has its type; the shooter is well formed.
TypeOK ==
  /\ pc \in {"boot", "wait", "exit", "init", "periodic", "dead"}
  /\ word \in Modes \cup {"none"}
  /\ lastMode \in Modes \cup {"none"}
  /\ engine \in EngineType
  /\ luaErrorEncountered \in BOOLEAN
  /\ protectedLuaCalls \in BOOLEAN
  /\ gamepadConnected \in BOOLEAN
  /\ WellFormed(shooter)
  /\ drive \in {"zero", "path", "spin", "lua"}
  /\ autoInfo \in [name : Trajectories \cup {"", "Fallback"}, shoot : BOOLEAN]
  /\ hasShot \in BOOLEAN
  /\ hasStartedMoving \in BOOLEAN
  /\ timer \in 0 .. TimerCap
  /\ auto \in [clean : BOOLEAN, fired : Nat, completed : Nat]

\* Whenever a callback is about to call into a program (a Lua mode, no error),
\* the engine exists, holds the program of this mode, and has been prepared and
\* neither failed nor been cleaned up since; calls are protected in test only.
LuaHostSafe ==
  lastMode \in LuaModes /\ pc # "init" /\ pc # "dead" =>
    /\ protectedLuaCalls = (lastMode = "test")
    /\ ~luaErrorEncountered =>
         /\ engine.stage \in {"prepare", "run"}
         /\ ~engine.err
         /\ lastMode = "teleop" => engine.bot = TeleopBot
         /\ lastMode = "test" => engine.bot \in TestBots

\* Only a run-time error of the teleop program takes the robot program down:
\* no load, init, prepare or cleanup error does, and no test program does.
OnlyTeleopDies ==
  pc = "dead" => /\ lastMode = "teleop" /\ engine.bot = TeleopBot
                 /\ ~DebugBuild /\ "run" \in Faults

\* At the end of a period the robot stands still unless whoever is in control of
\* the mode may move it: nobody does in disabled, a program only with a gamepad,
\* and the autonomous routine only when the shooter is not in a shot.
StillWhenNotInControl ==
  pc = "wait" =>
    /\ lastMode = "disabled" => drive = "zero"
    /\ lastMode \in LuaModes /\ ~gamepadConnected => drive = "zero"
    /\ lastMode = "auto" => drive # "lua" /\ (IsShooting(shooter) => drive = "zero")

\* "This is so you only shoot once": an autonomous period fires at most one shot
\* and completes at most one, a shot left over from another mode included.
AutoShootsOnce == auto.fired <= 1 /\ auto.completed <= 1

\* The robot of an autonomous period with a shot, entered with an idle shooter,
\* moves only after the shot has been fired and has run to its end.
ShotBeforeMove ==
  lastMode = "auto" /\ hasStartedMoving /\ autoInfo.shoot /\ auto.clean
    => auto.fired = 1 /\ auto.completed = 1

\* A shot is fired only if the settings in use say so (AutoModeInfo::shoot).
AutoHonoursSetting == auto.fired > 0 => autoInfo.shoot

(***************************************************************************)
(* The calls the host makes on its engine implement BotLifecycle.          *)
(***************************************************************************)
LifeOf(e) ==
  IF e = NoEngine THEN "none"
  ELSE IF e.err THEN "broken"
  ELSE CASE e.stage = "run"     -> "running"
         [] e.stage = "cleanup" -> "stopped"
         [] OTHER               -> "ready"

Lifecycle == INSTANCE BotLifecycle WITH life <- LifeOf(engine)

\* Programs are called in the order the descriptor documents.
ImplementsBotLifecycle == Lifecycle!Spec

(***************************************************************************)
(* The autonomous callbacks implement AutoRoutine, for trajectories that   *)
(* can be read.                                                            *)
(***************************************************************************)
autoStage ==
  CASE lastMode # "auto"                                 -> "off"
    [] lastMode = "auto" /\ ~hasStartedMoving            ->
         IF hasShot /\ IsShooting(shooter) THEN "shooting" ELSE "armed"
    [] lastMode = "auto" /\ hasStartedMoving             ->
         IF drive \in {"path", "spin"} THEN drive ELSE "done"

Routine == INSTANCE AutoRoutine WITH stage <- autoStage

\* Shot, path, turn, stop: in order, without skipping, and to the end.
ImplementsAutoRoutine == Routine!Spec

\* A robot left in autonomous ends up standing still, with whatever trajectory
\* and whatever the shooter was doing before.
AutoCompletes == <>[](lastMode = "auto") => <>[](drive = "zero")

\* A shot that comes to its end in autonomous has fed its note, whoever started it
\* and whatever the voltages were before.
AutoShotFed ==
  [][auto'.completed > auto.completed
       => shooter'.secondary > 0 /\ shooter'.secondary = shooter'.primary]_vars

(***************************************************************************)
(* Autonomous and the programs share the shooter as SharedShooter says.    *)
(***************************************************************************)
shooterUser ==
  CASE pc = "dead"                                -> "dead"
    [] pc # "dead" /\ lastMode = "auto"           -> "auto"
    [] pc # "dead" /\ lastMode \in LuaModes       ->
         IF luaErrorEncountered THEN "stopped" ELSE "program"
    [] OTHER                                      -> "nobody"

Sharing == INSTANCE SharedShooter WITH
  New <- NewShooter, Runs <- AfterRun,
  user <- shooterUser,
  owed <- pc = "periodic" /\ shooterUser # "nobody",
  due  <- lastMode = "auto" /\ ~hasShot

\* No program runs with a shooter that was not reset for it, autonomous asks for its
\* one shot in its first period, and the shooter is processed once in each period of
\* theirs and never otherwise, whatever fails.
ImplementsSharedShooter == Sharing!Spec

-----------------------------------------------------------------------------
(* What the documentation says and the code does not do: each is checked   *)
(* by a run that finds the violation (README, "Findings").                 *)

\* robot.hpp:225: "Shooting and Loading do not transition directly to each other
\* which prevents shoot/load overlaps": flywheels shooting while the feed runs
\* in the intake direction is such an overlap.
NoShootLoadOverlap == ~(shooter.primary > 0 /\ shooter.secondary < 0)

\* How far the code falls short of it.  An overlap begins only in a Lua program, with
\* the feed of an intake still running: never in autonomous, and, if the program makes
\* one call, only when the entry of the mode has reset a running intake.
OverlapBeginsStep ==
  NoShootLoadOverlap /\ ~NoShootLoadOverlap' =>
    /\ pc = "periodic" /\ lastMode \in LuaModes
    /\ shooter.secondary < 0
    /\ IsLoading(shooter) \/ IsIdle(shooter)
    /\ MaxCalls = 1 => IsIdle(shooter)
OverlapBegins == [][OverlapBeginsStep]_vars

\* And it lasts no longer than the warm-up of the shot.
OverlapOnlyInWarmup ==
  ~NoShootLoadOverlap /\ pc = "wait" => IsShooting(shooter) /\ shooter.delay <= WarmTicks

\* main.cpp:189: "true if the shot should be fired before moving".
ShotFiredBeforeMoving ==
  lastMode = "auto" /\ hasStartedMoving /\ autoInfo.shoot => auto.completed = 1

\* main.cpp:371: loadEngine() "will throw a runtime error if the loaded engine is
\* in error state": no program that raised an error while it was loaded is in use.
LoadedWithoutError ==
  lastMode \in LuaModes /\ pc = "wait" /\ ~luaErrorEncountered
    => engine.raised \cap {"load", "init"} = {}
=============================================================================
