-------------------------- MODULE AutonomousProofs --------------------------
(***************************************************************************)
(* Theorems about the autonomous routine of RobotMain: what one autonomous *)
(* period does with its shot and with the drivetrain, whatever mode came   *)
(* before, whatever the shooter was doing, and for every trajectory.       *)
(***************************************************************************)
EXTENDS RobotMainProofs

-----------------------------------------------------------------------------
(* The inductive invariant.                                                *)

\* The history is empty outside autonomous, and at most one shot is counted.
OneShot ==
  /\ lastMode # "auto" \/ pc \in {"init", "boot"} => auto = NoAuto
  /\ auto.fired \in {0, 1} /\ (auto.fired = 1 => hasShot)
  /\ auto.completed \in {0, 1} /\ (auto.completed = 1 => hasShot /\ ~IsShooting(shooter))

\* The period has a shot to fire and was entered with an idle shooter.
ShotDue == lastMode = "auto" /\ autoInfo.shoot /\ auto.clean

\* hasShot, the shooter and hasStartedMoving move together.
ShotFirst ==
  ShotDue =>
    \/ ~hasShot /\ IsIdle(shooter) /\ ~hasStartedMoving /\ auto.completed = 0
    \/ /\ hasShot /\ auto.fired = 1
       /\ IF IsShooting(shooter)
          THEN auto.completed = 0 /\ ~hasStartedMoving
          ELSE auto.completed = 1

AutoInv == OneShot /\ ShotFirst

LEMMA AutoInvImplies == AutoInv => AutoShootsOnce /\ ShotBeforeMove
  <1> SUFFICES ASSUME AutoInv PROVE AutoShootsOnce /\ ShotBeforeMove
    OBVIOUS
  <1>1. AutoShootsOnce
    BY DEF AutoInv, OneShot, AutoShootsOnce
  <1>2. ShotBeforeMove
    BY DEF AutoInv, ShotFirst, ShotDue, ShotBeforeMove
  <1> QED
    BY <1>1, <1>2

LEMMA NoAutoFields == NoAuto.clean = FALSE /\ NoAuto.fired = 0 /\ NoAuto.completed = 0
  BY DEF NoAuto

\* An empty history satisfies the invariant whatever the other variables are.
LEMMA EmptyHistory == auto' = NoAuto => AutoInv'
  BY NoAutoFields DEF AutoInv, OneShot, ShotFirst, ShotDue

LEMMA InitAuto == Init => AutoInv
  BY NoAutoFields DEF Init, AutoInv, OneShot, ShotFirst, ShotDue

-----------------------------------------------------------------------------
(* AutonomousInit and AutonomousPeriodic.                                  *)

\* A trajectory that asks for a shot does not mark the shot as taken.
LEMMA AutonomousInitShots ==
  ASSUME AutonomousInit
  PROVE  autoInfo'.shoot => ~hasShot' /\ ~hasStartedMoving'
  <1>1. CASE ReloadParsed
    <2>1. PICK name \in Trajectories :
            /\ autoInfo' = [name |-> name, shoot |-> name \in ShootYes]
            /\ hasShot' = ~(name \notin ShootNo)
            /\ hasStartedMoving' = FALSE
      BY <1>1 DEF ReloadParsed, Info, ShouldShoot
    <2>2. autoInfo'.shoot = (name \in ShootYes)
      BY <2>1
    <2>3. ShootYes \cap ShootNo = {}
      BY RobotAssumption DEF RobotAssumption
    <2>4. name \in ShootYes => name \notin ShootNo
      BY <2>3
    <2> QED
      BY <2>1, <2>2, <2>4, Zenon
  <1>2. CASE ReloadFallback
    BY <1>2 DEF ReloadFallback, Fallback
  <1> QED
    BY <1>1, <1>2 DEF AutonomousInit, reloadTrajectory

LEMMA AutonomousInitKeeps ==
  ASSUME AutonomousInit PROVE AutoInv'
  <1>1. auto' = [clean |-> IsIdle(shooter), fired |-> 0, completed |-> 0]
    BY DEF AutonomousInit, NoAuto
  <1>2. auto'.fired = 0 /\ auto'.completed = 0 /\ (auto'.clean <=> IsIdle(shooter))
    BY <1>1
  <1>3. lastMode' = "auto" /\ pc' = "periodic" /\ shooter' = shooter
    BY DEF AutonomousInit, Enter
  <1>4. OneShot'
    BY <1>2, <1>3 DEF OneShot
  <1>5. ShotFirst'
    BY <1>2, <1>3, AutonomousInitShots DEF ShotFirst, ShotDue, IsIdle
  <1> QED
    BY <1>4, <1>5 DEF AutoInv

\* What AutonomousPeriodic counts, and when the robot may start to move.
LEMMA AutonomousPeriodicCounts ==
  ASSUME AutoTypes, AutonomousPeriodic
  PROVE  /\ auto'.clean = auto.clean
         /\ auto'.fired = IF ~hasShot /\ IsIdle(shooter)
                          THEN auto.fired + 1 ELSE auto.fired
         /\ auto'.completed =
              IF (IsShooting(shooter) \/ (~hasShot /\ IsIdle(shooter)))
                   /\ ~IsShooting(AutoShooter)
              THEN auto.completed + 1 ELSE auto.completed
         /\ hasShot' = TRUE /\ autoInfo' = autoInfo
         /\ lastMode = "auto" /\ lastMode' = "auto" /\ pc' = "wait"
         /\ shooter' = AutoShooter
         /\ IsShooting(AutoShooter) => hasStartedMoving' = hasStartedMoving
  <1> DEFINE F == ~hasShot /\ IsIdle(shooter)
             C == (IsShooting(shooter) \/ (~hasShot /\ IsIdle(shooter)))
                    /\ ~IsShooting(AutoShooter)
             f == auto.fired + (IF F THEN 1 ELSE 0)
             c == auto.completed + (IF C THEN 1 ELSE 0)
  <1>1. auto' = [auto EXCEPT !.fired = f, !.completed = c]
    BY DEF AutonomousPeriodic
  <1>2. /\ hasShot' = TRUE /\ autoInfo' = autoInfo
        /\ lastMode = "auto" /\ lastMode' = "auto" /\ pc' = "wait"
        /\ shooter' = AutoShooter
        /\ IsShooting(AutoShooter) => hasStartedMoving' = hasStartedMoving
    BY DEF AutonomousPeriodic, EndPeriod
  <1>3. auto.fired \in Nat /\ auto.completed \in Nat
    BY DEF AutoTypes
  <1>4. auto \in [clean : BOOLEAN, fired : Nat, completed : Nat]
    BY DEF AutoTypes
  <1> HIDE DEF F, C
  <1>5. /\ F => f = auto.fired + 1
        /\ ~F => f = auto.fired
    BY <1>3
  <1>6. /\ C => c = auto.completed + 1
        /\ ~C => c = auto.completed
    BY <1>3
  <1> HIDE DEF f, c
  <1>7. auto'.clean = auto.clean /\ auto'.fired = f /\ auto'.completed = c
    BY <1>1, <1>4
  <1> QED
    BY <1>2, <1>5, <1>6, <1>7 DEF F, C

\* The shooter of that callback: a shot is started at most, or counted down.
LEMMA AutoShooterStates ==
  ASSUME ShooterSound
  PROVE  /\ ~IsShooting(shooter) /\ (hasShot \/ ~IsIdle(shooter)) => ~IsShooting(AutoShooter)
         /\ IsIdle(shooter) => ~IsShooting(shooter)
  <1>1. shooter \in ShooterType
    BY DEF ShooterSound, WellFormed
  <1>2. CASE ~IsShooting(shooter) /\ (hasShot \/ ~IsIdle(shooter))
    <2>1. AutoShooter = Process(shooter)
      BY <1>2 DEF AutoShooter, Shoot
    <2>2. IsIdle(shooter) \/ IsLoading(shooter)
      BY <1>1, <1>2 DEF ShooterType, IsIdle, IsLoading, IsShooting
    <2>3. Process(shooter).state \in {"Idle", "Loading"}
      BY <1>1, <2>2, ProcessIdle, ProcessLoading
    <2> QED
      BY <2>1, <2>3 DEF IsShooting, IsIdle
  <1> QED
    BY <1>2 DEF IsShooting, IsIdle

LEMMA AutonomousPeriodicKeeps ==
  ASSUME AutoTypes, ShooterSound, AutoInv, AutonomousPeriodic PROVE AutoInv'
  <1>1. OneShot'
    <2>1. auto'.fired \in {0, 1}
      BY AutonomousPeriodicCounts DEF AutoInv, OneShot
    <2>2. /\ auto'.completed \in {0, 1}
          /\ auto'.completed = 1 => ~IsShooting(AutoShooter)
      <3>1. CASE auto.completed = 1
        <4>1. hasShot /\ ~IsShooting(shooter)
          BY <3>1 DEF AutoInv, OneShot
        <4> QED
          BY <3>1, <4>1, AutonomousPeriodicCounts, AutoShooterStates
      <3>2. CASE auto.completed = 0
        BY <3>2, AutonomousPeriodicCounts
      <3> QED
        BY <3>1, <3>2 DEF AutoInv, OneShot
    <2> QED
      BY <2>1, <2>2, AutonomousPeriodicCounts DEF OneShot
  <1>2. ShotFirst'
    <2> SUFFICES ASSUME ShotDue'
                 PROVE  /\ hasShot' /\ auto'.fired = 1
                        /\ IF IsShooting(shooter')
                           THEN auto'.completed = 0 /\ ~hasStartedMoving'
                           ELSE auto'.completed = 1
      BY DEF ShotFirst
    <2>1. ShotDue
      BY AutonomousPeriodicCounts DEF ShotDue
    <2>2. CASE ~hasShot
      <3>1. IsIdle(shooter) /\ ~hasStartedMoving /\ auto.completed = 0 /\ auto.fired = 0
        BY <2>1, <2>2 DEF AutoInv, ShotFirst, OneShot
      <3> QED
        BY <2>2, <3>1, AutonomousPeriodicCounts
    <2>3. CASE hasShot
      <3>1. auto.fired = 1 /\ auto'.fired = 1
        BY <2>1, <2>3, AutonomousPeriodicCounts DEF AutoInv, ShotFirst
      <3>2. CASE IsShooting(shooter)
        <4>1. auto.completed = 0 /\ ~hasStartedMoving
          BY <2>1, <2>3, <3>2 DEF AutoInv, ShotFirst
        <4> QED
          BY <3>1, <3>2, <4>1, AutonomousPeriodicCounts
      <3>3. CASE ~IsShooting(shooter)
        <4>1. auto.completed = 1
          BY <2>1, <2>3, <3>3 DEF AutoInv, ShotFirst
        <4>2. ~IsShooting(AutoShooter)
          BY <2>3, <3>3, AutoShooterStates
        <4> QED
          BY <2>3, <3>1, <3>3, <4>1, <4>2, AutonomousPeriodicCounts
      <3> QED
        BY <3>2, <3>3
    <2> QED
      BY <2>2, <2>3
  <1> QED
    BY <1>1, <1>2 DEF AutoInv

-----------------------------------------------------------------------------
(* Every step.                                                             *)

LEMMA NextAuto == TypeInv /\ AutoInv /\ [Next]_vars => AutoInv'
  <1> SUFFICES ASSUME TypeInv, AutoInv, [Next]_vars PROVE AutoInv'
    OBVIOUS
  <1>p. AutoTypes /\ ShooterSound
    BY TypeParts
  <1>i. lastMode # "auto" \/ pc \in {"init", "boot"} => auto = NoAuto
    BY DEF AutoInv, OneShot
  <1>1. CASE RobotInit
    BY <1>1, <1>i, EmptyHistory DEF RobotInit
  <1>2. CASE ReadWord
    <2>1. /\ UNCHANGED <<lastMode, auto, hasShot, hasStartedMoving, autoInfo, shooter>>
          /\ pc' \notin {"init", "boot"}
      BY <1>2 DEF ReadWord
    <2>2. OneShot'
      BY <2>1 DEF AutoInv, OneShot
    <2>3. ShotFirst'
      BY <2>1 DEF AutoInv, ShotFirst, ShotDue
    <2> QED
      BY <2>2, <2>3 DEF AutoInv
  <1>3. CASE QuietExit \/ Restart
    BY <1>3, EmptyHistory DEF QuietExit, Restart
  <1>4. CASE LuaExit \/ LuaPeriodic
    <2>1. lastMode \in LuaModes /\ UNCHANGED autoVars
      BY <1>4 DEF LuaExit, LuaPeriodic, LuaPeriodicStopped, LuaPeriodicSafe,
                  LuaPeriodicUnsafe, InControl
    <2>2. lastMode # "auto" /\ auto' = auto
      BY <2>1 DEF LuaModes, autoVars
    <2> QED
      BY <1>i, <2>2, EmptyHistory
  <1>5. CASE DisabledInit \/ TeleopInit \/ TestInit
    <2>1. pc = "init" /\ auto' = auto
      BY <1>5 DEF DisabledInit, TeleopInit, TestInit, Enter, autoVars
    <2> QED
      BY <1>i, <2>1, EmptyHistory
  <1>6. CASE AutonomousInit
    BY <1>6, AutonomousInitKeeps
  <1>7. CASE DisabledPeriodic
    <2>1. lastMode # "auto" /\ auto' = auto
      BY <1>7 DEF DisabledPeriodic, autoVars
    <2> QED
      BY <1>i, <2>1, EmptyHistory
  <1>8. CASE AutonomousPeriodic
    BY <1>8, <1>p, AutonomousPeriodicKeeps
  <1>9. CASE UNCHANGED vars
    <2>1. UNCHANGED <<pc, lastMode, auto, hasShot, hasStartedMoving, autoInfo, shooter>>
      BY <1>9 DEF vars, loopVars, autoVars
    <2>2. OneShot'
      BY <2>1 DEF AutoInv, OneShot
    <2>3. ShotFirst'
      BY <2>1 DEF AutoInv, ShotFirst, ShotDue
    <2> QED
      BY <2>2, <2>3 DEF AutoInv
  <1> QED
    BY <1>1, <1>2, <1>3, <1>4, <1>5, <1>6, <1>7, <1>8, <1>9 DEF Next, Loop

LEMMA AutoInvariant == Spec => []AutoInv
  BY InitAuto, NextAuto, TypeInvariant, PTL DEF Spec

\* An autonomous period fires at most one shot and completes at most one, even when
\* it inherits a shooter that another mode left in the middle of one (main.cpp 262-301).
THEOREM ShootsOnce == Spec => []AutoShootsOnce
  BY AutoInvariant, AutoInvImplies, PTL

\* Entered with an idle shooter and a trajectory that asks for a shot, the robot moves
\* only after that shot has been fired and has run to its end (main.cpp 262-301, 402-421).
THEOREM ShootsBeforeMoving == Spec => []ShotBeforeMove
  BY AutoInvariant, AutoInvImplies, PTL

-----------------------------------------------------------------------------
(* Who may move the robot.                                                 *)

\* Before the first mode the robot has not been moved.
BootStill == pc = "boot" => lastMode = "none"

LEMMA NextStill ==
  StillWhenNotInControl /\ BootStill /\ [Next]_vars
    => StillWhenNotInControl' /\ BootStill'
  <1> SUFFICES ASSUME StillWhenNotInControl, BootStill, [Next]_vars
               PROVE  StillWhenNotInControl' /\ BootStill'
    OBVIOUS
  <1>1. CASE RobotInit
    BY <1>1 DEF RobotInit, StillWhenNotInControl, BootStill, LuaModes
  <1>2. CASE ReadWord \/ QuietExit \/ LuaExit
    <2>1. pc' \notin {"wait", "boot"}
      BY <1>2 DEF ReadWord, QuietExit, LuaExit
    <2> QED
      BY <2>1 DEF StillWhenNotInControl, BootStill
  <1>3. CASE DisabledInit \/ AutonomousInit \/ TeleopInit \/ TestInit
    <2>1. pc' = "periodic"
      BY <1>3 DEF DisabledInit, AutonomousInit, TeleopInit, TestInit, Enter
    <2> QED
      BY <2>1 DEF StillWhenNotInControl, BootStill
  <1>4. CASE DisabledPeriodic \/ LuaPeriodicStopped
    <2>1. pc' = "wait" /\ drive' = "zero"
      BY <1>4 DEF DisabledPeriodic, LuaPeriodicStopped, EndPeriod
    <2> QED
      BY <2>1 DEF StillWhenNotInControl, BootStill
  <1>5. CASE AutonomousPeriodic
    <2>1. /\ pc' = "wait" /\ lastMode' = "auto"
          /\ drive' # "lua" /\ (IsShooting(shooter') => drive' = "zero")
      BY <1>5 DEF AutonomousPeriodic, EndPeriod, AutoDrive
    <2> QED
      BY <2>1 DEF StillWhenNotInControl, BootStill, LuaModes
  <1>6. CASE LuaPeriodicSafe \/ LuaPeriodicUnsafe
    <2>1. /\ lastMode' \in LuaModes /\ gamepadConnected' = TRUE
          /\ pc' \in {"wait", "dead"}
      BY <1>6 DEF LuaPeriodicSafe, LuaPeriodicUnsafe, InControl
    <2> QED
      BY <2>1 DEF StillWhenNotInControl, BootStill, LuaModes
  <1>7. CASE Restart
    BY <1>7 DEF Restart, StillWhenNotInControl, BootStill
  <1>8. CASE UNCHANGED vars
    BY <1>8 DEF vars, loopVars, luaVars, StillWhenNotInControl, BootStill
  <1> QED
    BY <1>1, <1>2, <1>3, <1>4, <1>5, <1>6, <1>7, <1>8 DEF Next, Loop, LuaPeriodic

\* At the end of every period the robot stands still unless whoever is in control of
\* the mode may move it (main.cpp 262-301, 318-320, 442-457, 469).
THEOREM OnlyControlMoves == Spec => []StillWhenNotInControl
  <1>1. Init => StillWhenNotInControl /\ BootStill
    BY DEF Init, StillWhenNotInControl, BootStill
  <1> QED
    BY <1>1, NextStill, PTL DEF Spec
-----------------------------------------------------------------------------
(* The settings and the flags.  Both theorems are about trajectories that  *)
(* can be read: the fallback replaces the settings and leaves the flags.   *)

Readable == "trajectory" \notin Faults

\* A shot that is still due is one the settings in use ask for.
DueAsSet == pc # "boot" /\ ~hasShot => autoInfo.shoot

LEMMA ReloadAgrees ==
  ASSUME Readable, ShootAbsent = {}, reloadTrajectory
  PROVE  ~hasShot' => autoInfo'.shoot
  <1>1. PICK name \in Trajectories :
          /\ autoInfo' = [name |-> name, shoot |-> name \in ShootYes]
          /\ hasShot' = ~(name \notin ShootNo)
    BY DEF reloadTrajectory, ReloadParsed, ReloadFallback, Readable, Info, ShouldShoot
  <1>2. name \in ShootYes \/ name \in ShootNo
    BY DEF Trajectories
  <1>3. autoInfo'.shoot = (name \in ShootYes)
    BY <1>1
  <1> QED
    BY <1>1, <1>2, <1>3, Zenon

LEMMA NextHonours ==
  ASSUME Readable, ShootAbsent = {}, TypeInv, AutoInv, AutoHonoursSetting, DueAsSet,
         [Next]_vars
  PROVE  AutoHonoursSetting' /\ DueAsSet'
  <1> USE DEF AutoHonoursSetting, DueAsSet
  <1>1. CASE RobotInit
    <2>1. auto' = NoAuto
      BY <1>1 DEF RobotInit, AutoInv, OneShot
    <2> QED
      BY <1>1, <2>1, ReloadAgrees, NoAutoFields DEF RobotInit
  <1>2. CASE AutonomousInit
    <2>1. auto' = [clean |-> IsIdle(shooter), fired |-> 0, completed |-> 0]
      BY <1>2 DEF AutonomousInit, NoAuto
    <2>2. auto'.fired = 0
      BY <2>1
    <2> QED
      BY <1>2, <2>2, ReloadAgrees DEF AutonomousInit
  <1>3. CASE AutonomousPeriodic
    <2>1. auto'.fired = auto.fired \/ ~hasShot
      BY <1>3, TypeParts, AutonomousPeriodicCounts
    <2>2. pc = "periodic" /\ hasShot' = TRUE /\ autoInfo' = autoInfo
      BY <1>3 DEF AutonomousPeriodic, EndPeriod
    <2> QED
      BY <2>1, <2>2
  <1>4. CASE QuietExit
    BY <1>4, NoAutoFields DEF QuietExit
  <1>5. CASE Restart
    BY <1>5, NoAutoFields DEF Restart
  <1>6. CASE \/ ReadWord \/ LuaExit \/ DisabledInit \/ TeleopInit \/ TestInit
             \/ DisabledPeriodic \/ LuaPeriodic
    <2>1. UNCHANGED <<auto, autoInfo, hasShot>> /\ pc # "boot"
      BY <1>6 DEF ReadWord, LuaExit, DisabledInit, TeleopInit, TestInit, Enter, LuaPeriodic,
                  DisabledPeriodic, EndPeriod, LuaPeriodicStopped, LuaPeriodicSafe,
                  LuaPeriodicUnsafe, InControl, autoVars
    <2> QED
      BY <2>1
  <1>7. CASE UNCHANGED vars
    BY <1>7 DEF vars, loopVars, autoVars
  <1> QED
    BY <1>1, <1>2, <1>3, <1>4, <1>5, <1>6, <1>7 DEF Next, Loop

\* Autonomous fires a shot only if the settings in use say so (main.cpp 57-61, 171-178,
\* 402-421), for a configuration whose trajectories can be read and have a shoot entry.
THEOREM HonoursSetting ==
  Readable /\ ShootAbsent = {} => (Spec => []AutoHonoursSetting)
  <1> SUFFICES ASSUME Readable, ShootAbsent = {} PROVE Spec => []AutoHonoursSetting
    OBVIOUS
  <1>1. Init => AutoHonoursSetting /\ DueAsSet
    BY NoAutoFields DEF Init, AutoHonoursSetting, DueAsSet
  <1>2. TypeInv /\ AutoInv /\ AutoHonoursSetting /\ DueAsSet /\ [Next]_vars
          => AutoHonoursSetting' /\ DueAsSet'
    BY NextHonours
  <1> QED
    BY <1>1, <1>2, TypeInvariant, AutoInvariant, PTL DEF Spec
-----------------------------------------------------------------------------
(* The callbacks implement AutoRoutine.                                    *)

\* No overrun is as long as the turn, which it would skip.
TurnIsSeen == MaxLag < SpinTime

\* A clock of t when the last command was d: a period at most has passed.
Within(d, t) ==
  /\ d = "path" => t <= PathTime + MaxLag
  /\ d = "spin" => t > PathTime
  /\ d = "zero" => t > PathTime /\ t >= PathTime + SpinTime

\* A robot that moves has its shot behind it, and drives as its clock says.
MovesByClock ==
  lastMode = "auto" /\ hasStartedMoving =>
    /\ hasShot /\ ~IsShooting(shooter)
    /\ drive \in {"path", "spin", "zero"}
    /\ pc = "wait" => drive = AutoDrive(timer)
    /\ pc = "periodic" => Within(drive, timer)

\* A mode is left for another one, and entered from another one.
ModesDiffer ==
  /\ pc = "boot" => lastMode = "none"
  /\ pc \in {"exit", "init"} => word # lastMode

RoutineInv == MovesByClock /\ ModesDiffer

LEMMA StageValues ==
  /\ lastMode # "auto" => autoStage = "off"
  /\ lastMode = "auto" /\ ~hasStartedMoving /\ hasShot /\ IsShooting(shooter)
       => autoStage = "shooting"
  /\ lastMode = "auto" /\ ~hasStartedMoving /\ ~(hasShot /\ IsShooting(shooter))
       => autoStage = "armed"
  /\ lastMode = "auto" /\ hasStartedMoving /\ drive \in {"path", "spin"}
       => autoStage = drive
  /\ lastMode = "auto" /\ hasStartedMoving /\ drive \notin {"path", "spin"}
       => autoStage = "done"
  BY DEF autoStage

LEMMA NextStageValues ==
  /\ lastMode' # "auto" => autoStage' = "off"
  /\ lastMode' = "auto" /\ ~hasStartedMoving' /\ hasShot' /\ IsShooting(shooter')
       => autoStage' = "shooting"
  /\ lastMode' = "auto" /\ ~hasStartedMoving' /\ ~(hasShot' /\ IsShooting(shooter'))
       => autoStage' = "armed"
  /\ lastMode' = "auto" /\ hasStartedMoving' /\ drive' \in {"path", "spin"}
       => autoStage' = drive'
  /\ lastMode' = "auto" /\ hasStartedMoving' /\ drive' \notin {"path", "spin"}
       => autoStage' = "done"
  BY DEF autoStage

LEMMA StageIsOneOf == autoStage \in {"off", "armed", "shooting", "path", "spin", "done"}
  BY StageValues

LEMMA TimesAreNumbers ==
  ASSUME AutoTypes
  PROVE  /\ timer \in Nat /\ PathTime \in Nat /\ SpinTime \in Nat /\ MaxLag \in Nat \ {0}
         /\ TimerCap = PathTime + SpinTime + 1
  <1>1. timer \in 0 .. TimerCap
    BY Zenon DEF AutoTypes
  <1> QED
    BY <1>1, TimesType, TimerType DEF TimerCap

\* One period passes at most between two commands.
LEMMA ReadWordWithin ==
  ASSUME AutoTypes, ReadWord, lastMode = "auto"
  PROVE  Within(AutoDrive(timer), timer')
  <1>1. PICK lag \in 1 .. MaxLag : timer' = Smaller(timer + lag, TimerCap)
    BY DEF ReadWord
  <1>2. /\ timer \in Nat /\ lag \in Nat /\ lag >= 1 /\ lag <= MaxLag
        /\ PathTime \in Nat /\ SpinTime \in Nat /\ MaxLag \in Nat
        /\ TimerCap = PathTime + SpinTime + 1
    BY TimesAreNumbers
  <1>3. \/ timer' = timer + lag
        \/ timer' = PathTime + SpinTime + 1 /\ timer' <= timer + lag
    BY <1>1, <1>2 DEF Smaller
  <1>4. /\ timer <= PathTime => AutoDrive(timer) = "path"
        /\ timer > PathTime /\ timer < PathTime + SpinTime => AutoDrive(timer) = "spin"
        /\ timer > PathTime /\ timer >= PathTime + SpinTime => AutoDrive(timer) = "zero"
    BY <1>2 DEF AutoDrive
  <1>5. CASE timer <= PathTime
    BY <1>2, <1>3, <1>4, <1>5 DEF Within
  <1>6. CASE timer > PathTime
    BY <1>2, <1>3, <1>4, <1>6 DEF Within
  <1> QED
    BY <1>2, <1>5, <1>6

\* The command that follows, on the same clock.
LEMMA NextCommand ==
  ASSUME AutoTypes, TurnIsSeen, drive \in {"path", "spin", "zero"}, Within(drive, timer)
  PROVE  /\ AutoDrive(timer) \in {"path", "spin", "zero"}
         /\ drive = "path" => AutoDrive(timer) # "zero"
         /\ drive = "spin" => AutoDrive(timer) # "path"
         /\ drive = "zero" => AutoDrive(timer) = "zero"
  <1>1. timer \in Nat /\ PathTime \in Nat /\ SpinTime \in Nat /\ MaxLag \in Nat
    BY TimesAreNumbers
  <1> QED
    BY <1>1 DEF AutoDrive, Within, TurnIsSeen

LEMMA AutonomousPeriodicRoutine ==
  ASSUME AutoTypes, ShooterSound, RoutineInv, TurnIsSeen, AutonomousPeriodic
  PROVE  RoutineInv' /\ [Routine!Next]_autoStage
  <1>1. /\ pc = "periodic" /\ pc' = "wait" /\ lastMode = "auto" /\ lastMode' = "auto"
        /\ hasShot' = TRUE /\ shooter' = AutoShooter
    BY DEF AutonomousPeriodic, EndPeriod
  <1>2. ModesDiffer'
    BY <1>1 DEF ModesDiffer
  <1>3. CASE hasStartedMoving
    <2>1. hasShot /\ drive \in {"path", "spin", "zero"} /\ Within(drive, timer)
      BY <1>1, <1>3 DEF RoutineInv, MovesByClock
    <2>2. ~IsShooting(AutoShooter)
      BY <1>1, <1>3, <2>1, AutoShooterStates DEF RoutineInv, MovesByClock
    <2>3. hasStartedMoving' = TRUE /\ timer' = timer /\ drive' = AutoDrive(timer)
      BY <1>3, <2>2 DEF AutonomousPeriodic
    <2>4. MovesByClock'
      BY <1>1, <2>1, <2>2, <2>3, NextCommand DEF MovesByClock
    <2>5. \/ autoStage' = autoStage
          \/ autoStage = "path" /\ autoStage' = "spin"
          \/ autoStage = "spin" /\ autoStage' = "done"
      BY <1>1, <1>3, <2>1, <2>3, NextCommand, StageValues, NextStageValues
    <2> QED
      BY <1>2, <2>4, <2>5
         DEF RoutineInv, Routine!Next, Routine!Advance, Routine!Turn, Routine!Finish
  <1>4. CASE ~hasStartedMoving /\ IsShooting(AutoShooter)
    <2>1. ~hasStartedMoving'
      BY <1>4 DEF AutonomousPeriodic
    <2>2. MovesByClock'
      BY <2>1 DEF MovesByClock
    <2>3. autoStage \in {"armed", "shooting"} /\ autoStage' = "shooting"
      BY <1>1, <1>4, <2>1, StageValues, NextStageValues
    <2> QED
      BY <1>2, <2>2, <2>3 DEF RoutineInv, Routine!Next, Routine!Advance, Routine!Fire
  <1>5. CASE ~hasStartedMoving /\ ~IsShooting(AutoShooter)
    <2>1. hasStartedMoving' = TRUE /\ timer' = 0 /\ drive' = AutoDrive(timer')
      BY <1>5 DEF AutonomousPeriodic
    <2>2. drive' = "path"
      BY <2>1, TimesType DEF AutoDrive
    <2>3. MovesByClock'
      BY <1>1, <1>5, <2>1, <2>2 DEF MovesByClock
    <2>4. autoStage \in {"armed", "shooting"} /\ autoStage' = "path"
      BY <1>1, <1>5, <2>1, <2>2, StageValues, NextStageValues
    <2> QED
      BY <1>2, <2>3, <2>4 DEF RoutineInv, Routine!Next, Routine!Advance, Routine!Go
  <1> QED
    BY <1>3, <1>4, <1>5
LEMMA NextRoutine ==
  ASSUME Readable, TurnIsSeen, TypeInv, RoutineInv, [Next]_vars
  PROVE  RoutineInv' /\ [Routine!Next]_autoStage
  <1>p. AutoTypes /\ ShooterSound
    BY TypeParts
  <1>1. CASE AutonomousPeriodic
    BY <1>1, <1>p, AutonomousPeriodicRoutine
  <1>2. CASE AutonomousInit
    <2>1. /\ pc' = "periodic" /\ lastMode' = "auto" /\ lastMode # "auto"
          /\ ~hasStartedMoving'
      BY <1>2 DEF AutonomousInit, Enter, RoutineInv, ModesDiffer, reloadTrajectory,
                  ReloadParsed, ReloadFallback, Readable
    <2>2. autoStage = "off" /\ autoStage' \in {"armed", "shooting"}
      BY <2>1, StageValues, NextStageValues
    <2> QED
      BY <2>1, <2>2
         DEF RoutineInv, MovesByClock, ModesDiffer, Routine!Next, Routine!Begin
  <1>3. CASE DisabledInit \/ TeleopInit \/ TestInit \/ Restart
    <2>1. lastMode' # "auto" /\ (pc' = "periodic" \/ (pc' = "boot" /\ lastMode' = "none"))
      BY <1>3 DEF DisabledInit, TeleopInit, TestInit, Restart, Enter
    <2>2. autoStage' = "off"
      BY <2>1, NextStageValues
    <2> QED
      BY <2>1, <2>2, StageIsOneOf
         DEF RoutineInv, MovesByClock, ModesDiffer, Routine!Next, Routine!Leave
  <1>4. CASE ReadWord
    <2>1. /\ pc = "wait" /\ pc' \in {"periodic", "exit"}
          /\ pc' = "exit" => word' # lastMode'
          /\ UNCHANGED <<lastMode, hasShot, hasStartedMoving, shooter, drive>>
      BY <1>4 DEF ReadWord
    <2>2. autoStage' = autoStage
      BY <2>1 DEF autoStage
    <2>3. MovesByClock'
      <3> SUFFICES ASSUME lastMode = "auto", hasStartedMoving, pc' = "periodic"
                   PROVE  Within(drive, timer')
        BY <2>1 DEF RoutineInv, MovesByClock
      <3>1. drive = AutoDrive(timer)
        BY <2>1 DEF RoutineInv, MovesByClock
      <3>2. Within(AutoDrive(timer), timer')
        BY <1>p, <1>4, ReadWordWithin
      <3> QED
        BY <3>1, <3>2
    <2> QED
      BY <2>1, <2>2, <2>3 DEF RoutineInv, ModesDiffer
  <1>5. CASE QuietExit
    <2>1. /\ pc' = "init" /\ pc = "exit"
          /\ UNCHANGED <<word, lastMode, hasShot, hasStartedMoving, shooter, drive>>
      BY <1>5 DEF QuietExit
    <2> QED
      BY <2>1 DEF RoutineInv, MovesByClock, ModesDiffer, autoStage
  <1>6. CASE RobotInit \/ LuaExit \/ DisabledPeriodic \/ LuaPeriodic
    <2>1. /\ lastMode # "auto" /\ lastMode' = lastMode /\ word' = word
          /\ pc' # "boot" /\ (pc' \in {"exit", "init"} => pc = "exit")
      BY <1>6 DEF RobotInit, LuaExit, DisabledPeriodic, LuaPeriodic, EndPeriod,
                  LuaPeriodicStopped, LuaPeriodicSafe, LuaPeriodicUnsafe, InControl,
                  LuaModes, RoutineInv, ModesDiffer
    <2>2. autoStage = "off" /\ autoStage' = "off"
      BY <2>1, StageValues, NextStageValues
    <2> QED
      BY <2>1, <2>2 DEF RoutineInv, MovesByClock, ModesDiffer
  <1>7. CASE UNCHANGED vars
    BY <1>7 DEF vars, loopVars, autoVars, RoutineInv, MovesByClock, ModesDiffer, Within,
                autoStage
  <1> QED
    BY <1>1, <1>2, <1>3, <1>4, <1>5, <1>6, <1>7 DEF Next, Loop

\* The autonomous callbacks implement AutoRoutine (its safety; its fairness is checked
\* by TLC): shot, path, turn and stop, in this order and none left out, with
\* trajectories that can be read and no overrun as long as the turn (main.cpp 262-301).
THEOREM RefinesAutoRoutine ==
  Readable /\ TurnIsSeen => (Spec => Routine!Safety)
  <1> SUFFICES ASSUME Readable, TurnIsSeen PROVE Spec => Routine!Safety
    OBVIOUS
  <1>1. Init => RoutineInv /\ Routine!Init
    BY StageValues DEF Init, RoutineInv, MovesByClock, ModesDiffer, Routine!Init
  <1>2. TypeInv /\ RoutineInv /\ [Next]_vars => RoutineInv' /\ [Routine!Next]_autoStage
    BY NextRoutine
  <1> QED
    BY <1>1, <1>2, TypeInvariant, PTL DEF Spec, Routine!Safety

-----------------------------------------------------------------------------
(***************************************************************************)
(* Progress: the measure behind AutoCompletes, which TLC checks.  With the *)
(* loop running, a routine is over after RoutineLeft periods, at most      *)
(* ShotTicks + PathTime + SpinTime + 2 of them, for every trajectory, even *)
(* one that cannot be read.                                                *)
(***************************************************************************)
\* What is left of the autonomous routine, in periods: of its shot, and of its move,
\* whose clock starts when the shot is over.
ShotLeft ==
  IF ~hasShot /\ IsIdle(shooter) THEN ShotTicks
  ELSE IF IsShooting(shooter) THEN shooter.tick ELSE 0
MoveLeft == IF hasStartedMoving THEN TimerCap - timer ELSE TimerCap + 1
RoutineLeft == ShotLeft + MoveLeft

\* The routine makes progress in every period of autonomous, whichever trajectory it
\* has and whatever it found the shooter doing: no callback puts anything back, a
\* period takes something away as long as anything is left, and a routine with nothing
\* left stands still.
AutoProgressesStep ==
  lastMode = "auto" /\ lastMode' = "auto" =>
    /\ RoutineLeft' <= RoutineLeft
    /\ AutonomousPeriodic /\ (~hasStartedMoving \/ IsShooting(shooter))
         => RoutineLeft' < RoutineLeft
    /\ ReadWord /\ hasStartedMoving /\ timer < TimerCap => RoutineLeft' < RoutineLeft
    /\ AutonomousPeriodic /\ RoutineLeft' = 0 => drive' = "zero"
AutoProgresses == [][AutoProgressesStep]_vars

LEMMA NextModesDiffer == ModesDiffer /\ [Next]_vars => ModesDiffer'
  <1> SUFFICES ASSUME ModesDiffer, [Next]_vars PROVE ModesDiffer'
    OBVIOUS
  <1>1. CASE ReadWord
    <2>1. pc' \in {"periodic", "exit"} /\ (pc' = "exit" => word' # lastMode')
      BY <1>1 DEF ReadWord
    <2> QED
      BY <2>1 DEF ModesDiffer
  <1>2. CASE QuietExit \/ LuaExit
    <2>1. pc = "exit" /\ pc' # "boot" /\ UNCHANGED <<word, lastMode>>
      BY <1>2 DEF QuietExit, LuaExit
    <2> QED
      BY <2>1 DEF ModesDiffer
  <1>3. CASE DisabledInit \/ AutonomousInit \/ TeleopInit \/ TestInit
    <2>1. pc' = "periodic"
      BY <1>3 DEF DisabledInit, AutonomousInit, TeleopInit, TestInit, Enter
    <2> QED
      BY <2>1 DEF ModesDiffer
  <1>4. CASE RobotInit \/ DisabledPeriodic \/ AutonomousPeriodic \/ LuaPeriodic
    <2>1. pc' \in {"wait", "dead"}
      BY <1>4 DEF RobotInit, DisabledPeriodic, AutonomousPeriodic, EndPeriod, LuaPeriodic,
                  LuaPeriodicStopped, LuaPeriodicSafe, LuaPeriodicUnsafe
    <2> QED
      BY <2>1 DEF ModesDiffer
  <1>5. CASE Restart
    BY <1>5 DEF Restart, ModesDiffer
  <1>6. CASE UNCHANGED vars
    BY <1>6 DEF vars, loopVars, ModesDiffer
  <1> QED
    BY <1>1, <1>2, <1>3, <1>4, <1>5, <1>6 DEF Next, Loop

LEMMA ModesDifferInvariant == Spec => []ModesDiffer
  <1>1. Init => ModesDiffer
    BY DEF Init, ModesDiffer
  <1> QED
    BY <1>1, NextModesDiffer, PTL DEF Spec

\* What is left is a number of periods.
LEMMA LeftIsBounded ==
  ASSUME AutoTypes, ShooterSound
  PROVE  /\ ShotLeft \in 0 .. ShotTicks
         /\ MoveLeft \in 0 .. TimerCap + 1
         /\ RoutineLeft \in 0 .. ShotTicks + TimerCap + 1
         /\ ShotLeft = 0 => ~IsShooting(shooter)
         /\ MoveLeft = 0 => hasStartedMoving /\ timer = TimerCap
  <1>1. /\ ShotLeft \in 0 .. ShotTicks
        /\ ShotLeft = 0 => ~IsShooting(shooter)
    <2>1. shooter.tick \in Int
      BY DEF ShooterSound, WellFormed, ShooterType
    <2>2. IsShooting(shooter) => shooter.tick >= 1 /\ shooter.tick <= ShotTicks
      BY <2>1, TicksPositive DEF ShooterSound, WellFormed, ShooterType, ClockInStep
    <2> QED
      BY <2>1, <2>2, TicksPositive DEF ShotLeft, IsIdle, IsShooting
  <1>2. /\ MoveLeft \in 0 .. TimerCap + 1
        /\ MoveLeft = 0 => hasStartedMoving /\ timer = TimerCap
    <2>1. timer \in 0 .. TimerCap /\ TimerCap \in Nat
      BY TimerType, Zenon DEF AutoTypes
    <2>2. hasStartedMoving \in BOOLEAN
      BY Zenon DEF AutoTypes
    <2> QED
      BY <2>1, <2>2 DEF MoveLeft
  <1>3. RoutineLeft \in 0 .. ShotTicks + TimerCap + 1
    BY <1>1, <1>2, TicksPositive, TimerType DEF RoutineLeft
  <1> QED
    BY <1>1, <1>2, <1>3

LeftInRange ==
  /\ ShotLeft \in Nat /\ MoveLeft \in Nat
  /\ ShotLeft = 0 => ~IsShooting(shooter)
  /\ MoveLeft = 0 => hasStartedMoving /\ timer = TimerCap

LEMMA LeftInvariant == Spec => []LeftInRange
  <1>1. TypeInv => LeftInRange
    BY TypeParts, LeftIsBounded, TicksPositive, TimerType DEF LeftInRange
  <1> QED
    BY <1>1, TypeInvariant, PTL

LEMMA Sums ==
  ASSUME NEW a \in Nat, NEW b \in Nat, NEW c \in Nat, NEW d \in Nat
  PROVE  /\ a <= c /\ b <= d => a + b <= c + d
         /\ (a < c /\ b <= d) \/ (a <= c /\ b < d) => a + b < c + d
         /\ a + b = 0 => a = 0 /\ b = 0
  OBVIOUS

LEMMA Differences ==
  ASSUME NEW a \in Nat, NEW b \in Nat, NEW c \in Nat
  PROVE  /\ a <= b => c - b <= c - a
         /\ a < b => c - b < c - a
  OBVIOUS

\* The shot of an autonomous period loses a period, or is over.
LEMMA ShotLeftFalls ==
  ASSUME TypeInv, AutonomousPeriodic
  PROVE  /\ ShotLeft' <= ShotLeft
         /\ IsShooting(shooter) \/ (~hasShot /\ IsIdle(shooter)) => ShotLeft' < ShotLeft
  <1>0. /\ WellFormed(shooter) /\ ClockInStep(shooter) /\ shooter \in ShooterType
        /\ shooter.tick \in Int /\ AutoTypes /\ ShooterSound
    BY TypeParts DEF ShooterSound, WellFormed, ShooterType
  <1>1. hasShot' = TRUE /\ shooter' = AutoShooter
    BY DEF AutonomousPeriodic
  <1>2. ShotLeft' = IF IsShooting(AutoShooter) THEN AutoShooter.tick ELSE 0
    BY <1>1 DEF ShotLeft
  <1>3. CASE ~hasShot /\ IsIdle(shooter)
    <2>1. /\ WellFormed(Shoot(shooter)) /\ Shoot(shooter).tick = ShotTicks
          /\ AutoShooter = Process(Shoot(shooter))
      BY <1>0, <1>3, ShootOK, ShootStarts DEF AutoShooter
    <2>2. ShotLeft' <= ShotTicks - 1
      BY <1>2, <2>1, ProcessCountsDown, TicksPositive
    <2>3. ShotLeft = ShotTicks
      BY <1>3 DEF ShotLeft
    <2>4. ShotLeft' \in Int
      BY <1>2, <2>1, ProcessCountsDown, TicksPositive
    <2> QED
      BY <2>2, <2>3, <2>4, TicksPositive
  <1>4. CASE IsShooting(shooter)
    <2>1. AutoShooter = Process(shooter)
      BY <1>0, <1>4, StartDuringShot, LevelsAreNumbers DEF AutoShooter
    <2>2. ShotLeft = shooter.tick /\ shooter.tick >= 1
      BY <1>0, <1>4 DEF ShotLeft, IsIdle, IsShooting, ClockInStep
    <2>3. IsShooting(AutoShooter) => AutoShooter.tick = shooter.tick - 1
      BY <1>0, <2>1, ProcessCountsDown
    <2> QED
      BY <1>0, <1>2, <2>2, <2>3
  <1>5. CASE ~IsShooting(shooter) /\ ~(~hasShot /\ IsIdle(shooter))
    <2>1. ~IsShooting(AutoShooter)
      BY <1>0, <1>5, AutoShooterStates
    <2>2. ShotLeft' = 0 /\ ShotLeft = 0
      BY <1>2, <1>5, <2>1 DEF ShotLeft
    <2> QED
      BY <1>5, <2>2
  <1> QED
    BY <1>3, <1>4, <1>5

\* The move starts as soon as no shot is running, and its clock is not put back.
LEMMA MoveLeftFalls ==
  ASSUME TypeInv, AutonomousPeriodic
  PROVE  /\ MoveLeft' <= MoveLeft
         /\ ~hasStartedMoving /\ ~IsShooting(AutoShooter) => MoveLeft' < MoveLeft
  <1>1. timer \in 0 .. TimerCap /\ TimerCap \in Nat /\ hasStartedMoving \in BOOLEAN
    BY TypeParts, TimerType, Zenon DEF AutoTypes
  <1>2. CASE IsShooting(AutoShooter)
    <2>1. UNCHANGED <<hasStartedMoving, timer>>
      BY <1>2 DEF AutonomousPeriodic
    <2> QED
      BY <1>1, <1>2, <2>1 DEF MoveLeft
  <1>3. CASE ~IsShooting(AutoShooter)
    <2>1. hasStartedMoving' = TRUE /\ timer' = IF hasStartedMoving THEN timer ELSE 0
      BY <1>3 DEF AutonomousPeriodic
    <2> QED
      BY <1>1, <2>1 DEF MoveLeft
  <1> QED
    BY <1>2, <1>3

LEMMA ProgressStep ==
  ASSUME TypeInv, LeftInRange, LeftInRange', ModesDiffer, Next PROVE AutoProgressesStep
  <1> SUFFICES ASSUME lastMode = "auto", lastMode' = "auto"
               PROVE  /\ RoutineLeft' <= RoutineLeft
                      /\ AutonomousPeriodic /\ (~hasStartedMoving \/ IsShooting(shooter))
                           => RoutineLeft' < RoutineLeft
                      /\ ReadWord /\ hasStartedMoving /\ timer < TimerCap
                           => RoutineLeft' < RoutineLeft
                      /\ AutonomousPeriodic /\ RoutineLeft' = 0 => drive' = "zero"
    BY DEF AutoProgressesStep
  <1>p. AutoTypes /\ ShooterSound
    BY TypeParts
  <1>n. /\ ShotLeft \in Nat /\ MoveLeft \in Nat /\ RoutineLeft = ShotLeft + MoveLeft
        /\ ShotLeft' \in Nat /\ MoveLeft' \in Nat /\ RoutineLeft' = ShotLeft' + MoveLeft'
    BY DEF LeftInRange, RoutineLeft
  \* The sum falls when one part does and the other does not rise.
  <1>s. /\ ShotLeft' <= ShotLeft /\ MoveLeft' <= MoveLeft => RoutineLeft' <= RoutineLeft
        /\ (\/ ShotLeft' < ShotLeft /\ MoveLeft' <= MoveLeft
            \/ ShotLeft' <= ShotLeft /\ MoveLeft' < MoveLeft)
             => RoutineLeft' < RoutineLeft
        /\ RoutineLeft' = 0 => ShotLeft' = 0 /\ MoveLeft' = 0
    BY <1>n, Sums
  <1>1. CASE AutonomousPeriodic
    <2>1. ShotLeft' <= ShotLeft /\ MoveLeft' <= MoveLeft
      BY <1>1, ShotLeftFalls, MoveLeftFalls
    <2>2. ~hasStartedMoving \/ IsShooting(shooter)
            => ShotLeft' < ShotLeft \/ MoveLeft' < MoveLeft
      <3>1. ~IsShooting(shooter) /\ IsShooting(AutoShooter) => ~hasShot /\ IsIdle(shooter)
        BY <1>p, AutoShooterStates
      <3> QED
        BY <1>1, <3>1, ShotLeftFalls, MoveLeftFalls
    <2>3. RoutineLeft' = 0 => drive' = "zero"
      <3> SUFFICES ASSUME RoutineLeft' = 0 PROVE drive' = "zero"
        OBVIOUS
      <3>1. ~IsShooting(shooter') /\ timer' = TimerCap
        BY <1>s DEF LeftInRange
      <3>2. drive' = AutoDrive(timer')
        BY <1>1, <3>1 DEF AutonomousPeriodic
      <3>3. /\ PathTime \in Nat /\ SpinTime \in Nat
            /\ timer' = PathTime + SpinTime + 1
        BY <1>p, <3>1, TimesAreNumbers
      <3> QED
        BY <3>2, <3>3 DEF AutoDrive
    <2>4. ~ReadWord
      BY <1>1 DEF AutonomousPeriodic, EndPeriod, ReadWord
    <2> QED
      BY <1>s, <2>1, <2>2, <2>3, <2>4
  <1>2. CASE ReadWord
    <2>1. UNCHANGED <<shooter, hasShot, hasStartedMoving>> /\ ~AutonomousPeriodic
      BY <1>2 DEF ReadWord, AutonomousPeriodic, EndPeriod
    <2>2. ShotLeft' = ShotLeft
      BY <2>1 DEF ShotLeft
    <2>3. ShotLeft' <= ShotLeft
      BY <1>n, <2>2
    <2>4. PICK lag \in 1 .. MaxLag : timer' = Smaller(timer + lag, TimerCap)
      BY <1>2 DEF ReadWord
    <2>5. timer \in Nat /\ TimerCap \in Nat /\ timer <= TimerCap
      <3>1. timer \in 0 .. TimerCap /\ TimerCap \in Nat
        BY <1>p, TimerType, Zenon DEF AutoTypes
      <3> QED
        BY <3>1
    <2>6. lag \in Nat /\ lag >= 1
      BY TimesType
    <2>7. timer' >= timer /\ (timer < TimerCap => timer' > timer) /\ timer' \in Nat
      BY <2>4, <2>5, <2>6 DEF Smaller
    <2>8. /\ hasStartedMoving' = hasStartedMoving
          /\ MoveLeft = IF hasStartedMoving THEN TimerCap - timer ELSE TimerCap + 1
          /\ MoveLeft' = IF hasStartedMoving' THEN TimerCap - timer' ELSE TimerCap + 1
      BY <2>1 DEF MoveLeft
    <2>9. /\ MoveLeft' <= MoveLeft
          /\ hasStartedMoving /\ timer < TimerCap => MoveLeft' < MoveLeft
      <3>1. CASE hasStartedMoving
        <4>1. MoveLeft = TimerCap - timer /\ MoveLeft' = TimerCap - timer'
          BY <2>8, <3>1
        <4>2. /\ TimerCap - timer' <= TimerCap - timer
              /\ timer < TimerCap => TimerCap - timer' < TimerCap - timer
          BY <2>5, <2>7, Differences
        <4> QED
          BY <4>1, <4>2
      <3>2. CASE ~hasStartedMoving
        <4>1. MoveLeft = TimerCap + 1 /\ MoveLeft' = TimerCap + 1
          BY <2>8, <3>2
        <4> QED
          BY <2>5, <3>2, <4>1
      <3> QED
        BY <3>1, <3>2
    <2> QED
      BY <1>s, <2>1, <2>3, <2>9
  <1>3. CASE QuietExit
    <2>1. /\ UNCHANGED <<shooter, hasShot, hasStartedMoving, timer>>
          /\ ~AutonomousPeriodic /\ ~ReadWord
      BY <1>3 DEF QuietExit, AutonomousPeriodic, EndPeriod, ReadWord
    <2>2. ShotLeft' = ShotLeft /\ MoveLeft' = MoveLeft
      BY <2>1 DEF ShotLeft, MoveLeft
    <2>3. ShotLeft' <= ShotLeft /\ MoveLeft' <= MoveLeft
      BY <1>n, <2>2
    <2> QED
      BY <1>s, <2>1, <2>3
  <1>4. ~(\/ RobotInit \/ LuaExit \/ DisabledInit \/ TeleopInit \/ TestInit
          \/ AutonomousInit \/ DisabledPeriodic \/ LuaPeriodic \/ Restart)
    BY DEF RobotInit, LuaExit, DisabledInit, TeleopInit, TestInit, AutonomousInit, Enter,
           DisabledPeriodic, LuaPeriodic, LuaPeriodicStopped, LuaPeriodicSafe,
           LuaPeriodicUnsafe, InControl, Restart, ModesDiffer, LuaModes
  <1> QED
    BY <1>1, <1>2, <1>3, <1>4 DEF Next, Loop

\* Autonomous progresses: what is left of it is a number of periods that no callback
\* raises and every period lowers, and with nothing left the robot stands still
\* (main.cpp 234-301), whatever the trajectory and the state of the shooter.
THEOREM AutoProgressesCorrect ==
  Spec => [](RoutineLeft \in 0 .. ShotTicks + TimerCap + 1) /\ AutoProgresses
  <1>1. TypeInv => RoutineLeft \in 0 .. ShotTicks + TimerCap + 1
    BY TypeParts, LeftIsBounded
  <1>2. TypeInv /\ LeftInRange /\ LeftInRange' /\ ModesDiffer /\ [Next]_vars
          => [AutoProgressesStep]_vars
    BY ProgressStep
  <1> QED
    BY <1>1, <1>2, TypeInvariant, LeftInvariant, ModesDifferInvariant, PTL
    DEF Spec, AutoProgresses

-----------------------------------------------------------------------------
(* The shot of autonomous is fed.                                          *)

LEMMA FedStep ==
  ASSUME RoomToFeed, TypeInv, Next, auto'.completed > auto.completed
  PROVE  shooter'.secondary > 0 /\ shooter'.secondary = shooter'.primary
  <1>a. AutoTypes /\ ShooterSound
    BY TypeParts
  <1>b. auto \in [clean : BOOLEAN, fired : Nat, completed : Nat]
    BY <1>a, Zenon DEF AutoTypes
  <1>p. /\ AutoTypes /\ ShooterSound /\ auto.completed \in Nat
        /\ shooter \in ShooterType
    BY <1>a, <1>b DEF ShooterSound, WellFormed
  <1>1. CASE AutonomousPeriodic
    <2>1. /\ IsShooting(shooter) \/ (~hasShot /\ IsIdle(shooter))
          /\ ~IsShooting(AutoShooter) /\ shooter' = AutoShooter
      BY <1>1, <1>p, AutonomousPeriodicCounts
    <2>2. PICK s : /\ WellFormed(s) /\ ClockInStep(s) /\ IsShooting(s)
                   /\ AutoShooter = Process(s)
      <3>1. CASE IsShooting(shooter)
        <4>1. AutoShooter = Process(shooter)
          BY <1>p, <3>1, StartDuringShot, LevelsAreNumbers DEF AutoShooter
        <4> QED
          BY <1>p, <3>1, <4>1 DEF ShooterSound
      <3>2. CASE ~hasShot /\ IsIdle(shooter)
        <4>1. IsShooting(Shoot(shooter))
          BY <1>p, <3>2 DEF Shoot, IsShooting, ShooterType
        <4> QED
          BY <1>p, <3>2, <4>1, ShootOK DEF AutoShooter, ShooterSound
      <3> QED
        BY <2>1, <3>1, <3>2
    <2> QED
      BY <2>1, <2>2, LastPeriodFeeds
  <1>2. CASE ~AutonomousPeriodic
    <2>1. auto' = auto \/ auto' = NoAuto \/ auto' = [NoAuto EXCEPT !.clean = IsIdle(shooter)]
      BY <1>2 DEF Next, Loop, LuaPeriodic, RobotInit, ReadWord, QuietExit, LuaExit,
                  DisabledInit, AutonomousInit, TeleopInit, TestInit, DisabledPeriodic,
                  LuaPeriodicStopped, LuaPeriodicSafe, LuaPeriodicUnsafe, InControl,
                  Restart, autoVars
    <2>2. auto'.completed = auto.completed \/ auto'.completed = 0
      BY <2>1 DEF NoAuto
    <2> QED
      BY <1>p, <2>2
  <1> QED
    BY <1>1, <1>2

\* A shot that comes to its end in an autonomous period has fed its note, with room for
\* a feed (main.cpp 279-288, shooter.cpp 56-105).
THEOREM AutoShotFedCorrect == RoomToFeed => (Spec => AutoShotFed)
  <1> SUFFICES ASSUME RoomToFeed PROVE Spec => AutoShotFed
    OBVIOUS
  <1>1. TypeInv /\ [Next]_vars
          => [auto'.completed > auto.completed
                => shooter'.secondary > 0 /\ shooter'.secondary = shooter'.primary]_vars
    BY FedStep
  <1> QED
    BY <1>1, TypeInvariant, PTL DEF Spec, AutoShotFed

-----------------------------------------------------------------------------
(***************************************************************************)
(* The host shares the shooter as SharedShooter says: each callback is one *)
(* of its actions, or leaves what it sees alone.                           *)
(***************************************************************************)
LEMMA UserValues ==
  /\ pc = "dead" => shooterUser = "dead"
  /\ pc # "dead" /\ lastMode = "auto" => shooterUser = "auto"
  /\ pc # "dead" /\ lastMode \in LuaModes
       => shooterUser = IF luaErrorEncountered THEN "stopped" ELSE "program"
  /\ pc # "dead" /\ lastMode \notin LuaModes \cup {"auto"} => shooterUser = "nobody"
  BY DEF shooterUser, LuaModes

LEMMA NextUserValues ==
  /\ pc' = "dead" => shooterUser' = "dead"
  /\ pc' # "dead" /\ lastMode' = "auto" => shooterUser' = "auto"
  /\ pc' # "dead" /\ lastMode' \in LuaModes
       => shooterUser' = IF luaErrorEncountered' THEN "stopped" ELSE "program"
  /\ pc' # "dead" /\ lastMode' \notin LuaModes \cup {"auto"} => shooterUser' = "nobody"
  BY DEF shooterUser, LuaModes

\* Outside the callbacks that enter a mode or end a period.
LEMMA BetweenSharing ==
  ASSUME ModesDiffer, LuaHostSafe, RobotInit \/ ReadWord \/ QuietExit \/ LuaExit
  PROVE  [Sharing!Next]_(Sharing!sharing)
  <1> USE UserValues, NextUserValues
  <1>1. CASE RobotInit
    <2>1. lastMode = "none" /\ lastMode' = "none" 
          /\ pc = "boot" /\ pc' = "wait" /\ shooter' = shooter
      BY <1>1 DEF RobotInit, ModesDiffer
    <2> QED
      BY <2>1 DEF Sharing!sharing, LuaModes
  <1>2. CASE ReadWord
    <2>1. /\ pc = "wait" /\ pc' \in {"periodic", "exit"} /\ lastMode' = lastMode
          /\ UNCHANGED <<luaErrorEncountered, hasShot, shooter>>
      BY <1>2 DEF ReadWord, luaVars
    <2>2. shooterUser' = shooterUser /\ shooterUser \in {"auto", "program", "stopped", "nobody"}
      BY <2>1
    <2>3. CASE pc' = "periodic" /\ shooterUser # "nobody"
      <3>1. Sharing!BeginPeriod
        BY <2>1, <2>2, <2>3 DEF Sharing!BeginPeriod
      <3> QED
        BY <3>1 DEF Sharing!Next
    <2>4. CASE pc' = "exit" \/ shooterUser = "nobody"
      BY <2>1, <2>2, <2>4 DEF Sharing!sharing
    <2> QED
      BY <2>1, <2>3, <2>4
  <1>3. CASE QuietExit
    <2>1. /\ pc = "exit" /\ pc' = "init" /\ lastMode' = lastMode
          /\ UNCHANGED <<luaErrorEncountered, hasShot, shooter>>
      BY <1>3 DEF QuietExit, luaVars
    <2>2. shooterUser' = shooterUser
      BY <2>1
    <2> QED
      BY <2>1, <2>2 DEF Sharing!sharing
  <1>4. CASE LuaExit
    <2>1. /\ pc = "exit" /\ lastMode \in LuaModes /\ lastMode' = lastMode
          /\ lastMode # "auto" /\ shooter' = shooter
      BY <1>4 DEF LuaExit, LuaModes
    <2>2. CASE luaErrorEncountered
      <3>1. pc' = "init" /\ luaErrorEncountered' = luaErrorEncountered
        BY <1>4, <2>2 DEF LuaExit
      <3> QED
        BY <2>1, <2>2, <3>1 DEF Sharing!sharing
    <2>3. CASE ~luaErrorEncountered
      <3>1. pc' = "init"
        <4>1. engine # NoEngine
          BY <2>1, <2>3, HasEngine
        <4> QED
          BY <1>4, <2>3, <4>1 DEF LuaExit
      <3>2. CASE luaErrorEncountered'
        <4>1. Sharing!StopProgram
          BY <2>1, <2>3, <3>1, <3>2 DEF Sharing!StopProgram
        <4> QED
          BY <4>1 DEF Sharing!Next
      <3>3. CASE ~luaErrorEncountered'
        BY <2>1, <2>3, <3>1, <3>3 DEF Sharing!sharing
      <3> QED
        BY <3>2, <3>3
    <2> QED
      BY <2>2, <2>3
  <1> QED
    BY <1>1, <1>2, <1>3, <1>4

LEMMA EntrySharing ==
  ASSUME ModesDiffer, DisabledInit \/ AutonomousInit \/ TeleopInit \/ TestInit
  PROVE  Sharing!Next
  <1> USE UserValues, NextUserValues
  <1>0. /\ pc = "init" /\ pc' = "periodic" /\ lastMode' = word
        /\ shooterUser # "dead" /\ (lastMode # "auto" => shooterUser # "auto")
    BY DEF DisabledInit, AutonomousInit, TeleopInit, TestInit, Enter, shooterUser, LuaModes
  <1>1. CASE DisabledInit
    <2>1. lastMode' = "disabled" /\ shooter' = shooter
      BY <1>0, <1>1 DEF DisabledInit
    <2>2. Sharing!Leave
      BY <1>0, <2>1 DEF Sharing!Leave, LuaModes
    <2> QED
      BY <2>2 DEF Sharing!Next
  <1>2. CASE AutonomousInit
    <2>1. lastMode' = "auto" /\ lastMode # "auto" /\ shooter' = shooter
      BY <1>0, <1>2 DEF AutonomousInit, ModesDiffer
    <2>2. Sharing!EnterAuto
      BY <1>0, <2>1 DEF Sharing!EnterAuto, Sharing!Enter
    <2> QED
      BY <2>2 DEF Sharing!Next
  <1>3. CASE TeleopInit \/ TestInit
    <2>1. lastMode' \in LuaModes /\ lastMode' # "auto"
      BY <1>0, <1>3 DEF TeleopInit, TestInit, LuaModes
    <2>2. PICK bot : EnterProgram(bot)
      BY <1>3 DEF TeleopInit, TestInit
    <2>3. CASE LoadFails
      <3>1. Sharing!EnterWithout
        BY <1>0, <2>1, <2>3 DEF LoadFails, Sharing!EnterWithout, Sharing!Enter
      <3> QED
        BY <3>1 DEF Sharing!Next
    <2>4. CASE LoadAndPrepare(bot)
      <3>1. shooter' = Reset(shooter)
        BY <2>4 DEF LoadAndPrepare
      <3>2. Sharing!EnterProgram
        BY <1>0, <2>1, <3>1 DEF Sharing!EnterProgram, Sharing!Enter
      <3> QED
        BY <3>2 DEF Sharing!Next
    <2> QED
      BY <2>2, <2>3, <2>4 DEF EnterProgram
  <1> QED
    BY <1>1, <1>2, <1>3

LEMMA PeriodSharing ==
  ASSUME LuaHostSafe, DisabledPeriodic \/ AutonomousPeriodic \/ LuaPeriodic
  PROVE  [Sharing!Next]_(Sharing!sharing)
  <1> USE UserValues, NextUserValues
  <1>1. CASE DisabledPeriodic
    BY <1>1 DEF DisabledPeriodic, EndPeriod, Sharing!sharing, LuaModes
  <1>2. CASE AutonomousPeriodic
    <2>1. Sharing!AutoPeriod
      BY <1>2 DEF AutonomousPeriodic, EndPeriod, AutoShooter, Sharing!AutoPeriod,
                  Sharing!Period
    <2> QED
      BY <2>1 DEF Sharing!Next
  <1>3. CASE LuaPeriodicStopped
    <2>1. /\ pc = "periodic" /\ pc' = "wait" /\ lastMode \in LuaModes /\ lastMode' = lastMode
          /\ shooter' = Process(shooter) /\ luaErrorEncountered' = luaErrorEncountered
          /\ lastMode # "auto"
      BY <1>3 DEF LuaPeriodicStopped, EndPeriod, LuaModes
    <2>2. Sharing!IdlePeriod
      BY <2>1 DEF Sharing!IdlePeriod, Sharing!Period
    <2> QED
      BY <2>2 DEF Sharing!Next
  <1>4. CASE LuaPeriodicSafe \/ LuaPeriodicUnsafe
    <2>1. /\ pc = "periodic" /\ lastMode \in LuaModes /\ lastMode' = lastMode
          /\ lastMode # "auto" /\ ~luaErrorEncountered /\ engine # NoEngine
      <3>1. InControl
        BY <1>4 DEF LuaPeriodicSafe, LuaPeriodicUnsafe
      <3>2. /\ pc = "periodic" /\ lastMode \in LuaModes /\ lastMode' = lastMode
            /\ ~luaErrorEncountered
        BY <3>1 DEF InControl
      <3> QED
        BY <3>2, HasEngine DEF LuaModes
    <2>2. PICK s \in AfterRun(shooter) :
            \/ pc' = "wait" /\ shooter' = Process(s)
            \/ pc' = "dead" /\ shooter' = s
      <3>1. CASE LuaPeriodicSafe
        BY <2>1, <3>1 DEF LuaPeriodicSafe
      <3>2. CASE LuaPeriodicUnsafe
        BY <3>2 DEF LuaPeriodicUnsafe
      <3> QED
        BY <1>4, <3>1, <3>2
    <2>3. CASE pc' = "wait" /\ shooter' = Process(s)
      <3>1. Sharing!ProgramPeriod
        BY <2>1, <2>3 DEF Sharing!ProgramPeriod, Sharing!Period
      <3> QED
        BY <3>1 DEF Sharing!Next
    <2>4. CASE pc' = "dead" /\ shooter' = s
      <3>1. Sharing!Die
        BY <2>1, <2>4 DEF Sharing!Die, Sharing!Period
      <3> QED
        BY <3>1 DEF Sharing!Next
    <2> QED
      BY <2>2, <2>3, <2>4
  <1> QED
    BY <1>1, <1>2, <1>3, <1>4 DEF LuaPeriodic

\* No program gets a shooter that was not reset for it, autonomous asks for its one shot
\* in its first period and only if it came from another mode, and the shooter is
\* processed once in each period of theirs and never otherwise, whatever fails and
\* whatever the programs do (main.cpp 234-301, 303-340, 435-460).
THEOREM RefinesSharedShooter == Spec => ImplementsSharedShooter
  <1>1. Init => Sharing!Init
    BY DEF Init, Sharing!Init, shooterUser, LuaModes
  <1>2. ModesDiffer /\ LuaHostSafe /\ [Next]_vars => [Sharing!Next]_(Sharing!sharing)
    <2>1. ASSUME UNCHANGED vars PROVE UNCHANGED Sharing!sharing
      BY <2>1 DEF vars, loopVars, luaVars, autoVars, Sharing!sharing, shooterUser
    <2>2. ASSUME Restart PROVE Sharing!Next
      <3>1. Sharing!Restart
        BY <2>2 DEF Restart, Sharing!Restart, shooterUser, LuaModes
      <3> QED
        BY <3>1 DEF Sharing!Next
    <2> QED
      BY <2>1, <2>2, BetweenSharing, EntrySharing, PeriodSharing DEF Next, Loop
  <1> QED
    BY <1>1, <1>2, ModesDifferInvariant, LuaHostIsSafe, PTL
    DEF Spec, ImplementsSharedShooter, Sharing!Spec
=============================================================================
