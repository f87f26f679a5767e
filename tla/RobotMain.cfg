\* Every fault, any program, any order of modes.  A shot is 4 periods, the first 2 of
\* them warm-up; the path is 2 periods and the turn 3.
CONSTANTS
  PeriodMs = 2
  WarmTimeMs = 4
  ShootTimeMs = 4
  ShootPower = 12
  IntakePrimaryPower = 5
  IntakeSecondaryPower = 4
  Levels = {60}
  Bots = {"teleop.bot", "test_v2.bot"}
  TestBots = {"teleop.bot", "test_v2.bot"}
  Faults = {"load", "init", "prepare", "run", "cleanup", "trajectory"}
  ShootYes = {"Middle (shoot)"}
  ShootNo = {"Left"}
  ShootAbsent = {}
  PathTime = 2
  SpinTime = 3
  MaxLag = 2
  MaxCalls = 2
  DebugBuild = FALSE
SPECIFICATION Spec
INVARIANTS TypeOK LuaHostSafe OnlyTeleopDies StillWhenNotInControl AutoShootsOnce ShotBeforeMove OverlapOnlyInWarmup
PROPERTIES ImplementsBotLifecycle ImplementsSharedShooter
