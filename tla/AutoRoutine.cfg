\* The autonomous routine, entered from any mode at any time; trajectories that can be
\* read, a debug build in which program errors are lost.
CONSTANTS
  PeriodMs = 2
  WarmTimeMs = 4
  ShootTimeMs = 4
  ShootPower = 12
  IntakePrimaryPower = 5
  IntakeSecondaryPower = 4
  Levels = {60}
  Bots = {"teleop.bot"}
  TestBots = {"teleop.bot"}
  Faults = {"run"}
  ShootYes = {"Middle (shoot)"}
  ShootNo = {"Left"}
  ShootAbsent = {}
  PathTime = 2
  SpinTime = 3
  MaxLag = 2
  MaxCalls = 1
  DebugBuild = TRUE
SPECIFICATION FairSpec
PROPERTIES ImplementsAutoRoutine AutoCompletes AutoShotFed OverlapBegins
INVARIANT AutoHonoursSetting
