\* A program that makes one shooter call per run, no fault.
CONSTANTS
  PeriodMs = 2
  WarmTimeMs = 4
  ShootTimeMs = 4
  ShootPower = 12
  IntakePrimaryPower = 5
  IntakeSecondaryPower = 4
  Levels = {60}
  Bots = {"teleop.bot"}
  TestBots = {"teleop.bot"}
  Faults = {}
  ShootYes = {"Middle (shoot)"}
  ShootNo = {"Left"}
  ShootAbsent = {}
  PathTime = 2
  SpinTime = 3
  MaxLag = 2
  MaxCalls = 1
  DebugBuild = FALSE
SPECIFICATION Spec
INVARIANT NoShootLoadOverlap
