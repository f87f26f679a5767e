\* The two bumpers, the buttons of the arms and the dpad, pressed to one side or
\* released, over any sequence of modes and disconnections.  A shot is 3 periods, and 2 of
\* them are warm-up, where without the floor at PeriodMs it would be 1.
CONSTANTS
  PeriodMs = 2
  WarmTimeMs = 2
  ShootTimeMs = 4
  ShootPower = 12
  IntakePrimaryPower = 5
  IntakeSecondaryPower = 4
  Levels = {20, 40, 60, 80, 100}
  Buttons = {"LB", "RB", "Y", "A"}
  Povs = {270}
SPECIFICATION Spec
INVARIANTS TypeOK NoOverlapInTeleop ArmsFollowButtons
PROPERTIES ShotNeedsHold ShotLevelSteady ShotRunsOut ImplementsSharedShooter
