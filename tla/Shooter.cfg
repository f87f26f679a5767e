\* The configuration of robot/config.lua: a 16 ms period, 1 s of warm-up, 0.8 s of
\* feed.  Levels: below the clamp, within it, and above it.
CONSTANTS
  PeriodMs = 16
  WarmTimeMs = 1000
  ShootTimeMs = 800
  ShootPower = 12
  IntakePrimaryPower = 5
  IntakeSecondaryPower = 4
  Levels = {10, 60, 120}
SPECIFICATION FairSpec
INVARIANT TypeOK
PROPERTIES ShotFeeds WarmupHoldsFeed ShotEnds MotorsRest ImplementsShotCycle
