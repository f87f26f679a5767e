---------------------------- MODULE TeleopProofs ----------------------------
(***************************************************************************)
(* Theorems about Teleop, for every configuration of the shooter, every    *)
(* set of buttons and every set of positions of the dpad.                  *)
(***************************************************************************)
EXTENDS Teleop, ShooterOpsProofs

(***************************************************************************)
(* Why a stale press fires nothing: when a button was pressed since its    *)
(* latches were cleared, it is still down or its release is latched too.   *)
(***************************************************************************)
LatchesAgree ==
  \A b \in Bumpers : b \in pad.pressed /\ b \notin pad.released => b \in pad.down

(***************************************************************************)
(* Why nothing overlaps: in a teleop period that began at rest, the feed   *)
(* runs in the intake direction only while the intake runs.                *)
(***************************************************************************)
FeedBackMeansIntake ==
  mode = "teleop" /\ pc # "init" /\ clean.shooter /\ shooter.secondary < 0
    => IsLoading(shooter) /\ shooter.primary <= 0

IInv == TypeOK /\ ClockInStep(shooter) /\ LatchesAgree /\ FeedBackMeansIntake

(***************************************************************************)
(* Why the arms follow the buttons: a lifter that was at rest when the     *)
(* period began moves only once this program has raised it, and where the  *)
(* program leaves it alone (A before Y) it is still at rest.               *)
(***************************************************************************)
MovesOnceRaised ==
  mode = "teleop" /\ pc # "init" /\ clean.arms /\ lifter # stop => program.has_gone_up

ArmsInv == MovesOnceRaised /\ ArmsFollowButtons

-----------------------------------------------------------------------------
(* The program's update of the shooter.                                    *)

LEMMA AskedLevelInRange ==
  ASSUME ShotAsked
  PROVE  AskedLevel \in Levels
<1>1. CASE "RB" \in pad.down \cup pad.pressed
  BY <1>1, TeleopAssumption DEF AskedLevel
<1>2. CASE "RB" \notin pad.down \cup pad.pressed
  <2>1. pad.pov \in {0, 90, 180, 270} BY <1>2 DEF ShotAsked, DpadLevels
  <2>2. AskedLevel = DpadLevels[pad.pov] BY <1>2 DEF AskedLevel
  <2>3. DpadLevels[pad.pov] \in {80, 60, 40, 20} BY <2>1 DEF DpadLevels
  <2>. QED BY <2>2, <2>3, TeleopAssumption
<1>. QED BY <1>1, <1>2

\* The five things a run can do to the shooter, with what each one requires.
LEMMA UpdateCases ==
  ASSUME NEW s
  PROVE  \/ update_shooter(s) = s
         \/ ~IsShooting(s) /\ update_shooter(s) = Intake(s)
         \/ ~IsShooting(s) /\ update_shooter(s) = Stop(s)
         \/ /\ ~IsShooting(s) /\ ~IsLoading(s)
            /\ "RB" \notin pad.released /\ ShotAsked
            /\ update_shooter(s) = LuaShoot(s, AskedLevel)
BY DEF update_shooter

LEMMA UpdateOK ==
  ASSUME NEW s, WellFormed(s), ClockInStep(s)
  PROVE  WellFormed(update_shooter(s)) /\ ClockInStep(update_shooter(s))
BY UpdateCases, IntakeOK, StopOK, LuaShootOK, AskedLevelInRange, LevelsAreNumbers

-----------------------------------------------------------------------------
(* The inductive invariant.                                                *)

LEMMA InitIInv == Init => IInv
<1>. SUFFICES ASSUME Init PROVE IInv
  OBVIOUS
<1>1. pad \in PadType BY DEF Init, Unplugged, PadType
<1>2. TypeOK BY <1>1, NewShooterOK DEF Init, TypeOK, Modes, FreshProgram
<1>. QED
  BY <1>2, NewShooterOK
     DEF Init, IInv, LatchesAgree, Unplugged, FeedBackMeansIntake

LEMMA RefreshIInv ==
  ASSUME IInv, Refresh
  PROVE  IInv'
<1>1. PICK connected \in BOOLEAN, down \in SUBSET Buttons, pov \in Povs \cup {NoPov} :
        RefreshPad(connected, down, pov)
  BY DEF Refresh
<1>2. pad \in PadType BY DEF IInv, TypeOK
<1>3. pad' \in PadType BY <1>1, <1>2 DEF RefreshPad, PadType
<1>4. TypeOK' BY <1>3 DEF IInv, TypeOK, Refresh
<1>5. LatchesAgree'
  BY <1>1, <1>2 DEF IInv, LatchesAgree, RefreshPad, PadType
<1>6. FeedBackMeansIntake'
  BY DEF IInv, FeedBackMeansIntake, Refresh, IsLoading
<1>. QED BY <1>4, <1>5, <1>6 DEF IInv, Refresh

LEMMA InitCallbacksIInv ==
  ASSUME IInv, DisabledInit \/ AutonomousInit \/ TeleopInit
  PROVE  IInv'
<1>1. CASE DisabledInit
  BY <1>1 DEF DisabledInit, Entered, IInv, TypeOK, LatchesAgree, FeedBackMeansIntake
<1>2. CASE AutonomousInit
  BY <1>2 DEF AutonomousInit, Entered, IInv, TypeOK, LatchesAgree, FeedBackMeansIntake
<1>3. CASE TeleopInit
  <2>1. WellFormed(shooter') /\ ClockInStep(shooter')
    BY <1>3, ResetOK DEF TeleopInit, IInv, TypeOK
  <2>2. program' \in [low_gear : BOOLEAN, has_gone_up : BOOLEAN] /\ clean' \in [shooter : BOOLEAN, arms : BOOLEAN]
    <3>1. FreshProgram \in [low_gear : BOOLEAN, has_gone_up : BOOLEAN] BY DEF FreshProgram
    <3>2. AtRest(shooter) \in BOOLEAN BY DEF AtRest, IsIdle
    <3>. QED BY <1>3, <3>1, <3>2 DEF TeleopInit
  <2>3. TypeOK' BY <1>3, <2>1, <2>2 DEF TeleopInit, Entered, IInv, TypeOK
  <2>4. shooter'.secondary = shooter.secondary
    BY <1>3 DEF TeleopInit, Reset, IInv, TypeOK, WellFormed, ShooterType
  <2>5. FeedBackMeansIntake'
    <3>. SUFFICES ASSUME clean'.shooter, shooter'.secondary < 0 PROVE FALSE
      BY DEF FeedBackMeansIntake
    <3>1. AtRest(shooter) BY <1>3, Zenon DEF TeleopInit
    <3>. QED BY <2>4, <3>1 DEF AtRest
  <2>6. LatchesAgree' BY <1>3 DEF TeleopInit, Entered, IInv, LatchesAgree
  <2>. QED BY <2>1, <2>3, <2>5, <2>6 DEF IInv
<1>. QED BY <1>1, <1>2, <1>3

\* process() of a shooter that teleop.bot may have updated.
LEMMA ProcessFeed ==
  ASSUME NEW s, WellFormed(s), ClockInStep(s), Process(s).secondary < 0,
         s.secondary < 0 => IsLoading(s)
  PROVE  IsLoading(Process(s)) /\ Process(s).primary <= 0
<1>1. s \in ShooterType BY DEF WellFormed
<1>2. CASE IsLoading(s)
  BY <1>1, <1>2, ProcessLoading, PowersOrdered DEF IsLoading
<1>3. CASE IsIdle(s)
  BY <1>1, <1>3, ProcessIdle
<1>4. CASE IsShooting(s)
  <2>1. \/ Process(s).secondary = ShootVolts(s.level)
        \/ Process(s).secondary = s.secondary
    BY <1>1, <1>4, ProcessShooting
  <2>2. ShootVolts(s.level) \in Int /\ ShootVolts(s.level) > 0
    BY <1>1, ShootVoltsBounds DEF ShooterType
  <2>3. s.secondary >= 0
    BY <1>1, <1>4 DEF ShooterType, IsLoading, IsShooting
  <2>. QED BY <1>1, <2>1, <2>2, <2>3 DEF ShooterType
<1>. QED BY <1>1, <1>2, <1>3, <1>4 DEF ShooterType, IsLoading, IsIdle, IsShooting

\* After the program ran, the feed runs backwards only if the intake runs, or if it was
\* just stopped; process() then stops the motors.
LEMMA UpdateFeed ==
  ASSUME NEW s, WellFormed(s), ClockInStep(s),
         s.secondary < 0 => IsLoading(s),
         Process(update_shooter(s)).secondary < 0
  PROVE  /\ IsLoading(Process(update_shooter(s)))
         /\ Process(update_shooter(s)).primary <= 0
<1>1. s \in ShooterType BY DEF WellFormed
<1>2. CASE update_shooter(s) = s
  BY <1>2, ProcessFeed
<1>3. CASE ~IsShooting(s) /\ update_shooter(s) = Intake(s)
  <2>1. IsLoading(Intake(s))
    BY <1>1, <1>3 DEF ShooterType, Intake, IsIdle, IsLoading, IsShooting
  <2>. QED BY <1>3, <2>1, IntakeOK, ProcessFeed
<1>4. CASE update_shooter(s) = Stop(s)
  <2>1. Stop(s) \in ShooterType /\ IsIdle(Stop(s))
    BY <1>1, StopOK DEF WellFormed, Stop, IsIdle, ShooterType
  <2>. QED BY <1>4, <2>1, ProcessIdle
<1>5. CASE ~IsLoading(s) /\ ShotAsked /\ update_shooter(s) = LuaShoot(s, AskedLevel)
  <2>1. AskedLevel \in AllLevels BY <1>5, AskedLevelInRange, LevelsAreNumbers
  <2>2. WellFormed(LuaShoot(s, AskedLevel)) /\ ClockInStep(LuaShoot(s, AskedLevel))
    BY <2>1, LuaShootOK
  <2>3. LuaShoot(s, AskedLevel).secondary = s.secondary
    BY <1>1 DEF LuaShoot, Shoot, SetShootLevel, ShooterType
  <2>. QED BY <1>5, <2>2, <2>3, ProcessFeed
<1>. QED BY <1>2, <1>3, <1>4, <1>5, UpdateCases

LEMMA PeriodicIInv ==
  ASSUME IInv, DisabledPeriodic \/ AutonomousPeriodic \/ TeleopPeriodic \/ TeleopDisconnected
  PROVE  IInv'
<1>0. WellFormed(shooter) /\ ClockInStep(shooter) BY DEF IInv, TypeOK
<1>1. CASE DisabledPeriodic
  BY <1>1 DEF DisabledPeriodic, Period, IInv, TypeOK, LatchesAgree, FeedBackMeansIntake
<1>2. CASE AutonomousPeriodic
  <2>1. WellFormed(shooter') /\ ClockInStep(shooter')
    BY <1>0, <1>2, ShootOK, ProcessOK DEF AutonomousPeriodic
  <2>2. TypeOK' BY <1>2, <2>1 DEF AutonomousPeriodic, Period, IInv, TypeOK
  <2>. QED
    BY <1>2, <2>1, <2>2
       DEF AutonomousPeriodic, Period, IInv, LatchesAgree, FeedBackMeansIntake
<1>3. CASE TeleopPeriodic
  <2>1. WellFormed(shooter') /\ ClockInStep(shooter')
    BY <1>0, <1>3, UpdateOK, ProcessOK DEF TeleopPeriodic
  <2>2. pad' \in PadType
    BY <1>3 DEF TeleopPeriodic, IInv, TypeOK, PadType
  <2>3. program' \in [low_gear : BOOLEAN, has_gone_up : BOOLEAN]
    <3>1. update_speed \in BOOLEAN BY DEF update_speed, IInv, TypeOK
    <3>2. HasGoneUp \in BOOLEAN BY DEF HasGoneUp
    <3>. QED BY <1>3, <3>1, <3>2 DEF TeleopPeriodic
  <2>4. lifter' \in {moveUp, moveDown, stop}
    BY <1>3 DEF TeleopPeriodic, update_arms, IInv, TypeOK
  <2>5. TypeOK'
    BY <1>3, <2>1, <2>2, <2>3, <2>4 DEF TeleopPeriodic, Period, IInv, TypeOK
  <2>6. LatchesAgree' BY <1>3 DEF TeleopPeriodic, LatchesAgree, IInv, TypeOK, PadType
  <2>7. FeedBackMeansIntake'
    <3>. SUFFICES ASSUME clean.shooter, shooter'.secondary < 0
                  PROVE  IsLoading(shooter') /\ shooter'.primary <= 0
      BY <1>3 DEF FeedBackMeansIntake, TeleopPeriodic, Period, IsLoading
    <3>1. shooter.secondary < 0 => IsLoading(shooter)
      BY <1>3 DEF IInv, FeedBackMeansIntake, TeleopPeriodic, Period
    <3>. QED BY <1>0, <1>3, <3>1, UpdateFeed DEF TeleopPeriodic
  <2>. QED BY <2>1, <2>5, <2>6, <2>7 DEF IInv
<1>4. CASE TeleopDisconnected
  <2>1. WellFormed(shooter') /\ ClockInStep(shooter')
    BY <1>0, <1>4, ProcessOK DEF TeleopDisconnected
  <2>2. TypeOK' BY <1>4, <2>1 DEF TeleopDisconnected, Period, IInv, TypeOK
  <2>3. FeedBackMeansIntake'
    <3>. SUFFICES ASSUME clean.shooter, shooter'.secondary < 0
                  PROVE  IsLoading(shooter') /\ shooter'.primary <= 0
      BY <1>4 DEF FeedBackMeansIntake, TeleopDisconnected, Period, IsLoading
    <3>1. shooter.secondary < 0 => IsLoading(shooter)
      BY <1>4 DEF IInv, FeedBackMeansIntake, TeleopDisconnected, Period
    <3>. QED BY <1>0, <1>4, <3>1, ProcessFeed DEF TeleopDisconnected
  <2>. QED BY <1>4, <2>1, <2>2, <2>3 DEF TeleopDisconnected, IInv, LatchesAgree
<1>. QED BY <1>1, <1>2, <1>3, <1>4

LEMMA NextIInv == IInv /\ [Next]_vars => IInv'
<1>1. ASSUME IInv, UNCHANGED vars PROVE IInv'
  BY <1>1 DEF vars, IInv, TypeOK, LatchesAgree, FeedBackMeansIntake
<1>. QED BY <1>1, RefreshIInv, InitCallbacksIInv, PeriodicIInv DEF Next

LEMMA InductiveInvariant == Spec => []IInv
BY InitIInv, NextIInv, PTL DEF Spec

-----------------------------------------------------------------------------
(***************************************************************************)
(* Every variable keeps its type, and no motor of the shooter is commanded *)
(* beyond its configured power, by teleop.bot or by autonomous.            *)
(***************************************************************************)
THEOREM TypeCorrect == Spec => []TypeOK
<1>1. IInv => TypeOK BY DEF IInv
<1>. QED BY <1>1, InductiveInvariant, PTL

(***************************************************************************)
(* Flywheels shooting and a feed in the intake direction never overlap in  *)
(* a teleop period that began at rest.                                     *)
(***************************************************************************)
THEOREM NoOverlapCorrect == Spec => []NoOverlapInTeleop
<1>1. IInv => NoOverlapInTeleop
  BY DEF IInv, FeedBackMeansIntake, NoOverlapInTeleop, TypeOK, WellFormed, ShooterType
<1>. QED BY <1>1, InductiveInvariant, PTL

(***************************************************************************)
(* No stale press of the right bumper starts a shot.                       *)
(***************************************************************************)
LEMMA ShotNeedsHoldStep ==
  ASSUME IInv, Next, StartsShot
  PROVE  "RB" \in pad.down \/ pad.pov \in DOMAIN DpadLevels
<1>. DEFINE s == update_shooter(shooter)
<1>0. WellFormed(shooter) /\ ClockInStep(shooter) /\ shooter \in ShooterType
  BY DEF IInv, TypeOK, WellFormed
<1>1. TeleopPeriodic
  BY DEF Next, StartsShot, Refresh, DisabledInit, AutonomousInit, TeleopInit, Entered,
         DisabledPeriodic, AutonomousPeriodic, TeleopDisconnected, Period
<1>2. shooter' = Process(s) /\ shooter'.primary > 0 /\ ~IsShooting(shooter)
  BY <1>1 DEF TeleopPeriodic, StartsShot
<1>3. s \in ShooterType BY <1>0, UpdateOK DEF WellFormed
<1>. HIDE DEF s
<1>4. IsShooting(s)
  <2>1. CASE IsLoading(s) BY <1>2, <1>3, <2>1, ProcessLoading, PowersOrdered
  <2>2. CASE IsIdle(s) BY <1>2, <1>3, <2>2, ProcessIdle
  <2>. QED BY <1>3, <2>1, <2>2 DEF ShooterType, IsLoading, IsIdle, IsShooting
<1>5. "RB" \notin pad.released /\ ShotAsked
  <2>1. s # shooter BY <1>2, <1>4
  <2>2. ~IsShooting(Intake(shooter)) /\ ~IsShooting(Stop(shooter))
    BY <1>0, <1>2 DEF ShooterType, Intake, Stop, IsIdle, IsShooting
  <2>. QED BY <1>4, <2>1, <2>2, UpdateCases DEF s
<1>6. CASE "RB" \in pad.pressed
  <2>1. "RB" \in Bumpers BY <1>6 DEF IInv, TypeOK, PadType
  <2>. QED BY <1>5, <1>6, <2>1 DEF IInv, LatchesAgree
<1>. QED BY <1>5, <1>6 DEF ShotAsked

THEOREM ShotNeedsHoldCorrect == Spec => ShotNeedsHold
<1>1. IInv /\ [Next]_vars
        => [StartsShot => "RB" \in pad.down \/ pad.pov \in DOMAIN DpadLevels]_vars
  BY ShotNeedsHoldStep
<1>. QED BY <1>1, InductiveInvariant, PTL DEF Spec, ShotNeedsHold

(***************************************************************************)
(* The level of a shot does not change while it lasts.                     *)
(***************************************************************************)
LEMMA ProcessKeepsLevel ==
  ASSUME NEW s \in ShooterType, IsShooting(s)
  PROVE  Process(s).level = s.level
BY ProcessShooting

LEMMA ShotLevelSteadyStep ==
  ASSUME IInv, Next, IsShooting(shooter), IsShooting(shooter')
  PROVE  shooter'.level = shooter.level
<1>0. shooter \in ShooterType BY DEF IInv, TypeOK, WellFormed
<1>1. CASE TeleopInit
  <2>1. Reset(shooter).state = "Idle" BY <1>0 DEF Reset, ShooterType
  <2>. QED BY <1>1, <2>1 DEF TeleopInit, IsShooting
<1>2. CASE AutonomousPeriodic
  <2>1. Shoot(shooter) = shooter BY <1>0 DEF Shoot, IsIdle, IsShooting
  <2>. QED BY <1>0, <1>2, <2>1, ProcessKeepsLevel DEF AutonomousPeriodic
<1>3. CASE TeleopPeriodic
  <2>1. update_shooter(shooter) = shooter BY DEF update_shooter
  <2>. QED BY <1>0, <1>3, <2>1, ProcessKeepsLevel DEF TeleopPeriodic
<1>4. CASE TeleopDisconnected
  BY <1>0, <1>4, ProcessKeepsLevel DEF TeleopDisconnected
<1>. QED
  BY <1>1, <1>2, <1>3, <1>4
     DEF Next, Refresh, DisabledInit, AutonomousInit, DisabledPeriodic, Entered, Period

THEOREM ShotLevelSteadyCorrect == Spec => ShotLevelSteady
<1>1. IInv /\ [Next]_vars
        => [IsShooting(shooter) /\ IsShooting(shooter') => shooter'.level = shooter.level]_vars
  BY ShotLevelSteadyStep
<1>. QED BY <1>1, InductiveInvariant, PTL DEF Spec, ShotLevelSteady

(***************************************************************************)
(* A shot that is running is fed before it ends, whatever is pressed, if   *)
(* the configuration leaves room for a feed: no period calls the shooter   *)
(* while it shoots, so that process() alone ends a shot, on its last       *)
(* period.                                                                 *)
(***************************************************************************)
ShotEndsFed(s) == IsIdle(s) /\ s.secondary = s.primary /\ s.secondary > 0

LEMMA ShotRunsOutStep ==
  ASSUME RoomToFeed, IInv, Next,
         pc = "periodic", IsShooting(shooter), ~IsShooting(shooter')
  PROVE  ShotEndsFed(shooter')
<1>0. /\ WellFormed(shooter) /\ ClockInStep(shooter) /\ shooter \in ShooterType
      /\ Shoot(shooter) = shooter
  BY DEF IInv, TypeOK, WellFormed, Shoot, IsIdle, IsShooting
<1>1. AutonomousPeriodic => shooter' = Process(shooter)
  BY <1>0 DEF AutonomousPeriodic
<1>2. TeleopPeriodic => shooter' = Process(shooter)
  <2>1. update_shooter(shooter) = shooter BY DEF update_shooter
  <2>. QED BY <2>1 DEF TeleopPeriodic
<1>3. AutonomousPeriodic \/ TeleopPeriodic \/ TeleopDisconnected
  BY DEF Next, Refresh, DisabledInit, AutonomousInit, TeleopInit, Entered,
         DisabledPeriodic
<1>4. shooter' = Process(shooter)
  BY <1>1, <1>2, <1>3 DEF TeleopDisconnected
<1>. QED BY <1>0, <1>4, LastPeriodFeeds DEF ShotEndsFed, IsIdle

THEOREM ShotRunsOutCorrect == RoomToFeed => (Spec => ShotRunsOut)
<1>. SUFFICES ASSUME RoomToFeed PROVE Spec => ShotRunsOut
  OBVIOUS
<1>1. IInv /\ [Next]_vars
        => [pc = "periodic" /\ IsShooting(shooter) /\ ~IsShooting(shooter')
              => /\ IsIdle(shooter')
                 /\ shooter'.secondary = shooter'.primary
                 /\ shooter'.secondary > 0]_vars
  BY ShotRunsOutStep DEF ShotEndsFed
<1>. QED BY <1>1, InductiveInvariant, PTL DEF Spec, ShotRunsOut

(***************************************************************************)
(* The arms move only as the buttons held say, and never by what an        *)
(* earlier period left if they were at rest when this one began.           *)
(***************************************************************************)
LEMMA RunMovesArms ==
  ASSUME IInv, MovesOnceRaised, TeleopPeriodic
  PROVE  ArmsInv'
<1>1. /\ pc = "periodic" /\ mode = "teleop"
      /\ pad'.down = pad.down /\ lifter' = update_arms /\ clean' = clean
      /\ program'.has_gone_up = (program.has_gone_up \/ "Y" \in pad.down)
  BY DEF TeleopPeriodic, Period, HasGoneUp, IInv, TypeOK, PadType
<1>2. moveUp # stop /\ moveDown # stop /\ moveUp # moveDown
  BY DEF moveUp, moveDown, stop
<1>3. lifter \in {moveUp, moveDown, stop} BY DEF IInv, TypeOK
<1>4. clean.arms /\ lifter # stop => program.has_gone_up
  BY <1>1 DEF MovesOnceRaised
<1>5. CASE "Y" \in pad.down
  <2>1. update_arms = moveUp BY <1>5 DEF update_arms
  <2>. QED BY <1>1, <1>5, <2>1 DEF ArmsInv, MovesOnceRaised, ArmsFollowButtons
<1>6. CASE "Y" \notin pad.down /\ "A" \in pad.down
  <2>1. update_arms = IF program.has_gone_up THEN moveDown ELSE lifter
    BY <1>6 DEF update_arms
  <2>. QED
    BY <1>1, <1>2, <1>4, <1>6, <2>1 DEF ArmsInv, MovesOnceRaised, ArmsFollowButtons
<1>7. CASE "Y" \notin pad.down /\ "A" \notin pad.down
  <2>1. update_arms = stop BY <1>7 DEF update_arms
  <2>. QED BY <1>1, <2>1 DEF ArmsInv, MovesOnceRaised, ArmsFollowButtons
<1>. QED BY <1>5, <1>6, <1>7

LEMMA NextArmsInv == IInv /\ ArmsInv /\ [Next]_vars => ArmsInv'
<1>. SUFFICES ASSUME IInv, ArmsInv, [Next]_vars PROVE ArmsInv'
  OBVIOUS
<1>. USE DEF ArmsInv, MovesOnceRaised, ArmsFollowButtons
<1>1. CASE Refresh BY <1>1 DEF Refresh
<1>2. CASE DisabledInit \/ AutonomousInit
  BY <1>2 DEF DisabledInit, AutonomousInit, Entered
<1>3. CASE TeleopInit
  <2>1. pc' = "periodic" /\ clean'.arms = (lifter = stop) /\ lifter' = lifter
    BY <1>3 DEF TeleopInit, Entered
  <2>. QED BY <2>1
<1>4. CASE DisabledPeriodic \/ AutonomousPeriodic
  BY <1>4 DEF DisabledPeriodic, AutonomousPeriodic, Period
<1>5. CASE TeleopPeriodic BY <1>5, RunMovesArms
<1>6. CASE TeleopDisconnected BY <1>6 DEF TeleopDisconnected, Period
<1>7. CASE UNCHANGED vars BY <1>7 DEF vars
<1>. QED BY <1>1, <1>2, <1>3, <1>4, <1>5, <1>6, <1>7 DEF Next

THEOREM ArmsFollowButtonsCorrect == Spec => []ArmsFollowButtons
<1>1. Init => ArmsInv
  BY DEF Init, ArmsInv, MovesOnceRaised, ArmsFollowButtons
<1>2. ArmsInv => ArmsFollowButtons BY DEF ArmsInv
<1>. QED BY <1>1, <1>2, NextArmsInv, InductiveInvariant, PTL DEF Spec

-----------------------------------------------------------------------------
(***************************************************************************)
(* The shooter is shared as SharedShooter says: each action of this module *)
(* is one of its actions, or leaves what it sees alone.                    *)
(***************************************************************************)
LEMMA UserValues ==
  ASSUME mode \in Modes
  PROVE  /\ pc = "init" \/ mode = "disabled" => shooterUser = "nobody"
         /\ pc # "init" /\ mode = "auto" => shooterUser = "auto"
         /\ pc # "init" /\ mode = "teleop" => shooterUser = "program"
BY DEF shooterUser, Modes

LEMMA NextUserValues ==
  ASSUME mode' \in Modes
  PROVE  /\ pc' = "init" \/ mode' = "disabled" => shooterUser' = "nobody"
         /\ pc' # "init" /\ mode' = "auto" => shooterUser' = "auto"
         /\ pc' # "init" /\ mode' = "teleop" => shooterUser' = "program"
BY DEF shooterUser, Modes

LEMMA EntrySharing ==
  ASSUME IInv, IInv', Refresh \/ DisabledInit \/ AutonomousInit \/ TeleopInit
  PROVE  [Sharing!Next]_(Sharing!sharing)
<1>. mode \in Modes /\ mode' \in Modes BY DEF IInv, TypeOK
<1>. USE UserValues, NextUserValues
<1>1. CASE Refresh
  <2>1. pc = "refresh" /\ pc' \in {"periodic", "init"} /\ (pc' = "periodic" => mode' = mode)
        /\ UNCHANGED <<shooter, hasShot>>
    BY <1>1 DEF Refresh
  <2>2. CASE pc' = "init"
    <3>1. Sharing!Leave BY <2>1, <2>2 DEF Sharing!Leave, Modes
    <3>. QED BY <3>1 DEF Sharing!Next
  <2>3. CASE pc' = "periodic" /\ mode = "disabled"
    BY <2>1, <2>3 DEF Sharing!sharing
  <2>4. CASE pc' = "periodic" /\ mode # "disabled"
    <3>1. Sharing!BeginPeriod BY <2>1, <2>4 DEF Sharing!BeginPeriod, Modes
    <3>. QED BY <3>1 DEF Sharing!Next
  <2>. QED BY <2>1, <2>2, <2>3, <2>4
<1>2. CASE DisabledInit
  BY <1>2 DEF DisabledInit, Entered, Sharing!sharing
<1>3. CASE AutonomousInit
  <2>1. Sharing!EnterAuto
    BY <1>3 DEF AutonomousInit, Entered, Sharing!EnterAuto, Sharing!Enter
  <2>. QED BY <2>1 DEF Sharing!Next
<1>4. CASE TeleopInit
  <2>1. Sharing!EnterProgram
    BY <1>4 DEF TeleopInit, Entered, Sharing!EnterProgram, Sharing!Enter
  <2>. QED BY <2>1 DEF Sharing!Next
<1>. QED BY <1>1, <1>2, <1>3, <1>4

LEMMA PeriodSharing ==
  ASSUME IInv, IInv',
         DisabledPeriodic \/ AutonomousPeriodic \/ TeleopPeriodic \/ TeleopDisconnected
  PROVE  [Sharing!Next]_(Sharing!sharing)
<1>. mode \in Modes /\ mode' \in Modes BY DEF IInv, TypeOK
<1>. USE UserValues, NextUserValues
<1>1. CASE DisabledPeriodic
  BY <1>1 DEF DisabledPeriodic, Period, Sharing!sharing
<1>2. CASE AutonomousPeriodic
  <2>1. Sharing!AutoPeriod
    BY <1>2 DEF AutonomousPeriodic, Period, Sharing!AutoPeriod, Sharing!Period
  <2>. QED BY <2>1 DEF Sharing!Next
<1>3. CASE TeleopPeriodic
  <2>1. update_shooter(shooter) \in OneCall(shooter)
    BY UpdateCases, AskedLevelInRange DEF OneCall
  <2>2. Sharing!ProgramPeriod
    BY <1>3, <2>1 DEF TeleopPeriodic, Period, Sharing!ProgramPeriod, Sharing!Period
  <2>. QED BY <2>2 DEF Sharing!Next
<1>4. CASE TeleopDisconnected
  <2>1. Sharing!IdlePeriod
    BY <1>4 DEF TeleopDisconnected, Period, Sharing!IdlePeriod, Sharing!Period
  <2>. QED BY <2>1 DEF Sharing!Next
<1>. QED BY <1>1, <1>2, <1>3, <1>4

\* The model of teleop.bot shares the shooter as RobotMain does, for a program that
\* makes at most one call in a run: what SharedShooter promises holds of both.
THEOREM RefinesSharedShooter == Spec => ImplementsSharedShooter
<1>1. Init => Sharing!Init
  BY DEF Init, Sharing!Init, shooterUser
<1>2. IInv /\ IInv' /\ [Next]_vars => [Sharing!Next]_(Sharing!sharing)
  <2>1. ASSUME UNCHANGED vars PROVE UNCHANGED Sharing!sharing
    BY <2>1 DEF vars, Sharing!sharing, shooterUser
  <2>. QED BY <2>1, EntrySharing, PeriodSharing DEF Next
<1>. QED
  BY <1>1, <1>2, InductiveInvariant, PTL
     DEF Spec, ImplementsSharedShooter, Sharing!Spec
=============================================================================
