-------------------------- MODULE ShooterOpsProofs --------------------------
(***************************************************************************)
(* Lemmas about the methods of the shooter, for every configuration that   *)
(* ShooterAssumption allows: each keeps a shooter well formed and the      *)
(* clock of a shot in step.  The proofs about Shooter and about RobotMain  *)
(* rest on them.                                                           *)
(***************************************************************************)
EXTENDS ShooterOps, TLAPS

LEMMA TicksPositive == ShotTicks \in Nat \ {0} /\ WarmTicks \in Nat \ {0}
  BY ShooterAssumption DEF ShooterAssumption, ShotTicks, WarmTicks, Larger

LEMMA PowersOrdered ==
  /\ FullVolts \in Int /\ FullVolts >= 1
  /\ IntakePrimaryVolts \in Int /\ IntakePrimaryVolts < 0
  /\ IntakeSecondaryVolts \in Int /\ IntakeSecondaryVolts < 0
  BY ShooterAssumption
     DEF ShooterAssumption, FullVolts, IntakePrimaryVolts, IntakeSecondaryVolts, Larger

LEMMA LevelsAreNumbers ==
  /\ AllLevels \subseteq Int
  /\ Levels \subseteq AllLevels
  /\ FullLevel \in AllLevels
  BY ShooterAssumption DEF ShooterAssumption, AllLevels, FullLevel

LEMMA ScaledBounds ==
  ASSUME NEW v \in Int, v >= 1, NEW c \in 20 .. 100
  PROVE  v * c \in Int /\ v * c > 0 /\ v * c <= 100 * v
  <1>1. v * c >= v * 20
    OBVIOUS
  <1>2. v * c <= v * 100
    OBVIOUS
  <1> QED
    BY <1>1, <1>2

\* A shooting voltage is positive and never above full power.
LEMMA ShootVoltsBounds ==
  ASSUME NEW level \in AllLevels
  PROVE  /\ ShootVolts(level) \in Int
         /\ ShootVolts(level) > 0
         /\ ShootVolts(level) <= 100 * FullVolts
  <1> DEFINE c == Larger(20, Smaller(100, level))
  <1>1. c \in 20 .. 100
    BY LevelsAreNumbers DEF Larger, Smaller
  <1> HIDE DEF c
  <1>2. FullVolts * c \in Int /\ FullVolts * c > 0 /\ FullVolts * c <= 100 * FullVolts
    BY <1>1, PowersOrdered, ScaledBounds
  <1> QED
    BY <1>2 DEF ShootVolts, c

(***************************************************************************)
(* The configuration must leave room for a feed after the warm-up.  The    *)
(* shipped one does; ShooterAssumption alone does not, because both counts *)
(* are floored at the period.                                              *)
(***************************************************************************)
RoomToFeed == WarmTicks < ShotTicks

-----------------------------------------------------------------------------
(* The constructor and the methods other than process().                   *)

LEMMA NewShooterOK == WellFormed(NewShooter) /\ ClockInStep(NewShooter)
  <1>1. NewShooter \in ShooterType
    BY LevelsAreNumbers DEF NewShooter, ShooterType
  <1> QED
    BY <1>1, PowersOrdered DEF WellFormed, ClockInStep, NewShooter, IsShooting

LEMMA ResetOK ==
  ASSUME NEW s, WellFormed(s)
  PROVE  WellFormed(Reset(s)) /\ ClockInStep(Reset(s))
  BY LevelsAreNumbers DEF WellFormed, ShooterType, Reset, ClockInStep, IsShooting

LEMMA IntakeOK ==
  ASSUME NEW s, WellFormed(s), ClockInStep(s)
  PROVE  WellFormed(Intake(s)) /\ ClockInStep(Intake(s))
  BY DEF WellFormed, ShooterType, Intake, IsIdle, ClockInStep, IsShooting

LEMMA StopOK ==
  ASSUME NEW s, WellFormed(s)
  PROVE  WellFormed(Stop(s)) /\ ClockInStep(Stop(s))
  BY DEF WellFormed, ShooterType, Stop, ClockInStep, IsShooting

LEMMA ShootStarts ==
  ASSUME NEW s \in ShooterType, IsIdle(s)
  PROVE  /\ Shoot(s) \in ShooterType
         /\ Shoot(s).tick = ShotTicks /\ Shoot(s).delay = 0
         /\ Shoot(s).delayTicks = WarmTicks
         /\ Shoot(s).primary = s.primary /\ Shoot(s).secondary = s.secondary
  <1>1. ShotTicks \in Int /\ WarmTicks \in Int /\ 0 \in Int
    BY TicksPositive
  <1>2. Shoot(s) \in ShooterType
    BY <1>1 DEF Shoot, ShooterType
  <1> QED
    BY <1>2 DEF Shoot, ShooterType

LEMMA ShootOK ==
  ASSUME NEW s, WellFormed(s), ClockInStep(s)
  PROVE  WellFormed(Shoot(s)) /\ ClockInStep(Shoot(s))
  <1>1. CASE IsIdle(s)
    BY <1>1, ShootStarts, TicksPositive DEF WellFormed, ClockInStep
  <1>2. CASE ~IsIdle(s)
    BY <1>2 DEF Shoot
  <1> QED
    BY <1>1, <1>2

LEMMA SetShootLevelOK ==
  ASSUME NEW s, WellFormed(s), ClockInStep(s), NEW level \in AllLevels
  PROVE  WellFormed(SetShootLevel(s, level)) /\ ClockInStep(SetShootLevel(s, level))
  BY DEF WellFormed, ShooterType, SetShootLevel, ClockInStep, IsShooting

LEMMA LuaShootOK ==
  ASSUME NEW s, WellFormed(s), ClockInStep(s), NEW level \in AllLevels
  PROVE  WellFormed(LuaShoot(s, level)) /\ ClockInStep(LuaShoot(s, level))
  BY SetShootLevelOK, ShootOK DEF LuaShoot

\* shoot() and intake() leave a shot that is running as it is; from Lua, shoot()
\* sets the level.
LEMMA StartDuringShot ==
  ASSUME NEW s \in ShooterType, IsShooting(s), NEW level \in AllLevels
  PROVE  /\ Shoot(s) = s /\ Intake(s) = s
         /\ LuaShoot(s, level) = SetShootLevel(s, level)
         /\ SetShootLevel(s, level).state = s.state
         /\ SetShootLevel(s, level).tick = s.tick
  BY DEF Shoot, Intake, LuaShoot, SetShootLevel, IsShooting, IsIdle, ShooterType

\* No method but process() commands a motor.
LEMMA CallsKeepMotors ==
  ASSUME NEW s \in ShooterType, NEW level \in AllLevels,
         NEW r \in {Reset(s), Intake(s), Shoot(s), LuaShoot(s, level), Stop(s)}
  PROVE  r.primary = s.primary /\ r.secondary = s.secondary
  <1>1. /\ Reset(s).primary = s.primary /\ Reset(s).secondary = s.secondary
        /\ Stop(s).primary = s.primary /\ Stop(s).secondary = s.secondary
        /\ Intake(s).primary = s.primary /\ Intake(s).secondary = s.secondary
    BY DEF Reset, Stop, Intake, ShooterType
  <1>2. ASSUME NEW t \in ShooterType
        PROVE  Shoot(t).primary = t.primary /\ Shoot(t).secondary = t.secondary
    BY DEF Shoot, ShooterType
  <1>3. /\ SetShootLevel(s, level) \in ShooterType
        /\ SetShootLevel(s, level).primary = s.primary
        /\ SetShootLevel(s, level).secondary = s.secondary
    BY DEF SetShootLevel, ShooterType
  <1> QED
    BY <1>1, <1>2, <1>3 DEF LuaShoot

-----------------------------------------------------------------------------
(* process(), in each of the three states: first the fields it returns.    *)

LEMMA ProcessLoading ==
  ASSUME NEW s \in ShooterType, IsLoading(s)
  PROVE  /\ Process(s) \in ShooterType
         /\ Process(s).state = "Loading"
         /\ Process(s).primary = IntakePrimaryVolts
         /\ Process(s).secondary = IntakeSecondaryVolts
  <1>1. IntakePrimaryVolts \in Int /\ IntakeSecondaryVolts \in Int
    BY PowersOrdered
  <1>2. Process(s) \in ShooterType
    BY <1>1 DEF Process, Command, CountDown, IsLoading, IsShooting, ShooterType
  <1>3. /\ Process(s).state = "Loading"
        /\ Process(s).primary = IntakePrimaryVolts
        /\ Process(s).secondary = IntakeSecondaryVolts
    BY DEF Process, Command, CountDown, IsLoading, IsShooting, ShooterType
  <1> QED
    BY <1>2, <1>3

LEMMA ProcessIdle ==
  ASSUME NEW s \in ShooterType, IsIdle(s)
  PROVE  /\ Process(s) \in ShooterType
         /\ Process(s).state = "Idle"
         /\ Process(s).primary = 0
         /\ Process(s).secondary = 0
  <1>1. 0 \in Int
    OBVIOUS
  <1>2. Process(s) \in ShooterType
    BY <1>1 DEF Process, Command, CountDown, IsLoading, IsShooting, IsIdle, ShooterType
  <1>3. Process(s).state = "Idle" /\ Process(s).primary = 0 /\ Process(s).secondary = 0
    BY DEF Process, Command, CountDown, IsLoading, IsShooting, IsIdle, ShooterType
  <1> QED
    BY <1>2, <1>3

LEMMA ProcessShooting ==
  ASSUME NEW s \in ShooterType, IsShooting(s)
  PROVE  /\ Process(s).state = IF s.tick - 1 <= 0 THEN "Idle" ELSE "Shooting"
         /\ Process(s).tick = s.tick - 1
         /\ Process(s).delay = s.delay + 1
         /\ Process(s).delayTicks = s.delayTicks
         /\ Process(s).level = s.level
         /\ Process(s).primary = ShootVolts(s.level)
         /\ Process(s).secondary = IF s.delay >= s.delayTicks
                                   THEN ShootVolts(s.level) ELSE s.secondary
  BY DEF Process, Command, CountDown, IsLoading, IsShooting, ShooterType

LEMMA ProcessShootingType ==
  ASSUME NEW s \in ShooterType, IsShooting(s)
  PROVE  Process(s) \in ShooterType
  <1>1. /\ Command(s) \in ShooterType
        /\ IsShooting(Command(s))
    <2> DEFINE volts == ShootVolts(s.level)
               feed  == IF s.delay >= s.delayTicks THEN volts ELSE s.secondary
    <2>1. Command(s) = [s EXCEPT !.primary = volts, !.secondary = feed,
                                 !.delay = s.delay + 1]
      BY DEF Command, IsLoading, IsShooting, ShooterType
    <2>2. volts \in Int /\ feed \in Int /\ s.delay + 1 \in Int
      BY ShootVoltsBounds DEF ShooterType
    <2> HIDE DEF volts, feed
    <2>3. Command(s) \in ShooterType
      BY <2>1, <2>2 DEF ShooterType
    <2>4. IsShooting(Command(s))
      BY <2>1 DEF ShooterType, IsShooting
    <2> QED
      BY <2>3, <2>4
  <1>2. ASSUME NEW c \in ShooterType, IsShooting(c)
        PROVE  CountDown(c) \in ShooterType
    <2> DEFINE tick  == c.tick - 1
               state == IF c.tick - 1 <= 0 THEN "Idle" ELSE "Shooting"
    <2>1. CountDown(c) = [c EXCEPT !.tick = tick, !.state = state]
      BY <1>2 DEF CountDown, IsShooting, ShooterType
    <2>2. tick \in Int /\ state \in {"Idle", "Shooting", "Loading"}
      BY DEF ShooterType
    <2> HIDE DEF tick, state
    <2> QED
      BY <2>1, <2>2 DEF ShooterType
  <1> QED
    BY <1>1, <1>2 DEF Process

LEMMA ProcessOK ==
  ASSUME NEW s, WellFormed(s), ClockInStep(s)
  PROVE  WellFormed(Process(s)) /\ ClockInStep(Process(s))
  <1>0. s \in ShooterType
    BY DEF WellFormed
  <1>1. CASE IsLoading(s)
    BY <1>0, <1>1, ProcessLoading, PowersOrdered DEF WellFormed, ClockInStep, IsShooting
  <1>2. CASE IsIdle(s)
    BY <1>0, <1>2, ProcessIdle, PowersOrdered DEF WellFormed, ClockInStep, IsShooting
  <1>3. CASE IsShooting(s)
    <2> DEFINE r == Process(s)
    <2>1. r \in ShooterType
      BY <1>0, <1>3, ProcessShootingType
    <2>2. /\ r.state = IF s.tick - 1 <= 0 THEN "Idle" ELSE "Shooting"
          /\ r.tick = s.tick - 1 /\ r.delay = s.delay + 1 /\ r.delayTicks = s.delayTicks
          /\ r.primary = ShootVolts(s.level)
          /\ r.secondary = ShootVolts(s.level) \/ r.secondary = s.secondary
      BY <1>0, <1>3, ProcessShooting
    <2>3. /\ ShootVolts(s.level) \in IntakePrimaryVolts .. 100 * FullVolts
          /\ ShootVolts(s.level) \in IntakeSecondaryVolts .. 100 * FullVolts
      BY <1>0, ShootVoltsBounds, PowersOrdered DEF ShooterType
    <2>4. s.tick \in Int /\ s.delay \in Int
      BY <1>0 DEF ShooterType
    <2> HIDE DEF r
    <2>5. WellFormed(r)
      BY <2>1, <2>2, <2>3 DEF WellFormed
    <2>6. ClockInStep(r)
      BY <1>3, <2>2, <2>4, TicksPositive DEF ClockInStep, IsShooting
    <2> QED
      BY <2>5, <2>6 DEF r
  <1> QED
    BY <1>0, <1>1, <1>2, <1>3 DEF ShooterType, IsLoading, IsIdle, IsShooting

\* With the clock in step, process() ends a shot on its last period only.
LEMMA LastPeriod ==
  ASSUME NEW s, WellFormed(s), ClockInStep(s), IsShooting(s), ~IsShooting(Process(s))
  PROVE  s.tick = 1 /\ s.delay = ShotTicks - 1
  <1>0. s \in ShooterType /\ s.tick \in Int /\ s.delay \in Int
    BY DEF WellFormed, ShooterType
  <1>1. Process(s).state = IF s.tick - 1 <= 0 THEN "Idle" ELSE "Shooting"
    BY <1>0, ProcessShooting
  <1> QED
    BY <1>0, <1>1, TicksPositive DEF IsShooting, ClockInStep

\* With room for a feed, the last period of a shot leaves both pairs of motors at
\* the shooting voltage.
LEMMA LastPeriodFeeds ==
  ASSUME RoomToFeed,
         NEW s, WellFormed(s), ClockInStep(s), IsShooting(s), ~IsShooting(Process(s))
  PROVE  /\ Process(s).state = "Idle"
         /\ Process(s).secondary = Process(s).primary
         /\ Process(s).secondary > 0
  <1>1. /\ s \in ShooterType /\ s.delay \in Int /\ s.tick \in Int
        /\ s.level \in AllLevels /\ s.delayTicks = WarmTicks
    BY DEF WellFormed, ShooterType, ClockInStep
  <1>2. s.delay >= s.delayTicks /\ s.tick = 1
    BY <1>1, LastPeriod, TicksPositive DEF RoomToFeed
  <1>3. /\ Process(s).primary = ShootVolts(s.level)
        /\ Process(s).secondary = ShootVolts(s.level)
        /\ Process(s).state = "Idle"
    BY <1>1, <1>2, ProcessShooting
  <1> QED
    BY <1>1, <1>3, ShootVoltsBounds

\* process() takes one period off a shot and never starts one.
LEMMA ProcessCountsDown ==
  ASSUME NEW s, WellFormed(s)
  PROVE  /\ IsShooting(Process(s)) => IsShooting(s) /\ Process(s).tick = s.tick - 1
         /\ IsShooting(s) => IsIdle(Process(s)) \/ IsShooting(Process(s))
  <1>1. s \in ShooterType /\ (IsIdle(s) \/ IsLoading(s) \/ IsShooting(s))
    BY DEF WellFormed, ShooterType, IsIdle, IsLoading, IsShooting
  <1> QED
    BY <1>1, ProcessIdle, ProcessLoading, ProcessShooting
       DEF IsIdle, IsLoading, IsShooting

\* The voltages process() leaves behind, in each of the three states.
LEMMA ProcessMotors ==
  ASSUME NEW s, WellFormed(s), ClockInStep(s)
  PROVE  /\ IsIdle(s) => /\ IsIdle(Process(s))
                         /\ Process(s).primary = 0 /\ Process(s).secondary = 0
         /\ IsLoading(s) => /\ IsLoading(Process(s))
                            /\ Process(s).primary < 0 /\ Process(s).secondary < 0
         /\ IsShooting(s) => /\ IsShooting(Process(s)) \/ IsIdle(Process(s))
                             /\ Process(s).primary > 0
                             /\ Process(s).secondary < 0 =>
                                  s.secondary < 0 /\ Process(s).delay <= WarmTicks
         /\ RoomToFeed /\ IsShooting(s) /\ ~IsShooting(Process(s))
              => Process(s).secondary > 0
  <1>1. s \in ShooterType
    BY DEF WellFormed
  <1>2. CASE IsIdle(s)
    BY <1>1, <1>2, ProcessIdle DEF IsIdle, IsLoading, IsShooting
  <1>3. CASE IsLoading(s)
    BY <1>1, <1>3, ProcessLoading, PowersOrdered DEF IsIdle, IsLoading, IsShooting
  <1>4. CASE IsShooting(s)
    <2>1. /\ s.delay \in Int /\ s.level \in AllLevels /\ s.delayTicks = WarmTicks
          /\ ShootVolts(s.level) \in Int /\ ShootVolts(s.level) > 0
      BY <1>1, <1>4, ShootVoltsBounds DEF ShooterType, ClockInStep
    <2>2. /\ Process(s).state \in {"Idle", "Shooting"}
          /\ Process(s).delay = s.delay + 1
          /\ Process(s).primary = ShootVolts(s.level)
          /\ Process(s).secondary = IF s.delay >= s.delayTicks
                                    THEN ShootVolts(s.level) ELSE s.secondary
      BY <1>1, <1>4, ProcessShooting
    <2>3. Process(s).secondary < 0 => s.secondary < 0 /\ s.delay < WarmTicks
      BY <2>1, <2>2, TicksPositive
    <2>4. Process(s).secondary < 0 => Process(s).delay <= WarmTicks
      BY <2>1, <2>2, <2>3, TicksPositive
    <2>5. RoomToFeed /\ ~IsShooting(Process(s)) => Process(s).secondary > 0
      BY <1>4, LastPeriodFeeds
    <2> QED
      BY <1>4, <2>1, <2>2, <2>3, <2>4, <2>5 DEF IsIdle, IsLoading, IsShooting
  <1> QED
    BY <1>1, <1>2, <1>3, <1>4 DEF ShooterType, IsLoading, IsIdle, IsShooting

\* A call of a program commands no motor, and one call never turns an intake into a
\* shot.
LEMMA OneCallKeepsMotors ==
  ASSUME NEW s \in ShooterType, NEW t \in OneCall(s)
  PROVE  /\ t.primary = s.primary /\ t.secondary = s.secondary
         /\ IsLoading(s) => ~IsShooting(t)
  <1>1. CASE t \in {s, Intake(s), Stop(s)}
    <2>1. t.primary = s.primary /\ t.secondary = s.secondary
      BY <1>1, CallsKeepMotors, LevelsAreNumbers
    <2>2. IsLoading(s) => ~IsShooting(t)
      BY <1>1 DEF Intake, Stop, IsIdle, IsLoading, IsShooting, ShooterType
    <2> QED
      BY <2>1, <2>2
  <1>2. ASSUME NEW l \in Levels, t = LuaShoot(s, l)
        PROVE  /\ t.primary = s.primary /\ t.secondary = s.secondary
               /\ IsLoading(s) => ~IsShooting(t)
    <2>1. t.primary = s.primary /\ t.secondary = s.secondary
      BY <1>2, CallsKeepMotors, LevelsAreNumbers
    <2>2. IsLoading(s) => ~IsShooting(t)
      BY <1>2 DEF LuaShoot, Shoot, SetShootLevel, IsIdle, IsLoading, IsShooting, ShooterType
    <2> QED
      BY <2>1, <2>2
  <1> QED
    BY <1>1, <1>2 DEF OneCall
=============================================================================
