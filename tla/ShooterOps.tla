----------------------------- MODULE ShooterOps -----------------------------
(***************************************************************************)
(* The shooter as a value and the methods of class Shooter as operators    *)
(* on it (src/robot.hpp, src/shooter.cpp).  RobotMain calls several of     *)
(* these methods inside one callback, so they are functions of the shooter *)
(* here and become actions in the modules that hold a shooter in a         *)
(* variable: Shooter (the class alone, any client) and RobotMain.          *)
(*                                                                         *)
(* Units: times in milliseconds, powers in volts, a shoot level in         *)
(* percent, and the commanded output of a motor pair in hundredths of a    *)
(* volt, so that "shootPower * level" is an integer product.               *)
(***************************************************************************)
EXTENDS Integers

CONSTANTS
  PeriodMs,              \* config engine.period, read by reset()
  WarmTimeMs,            \* config shooter.warmup_time, in ms
  ShootTimeMs,           \* config shooter.shoot_time, in ms
  ShootPower,            \* config shooter.shoot_power
  IntakePrimaryPower,    \* config shooter.intake_primary_power
  IntakeSecondaryPower,  \* config shooter.intake_secondary_power
  Levels                 \* the shoot levels a program may ask for

(***************************************************************************)
(* What test/configtest.cpp asserts of the configuration: the period and   *)
(* the times are positive numbers.  Nothing relates them to each other.    *)
(***************************************************************************)
ASSUME ShooterAssumption ==
  /\ PeriodMs \in Nat \ {0}
  /\ WarmTimeMs \in Nat \ {0}
  /\ ShootTimeMs \in Nat \ {0}
  /\ ShootPower \in Int
  /\ IntakePrimaryPower \in Int
  /\ IntakeSecondaryPower \in Int
  /\ Levels \subseteq Int

Larger(a, b)  == IF a < b THEN b ELSE a
Smaller(a, b) == IF b < a THEN b ELSE a

-----------------------------------------------------------------------------
(* What the configuration amounts to: reset() floors every power at 1 V,   *)
(* shoot() turns the two times into numbers of process() calls.            *)

FullVolts            == Larger(1, ShootPower)
IntakePrimaryVolts   == -100 * Larger(1, IntakePrimaryPower)
IntakeSecondaryVolts == -100 * Larger(1, IntakeSecondaryPower)

\* Variant the runs must reject: the level is used as it was given.
UnclampedVolts(level) == FullVolts * level

\* The level is clamped when it is used, not when it is set.
ShootVolts(level) == FullVolts * Larger(20, Smaller(100, level))

\* Both counts are floored at periodMs, a number of milliseconds.
ShotTicks == Larger(PeriodMs, (WarmTimeMs + ShootTimeMs) \div PeriodMs)
\* Variant the runs must reject: the warm-up lasts for the whole shot.
WarmTicksOfWholeShot == Larger(PeriodMs, (WarmTimeMs + ShootTimeMs) \div PeriodMs)

WarmTicks == Larger(PeriodMs, WarmTimeMs \div PeriodMs)

FullLevel == 100
AllLevels == Levels \cup {FullLevel}

-----------------------------------------------------------------------------
(* The shooter: its state machine, the two counters of a shot, the level,  *)
(* and the voltage last commanded to the primary (flywheel) and to the     *)
(* secondary (feed) motors, which a motor keeps until the next command.    *)

ShooterType ==
  [ state      : {"Idle", "Shooting", "Loading"},
    tick       : Int,
    delay      : Int,
    delayTicks : Int,
    level      : AllLevels,
    primary    : Int,
    secondary  : Int ]

\* A shooter as the methods leave it: no motor is commanded beyond its configured
\* power, whatever level a program asked for.
WellFormed(s) ==
  /\ s \in ShooterType
  /\ s.primary \in IntakePrimaryVolts .. 100 * FullVolts
  /\ s.secondary \in IntakeSecondaryVolts .. 100 * FullVolts

\* The constructor: the member initialisers, then reset().
NewShooter ==
  [ state |-> "Idle", tick |-> 0, delay |-> 0, delayTicks |-> 2,
    level |-> FullLevel, primary |-> 0, secondary |-> 0 ]

IsIdle(s)     == s.state = "Idle"
IsShooting(s) == s.state = "Shooting"
IsLoading(s)  == s.state = "Loading"

\* reset() leaves the counters of an aborted shot and the motors alone.
Reset(s) == [s EXCEPT !.state = "Idle", !.level = FullLevel]

\* Variant the runs must reject: an intake may interrupt a shot.
IntakeAnytime(s) == [s EXCEPT !.state = "Loading"]

Intake(s) == IF IsIdle(s) THEN [s EXCEPT !.state = "Loading"] ELSE s

\* Variant the runs must reject: a trigger during a shot starts it over.
ShootRestarts(s) ==
  IF ~IsLoading(s)
  THEN [s EXCEPT !.state = "Shooting", !.tick = ShotTicks,
                 !.delayTicks = WarmTicks, !.delay = 0]
  ELSE s

Shoot(s) ==
  IF IsIdle(s)
  THEN [s EXCEPT !.state = "Shooting", !.tick = ShotTicks,
                 !.delayTicks = WarmTicks, !.delay = 0]
  ELSE s

Stop(s) == [s EXCEPT !.state = "Idle"]

SetShootLevel(s, level) == [s EXCEPT !.level = level]

\* The 'shoot' function bound for Lua sets the level whatever the state.
LuaShoot(s, level) == Shoot(SetShootLevel(s, level))

\* What a Lua program can do to the shooter with at most one of the functions
\* bound for it.
OneCall(s) == {s, Intake(s), Stop(s)} \cup {LuaShoot(s, l) : l \in Levels}

\* Variants the runs must reject: the feed starts with the flywheels; an idle shooter
\* keeps the voltage it had; the intake powers are swapped.
CommandFeedsAtOnce(s) ==
  CASE IsLoading(s)  -> [s EXCEPT !.primary = IntakePrimaryVolts,
                                  !.secondary = IntakeSecondaryVolts]
    [] IsShooting(s) -> [s EXCEPT !.primary = ShootVolts(s.level),
                                  !.secondary = ShootVolts(s.level), !.delay = @ + 1]
    [] OTHER         -> [s EXCEPT !.primary = 0, !.secondary = 0]
CommandCoasts(s) ==
  CASE IsLoading(s)  -> [s EXCEPT !.primary = IntakePrimaryVolts,
                                  !.secondary = IntakeSecondaryVolts]
    [] IsShooting(s) -> [s EXCEPT !.primary = ShootVolts(s.level),
                                  !.secondary = IF s.delay >= s.delayTicks
                                                THEN ShootVolts(s.level) ELSE @,
                                  !.delay = @ + 1]
    [] OTHER         -> s
CommandSwapsIntake(s) ==
  CASE IsLoading(s)  -> [s EXCEPT !.primary = IntakeSecondaryVolts,
                                  !.secondary = IntakePrimaryVolts]
    [] IsShooting(s) -> [s EXCEPT !.primary = ShootVolts(s.level),
                                  !.secondary = IF s.delay >= s.delayTicks
                                                THEN ShootVolts(s.level) ELSE @,
                                  !.delay = @ + 1]
    [] OTHER         -> [s EXCEPT !.primary = 0, !.secondary = 0]

\* process(), first half: command the motors of the current state.
Command(s) ==
  CASE IsLoading(s)  -> [s EXCEPT !.primary = IntakePrimaryVolts,
                                  !.secondary = IntakeSecondaryVolts]
    [] IsShooting(s) -> [s EXCEPT !.primary = ShootVolts(s.level),
                                  !.secondary = IF s.delay >= s.delayTicks
                                                THEN ShootVolts(s.level) ELSE @,
                                  !.delay = @ + 1]
    [] OTHER         -> [s EXCEPT !.primary = 0, !.secondary = 0]

\* process(), second half: count a shot down and end it.
CountDown(s) ==
  IF IsShooting(s)
  THEN [s EXCEPT !.tick = @ - 1,
                 !.state = IF s.tick - 1 <= 0 THEN "Idle" ELSE @]
  ELSE s

Process(s) == CountDown(Command(s))

\* The counter shoot() sets and the one process() raises, during a shot.
ClockInStep(s) ==
  IsShooting(s) =>
    /\ s.tick + s.delay = ShotTicks
    /\ s.tick >= 1
    /\ s.delay >= 0
    /\ s.delayTicks = WarmTicks
=============================================================================
