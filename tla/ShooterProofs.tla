--------------------------- MODULE ShooterProofs ---------------------------
(***************************************************************************)
(* Theorems about Shooter, for every period, every pair of times, every    *)
(* power and every set of levels that ShooterAssumption allows.  The       *)
(* lemmas about the single methods are in ShooterOpsProofs.                *)
(***************************************************************************)
EXTENDS Shooter, ShooterOpsProofs

\* The two counters of shoot() and process() stay in step during a shot: the
\* one counting down and the one counting up add to the shot's length, so the
\* feed starts WarmTicks periods after the start and the shot has a last tick.
ShotClock == ClockInStep(shooter)

IInv == TypeOK /\ ShotClock

-----------------------------------------------------------------------------
\* When the shooter has room to feed (shoot() in shooter.cpp, the floor of its two
\* counts): the shoot time is at least one period, and the whole shot has more periods
\* than a period has milliseconds.  16 ms, 1 s and 0.8 s satisfy it.
THEOREM WhenRoomToFeed ==
  ASSUME PeriodMs <= ShootTimeMs,
         PeriodMs * (PeriodMs + 1) <= WarmTimeMs + ShootTimeMs
  PROVE  RoomToFeed
<1> DEFINE P == PeriodMs  W == WarmTimeMs  S == ShootTimeMs
           q == W \div P  t == (W + S) \div P
<1>1. P \in Nat \ {0} /\ W \in Nat /\ S \in Nat
  BY ShooterAssumption
<1>2. q \in Nat /\ P * q <= W
  BY <1>1
<1>3. t \in Nat /\ W + S < P * (t + 1)
  BY <1>1
<1> HIDE DEF P, W, S, q, t
<1>4. q < t
  <2> SUFFICES ASSUME q >= t PROVE FALSE
    BY <1>2, <1>3
  <2>1. P * (t + 1) <= P * (q + 1)
    BY <1>1, <1>2, <1>3
  <2>2. P * (q + 1) = P * q + P
    BY <1>1, <1>2
  <2>3. P <= S
    BY DEF P, S
  <2> QED
    BY <1>1, <1>2, <1>3, <2>1, <2>2, <2>3
<1>5. P < t
  <2> SUFFICES ASSUME P >= t PROVE FALSE
    BY <1>1, <1>3
  <2>1. P * (t + 1) <= P * (P + 1)
    BY <1>1, <1>3
  <2>2. P * (P + 1) <= W + S
    BY DEF P, W, S
  <2> QED
    BY <1>1, <1>3, <2>1, <2>2
<1>6. ShotTicks = Larger(P, t) /\ WarmTicks = Larger(P, q)
  BY DEF ShotTicks, WarmTicks, P, W, S, q, t
<1> QED
  BY <1>1, <1>2, <1>3, <1>4, <1>5, <1>6 DEF RoomToFeed, Larger

-----------------------------------------------------------------------------
LEMMA InitIInv == Init => IInv
  BY NewShooterOK DEF Init, IInv, TypeOK, ShotClock

LEMMA NextIInv == IInv /\ [Next]_shooter => IInv'
  <1> SUFFICES ASSUME IInv, [Next]_shooter PROVE IInv'
    OBVIOUS
  <1> USE DEF IInv, TypeOK, ShotClock
  <1>1. CASE DoReset
    BY <1>1, ResetOK DEF DoReset
  <1>2. CASE DoIntake
    BY <1>2, IntakeOK DEF DoIntake
  <1>3. CASE DoShoot
    BY <1>3, ShootOK DEF DoShoot
  <1>4. CASE \E l \in Levels : DoLuaShoot(l)
    BY <1>4, LuaShootOK, LevelsAreNumbers DEF DoLuaShoot
  <1>5. CASE DoStop
    BY <1>5, StopOK DEF DoStop
  <1>6. CASE DoProcess
    BY <1>6, ProcessOK DEF DoProcess
  <1>7. CASE UNCHANGED shooter
    BY <1>7
  <1> QED
    BY <1>1, <1>2, <1>3, <1>4, <1>5, <1>6, <1>7 DEF Next

LEMMA InductiveInvariant == Spec => []IInv
  BY InitIInv, NextIInv, PTL DEF Spec

\* No motor is ever commanded beyond its configured power by process(), whatever
\* levels the programs pass to shoot(), and every field keeps its type.
THEOREM TypeCorrect == Spec => []TypeOK
  BY InductiveInvariant, PTL DEF IInv

\* The two counters of a shot, set by shoot() and moved by process(), are always
\* in step, whatever is called in between.
THEOREM ShotClockCorrect == Spec => []ShotClock
  BY InductiveInvariant, PTL DEF IInv

-----------------------------------------------------------------------------
\* Feed motors at rest stay at rest until the warm-up of the shot is over.
THEOREM WarmupHoldsFeedCorrect == Spec => WarmupHoldsFeed
  <1>1. ASSUME IInv, [Next]_shooter
        PROVE  [WarmupHoldsFeedStep]_shooter
    <2> SUFFICES ASSUME IsShooting(shooter), shooter.secondary = 0,
                        shooter.delay < WarmTicks, Next
                 PROVE  shooter'.secondary = 0
      BY <1>1 DEF WarmupHoldsFeedStep
    <2>0. /\ shooter \in ShooterType /\ shooter.delay \in Int
          /\ shooter.delayTicks = WarmTicks /\ shooter.state = "Shooting"
      BY <1>1 DEF IInv, TypeOK, WellFormed, ShooterType, ShotClock, ClockInStep, IsShooting
    <2>1. CASE DoProcess
      <3>1. ~(shooter.delay >= shooter.delayTicks)
        BY <2>0, TicksPositive
      <3> QED
        BY <2>0, <2>1, <3>1, ProcessShooting DEF DoProcess
    <2>2. CASE DoReset
      BY <2>0, <2>2 DEF DoReset, Reset, ShooterType
    <2>3. CASE DoIntake
      BY <2>0, <2>3 DEF DoIntake, Intake, IsIdle
    <2>4. CASE DoShoot
      BY <2>0, <2>4 DEF DoShoot, Shoot, IsIdle
    <2>5. CASE \E l \in Levels : DoLuaShoot(l)
      BY <2>0, <2>5 DEF DoLuaShoot, LuaShoot, Shoot, SetShootLevel, IsIdle, ShooterType
    <2>6. CASE DoStop
      BY <2>0, <2>6 DEF DoStop, Stop, ShooterType
    <2> QED
      BY <2>1, <2>2, <2>3, <2>4, <2>5, <2>6 DEF Next
  <1> QED
    BY <1>1, InductiveInvariant, PTL DEF Spec, WarmupHoldsFeed

\* With room for a feed, a shot that ends by itself has fed the note.
THEOREM ShotFeedsCorrect == RoomToFeed => (Spec => ShotFeeds)
  <1> SUFFICES ASSUME RoomToFeed PROVE Spec => ShotFeeds
    OBVIOUS
  <1>1. ASSUME IInv PROVE [ShotFeedsStep]_shooter
    <2> SUFFICES ASSUME IsShooting(shooter), IsIdle(shooter'), DoProcess
                 PROVE  /\ shooter'.secondary > 0
                        /\ shooter'.secondary = shooter'.primary
      BY DEF ShotFeedsStep
    <2> QED
      BY <1>1, LastPeriodFeeds
         DEF IInv, TypeOK, ShotClock, DoProcess, IsShooting, IsIdle
  <1> QED
    BY <1>1, InductiveInvariant, PTL DEF ShotFeeds

-----------------------------------------------------------------------------
(***************************************************************************)
(* The measures behind the liveness properties ShotEnds and MotorsRest,    *)
(* which TLC checks: with process() called once per period, a shot is over *)
(* after shooter.tick, at most ShotTicks, periods, and an idle shooter is  *)
(* at rest after one.                                                      *)
(***************************************************************************)

\* A shot has a finite number of periods left: no call gives it more, process()
\* takes one away, and it either stays a shot or becomes idle.
ShotCountsDownStep ==
  IsShooting(shooter) =>
    \/ IsIdle(shooter')
    \/ /\ IsShooting(shooter')
       /\ shooter'.tick <= shooter.tick
       /\ DoProcess => shooter'.tick < shooter.tick
ShotCountsDown == [][ShotCountsDownStep]_shooter

\* A shot has at most ShotTicks periods left; no call adds one, each process()
\* takes one away, and nothing turns a shot into an intake.
THEOREM ShotCountsDownCorrect ==
  Spec => /\ [](IsShooting(shooter) => shooter.tick \in 1 .. ShotTicks)
          /\ ShotCountsDown
  <1>1. IInv => (IsShooting(shooter) => shooter.tick \in 1 .. ShotTicks)
    BY TicksPositive DEF IInv, TypeOK, WellFormed, ShooterType, ShotClock, ClockInStep
  <1>2. ASSUME IInv, [Next]_shooter
        PROVE  [ShotCountsDownStep]_shooter
    <2> SUFFICES ASSUME IsShooting(shooter), Next
                 PROVE  \/ IsIdle(shooter')
                        \/ /\ IsShooting(shooter')
                           /\ shooter'.tick <= shooter.tick
                           /\ DoProcess => shooter'.tick < shooter.tick
      BY <1>2 DEF ShotCountsDownStep
    <2>0. WellFormed(shooter) /\ shooter \in ShooterType /\ shooter.tick \in Int
      BY <1>2 DEF IInv, TypeOK, WellFormed, ShooterType
    <2>1. CASE DoProcess
      BY <2>0, <2>1, ProcessCountsDown DEF DoProcess
    <2>2. CASE DoReset \/ DoStop
      BY <2>0, <2>2 DEF DoReset, DoStop, Reset, Stop, IsIdle, ShooterType
    <2>3. ASSUME ~DoProcess, DoIntake \/ DoShoot \/ (\E l \in Levels : DoLuaShoot(l))
          PROVE  IsShooting(shooter') /\ shooter'.tick <= shooter.tick
      BY <2>0, <2>3, StartDuringShot, LevelsAreNumbers
         DEF DoIntake, DoShoot, DoLuaShoot, IsShooting
    <2> QED
      BY <2>1, <2>2, <2>3 DEF Next
  <1> QED
    BY <1>1, <1>2, InductiveInvariant, PTL DEF Spec, ShotCountsDown

OnlyProcessDrives ==
  /\ shooter'.primary # shooter.primary \/ shooter'.secondary # shooter.secondary
       => DoProcess
  /\ IsIdle(shooter) /\ DoProcess
       => IsIdle(shooter') /\ shooter'.primary = 0 /\ shooter'.secondary = 0

\* No call of a client commands a motor, process() alone does, and one process()
\* of an idle shooter takes all four motors to rest.
THEOREM OnlyProcessDrivesCorrect == Spec => [][OnlyProcessDrives]_shooter
  <1>1. ASSUME IInv, [Next]_shooter
        PROVE  [OnlyProcessDrives]_shooter
    <2>0. shooter \in ShooterType
      BY <1>1 DEF IInv, TypeOK, WellFormed
    <2>1. CASE DoProcess
      BY <2>0, <2>1, ProcessIdle DEF OnlyProcessDrives, DoProcess, IsIdle
    <2>2. ASSUME ~DoProcess, Next
          PROVE  shooter'.primary = shooter.primary /\ shooter'.secondary = shooter.secondary
      BY <2>0, <2>2, CallsKeepMotors, LevelsAreNumbers
         DEF Next, DoReset, DoIntake, DoShoot, DoLuaShoot, DoStop
    <2> QED
      BY <1>1, <2>1, <2>2 DEF OnlyProcessDrives
  <1> QED
    BY <1>1, InductiveInvariant, PTL DEF Spec

-----------------------------------------------------------------------------
(***************************************************************************)
(* The refinement: what each method does to the phase of the shot cycle.   *)
(***************************************************************************)
LEMMA PhaseValues ==
  ASSUME NEW s, WellFormed(s)
  PROVE  /\ IsIdle(s) => PhaseOf(s) = "rest" /\ LeftOf(s) = 0
         /\ IsLoading(s) => PhaseOf(s) = "load" /\ LeftOf(s) = 0
         /\ IsShooting(s) /\ s.delay < WarmTicks
              => PhaseOf(s) = "warm" /\ LeftOf(s) = WarmTicks - s.delay
         /\ IsShooting(s) /\ ~(s.delay < WarmTicks)
              => PhaseOf(s) = "feed" /\ LeftOf(s) = s.tick
  BY DEF PhaseOf, LeftOf, IsIdle, IsLoading, IsShooting, WellFormed, ShooterType

LEMMA StateCases ==
  ASSUME NEW s, WellFormed(s)
  PROVE  IsIdle(s) \/ IsLoading(s) \/ IsShooting(s)
  BY DEF IsIdle, IsLoading, IsShooting, WellFormed, ShooterType

LEMMA SamePhase ==
  ASSUME NEW s, NEW r, r.state = s.state, r.delay = s.delay, r.tick = s.tick
  PROVE  PhaseOf(r) = PhaseOf(s) /\ LeftOf(r) = LeftOf(s)
  BY DEF PhaseOf, LeftOf, IsIdle, IsLoading, IsShooting

\* A process() call is one period of the shot cycle, or changes no phase.
LEMMA ProcessRefines ==
  ASSUME RoomToFeed, IInv, DoProcess
  PROVE  Cycle!Period \/ UNCHANGED <<PhaseOf(shooter), LeftOf(shooter)>>
  <1> DEFINE s == shooter
             r == shooter'
  <1>0. /\ WellFormed(s) /\ ClockInStep(s) /\ s \in ShooterType
        /\ WellFormed(r) /\ r = Process(s) /\ ClockInStep(r)
    BY ProcessOK DEF IInv, TypeOK, ShotClock, WellFormed, DoProcess
  <1>1. CASE ~IsShooting(s)
    <2>1. IsLoading(s) => IsLoading(r)
      BY <1>0, ProcessLoading DEF IsLoading
    <2>2. IsIdle(s) => IsIdle(r)
      BY <1>0, ProcessIdle DEF IsIdle
    <2> QED
      BY <1>0, <1>1, <2>1, <2>2, PhaseValues, StateCases
  <1>2. CASE IsShooting(s)
    <2>1. /\ r.state = IF s.tick - 1 <= 0 THEN "Idle" ELSE "Shooting"
          /\ r.tick = s.tick - 1 /\ r.delay = s.delay + 1
      BY <1>0, <1>2, ProcessShooting
    <2>2. /\ s.tick \in Int /\ s.delay \in Int /\ s.tick >= 1
          /\ s.tick + s.delay = ShotTicks
      BY <1>0, <1>2 DEF ShooterType, ClockInStep
    <2>3. CASE s.tick = 1
      <3>1. PhaseOf(s) = "feed" /\ LeftOf(s) = 1
        BY <1>0, <1>2, <2>2, <2>3, PhaseValues, TicksPositive DEF RoomToFeed
      <3>2. PhaseOf(r) = "rest" /\ LeftOf(r) = 0
        BY <1>0, <2>1, <2>3, PhaseValues DEF IsIdle
      <3> QED
        BY <3>1, <3>2 DEF Cycle!Period, Cycle!Complete
    <2>4. CASE s.tick > 1 /\ s.delay >= WarmTicks
      <3>1. PhaseOf(s) = "feed" /\ LeftOf(s) = s.tick
        BY <1>0, <1>2, <2>2, <2>4, PhaseValues, TicksPositive
      <3>2. PhaseOf(r) = "feed" /\ LeftOf(r) = s.tick - 1
        BY <1>0, <2>1, <2>2, <2>4, PhaseValues, TicksPositive DEF IsShooting
      <3> QED
        BY <2>4, <3>1, <3>2 DEF Cycle!Period, Cycle!Count
    <2>5. CASE s.tick > 1 /\ s.delay = WarmTicks - 1
      <3>1. PhaseOf(s) = "warm" /\ LeftOf(s) = 1
        BY <1>0, <1>2, <2>2, <2>5, PhaseValues, TicksPositive
      <3>2. PhaseOf(r) = "feed" /\ LeftOf(r) = ShotTicks - WarmTicks
        BY <1>0, <2>1, <2>2, <2>5, PhaseValues, TicksPositive DEF IsShooting
      <3> QED
        BY <3>1, <3>2 DEF Cycle!Period, Cycle!Feed
    <2>6. CASE s.tick > 1 /\ s.delay < WarmTicks - 1
      <3>1. PhaseOf(s) = "warm" /\ LeftOf(s) = WarmTicks - s.delay
        BY <1>0, <1>2, <2>2, <2>6, PhaseValues, TicksPositive
      <3>2. PhaseOf(r) = "warm" /\ LeftOf(r) = WarmTicks - s.delay - 1
        BY <1>0, <2>1, <2>2, <2>6, PhaseValues, TicksPositive DEF IsShooting
      <3>3. WarmTicks - s.delay > 1
        BY <2>2, <2>6, TicksPositive
      <3> QED
        BY <3>1, <3>2, <3>3 DEF Cycle!Period, Cycle!Count
    <2> QED
      BY <2>2, <2>3, <2>4, <2>5, <2>6, TicksPositive
  <1> QED
    BY <1>1, <1>2

\* reset() and stop() abort whatever is going on.
LEMMA AbortRefines ==
  ASSUME IInv, DoReset \/ DoStop
  PROVE  Cycle!Abort \/ UNCHANGED <<PhaseOf(shooter), LeftOf(shooter)>>
  <1>1. WellFormed(shooter) /\ WellFormed(shooter') /\ IsIdle(shooter')
    BY ResetOK, StopOK
       DEF IInv, TypeOK, WellFormed, ShooterType, DoReset, DoStop, Reset, Stop, IsIdle
  <1>2. PhaseOf(shooter') = "rest" /\ LeftOf(shooter') = 0
    BY <1>1, PhaseValues
  <1>3. PhaseOf(shooter) = "rest" => LeftOf(shooter) = 0
    BY <1>1, PhaseValues, StateCases
  <1> QED
    BY <1>2, <1>3 DEF Cycle!Abort

\* intake() and shoot() act from rest only; a shoot() from Lua that is ignored
\* has changed the level, which the shot cycle does not see.
LEMMA StartRefines ==
  ASSUME IInv, DoIntake \/ DoShoot \/ (\E l \in Levels : DoLuaShoot(l))
  PROVE  \/ Cycle!Load
         \/ Cycle!Fire
         \/ UNCHANGED <<PhaseOf(shooter), LeftOf(shooter)>>
  <1>0. WellFormed(shooter) /\ ClockInStep(shooter) /\ shooter \in ShooterType
    BY DEF IInv, TypeOK, ShotClock, WellFormed
  <1>1. ASSUME NEW s, WellFormed(s), ClockInStep(s), IsIdle(s), shooter' = Shoot(s),
               IsIdle(shooter)
        PROVE  Cycle!Fire
    <2>1. /\ WellFormed(shooter') /\ IsShooting(shooter') /\ shooter'.delay = 0
      BY <1>1, ShootOK, ShootStarts
         DEF WellFormed, Shoot, ShooterType, IsShooting
    <2>2. PhaseOf(shooter') = "warm" /\ LeftOf(shooter') = WarmTicks
      BY <2>1, PhaseValues, TicksPositive
    <2> QED
      BY <1>0, <1>1, <2>2, PhaseValues DEF Cycle!Fire
  <1>2. CASE DoIntake
    <2>1. CASE IsIdle(shooter)
      <3>1. WellFormed(shooter') /\ IsLoading(shooter')
        BY <1>0, <1>2, <2>1, IntakeOK DEF DoIntake, Intake, IsLoading, ShooterType
      <3> QED
        BY <1>0, <2>1, <3>1, PhaseValues DEF Cycle!Load
    <2>2. CASE ~IsIdle(shooter)
      BY <1>2, <2>2 DEF DoIntake, Intake
    <2> QED
      BY <2>1, <2>2
  <1>3. CASE DoShoot
    <2>1. CASE IsIdle(shooter)
      BY <1>0, <1>1, <1>3, <2>1 DEF DoShoot
    <2>2. CASE ~IsIdle(shooter)
      BY <1>3, <2>2 DEF DoShoot, Shoot
    <2> QED
      BY <2>1, <2>2
  <1>4. ASSUME NEW l \in Levels, DoLuaShoot(l)
        PROVE  Cycle!Fire \/ UNCHANGED <<PhaseOf(shooter), LeftOf(shooter)>>
    <2> DEFINE s == SetShootLevel(shooter, l)
    <2>1. WellFormed(s) /\ ClockInStep(s)
      BY <1>0, SetShootLevelOK, LevelsAreNumbers
    <2>2. s.state = shooter.state /\ s.delay = shooter.delay /\ s.tick = shooter.tick
      BY <1>0 DEF SetShootLevel, ShooterType
    <2>3. shooter' = Shoot(s)
      BY <1>4 DEF DoLuaShoot, LuaShoot
    <2> HIDE DEF s
    <2>4. CASE IsIdle(shooter)
      BY <1>1, <2>1, <2>2, <2>3, <2>4 DEF IsIdle
    <2>5. CASE ~IsIdle(shooter)
      <3>1. shooter' = s
        BY <2>2, <2>3, <2>5 DEF Shoot, IsIdle
      <3> QED
        BY <2>2, <3>1, SamePhase
    <2> QED
      BY <2>4, <2>5
  <1> QED
    BY <1>2, <1>3, <1>4

\* The shooter implements the shot cycle (its safety; its fairness is checked by
\* TLC): a shot is WarmTicks periods of warm-up and ShotTicks - WarmTicks periods
\* of feed, in this order, unless it is aborted, and it starts from rest only.
THEOREM RefinesShotCycle == RoomToFeed => (Spec => Cycle!Safety)
  <1> SUFFICES ASSUME RoomToFeed PROVE Spec => Cycle!Safety
    OBVIOUS
  <1>1. Init => Cycle!Init
    BY NewShooterOK, PhaseValues DEF Init, Cycle!Init, NewShooter, IsIdle
  <1>2. IInv /\ [Next]_shooter => [Cycle!Next]_(Cycle!cycle)
    <2> SUFFICES ASSUME IInv, [Next]_shooter
                 PROVE  Cycle!Next \/ UNCHANGED <<PhaseOf(shooter), LeftOf(shooter)>>
      BY DEF Cycle!cycle
    <2>1. CASE DoReset \/ DoStop
      BY <2>1, AbortRefines DEF Cycle!Next
    <2>2. CASE DoIntake \/ DoShoot \/ (\E l \in Levels : DoLuaShoot(l))
      BY <2>2, StartRefines DEF Cycle!Next
    <2>3. CASE DoProcess
      BY <2>3, ProcessRefines DEF Cycle!Next
    <2>4. CASE UNCHANGED shooter
      BY <2>4
    <2> QED
      BY <2>1, <2>2, <2>3, <2>4 DEF Next
  <1> QED
    BY <1>1, <1>2, InductiveInvariant, PTL DEF Spec, Cycle!Safety
=============================================================================
