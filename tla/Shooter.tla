------------------------------ MODULE Shooter ------------------------------
(***************************************************************************)
(* Class Shooter on its own: one shooter and a client that calls its       *)
(* public methods in any order between two calls of process().  The client *)
(* stands for RobotMain and for the Lua programs; RobotMain.tla has the    *)
(* orders those really use.                                                *)
(***************************************************************************)
EXTENDS ShooterOps

VARIABLE shooter

Init == shooter = NewShooter

DoReset       == shooter' = Reset(shooter)
DoIntake      == shooter' = Intake(shooter)
DoShoot       == shooter' = Shoot(shooter)
DoLuaShoot(l) == shooter' = LuaShoot(shooter, l)
DoStop        == shooter' = Stop(shooter)
DoProcess     == shooter' = Process(shooter)

Next ==
  \/ DoReset
  \/ DoIntake
  \/ DoShoot
  \/ \E l \in Levels : DoLuaShoot(l)
  \/ DoStop
  \/ DoProcess

Spec == Init /\ [][Next]_shooter

(***************************************************************************)
(* While a mode that uses the shooter is active its periodic callback      *)
(* calls process() once per period.                                        *)
(***************************************************************************)
FairSpec == Spec /\ WF_shooter(DoProcess)

-----------------------------------------------------------------------------
\* Every field keeps its type, and no motor is driven beyond its configured
\* power whatever level a program asks for (the clamp in process()).
TypeOK == WellFormed(shooter)

\* A shot that runs to its end has the feed motors at the shooting voltage in
\* its last period: the note is really fed (config.lua: shoot_time is the time
\* taken to shoot the note).
ShotFeedsStep ==
  IsShooting(shooter) /\ IsIdle(shooter') /\ DoProcess
    => shooter'.secondary > 0 /\ shooter'.secondary = shooter'.primary
ShotFeeds == [][ShotFeedsStep]_shooter

\* Feed motors at rest when a shot starts are not powered before the warm-up
\* is over, whatever the client calls meanwhile.
WarmupHoldsFeedStep ==
  IsShooting(shooter) /\ shooter.secondary = 0 /\ shooter.delay < WarmTicks
    => shooter'.secondary = 0
WarmupHoldsFeed == [][WarmupHoldsFeedStep]_shooter

\* A shot ends: nothing a client can call extends it.
ShotEnds == IsShooting(shooter) ~> IsIdle(shooter)

\* A shooter left idle comes to rest: the last command of a shot or of an
\* intake, which stop() and reset() leave on the motors, does not stay.
MotorsRest ==
  <>[]IsIdle(shooter) => <>[](shooter.primary = 0 /\ shooter.secondary = 0)

(***************************************************************************)
(* The counters implement the two phases of a shot.                        *)
(***************************************************************************)
PhaseOf(s) ==
  CASE IsIdle(s)                          -> "rest"
    [] IsLoading(s)                       -> "load"
    [] IsShooting(s) /\ s.delay < WarmTicks -> "warm"
    [] OTHER                              -> "feed"
LeftOf(s) ==
  CASE PhaseOf(s) = "warm" -> WarmTicks - s.delay
    [] PhaseOf(s) = "feed" -> s.tick
    [] OTHER               -> 0

Cycle == INSTANCE ShotCycle WITH
           WarmPeriods <- WarmTicks, FeedPeriods <- ShotTicks - WarmTicks,
           phase <- PhaseOf(shooter), left <- LeftOf(shooter)

\* The shooter implements the shot cycle, its fairness included.
ImplementsShotCycle == Cycle!Spec
=============================================================================
