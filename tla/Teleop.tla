------------------------------- MODULE Teleop -------------------------------
(***************************************************************************)
(* The teleop program (robot/teleop.bot) with the gamepad it reads and the *)
(* shooter and the lifter it commands, over any sequence of modes.         *)
(*                                                                         *)
(* The driver station (external) latches the edges of every button as it   *)
(* refreshes its data, once per period and in every mode; the program      *)
(* reads and clears the latches of the two bumpers at the start of run().  *)
(* The host is RobotMain without faults: on entering teleop it loads the   *)
(* program afresh and resets the shooter.                                  *)
(***************************************************************************)
EXTENDS ShooterOps

CONSTANTS
  Buttons,  \* the buttons in use, of "A", "B", "X", "Y", "LB" and "RB"
  Povs      \* positions of the dpad, in degrees; -1 when it is released

Bumpers == Buttons \cap {"LB", "RB"}
NoPov   == -1

\* The shot levels of the dpad's four directions, in percent.
DpadLevels == [p \in {0, 90, 180, 270} |-> CASE p = 0   -> 80 [] p = 90  -> 60
                                             [] p = 180 -> 40 [] p = 270 -> 20]

ASSUME TeleopAssumption ==
  /\ Buttons \subseteq {"A", "B", "X", "Y", "LB", "RB"}
  /\ Povs \subseteq -1 .. 359
  /\ {FullLevel, 80, 60, 40, 20} \subseteq Levels

VARIABLES
  pc,       \* what the loop does next: "refresh", "init" or "periodic"
  mode,
  pad,      \* the gamepad as the driver station keeps it
  program,  \* the locals of the loaded teleop.bot
  lifter,   \* the voltage both motors of the lifter keep, in tenths of a volt
  shooter,
  hasShot   \* of the autonomous routine

\* History: what was at rest when this teleop period began.
VARIABLE clean

vars == <<pc, mode, pad, program, lifter, shooter, hasShot, clean>>

Modes == {"disabled", "auto", "teleop"}

PadType ==
  [ connected : BOOLEAN, down : SUBSET Buttons, pov : Povs \cup {NoPov},
    pressed : SUBSET Bumpers, released : SUBSET Bumpers ]

Unplugged == [connected |-> FALSE, down |-> {}, pov |-> NoPov,
              pressed |-> {}, released |-> {}]

FreshProgram == [low_gear |-> FALSE, has_gone_up |-> FALSE]

(* The methods of the lifter: each commands both motors, whatever they did. *)
moveUp   == 36
moveDown == -36
stop     == 0

AtRest(s) == IsIdle(s) /\ s.primary = 0 /\ s.secondary = 0

Init ==
  /\ pc = "refresh" /\ mode = "disabled"
  /\ pad = Unplugged
  /\ program = FreshProgram
  /\ lifter = stop
  /\ shooter = NewShooter
  /\ hasShot = FALSE
  /\ clean = [shooter |-> FALSE, arms |-> FALSE]

-----------------------------------------------------------------------------
(* The driver station and the host.                                        *)

\* A disconnected gamepad has no buttons down: those that were are released.
RefreshPad(connected, down, pov) ==
  pad' = [ connected |-> connected, down |-> down, pov |-> pov,
           pressed   |-> pad.pressed \cup (Bumpers \cap (down \ pad.down)),
           released  |-> pad.released \cup (Bumpers \cap (pad.down \ down)) ]

Refresh ==
  /\ pc = "refresh"
  /\ \/ \E down \in SUBSET Buttons, pov \in Povs \cup {NoPov} : RefreshPad(TRUE, down, pov)
     \/ RefreshPad(FALSE, {}, NoPov)
  /\ mode' \in Modes
  /\ pc' = IF mode' = mode THEN "periodic" ELSE "init"
  /\ UNCHANGED <<program, lifter, shooter, hasShot, clean>>

Entered == pc = "init" /\ pc' = "periodic" /\ UNCHANGED <<mode, pad, lifter>>

DisabledInit ==
  /\ Entered /\ mode = "disabled"
  /\ UNCHANGED <<program, shooter, hasShot, clean>>

\* hasShot as the chosen trajectory says.
AutonomousInit ==
  /\ Entered /\ mode = "auto"
  /\ hasShot' \in BOOLEAN
  /\ UNCHANGED <<program, shooter, clean>>

TeleopInit ==
  /\ Entered /\ mode = "teleop"
  /\ program' = FreshProgram
  /\ shooter' = Reset(shooter)
  /\ clean' = [shooter |-> AtRest(shooter), arms |-> lifter = stop]
  /\ UNCHANGED hasShot

Period == pc = "periodic" /\ pc' = "refresh" /\ UNCHANGED <<mode, clean>>

DisabledPeriodic ==
  /\ Period /\ mode = "disabled"
  /\ UNCHANGED <<pad, program, lifter, shooter, hasShot>>

AutonomousPeriodic ==
  /\ Period /\ mode = "auto"
  /\ shooter' = Process(IF hasShot THEN shooter ELSE Shoot(shooter))
  /\ hasShot' = TRUE
  /\ UNCHANGED <<pad, program, lifter>>

-----------------------------------------------------------------------------
(* The program.                                                            *)

update_speed ==
  IF "B" \in pad.down THEN TRUE
  ELSE IF "X" \in pad.down THEN FALSE ELSE program.low_gear

HasGoneUp == program.has_gone_up \/ "Y" \in pad.down

\* Variant the runs must reject: the arms are not stopped when no button is held.
ArmsKeepMoving ==
  CASE "Y" \in pad.down -> moveUp
    [] "Y" \notin pad.down /\ "A" \in pad.down /\ program.has_gone_up -> moveDown
    [] OTHER -> lifter

update_arms ==
  CASE "Y" \in pad.down -> moveUp
    [] "Y" \notin pad.down /\ "A" \in pad.down ->
         IF program.has_gone_up THEN moveDown ELSE lifter
    [] OTHER -> stop

\* The level a shot is asked for with, if one is.
ShotAsked == "RB" \in pad.down \cup pad.pressed \/ pad.pov \in DOMAIN DpadLevels
AskedLevel == IF "RB" \in pad.down \cup pad.pressed THEN FullLevel ELSE DpadLevels[pad.pov]

LeftBumper == "LB" \in pad.pressed \cup pad.released \cup pad.down

\* Variants the runs must reject: the release of the right bumper does not matter;
\* a running shot does not matter; the program goes on after it stopped the intake.
ShootsOnRelease(s) ==
  CASE IsShooting(s) -> s
    [] ~IsShooting(s) /\ LeftBumper ->
         IF "LB" \in pad.pressed \cup pad.down THEN Intake(s) ELSE Stop(s)
    [] ~IsShooting(s) /\ ~LeftBumper /\ ~IsLoading(s) /\ ShotAsked -> LuaShoot(s, AskedLevel)
    [] OTHER -> s
ShootsWhileShooting(s) ==
  CASE "RB" \in pad.released -> s
    [] "RB" \notin pad.released /\ LeftBumper ->
         IF "LB" \in pad.pressed \cup pad.down THEN Intake(s) ELSE Stop(s)
    [] "RB" \notin pad.released /\ ~LeftBumper /\ ~IsLoading(s) /\ ShotAsked ->
         LuaShoot(s, AskedLevel)
    [] OTHER -> s
StopsAndShoots(s) ==
  CASE IsShooting(s) \/ "RB" \in pad.released -> s
    [] ~IsShooting(s) /\ "RB" \notin pad.released ->
         LET t == IF "LB" \in pad.pressed \cup pad.down THEN Intake(s)
                  ELSE IF LeftBumper THEN Stop(s) ELSE s
         IN  IF ~IsLoading(t) /\ ShotAsked THEN LuaShoot(t, AskedLevel) ELSE t

update_shooter(s) ==
  CASE IsShooting(s) \/ "RB" \in pad.released -> s
    [] ~IsShooting(s) /\ "RB" \notin pad.released /\ LeftBumper ->
         IF "LB" \in pad.pressed \cup pad.down THEN Intake(s) ELSE Stop(s)
    [] ~IsShooting(s) /\ "RB" \notin pad.released /\ ~LeftBumper /\ ~IsLoading(s)
         /\ ShotAsked -> LuaShoot(s, AskedLevel)
    [] OTHER -> s

\* luaPeriodic() with a gamepad: teleop_run(), then shooter.process().  Reading the
\* latches of the bumpers clears them.
TeleopPeriodic ==
  /\ Period /\ mode = "teleop" /\ pad.connected
  /\ pad' = [pad EXCEPT !.pressed = {}, !.released = {}]
  /\ program' = [low_gear |-> update_speed, has_gone_up |-> HasGoneUp]
  /\ lifter' = update_arms
  /\ shooter' = Process(update_shooter(shooter))
  /\ UNCHANGED hasShot

\* Variant the runs must reject: without a gamepad luaPeriodic() returns at once.
ReturnsAtOnce ==
  /\ Period /\ mode = "teleop" /\ ~pad.connected
  /\ UNCHANGED <<pad, program, lifter, shooter, hasShot>>

\* luaPeriodic() without one: the program does not run.
TeleopDisconnected ==
  /\ Period /\ mode = "teleop" /\ ~pad.connected
  /\ shooter' = Process(shooter)
  /\ UNCHANGED <<pad, program, lifter, hasShot>>

Next ==
  \/ Refresh
  \/ DisabledInit \/ AutonomousInit \/ TeleopInit
  \/ DisabledPeriodic \/ AutonomousPeriodic \/ TeleopPeriodic \/ TeleopDisconnected

Spec == Init /\ [][Next]_vars

-----------------------------------------------------------------------------
\* Every variable has its type.
TypeOK ==
  /\ pc \in {"refresh", "init", "periodic"}
  /\ mode \in Modes
  /\ pad \in PadType
  /\ program \in [low_gear : BOOLEAN, has_gone_up : BOOLEAN]
  /\ lifter \in {moveUp, moveDown, stop}
  /\ WellFormed(shooter)
  /\ hasShot \in BOOLEAN
  /\ clean \in [shooter : BOOLEAN, arms : BOOLEAN]

\* A press latched while the program did not run (disabled, disconnected, another
\* mode) fires nothing by itself: whenever teleop.bot starts a shot, the right bumper
\* or a direction of the dpad is held at that moment.
StartsShot ==
  /\ pc = "periodic" /\ mode = "teleop" /\ pad.connected
  /\ ~IsShooting(shooter) /\ shooter'.primary > 0
ShotNeedsHold ==
  [][StartsShot => "RB" \in pad.down \/ pad.pov \in DOMAIN DpadLevels]_vars

\* A teleop period that found the shooter at rest never has the flywheels shooting
\* while the feed runs in the intake direction: teleop.bot leaves the period that
\* stops the intake to process() alone.
NoOverlapInTeleop ==
  mode = "teleop" /\ pc # "init" /\ clean.shooter => ~(shooter.primary > 0 /\ shooter.secondary < 0)

\* The level of a shot does not change while it lasts: unlike the function it calls,
\* teleop.bot asks for a shot only when none is running.
ShotLevelSteady ==
  [][IsShooting(shooter) /\ IsShooting(shooter') => shooter'.level = shooter.level]_vars

\* A shot that is running runs out: no run of teleop.bot and no period of any mode cuts
\* it short, whatever is pressed, released or unplugged meanwhile.  The period that ends
\* it has both pairs of motors at the shooting voltage; only entering a mode ends it
\* otherwise.
ShotRunsOut ==
  [][pc = "periodic" /\ IsShooting(shooter) /\ ~IsShooting(shooter')
       => /\ IsIdle(shooter')
          /\ shooter'.secondary = shooter'.primary /\ shooter'.secondary > 0]_vars

\* After a run of the program the lifter moves only if Y or A is held.  In a teleop
\* period that found it at rest it also moves the way the button says, and down only
\* after it has gone up: nothing of an earlier period moves it.
ArmsFollowButtons ==
  mode = "teleop" /\ pc = "refresh" /\ pad.connected /\ lifter # stop =>
    /\ pad.down \cap {"Y", "A"} # {}
    /\ clean.arms => /\ lifter = moveUp <=> "Y" \in pad.down
                     /\ program.has_gone_up

(***************************************************************************)
(* The shooter is shared as the host RobotMain shares it (SharedShooter),  *)
(* with a program that makes at most one call in a run.                    *)
(***************************************************************************)
shooterUser ==
  CASE pc = "init" \/ mode = "disabled"      -> "nobody"
    [] pc # "init" /\ mode = "auto"          -> "auto"
    [] OTHER                                 -> "program"

Sharing == INSTANCE SharedShooter WITH
  New <- NewShooter, Runs <- OneCall,
  user <- shooterUser,
  owed <- pc = "periodic" /\ shooterUser # "nobody",
  due  <- shooterUser = "auto" /\ ~hasShot

\* teleop.bot gets the shooter reset whenever it is loaded, autonomous gets it as it
\* is, and each of their periods ends with one process().
ImplementsSharedShooter == Sharing!Spec
=============================================================================
