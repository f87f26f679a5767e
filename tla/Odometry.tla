----------------------------- MODULE Odometry -----------------------------
(***************************************************************************)
(* Where the robot believes it is (class Drivetrain, src/drivetrain.cpp,   *)
(* src/robot.hpp): the encoders, the gyro and the odometry, which every    *)
(* period updates and AutonomousInit resets, on a robot and in the desktop *)
(* simulation, whose simulator then provides the readings of the sensors.  *)
(*                                                                         *)
(* A period of the framework's loop is the callbacks of the mode, then     *)
(* RobotPeriodic, then the robot moves: in a simulation that is            *)
(* SimulationPeriodic.                                                     *)
(*                                                                         *)
(* Units: a heading in quarter turns, counted and not wrapped; a position  *)
(* and a wheel's way in steps.  In one period the robot stands, goes one   *)
(* step along its heading or turns a quarter on the spot, so that every    *)
(* pose is on the grid and a twist is exact.                               *)
(***************************************************************************)
EXTENDS Integers

CONSTANTS
  StartPoses,  \* the initial poses of the trajectories
  MaxPos,      \* furthest the robot goes in x and y
  MaxTurn,     \* furthest it turns, from its pose and from where the gyro started
  MaxWheel     \* furthest a wheel turns between two resets

Poses == [x : Int, y : Int, rot : Int]

ASSUME OdometryAssumption ==
  /\ StartPoses \subseteq Poses
  /\ MaxPos \in Nat /\ MaxTurn \in Nat /\ MaxWheel \in Nat

Origin   == [x |-> 0, y |-> 0, rot |-> 0]
NoWheels == [left |-> 0, right |-> 0]

VARIABLES
  pc,          \* what the loop does next: "boot", "mode", "robot" or "move"
  lastMode,    \* "auto" or another one
  robot,       \* the true pose, in the frame of the last reset
  encoders,    \* the ways the encoders report
  gyro,        \* the angle the gyro reports, clockwise
  odometry,    \* the odometry's pose and what it keeps for the next update
  simulation,  \* whether the drivetrain has a Simulation
  simWheels    \* the ways of the wheels in its drivetrainSimulator

sensors == <<encoders, gyro>>
vars    == <<pc, lastMode, robot, sensors, odometry, simulation, simWheels>>

-----------------------------------------------------------------------------
(* The geometry.                                                           *)

\* The step a robot makes in the direction it faces.
Ahead(rot) ==
  CASE rot % 4 = 0 -> [x |-> 1,  y |-> 0]
    [] rot % 4 = 1 -> [x |-> 0,  y |-> 1]
    [] rot % 4 = 2 -> [x |-> -1, y |-> 0]
    [] OTHER       -> [x |-> 0,  y |-> -1]

\* Pose2d.Exp.  A twist that goes and turns at once takes a wrong heading, and what
\* position it leads to does not matter then.
Exp(pose, go, turn) ==
  [ x   |-> pose.x + go * Ahead(pose.rot).x,
    y   |-> pose.y + go * Ahead(pose.rot).y,
    rot |-> pose.rot + turn ]

Motions == {m \in [go : {-1, 0, 1}, turn : {-1, 0, 1}] : m.go = 0 \/ m.turn = 0}

Rolled(wheels, m) ==
  [left |-> wheels.left + m.go - m.turn, right |-> wheels.right + m.go + m.turn]

Within(pose, angle, wheels) ==
  /\ pose.x \in -MaxPos .. MaxPos /\ pose.y \in -MaxPos .. MaxPos
  /\ pose.rot \in -MaxTurn .. MaxTurn /\ angle \in -MaxTurn .. MaxTurn
  /\ wheels.left \in -MaxWheel .. MaxWheel /\ wheels.right \in -MaxWheel .. MaxWheel

-----------------------------------------------------------------------------
(* The odometry.  GetRotation2d() turns the other way than GetAngle().     *)

Rotation2d(angle) == -angle

NewOdometry == [pose |-> Origin, offset |-> 0, angle |-> 0, wheels |-> NoWheels]

\* Variant the runs must reject: the angle of the last update is the gyro's.
ResetKeepsAngle(rotation, wheels, pose) ==
  [pose |-> pose, offset |-> pose.rot - rotation, angle |-> rotation, wheels |-> wheels]

ResetPosition(rotation, wheels, pose) ==
  [ pose |-> pose, offset |-> pose.rot - rotation, angle |-> pose.rot, wheels |-> wheels ]

Updated(o, rotation, wheels) ==
  LET angle == rotation + o.offset
      go    == ((wheels.left - o.wheels.left) + (wheels.right - o.wheels.right)) \div 2
  IN [o EXCEPT !.pose = [Exp(o.pose, go, 0) EXCEPT !.rot = angle],
               !.angle = angle, !.wheels = wheels]

-----------------------------------------------------------------------------
Init ==
  /\ pc = "boot" /\ lastMode = "other"
  /\ robot = Origin
  /\ encoders = NoWheels /\ gyro = 0
  /\ odometry = NewOdometry
  /\ simulation = FALSE /\ simWheels = NoWheels

\* initializeSimulation(), which the framework calls in a simulation only.
SimulationInit ==
  /\ pc = "boot"
  /\ pc' = "mode"
  /\ simulation' \in BOOLEAN
  /\ UNCHANGED <<lastMode, robot, sensors, odometry, simWheels>>

\* Variant the runs must reject: the simulated wheels keep their ways.
SetPoseOnly(pose) == robot' = pose /\ UNCHANGED simWheels

\* onOdometryReset(): the simulated robot is put on the pose, its wheels are reset and
\* its gyro is not.  The real one stands where its frame is to begin.
SetPose(pose) ==
  /\ robot' = pose
  /\ simWheels' = IF simulation THEN NoWheels ELSE simWheels

\* Variant the runs must reject: the encoders are read before they are reset.
ReadBeforeReset(pose) ==
  /\ encoders' = NoWheels
  /\ odometry' = ResetPosition(Rotation2d(gyro), encoders, pose)
  /\ SetPose(pose)

resetOdometry(pose) ==
  /\ encoders' = NoWheels
  /\ odometry' = ResetPosition(Rotation2d(gyro), encoders', pose)
  /\ SetPose(pose)

\* The mode's callbacks, as far as they touch the odometry: AutonomousInit does.
ModeCallbacks ==
  /\ pc = "mode"
  /\ pc' = "robot"
  /\ lastMode' \in {"auto", "other"}
  /\ IF lastMode' = "auto" /\ lastMode # "auto"
     THEN \E pose \in StartPoses : resetOdometry(pose)
     ELSE UNCHANGED <<encoders, odometry, robot, simWheels>>
  /\ UNCHANGED <<gyro, simulation>>

\* postProcess(), whatever the mode.
RobotPeriodic ==
  /\ pc = "robot"
  /\ pc' = "move"
  /\ odometry' = Updated(odometry, Rotation2d(gyro), encoders)
  /\ UNCHANGED <<lastMode, robot, sensors, simulation, simWheels>>

\* A real robot moves; its sensors see it.
RobotMoves(m) ==
  /\ ~simulation
  /\ encoders' = Rolled(encoders, m)
  /\ gyro' = gyro - m.turn
  /\ UNCHANGED simWheels

\* Variant the runs must reject: the heading is not negated.
UnnegatedAngle(rot) == rot

SimAngle(rot) == -rot

\* updateSimulation(): the simulated robot moves, then its sensors are overwritten.
SimulationPeriodic(m) ==
  /\ simulation
  /\ simWheels' = Rolled(simWheels, m)
  /\ encoders' = simWheels'
  /\ gyro' = SimAngle(robot'.rot)

Move ==
  /\ pc = "move"
  /\ pc' = "mode"
  /\ \E m \in Motions :
       /\ robot' = Exp(robot, m.go, m.turn)
       /\ RobotMoves(m) \/ SimulationPeriodic(m)
       /\ Within(robot', gyro', encoders') \/ m = [go |-> 0, turn |-> 0]
  /\ UNCHANGED <<lastMode, odometry, simulation>>

Next == SimulationInit \/ ModeCallbacks \/ RobotPeriodic \/ Move

Spec == Init /\ [][Next]_vars

-----------------------------------------------------------------------------
Wheels == [left : Int, right : Int]

\* Every variable has its type, the angle the odometry keeps is its pose's, and only a
\* simulation has simulated wheels.
TypeOK ==
  /\ pc \in {"boot", "mode", "robot", "move"}
  /\ lastMode \in {"auto", "other"}
  /\ robot \in Poses
  /\ encoders \in Wheels /\ gyro \in Int
  /\ odometry \in [pose : Poses, offset : Int, angle : Int, wheels : Wheels]
  /\ odometry.angle = odometry.pose.rot
  /\ simulation \in BOOLEAN
  /\ simWheels \in Wheels /\ (~simulation => simWheels = NoWheels)

\* "Get estimated field position" (robot.hpp:45): after RobotPeriodic the estimate is
\* the true pose, however often and wherever the odometry was reset, whatever the robot
\* did in the other modes.  In a simulation this needs resets to a pose that has the
\* heading the gyro reports, which are those that leave the offset at zero.
PoseTracks ==
  pc = "move" /\ (simulation => odometry.offset = 0) => odometry.pose = robot

\* In a simulation the estimated heading is right, or off by exactly the angle the
\* robot had turned away from the pose it was reset to: the error of a reset neither
\* grows nor adds up.
HeadingErrorIsOffset ==
  pc = "move" /\ simulation => odometry.pose.rot - robot.rot \in {0, odometry.offset}

\* The estimate never jumps: an update moves it no further than the robot goes in a
\* period, the one after a reset included, whatever its heading.
Near(p, q) == (p.x - q.x) \in -1 .. 1 /\ (p.y - q.y) \in -1 .. 1
NoJump == [][pc = "robot" => Near(odometry.pose, odometry'.pose)]_vars

-----------------------------------------------------------------------------
(* What the documentation says and the simulation does not do.             *)

\* "Reset odometry", "Get estimated field position" (robot.hpp:42-45): after
\* RobotPeriodic the estimate is the true pose, in a simulation too.
EstimateIsPosition == pc = "move" => odometry.pose = robot
=============================================================================
