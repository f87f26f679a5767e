--------------------------- MODULE OdometryProofs ---------------------------
(***************************************************************************)
(* Theorems about Odometry, for every set of start poses and every bound   *)
(* on the way of the robot.                                                *)
(***************************************************************************)
EXTENDS Odometry, TLAPS

\* What the next update will find: how far the wheels went and how far the heading
\* turned since the last one.
Rolls == (encoders.left - odometry.wheels.left) + (encoders.right - odometry.wheels.right)
Way   == Rolls \div 2
Turn  == (Rotation2d(gyro) + odometry.offset) - odometry.pose.rot

(***************************************************************************)
(* Between two updates the wheels of both sides went one robot step; the   *)
(* encoders of a simulated robot show its simulator's wheels.              *)
(***************************************************************************)
WheelsInStep ==
  /\ \E go \in {-1, 0, 1} : Rolls = 2 * go
  /\ simulation => encoders = simWheels
  /\ pc = "move" => odometry.wheels = encoders /\ Turn = 0

(***************************************************************************)
(* When the offset fits, the robot is where the next update will take the  *)
(* estimate.                                                               *)
(***************************************************************************)
NextTracks ==
  (simulation => odometry.offset = 0) => robot = Exp(odometry.pose, Way, Turn)

(***************************************************************************)
(* The gyro of a simulation shows the simulator's heading, or, right after *)
(* a reset, the heading it had before.                                     *)
(***************************************************************************)
GyroShows ==
  simulation =>
    IF pc = "move"
    THEN odometry.pose.rot - robot.rot \in {0, odometry.offset}
    ELSE \/ Rotation2d(gyro) = robot.rot
         \/ Rotation2d(gyro) + odometry.offset = robot.rot

OdoInv == TypeOK /\ WheelsInStep /\ NextTracks /\ GyroShows

-----------------------------------------------------------------------------
(* The geometry.                                                           *)

LEMMA RotationValue ==
  ASSUME NEW angle \in Int
  PROVE  Rotation2d(angle) = 0 - angle
BY DEF Rotation2d

LEMMA AheadType ==
  ASSUME NEW rot \in Int
  PROVE  Ahead(rot).x \in {-1, 0, 1} /\ Ahead(rot).y \in {-1, 0, 1}
BY DEF Ahead

LEMMA ExpType ==
  ASSUME NEW pose \in Poses, NEW go \in Int, NEW turn \in Int
  PROVE  Exp(pose, go, turn) \in Poses
<1>1. Ahead(pose.rot).x \in Int /\ Ahead(pose.rot).y \in Int BY AheadType DEF Poses
<1>2. go * Ahead(pose.rot).x \in Int /\ go * Ahead(pose.rot).y \in Int BY <1>1
<1>. QED BY <1>2 DEF Exp, Poses

LEMMA ExpNothing ==
  ASSUME NEW pose \in Poses
  PROVE  Exp(pose, 0, 0) = pose
<1>1. Ahead(pose.rot).x \in Int /\ Ahead(pose.rot).y \in Int BY AheadType DEF Poses
<1>. QED BY <1>1 DEF Exp, Poses

\* An update is the twist of the wheels' way and the heading's turn.
LEMMA UpdateIsExp ==
  ASSUME TypeOK
  PROVE  Updated(odometry, Rotation2d(gyro), encoders).pose = Exp(odometry.pose, Way, Turn)
<1>. DEFINE angle == Rotation2d(gyro) + odometry.offset
<1>1. /\ odometry \in [pose : Poses, offset : Int, angle : Int, wheels : Wheels]
      /\ odometry.pose \in Poses /\ gyro \in Int BY DEF TypeOK
<1>2. Rotation2d(gyro) \in Int /\ odometry.offset \in Int /\ odometry.pose.rot \in Int
  BY <1>1 DEF Rotation2d, Poses
<1>3. odometry.pose.rot + Turn = angle BY <1>2 DEF Turn
<1>4. Updated(odometry, Rotation2d(gyro), encoders).pose
        = [Exp(odometry.pose, Way, 0) EXCEPT !.rot = angle]
  BY <1>1 DEF Updated, Way, Rolls
<1>5. [Exp(odometry.pose, Way, 0) EXCEPT !.rot = angle] = Exp(odometry.pose, Way, Turn)
  BY <1>3 DEF Exp
<1>. QED BY <1>4, <1>5

LEMMA UpdateFields ==
  ASSUME TypeOK
  PROVE  LET o == Updated(odometry, Rotation2d(gyro), encoders) IN
         /\ o \in [pose : Poses, offset : Int, angle : Int, wheels : Wheels]
         /\ o.angle = o.pose.rot
         /\ o.pose.rot = Rotation2d(gyro) + odometry.offset
         /\ o.offset = odometry.offset /\ o.wheels = encoders
<1>. DEFINE o == Updated(odometry, Rotation2d(gyro), encoders)
            angle == Rotation2d(gyro) + odometry.offset
<1>1. /\ odometry \in [pose : Poses, offset : Int, angle : Int, wheels : Wheels]
      /\ odometry.pose \in Poses /\ gyro \in Int /\ encoders \in Wheels
      /\ odometry.wheels \in Wheels BY DEF TypeOK
<1>2. angle \in Int BY <1>1 DEF Rotation2d
<1>3. Way \in Int /\ Turn \in Int
  <2>1. odometry.pose.rot \in Int BY <1>1 DEF Poses
  <2>2. Turn \in Int
    <3>1. Turn = angle - odometry.pose.rot BY DEF Turn
    <3>. HIDE DEF angle
    <3>. QED BY <1>2, <2>1, <3>1
  <2>3. Rolls \in Int
    <3>1. /\ encoders.left \in Int /\ encoders.right \in Int
          /\ odometry.wheels.left \in Int /\ odometry.wheels.right \in Int
      BY <1>1 DEF Wheels
    <3>. QED BY <3>1 DEF Rolls
  <2>. QED BY <2>2, <2>3 DEF Way
<1>4. o.pose \in Poses BY <1>1, <1>3, ExpType, UpdateIsExp
<1>5. o = [odometry EXCEPT !.pose = [Exp(odometry.pose, Way, 0) EXCEPT !.rot = angle],
                           !.angle = angle, !.wheels = encoders]
  BY DEF Updated, Way, Rolls
<1>6. o.angle = angle /\ o.offset = odometry.offset /\ o.wheels = encoders
  BY <1>1, <1>5
<1>7. o.pose.rot = angle
  <2>1. o.pose = [Exp(odometry.pose, Way, 0) EXCEPT !.rot = angle] BY <1>1, <1>5
  <2>. QED BY <2>1 DEF Exp
<1>8. o \in [pose : Poses, offset : Int, angle : Int, wheels : Wheels]
  <2>1. o = [pose |-> o.pose, offset |-> odometry.offset, angle |-> angle, wheels |-> encoders]
    BY <1>1, <1>5
  <2>. QED BY <1>1, <1>2, <1>4, <2>1
<1>. QED BY <1>6, <1>7, <1>8

\* An even way of the wheels is the robot's.
LEMMA HalfOfEven ==
  ASSUME NEW go \in Int
  PROVE  (2 * go) \div 2 = go
OBVIOUS

-----------------------------------------------------------------------------
(* The inductive invariant.                                                *)

LEMMA InitOdoInv == Init => OdoInv
<1>. SUFFICES ASSUME Init PROVE OdoInv OBVIOUS
<1>1. TypeOK
  <2>1. Origin \in Poses /\ Origin.rot = 0 /\ NoWheels \in Wheels
    BY DEF Origin, Poses, NoWheels, Wheels
  <2>2. /\ NewOdometry \in [pose : Poses, offset : Int, angle : Int, wheels : Wheels]
        /\ NewOdometry.angle = NewOdometry.pose.rot
    BY <2>1 DEF NewOdometry
  <2>3. robot \in Poses /\ encoders \in Wheels /\ simWheels \in Wheels
    BY <2>1 DEF Init
  <2>4. /\ odometry \in [pose : Poses, offset : Int, angle : Int, wheels : Wheels]
        /\ odometry.angle = odometry.pose.rot
    BY <2>2 DEF Init
  <2>5. pc \in {"boot", "mode", "robot", "move"} /\ lastMode \in {"auto", "other"}
    BY DEF Init
  <2>6. gyro \in Int BY DEF Init
  <2>7. simulation = FALSE /\ simWheels = NoWheels BY DEF Init
  <2>. QED BY <2>3, <2>4, <2>5, <2>6, <2>7 DEF TypeOK
<1>2. Rolls = 2 * 0 /\ Way = 0 /\ Turn = 0
  BY DEF Init, Rolls, Way, Turn, NewOdometry, NoWheels, Origin, Rotation2d
<1>3. WheelsInStep BY <1>2 DEF Init, WheelsInStep
<1>4. NextTracks
  <2>1. Origin \in Poses BY DEF Origin, Poses
  <2>. QED BY <1>2, <2>1, ExpNothing DEF Init, NextTracks, NewOdometry
<1>5. GyroShows BY DEF Init, GyroShows
<1>. QED BY <1>1, <1>3, <1>4, <1>5 DEF OdoInv

LEMMA BootOdoInv ==
  ASSUME OdoInv, pc = "boot", encoders = NoWheels, simWheels = NoWheels,
         odometry = NewOdometry, robot = Origin, gyro = 0, SimulationInit
  PROVE  OdoInv'
<1>. USE DEF SimulationInit, sensors
<1>1. TypeOK' BY Zenon DEF OdoInv, TypeOK
<1>2. Rolls' = Rolls /\ Way' = Way /\ Turn' = Turn BY DEF Rolls, Way, Turn
<1>3. WheelsInStep' BY <1>2 DEF OdoInv, WheelsInStep
<1>4. NextTracks'
  <2>1. odometry.offset = 0 BY DEF NewOdometry
  <2>. QED BY <1>2, <2>1 DEF OdoInv, NextTracks
<1>5. GyroShows'
  <2>1. pc' # "move" /\ gyro' = 0 /\ robot' = Origin OBVIOUS
  <2>2. robot'.rot = 0 BY <2>1 DEF Origin
  <2>3. Rotation2d(0) = 0
    <3>1. Rotation2d(0) = 0 - 0 BY RotationValue
    <3>. QED BY <3>1
  <2>4. Rotation2d(gyro)' = robot'.rot BY <2>1, <2>2, <2>3
  <2>. QED BY <2>1, <2>4 DEF GyroShows
<1>. QED BY <1>1, <1>3, <1>4, <1>5 DEF OdoInv

\* Everything is as it was built until the framework starts the loop.
BootState ==
  pc = "boot" => /\ encoders = NoWheels /\ simWheels = NoWheels
                 /\ odometry = NewOdometry /\ robot = Origin /\ gyro = 0

\* A reset leaves nothing due, whatever the state it is done in.
LEMMA ResetOdoInv ==
  ASSUME OdoInv, pc = "mode", pc' = "robot", NEW pose \in StartPoses, resetOdometry(pose),
         lastMode' \in {"auto", "other"}, UNCHANGED <<gyro, simulation>>
  PROVE  OdoInv'
<1>1. /\ encoders' = NoWheels /\ robot' = pose
      /\ odometry' = [ pose |-> pose, offset |-> pose.rot - Rotation2d(gyro),
                       angle |-> pose.rot, wheels |-> NoWheels ]
      /\ simWheels' = IF simulation THEN NoWheels ELSE simWheels
  BY DEF resetOdometry, SetPose, ResetPosition
<1>2. pose \in Poses /\ pose.rot \in Int BY OdometryAssumption DEF Poses
<1>3. gyro \in Int /\ Rotation2d(gyro) \in Int BY DEF OdoInv, TypeOK, Rotation2d
<1>4. NoWheels \in Wheels BY DEF NoWheels, Wheels
<1>5. TypeOK' BY <1>1, <1>2, <1>3, <1>4 DEF OdoInv, TypeOK
<1>6. Rolls' = 2 * 0 /\ Way' = 0 /\ Turn' = 0
  BY <1>1, <1>2, <1>3 DEF Rolls, Way, Turn, NoWheels, Rotation2d
<1>7. WheelsInStep' BY <1>1, <1>6 DEF WheelsInStep
<1>8. NextTracks' BY <1>1, <1>2, <1>6, ExpNothing DEF NextTracks
<1>9. GyroShows' BY <1>1, <1>2, <1>3 DEF GyroShows, Rotation2d
<1>. QED BY <1>5, <1>7, <1>8, <1>9 DEF OdoInv

LEMMA ModeOdoInv ==
  ASSUME OdoInv, ModeCallbacks
  PROVE  OdoInv'
<1>1. CASE lastMode' = "auto" /\ lastMode # "auto"
  <2>1. PICK pose \in StartPoses : resetOdometry(pose) BY <1>1 DEF ModeCallbacks
  <2>. QED BY <2>1, ResetOdoInv DEF ModeCallbacks
<1>2. CASE ~(lastMode' = "auto" /\ lastMode # "auto")
  <2>1. UNCHANGED <<encoders, odometry, robot, simWheels, gyro, simulation>>
    BY <1>2 DEF ModeCallbacks
  <2>2. Rolls' = Rolls /\ Way' = Way /\ Turn' = Turn BY <2>1 DEF Rolls, Way, Turn
  <2>. QED BY <2>1, <2>2
         DEF ModeCallbacks, OdoInv, TypeOK, WheelsInStep, NextTracks, GyroShows
<1>. QED BY <1>1, <1>2

LEMMA UpdateOdoInv ==
  ASSUME OdoInv, RobotPeriodic
  PROVE  OdoInv'
<1>. USE DEF sensors
<1>1. odometry' = Updated(odometry, Rotation2d(gyro), encoders) BY DEF RobotPeriodic
<1>2. TypeOK BY DEF OdoInv
<1>3. /\ odometry' \in [pose : Poses, offset : Int, angle : Int, wheels : Wheels]
      /\ odometry'.angle = odometry'.pose.rot
      /\ odometry'.pose.rot = Rotation2d(gyro) + odometry.offset
      /\ odometry'.offset = odometry.offset /\ odometry'.wheels = encoders
  BY <1>1, <1>2, UpdateFields
<1>4. UNCHANGED <<lastMode, robot, encoders, gyro, simulation, simWheels>> /\ pc' = "move"
  BY DEF RobotPeriodic
<1>5. TypeOK' BY <1>2, <1>3, <1>4 DEF TypeOK
<1>6. encoders \in Wheels /\ gyro \in Int /\ odometry.offset \in Int
  BY <1>2 DEF TypeOK
<1>7. Rolls' = 2 * 0 /\ Way' = 0 /\ Turn' = 0
  BY <1>3, <1>4, <1>6 DEF Rolls, Way, Turn, Wheels, Rotation2d
<1>8. WheelsInStep' BY <1>3, <1>4, <1>7 DEF OdoInv, WheelsInStep
<1>9. NextTracks'
  <2>. SUFFICES ASSUME simulation' => odometry'.offset = 0
                PROVE  robot' = Exp(odometry'.pose, Way', Turn')
    BY DEF NextTracks
  <2>1. robot = Exp(odometry.pose, Way, Turn) BY <1>3, <1>4 DEF OdoInv, NextTracks
  <2>2. odometry'.pose = robot BY <1>1, <1>2, <2>1, UpdateIsExp
  <2>3. robot \in Poses BY <1>2 DEF TypeOK
  <2>. QED BY <1>4, <1>7, <2>2, <2>3, ExpNothing
<1>10. GyroShows'
  <2>1. robot.rot \in Int BY <1>2 DEF TypeOK, Poses
  <2>2. pc = "robot" BY DEF RobotPeriodic
  <2>. QED BY <1>3, <1>4, <1>6, <2>1, <2>2 DEF OdoInv, GyroShows, Rotation2d
<1>. QED BY <1>5, <1>8, <1>9, <1>10 DEF OdoInv

LEMMA MoveOdoInv ==
  ASSUME OdoInv, Move
  PROVE  OdoInv'
<1>. PICK m \in Motions : /\ robot' = Exp(robot, m.go, m.turn)
                          /\ RobotMoves(m) \/ SimulationPeriodic(m)
  BY DEF Move
<1>1. /\ m.go \in {-1, 0, 1} /\ m.turn \in {-1, 0, 1} BY DEF Motions
<1>2. pc = "move" /\ pc' = "mode" /\ UNCHANGED <<lastMode, odometry, simulation>>
  BY DEF Move
<1>3. /\ robot \in Poses /\ encoders \in Wheels /\ gyro \in Int /\ simWheels \in Wheels
      /\ odometry.offset \in Int /\ odometry.pose \in Poses /\ odometry.pose.rot \in Int
      /\ robot.rot \in Int
  BY DEF OdoInv, TypeOK, Poses
<1>4. odometry.wheels = encoders /\ Turn = 0 /\ (simulation => encoders = simWheels)
  BY <1>2 DEF OdoInv, WheelsInStep
<1>5. encoders' = Rolled(encoders, m) /\ (simulation => simWheels' = encoders')
  BY <1>4 DEF RobotMoves, SimulationPeriodic
<1>6. Rolled(encoders, m) \in Wheels BY <1>1, <1>3 DEF Rolled, Wheels
<1>7. robot' \in Poses /\ robot'.rot = robot.rot + m.turn
  BY <1>1, <1>3, ExpType DEF Exp
<1>8. gyro' = IF simulation THEN -(robot'.rot) ELSE gyro - m.turn
  BY DEF RobotMoves, SimulationPeriodic, SimAngle
<1>9. gyro' \in Int BY <1>1, <1>3, <1>7, <1>8 DEF Poses
<1>10. TypeOK'
  <2>1. simWheels' \in Wheels /\ (~simulation => simWheels' = NoWheels)
    BY <1>5, <1>6 DEF RobotMoves, SimulationPeriodic, OdoInv, TypeOK
  <2>. QED BY <1>2, <1>5, <1>6, <1>7, <1>9, <2>1 DEF OdoInv, TypeOK
<1>11. Rolls' = 2 * m.go
  BY <1>1, <1>2, <1>3, <1>4, <1>5 DEF Rolls, Rolled, Wheels
<1>12. Way' = m.go BY <1>1, <1>11, HalfOfEven DEF Way
<1>13. WheelsInStep' BY <1>1, <1>2, <1>5, <1>11 DEF WheelsInStep
<1>14. NextTracks'
  <2>. SUFFICES ASSUME simulation' => odometry'.offset = 0
                PROVE  robot' = Exp(odometry'.pose, Way', Turn')
    BY DEF NextTracks
  <2>1. Way = 0
    <3>1. Rolls = 2 * 0 BY <1>3, <1>4 DEF Rolls, Wheels
    <3>. QED BY <3>1, HalfOfEven DEF Way
  <2>2. robot = Exp(odometry.pose, Way, Turn) BY <1>2 DEF OdoInv, NextTracks
  <2>3. robot = odometry.pose BY <1>3, <1>4, <2>1, <2>2, ExpNothing
  <2>4. Rotation2d(gyro) + odometry.offset = odometry.pose.rot
    <3>1. Rotation2d(gyro) \in Int BY <1>3 DEF Rotation2d
    <3>2. Rotation2d(gyro) + odometry.offset \in Int BY <1>3, <3>1
    <3>3. (Rotation2d(gyro) + odometry.offset) - odometry.pose.rot = 0 BY <1>4 DEF Turn
    <3>. QED BY <1>3, <3>2, <3>3
  <2>5. Turn' = m.turn
    <3>1. CASE simulation
      BY <1>1, <1>2, <1>3, <1>7, <1>8, <2>3, <3>1 DEF Turn, Rotation2d
    <3>2. CASE ~simulation
      BY <1>1, <1>2, <1>3, <1>8, <2>4, <3>2 DEF Turn, Rotation2d
    <3>. QED BY <3>1, <3>2
  <2>. QED BY <1>2, <1>12, <2>3, <2>5
<1>15. GyroShows' BY <1>2, <1>7, <1>8 DEF GyroShows, Rotation2d, Poses
<1>. QED BY <1>10, <1>13, <1>14, <1>15 DEF OdoInv

LEMMA BootStep == BootState /\ TypeOK /\ [Next]_vars => BootState'
BY DEF BootState, TypeOK, Next, SimulationInit, ModeCallbacks, RobotPeriodic, Move, vars, sensors

LEMMA OdoStep == OdoInv /\ BootState /\ [Next]_vars => OdoInv'
<1>. SUFFICES ASSUME OdoInv, BootState, [Next]_vars PROVE OdoInv' OBVIOUS
<1>1. CASE SimulationInit BY <1>1, BootOdoInv DEF BootState, SimulationInit
<1>2. CASE ModeCallbacks BY <1>2, ModeOdoInv
<1>3. CASE RobotPeriodic BY <1>3, UpdateOdoInv
<1>4. CASE Move BY <1>4, MoveOdoInv
<1>5. CASE UNCHANGED vars
  <2>1. Rolls' = Rolls /\ Way' = Way /\ Turn' = Turn
    BY <1>5 DEF vars, sensors, Rolls, Way, Turn
  <2>. QED BY <1>5, <2>1
         DEF vars, sensors, OdoInv, TypeOK, WheelsInStep, NextTracks, GyroShows
<1>. QED BY <1>1, <1>2, <1>3, <1>4, <1>5 DEF Next

LEMMA OdoAlways == Spec => [](OdoInv /\ BootState)
<1>1. Init => OdoInv /\ BootState BY InitOdoInv DEF Init, BootState
<1>2. OdoInv /\ BootState /\ [Next]_vars => (OdoInv /\ BootState)'
  BY OdoStep, BootStep DEF OdoInv
<1>. QED BY <1>1, <1>2, PTL DEF Spec

-----------------------------------------------------------------------------
\* Type correctness, with the odometry's angle always its pose's.
THEOREM TypeCorrect == Spec => []TypeOK
<1>1. OdoInv /\ BootState => TypeOK BY DEF OdoInv
<1>. QED BY <1>1, OdoAlways, PTL

\* On a robot the estimate is the true pose after every update, for all start poses,
\* ways and sequences of modes; in a simulation, when no reset changed the heading.
THEOREM PoseTracksCorrect == Spec => []PoseTracks
<1>1. OdoInv /\ BootState => PoseTracks
  <2>. SUFFICES ASSUME OdoInv, pc = "move", simulation => odometry.offset = 0
                PROVE  odometry.pose = robot
    BY DEF PoseTracks
  <2>1. odometry.wheels = encoders /\ Turn = 0 BY DEF OdoInv, WheelsInStep
  <2>2. encoders \in Wheels /\ odometry.pose \in Poses BY DEF OdoInv, TypeOK
  <2>3. Rolls = 2 * 0 BY <2>1, <2>2 DEF Rolls, Wheels
  <2>4. Way = 0 BY <2>3, HalfOfEven DEF Way
  <2>. QED BY <2>1, <2>2, <2>4, ExpNothing DEF OdoInv, NextTracks
<1>. QED BY <1>1, OdoAlways, PTL

\* What robot.hpp:42-45 says of the estimate holds on every robot: only the simulation
\* falls short of it.
THEOREM EstimateOnRobot == Spec => [](~simulation => EstimateIsPosition)
<1>1. PoseTracks => (~simulation => EstimateIsPosition)
  BY DEF PoseTracks, EstimateIsPosition
<1>. QED BY <1>1, PoseTracksCorrect, PTL

\* A simulation's estimated heading is right or off by the offset of the last reset.
THEOREM HeadingErrorCorrect == Spec => []HeadingErrorIsOffset
<1>1. OdoInv /\ BootState => HeadingErrorIsOffset
  BY DEF OdoInv, GyroShows, HeadingErrorIsOffset
<1>. QED BY <1>1, OdoAlways, PTL

\* No update moves the estimate further than the robot goes in a period.
THEOREM NoJumpCorrect == Spec => NoJump
<1>1. ASSUME OdoInv, [Next]_vars
      PROVE  [pc = "robot" => Near(odometry.pose, odometry'.pose)]_vars
  <2>. SUFFICES ASSUME RobotPeriodic PROVE Near(odometry.pose, odometry'.pose)
    BY <1>1 DEF Next, SimulationInit, ModeCallbacks, Move
  <2>1. TypeOK BY <1>1 DEF OdoInv
  <2>2. odometry'.pose = Exp(odometry.pose, Way, Turn)
    BY <2>1, UpdateIsExp DEF RobotPeriodic
  <2>3. Way \in {-1, 0, 1}
    <3>1. PICK go \in {-1, 0, 1} : Rolls = 2 * go BY <1>1 DEF OdoInv, WheelsInStep
    <3>. QED BY <3>1, HalfOfEven DEF Way
  <2>4. odometry.pose.x \in Int /\ odometry.pose.y \in Int /\ odometry.pose.rot \in Int
    BY <2>1 DEF TypeOK, Poses
  <2>. DEFINE ahead == Ahead(odometry.pose.rot)
  <2>5. ahead.x \in {-1, 0, 1} /\ ahead.y \in {-1, 0, 1} BY <2>4, AheadType
  <2>6. Way * ahead.x \in -1 .. 1 /\ Way * ahead.y \in -1 .. 1 BY <2>3, <2>5
  <2>7. /\ odometry'.pose.x = odometry.pose.x + Way * ahead.x
        /\ odometry'.pose.y = odometry.pose.y + Way * ahead.y
    BY <2>2 DEF Exp
  <2>. QED BY <2>4, <2>6, <2>7 DEF Near
<1>. QED BY <1>1, OdoAlways, PTL DEF Spec, NoJump
=============================================================================
