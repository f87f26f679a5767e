------------------------------- MODULE Drive -------------------------------
(***************************************************************************)
(* The way of a driver's stick to the drivetrain: the dead zone of         *)
(* Parameters::process, the gear of teleop.bot, the range, the curve and   *)
(* the slew-rate limiters of Drivetrain, and those who command the         *)
(* drivetrain past the limiters: driveDisabled() and autonomous.           *)
(*                                                                         *)
(* One action per mode: what the loop does with the drivetrain in one      *)
(* period of that mode.                                                    *)
(*                                                                         *)
(* Units: a stick in tenths, a requested speed in fortieths, so that the   *)
(* low gear (times 0.25) is exact, and a commanded speed or rotation in    *)
(* 8000ths of the robot's maximum, so that the curve and the throttle are. *)
(***************************************************************************)
EXTENDS Integers

CONSTANTS
  Axes,        \* positions of a stick, in tenths
  AutoSpeeds,  \* what autonomous commands, in 8000ths
  Throttle,    \* config drivetrain.rotation_throttle, in percent
  Rate,        \* what a limiter allows a period, in 8000ths
  MaxLag,      \* most periods a loop may take
  SinceCap,    \* the longest pause to count, in periods; a longer one is no different
  IsReal       \* a real robot: rotation is inverted

FullStick == 10
FullSpeed == 8000

ASSUME DriveAssumption ==
  /\ Axes \subseteq -FullStick .. FullStick
  /\ AutoSpeeds \subseteq -FullSpeed .. FullSpeed
  /\ Throttle \in 0 .. 100
  /\ Rate \in Nat \ {0}
  /\ MaxLag \in Nat \ {0}
  /\ SinceCap \in Nat /\ MaxLag <= SinceCap /\ Rate * SinceCap >= 2 * FullSpeed
  /\ IsReal \in BOOLEAN

VARIABLES
  params,   \* the processed sticks: y of the left one, x of the right one
  limiter,  \* the values of speedLimiter and rotLimiter
  since,    \* periods since the limiters were last used, one number for both
  command   \* what the drivetrain was last told, and by whom

vars == <<params, limiter, since, command>>

Init ==
  /\ params = [y |-> 0, x |-> 0]
  /\ limiter = [speed |-> 0, rot |-> 0]
  /\ since = 0
  /\ command = [by |-> "stop", speed |-> 0, rot |-> 0]

-----------------------------------------------------------------------------
(* The stages of the pipeline.                                             *)

Clamp(v, low, high) == IF v < low THEN low ELSE IF v > high THEN high ELSE v
Abs(v) == IF v < 0 THEN -v ELSE v

DeadZone == 1
\* Variant the runs must reject: the value at the edge of the dead zone gets through.
OpenDeadZone(axis) == IF Abs(axis) < DeadZone THEN 0 ELSE axis
Centred(axis) == IF Abs(axis) <= DeadZone THEN 0 ELSE axis

FullRequest == 40
Geared(axis, low) == IF low THEN axis ELSE 4 * axis

\* Variant the runs must reject: the curve of a range whose skew is not symmetric.
OneSidedCurve(v) == 5 * (((FullRequest + v) * (FullRequest + v)) \div 2 - 1600)

\* convertFrom0to1 with a symmetric skew of 0.5: the square of the distance from the
\* middle, with its sign.
Curve(v) == 5 * v * Abs(v)

\* SlewRateLimiter::Calculate, elapsed periods after the last call.
Calculate(value, input, elapsed) ==
  value + Clamp(input - value, -(Rate * elapsed), Rate * elapsed)

\* Variant the runs must reject: the limiter is bypassed to brake.
CalculateBrakesAtOnce(value, request, elapsed) ==
  IF request = 0 THEN 0 ELSE Calculate(value, Curve(request), elapsed)

\* The limiters after calculateSpeed() and calculateRotation(); both return the
\* limited value negated.
LimitedSpeed(value, request, elapsed) ==
  Calculate(value, Curve(Clamp(request, -FullRequest, FullRequest)), elapsed)

LimitedRot(value, axis, elapsed) ==
  Calculate(value, IF IsReal THEN -(8 * Throttle * axis) ELSE 8 * Throttle * axis, elapsed)

-----------------------------------------------------------------------------
(* A period of each mode.                                                  *)

Elapsed(lag) == Clamp(since + lag, 0, SinceCap)

\* driveDisabled(): a disabled period, a period of teleop without the gamepad, a
\* period of autonomous that shoots.
DriveDisabled(lag) ==
  /\ command' = [by |-> "stop", speed |-> 0, rot |-> 0]
  /\ since' = Elapsed(lag)
  /\ UNCHANGED <<params, limiter>>

\* A period of autonomous that moves: drive(), past the limiters.
DriveAutonomous(lag) ==
  /\ \E s, r \in AutoSpeeds : command' = [by |-> "auto", speed |-> s, rot |-> r]
  /\ since' = Elapsed(lag)
  /\ UNCHANGED <<params, limiter>>

\* A period of teleop with the gamepad: processParameters(), then driveNormalized(),
\* called once by the program in the gear the driver chose.
DriveNormalized(lag) ==
  /\ \E y, x \in Axes : params' = [y |-> Centred(y), x |-> Centred(x)]
  /\ \E low \in BOOLEAN :
       limiter' = [ speed |-> LimitedSpeed(limiter.speed, Geared(params'.y, low), Elapsed(lag)),
                    rot   |-> LimitedRot(limiter.rot, params'.x, Elapsed(lag)) ]
  /\ since' = 0
  /\ command' = [by |-> "program", speed |-> -limiter'.speed, rot |-> -limiter'.rot]

Period(lag) == DriveDisabled(lag) \/ DriveAutonomous(lag) \/ DriveNormalized(lag)

Next == \E lag \in 1 .. MaxLag : Period(lag)

\* The framework's loop runs period after period.
Spec == Init /\ [][Next]_vars /\ WF_vars(Next)

-----------------------------------------------------------------------------
\* Every variable has its type; the processed sticks lie outside the dead zone or in
\* its middle, and no command exceeds the robot's maximum.
Speeds == -FullSpeed .. FullSpeed
Sticks == {a \in -FullStick .. FullStick : a = 0 \/ Abs(a) > DeadZone}
TypeOK ==
  /\ params \in [y : Sticks, x : Sticks]
  /\ limiter \in [speed : Speeds, rot : Speeds]
  /\ since \in 0 .. SinceCap
  /\ command \in [by : {"stop", "auto", "program"}, speed : Speeds, rot : Speeds]

\* As long as the program drives period after period, no command is further from the
\* last one than the limiter allows in the time of one loop, whatever the sticks and
\* the gear do.
Close(c, d) == /\ Abs(c.speed - d.speed) <= Rate * MaxLag
               /\ Abs(c.rot - d.rot) <= Rate * MaxLag
GentleWhileDriving ==
  [][command.by = "program" /\ command'.by = "program" => Close(command, command')]_vars

\* While the program drives period after period, a period with both sticks inside the
\* dead zone brakes: speed and rotation come nearer to rest than the last command by what
\* one period allows, or are at rest, and never pass it: a robot that brakes does not
\* drive the other way.  It says nothing of a period after a pause, in which somebody
\* else stopped the robot and the limiters kept what the program had asked for.
Brakes(v, w) ==
  /\ (0 <= w /\ w <= v) \/ (v <= w /\ w <= 0)
  /\ w = 0 \/ Abs(w) <= Abs(v) - Rate
BrakesWithoutReversing ==
  [][command.by = "program" /\ command'.by = "program" /\ params' = [y |-> 0, x |-> 0]
       => /\ Brakes(command.speed, command'.speed)
          /\ Brakes(command.rot, command'.rot)]_vars

\* Sticks that stay inside the dead zone bring the robot to rest and keep it there,
\* though it is the program or nobody that drives, in any gear and after any pause.
ComesToRest ==
  <>[](params = [y |-> 0, x |-> 0] /\ command.by # "auto")
    => <>[](command.speed = 0 /\ command.rot = 0)
=============================================================================
