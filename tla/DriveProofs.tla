---------------------------- MODULE DriveProofs ----------------------------
(***************************************************************************)
(* Proofs about Drive: no command exceeds the robot's maximum, and the     *)
(* program's commands change gently while it drives, for every rate,       *)
(* throttle and length of the loop.                                        *)
(***************************************************************************)
EXTENDS Drive, TLAPS

LEMMA SpeedsRange ==
  /\ \A v \in Speeds : v \in Int
  /\ \A v \in Int : v \in Speeds <=> -8000 <= v /\ v <= 8000
<1>1. \A v \in Speeds : v \in Int BY DEF Speeds, FullSpeed
<1>2. \A v \in Int : v \in Speeds <=> -8000 <= v /\ v <= 8000 BY DEF Speeds, FullSpeed
<1>. QED BY <1>1, <1>2

(***************************************************************************)
(* The curve stays in the range, keeps the direction of the stick and      *)
(* never slows down for a stick that is pushed further.                    *)
(***************************************************************************)
LEMMA CurveInRange ==
  ASSUME NEW v \in -FullRequest .. FullRequest
  PROVE  Curve(v) \in Speeds
<1>1. CASE v >= 0
  <2>1. v * v >= 0 /\ v * v <= 1600 BY <1>1 DEF FullRequest
  <2>2. Curve(v) = 5 * (v * v) BY <1>1 DEF Curve, Abs, FullRequest
  <2>. QED BY <2>1, <2>2 DEF Speeds, FullSpeed
<1>2. CASE v < 0
  <2>. DEFINE w == -v
  <2>1. w * w >= 0 /\ w * w <= 1600 BY <1>2 DEF FullRequest
  <2>2. Curve(v) = -(5 * (w * w)) BY <1>2 DEF Curve, Abs, FullRequest
  <2>. QED BY <2>1, <2>2 DEF Speeds, FullSpeed
<1>. QED BY <1>1, <1>2 DEF FullRequest

LEMMA CurveMonotone ==
  ASSUME NEW v \in -FullRequest .. FullRequest,
         NEW w \in -FullRequest .. FullRequest, v <= w
  PROVE  Curve(v) <= Curve(w)
<1>1. CASE v >= 0
  <2>1. v * v <= w * w BY <1>1 DEF FullRequest
  <2>2. Curve(v) = 5 * (v * v) /\ Curve(w) = 5 * (w * w)
    BY <1>1 DEF Curve, Abs, FullRequest
  <2>. QED BY <2>1, <2>2 DEF FullRequest
<1>2. CASE w < 0
  <2>1. w * w <= v * v BY <1>2 DEF FullRequest
  <2>2. Curve(v) = -(5 * (v * v)) /\ Curve(w) = -(5 * (w * w))
    BY <1>2 DEF Curve, Abs, FullRequest
  <2>. QED BY <2>1, <2>2 DEF FullRequest
<1>3. CASE v < 0 /\ w >= 0
  <2>1. Curve(v) = -(5 * (v * v)) /\ Curve(w) = 5 * (w * w)
    BY <1>3 DEF Curve, Abs, FullRequest
  <2>2. v * v >= 0 /\ w * w >= 0 BY DEF FullRequest
  <2>. QED BY <2>1, <2>2 DEF FullRequest
<1>. QED BY <1>1, <1>2, <1>3 DEF FullRequest

(***************************************************************************)
(* A limiter ends between its value and its input, no further from its     *)
(* value than the time allows.                                             *)
(***************************************************************************)
LEMMA CalculateLimits ==
  ASSUME NEW value \in Speeds, NEW input \in Speeds, NEW elapsed \in Nat
  PROVE  /\ Calculate(value, input, elapsed) \in Speeds
         /\ Abs(Calculate(value, input, elapsed) - value) <= Rate * elapsed
<1>. DEFINE most == Rate * elapsed
<1>1. most \in Nat BY DriveAssumption
<1>. HIDE DEF most
<1>2. Calculate(value, input, elapsed) = value + Clamp(input - value, -most, most)
  BY DEF Calculate, most
<1>3. /\ value + Clamp(input - value, -most, most) \in Speeds
      /\ Abs(Clamp(input - value, -most, most)) <= most
  <2>1. /\ value \in Int /\ -8000 <= value /\ value <= 8000
        /\ input \in Int /\ -8000 <= input /\ input <= 8000
    BY SpeedsRange
  <2>2. /\ Clamp(input - value, -most, most) \in Int
        /\ -8000 <= value + Clamp(input - value, -most, most)
        /\ value + Clamp(input - value, -most, most) <= 8000
        /\ Clamp(input - value, -most, most) <= most
        /\ -most <= Clamp(input - value, -most, most)
    BY <1>1, <2>1 DEF Clamp
  <2>. QED BY <1>1, <2>1, <2>2, SpeedsRange DEF Abs
<1>4. /\ value \in Int /\ Clamp(input - value, -most, most) \in Int
  BY <1>1, SpeedsRange DEF Clamp
<1>5. Calculate(value, input, elapsed) - value = Clamp(input - value, -most, most)
  BY <1>2, <1>4
<1>. QED BY <1>2, <1>3, <1>5 DEF most

LEMMA LimitersInRange ==
  ASSUME NEW value \in Speeds, NEW elapsed \in Nat, NEW axis \in Sticks, NEW low \in BOOLEAN
  PROVE  /\ LimitedSpeed(value, Geared(axis, low), elapsed) \in Speeds
         /\ LimitedRot(value, axis, elapsed) \in Speeds
         /\ Abs(LimitedSpeed(value, Geared(axis, low), elapsed) - value) <= Rate * elapsed
         /\ Abs(LimitedRot(value, axis, elapsed) - value) <= Rate * elapsed
<1>. DEFINE request == Clamp(Geared(axis, low), -FullRequest, FullRequest)
            turn    == IF IsReal THEN -(8 * Throttle * axis) ELSE 8 * Throttle * axis
<1>1. request \in -FullRequest .. FullRequest
  BY DEF Geared, Clamp, FullRequest, Sticks, FullStick
<1>2. Curve(request) \in Speeds BY <1>1, CurveInRange
<1>3. turn \in Speeds
  <2>. DEFINE p == Throttle * axis
  <2>1. axis \in -10 .. 10 BY DEF Sticks, FullStick
  <2>2. p \in -1000 .. 1000 BY <2>1, DriveAssumption
  <2>3. 8 * Throttle * axis = 8 * p BY <2>1, DriveAssumption
  <2>4. turn = 8 * p \/ turn = -(8 * p) BY <2>3
  <2>. HIDE DEF p, turn
  <2>5. 8 * p \in Speeds /\ -(8 * p) \in Speeds BY <2>2, SpeedsRange
  <2>. QED BY <2>4, <2>5
<1>. QED BY <1>2, <1>3, CalculateLimits DEF LimitedSpeed, LimitedRot

-----------------------------------------------------------------------------
(***************************************************************************)
(* The type invariant together with what the program's last command says:  *)
(* it is what the limiters returned, and no time was counted since.        *)
(***************************************************************************)
DriveInv ==
  /\ TypeOK
  /\ command.by = "program" =>
       /\ since = 0
       /\ command.speed = -limiter.speed
       /\ command.rot = -limiter.rot

LEMMA ElapsedInRange ==
  ASSUME TypeOK, NEW lag \in 1 .. MaxLag
  PROVE  /\ Elapsed(lag) \in 0 .. SinceCap
         /\ since = 0 => Elapsed(lag) <= MaxLag
BY DriveAssumption DEF TypeOK, Elapsed, Clamp

LEMMA DriveInvInit == Init => DriveInv
BY DriveAssumption DEF Init, DriveInv, TypeOK, Speeds, Sticks, FullSpeed, FullStick, Abs, DeadZone

\* What a period of the program does, in the terms of the properties.
LEMMA ProgramPeriod ==
  ASSUME DriveInv, NEW lag \in 1 .. MaxLag, DriveNormalized(lag)
  PROVE  /\ params' \in [y : Sticks, x : Sticks]
         /\ limiter' \in [speed : Speeds, rot : Speeds]
         /\ Abs(limiter'.speed - limiter.speed) <= Rate * Elapsed(lag)
         /\ Abs(limiter'.rot - limiter.rot) <= Rate * Elapsed(lag)
<1>1. Elapsed(lag) \in Nat BY ElapsedInRange, DriveAssumption DEF DriveInv
<1>2. PICK y \in Axes, x \in Axes : params' = [y |-> Centred(y), x |-> Centred(x)]
  BY DEF DriveNormalized
<1>3. Centred(y) \in Sticks /\ Centred(x) \in Sticks
  BY <1>2, DriveAssumption DEF Centred, Sticks, Abs, FullStick, DeadZone
<1>4. PICK low \in BOOLEAN :
        limiter' = [ speed |-> LimitedSpeed(limiter.speed, Geared(params'.y, low), Elapsed(lag)),
                     rot   |-> LimitedRot(limiter.rot, params'.x, Elapsed(lag)) ]
  BY DEF DriveNormalized
<1>5. limiter.speed \in Speeds /\ limiter.rot \in Speeds BY DEF DriveInv, TypeOK
<1>6. params'.y \in Sticks /\ params'.x \in Sticks BY <1>2, <1>3
<1>. QED BY <1>1, <1>2, <1>3, <1>4, <1>5, <1>6, LimitersInRange

LEMMA DriveInvStep == DriveInv /\ [Next]_vars => DriveInv'
<1>. SUFFICES ASSUME DriveInv, [Next]_vars PROVE DriveInv'
  OBVIOUS
<1>1. CASE UNCHANGED vars BY <1>1 DEF vars, DriveInv, TypeOK
<1>. SUFFICES ASSUME NEW lag \in 1 .. MaxLag, Period(lag) PROVE DriveInv'
  BY <1>1 DEF Next
<1>2. Elapsed(lag) \in 0 .. SinceCap BY ElapsedInRange DEF DriveInv
<1>3. CASE DriveDisabled(lag)
  <2>1. 0 \in Speeds BY SpeedsRange
  <2>. QED BY <1>2, <1>3, <2>1 DEF DriveDisabled, DriveInv, TypeOK
<1>4. CASE DriveAutonomous(lag)
  <2>1. AutoSpeeds \subseteq Speeds BY DriveAssumption DEF Speeds
  <2>. QED BY <1>2, <1>4, <2>1 DEF DriveAutonomous, DriveInv, TypeOK
<1>5. CASE DriveNormalized(lag)
  <2>1. /\ since' = 0
        /\ command' = [by |-> "program", speed |-> -limiter'.speed, rot |-> -limiter'.rot]
    BY <1>5 DEF DriveNormalized
  <2>2. /\ params' \in [y : Sticks, x : Sticks]
        /\ limiter' \in [speed : Speeds, rot : Speeds]
    BY <1>5, ProgramPeriod
  <2>3. -limiter'.speed \in Speeds /\ -limiter'.rot \in Speeds
    <3>1. limiter'.speed \in Speeds /\ limiter'.rot \in Speeds BY <2>2
    <3>2. \A v \in Speeds : -v \in Speeds BY SpeedsRange
    <3>. QED BY <3>1, <3>2
  <2>4. command' \in [by : {"stop", "auto", "program"}, speed : Speeds, rot : Speeds]
    BY <2>1, <2>3
  <2>. QED BY <2>1, <2>2, <2>4, DriveAssumption DEF DriveInv, TypeOK
<1>. QED BY <1>3, <1>4, <1>5 DEF Period

LEMMA DriveInvCorrect == Spec => []DriveInv
BY DriveInvInit, DriveInvStep, PTL DEF Spec

(***************************************************************************)
(* No command exceeds the robot's maximum, and no processed stick is       *)
(* inside the dead zone but in its middle.                                 *)
(***************************************************************************)
THEOREM CommandsInRange == Spec => []TypeOK
<1>1. DriveInv => TypeOK BY DEF DriveInv
<1>. QED BY <1>1, DriveInvCorrect, PTL

(***************************************************************************)
(* While the program drives period after period, each command is close to  *)
(* the last one.                                                           *)
(***************************************************************************)
LEMMA GentleStep ==
  ASSUME DriveInv, [Next]_vars, command.by = "program", command'.by = "program"
  PROVE  Close(command, command')
<1>. DEFINE most == Rate * MaxLag
<1>0. most \in Nat BY DriveAssumption
<1>1. CASE UNCHANGED vars
  <2>1. command'.speed = command.speed /\ command'.rot = command.rot BY <1>1 DEF vars
  <2>0. command.speed \in Speeds /\ command.rot \in Speeds BY DEF DriveInv, TypeOK
  <2>2. command.speed \in Int /\ command.rot \in Int BY <2>0, SpeedsRange
  <2>. HIDE DEF most
  <2>3. /\ Abs(command.speed - command'.speed) <= most
        /\ Abs(command.rot - command'.rot) <= most
    BY <1>0, <2>1, <2>2 DEF Abs
  <2>. QED BY <2>3 DEF Close, most
<1>. SUFFICES ASSUME NEW lag \in 1 .. MaxLag, Period(lag) PROVE Close(command, command')
  BY <1>1 DEF Next
<1>2. DriveNormalized(lag) BY DEF Period, DriveDisabled, DriveAutonomous
<1>3. Elapsed(lag) \in 0 .. MaxLag BY ElapsedInRange DEF DriveInv
<1>4. Rate * Elapsed(lag) <= most BY <1>3, DriveAssumption
<1>5. /\ limiter'.speed \in Int /\ limiter'.rot \in Int
      /\ limiter.speed \in Int /\ limiter.rot \in Int
  <2>1. limiter'.speed \in Speeds /\ limiter'.rot \in Speeds BY <1>2, ProgramPeriod
  <2>2. limiter.speed \in Speeds /\ limiter.rot \in Speeds BY DEF DriveInv, TypeOK
  <2>. QED BY <2>1, <2>2, SpeedsRange
<1>6. Rate * Elapsed(lag) \in Int BY <1>3, DriveAssumption
<1>. HIDE DEF most
<1>7. /\ Abs(limiter'.speed - limiter.speed) <= most
      /\ Abs(limiter'.rot - limiter.rot) <= most
  BY <1>0, <1>2, <1>4, <1>5, <1>6, ProgramPeriod DEF Abs
<1>8. /\ command.speed = -limiter.speed /\ command.rot = -limiter.rot
      /\ command'.speed = -limiter'.speed /\ command'.rot = -limiter'.rot
  BY <1>2 DEF DriveInv, DriveNormalized
<1>9. /\ Abs(command.speed - command'.speed) <= most
      /\ Abs(command.rot - command'.rot) <= most
  BY <1>0, <1>5, <1>7, <1>8 DEF Abs
<1>. QED BY <1>9 DEF Close, most

THEOREM GentleWhileDrivingCorrect == Spec => GentleWhileDriving
<1>1. DriveInv /\ [Next]_vars
        => [command.by = "program" /\ command'.by = "program" => Close(command, command')]_vars
  BY GentleStep
<1>. QED BY <1>1, DriveInvCorrect, PTL DEF Spec, GentleWhileDriving

-----------------------------------------------------------------------------
(***************************************************************************)
(* A limiter goes to its input and never past it: it ends between its      *)
(* value and the input, and nearer to the input by what one period allows, *)
(* or at the input.                                                        *)
(***************************************************************************)
LEMMA CalculateApproaches ==
  ASSUME NEW value \in Speeds, NEW input \in Speeds, NEW elapsed \in Nat \ {0}
  PROVE  Brakes(value - input, Calculate(value, input, elapsed) - input)
<1>. DEFINE most == Rate * elapsed
            step == Clamp(input - value, -most, most)
<1>1. most \in Nat /\ most >= Rate /\ Rate \in Nat BY DriveAssumption
<1>2. value \in Int /\ input \in Int BY SpeedsRange
<1>3. Calculate(value, input, elapsed) = value + step BY DEF Calculate
<1>. HIDE DEF most
<1>4. \/ step = input - value
      \/ step = most /\ most < input - value
      \/ step = -most /\ input - value < -most
  BY <1>1, <1>2 DEF Clamp
<1>. HIDE DEF step
<1>. DEFINE v == value - input
            w == (value + step) - input
<1>5. step \in Int /\ v \in Int /\ w \in Int BY <1>1, <1>2, <1>4
<1>6. \/ w = 0
      \/ w = v + most /\ v + most < 0
      \/ w = v - most /\ 0 < v - most
  BY <1>1, <1>2, <1>4
<1>. HIDE DEF v, w
<1>7. Brakes(v, w) BY <1>1, <1>5, <1>6 DEF Brakes, Abs
<1>. QED BY <1>3, <1>7 DEF v, w

\* A centred stick asks for no speed in either gear, and for no rotation.
LEMMA CentredSticksAskForRest ==
  ASSUME NEW value \in Speeds, NEW elapsed \in Nat, NEW low \in BOOLEAN
  PROVE  /\ LimitedSpeed(value, Geared(0, low), elapsed) = Calculate(value, 0, elapsed)
         /\ LimitedRot(value, 0, elapsed) = Calculate(value, 0, elapsed)
<1>1. Curve(Clamp(Geared(0, low), -FullRequest, FullRequest)) = 0
  BY DEF Geared, Clamp, Curve, Abs, FullRequest
<1>2. Throttle \in Int BY DriveAssumption
<1>3. 8 * Throttle * 0 = 0 /\ -(8 * Throttle * 0) = 0 BY <1>2
<1>. QED BY <1>1, <1>3 DEF LimitedSpeed, LimitedRot

(***************************************************************************)
(* With both sticks in the dead zone (parameters.cpp) the limiters         *)
(* (drivetrain.cpp) wind down: each period of the program brings them      *)
(* nearer to zero by Rate, or to it, and nothing else changes them.  This  *)
(* is the measure behind ComesToRest.  It bounds a command after a pause   *)
(* too: by what the program asked for before, not by the robot's rest.     *)
(***************************************************************************)
LimitersWindDown ==
  [][params' = [y |-> 0, x |-> 0]
       => \/ UNCHANGED limiter /\ command'.by # "program"
          \/ /\ command' = [by |-> "program", speed |-> -limiter'.speed, rot |-> -limiter'.rot]
             /\ Brakes(limiter.speed, limiter'.speed)
             /\ Brakes(limiter.rot, limiter'.rot)]_vars

LEMMA BrakingStep ==
  ASSUME DriveInv, NEW lag \in 1 .. MaxLag, DriveNormalized(lag),
         params' = [y |-> 0, x |-> 0]
  PROVE  Brakes(limiter.speed, limiter'.speed) /\ Brakes(limiter.rot, limiter'.rot)
<1>1. Elapsed(lag) \in Nat \ {0}
  BY DriveAssumption DEF DriveInv, TypeOK, Elapsed, Clamp
<1>2. PICK low \in BOOLEAN :
        limiter' = [ speed |-> LimitedSpeed(limiter.speed, Geared(params'.y, low), Elapsed(lag)),
                     rot   |-> LimitedRot(limiter.rot, params'.x, Elapsed(lag)) ]
  BY DEF DriveNormalized
<1>3. /\ limiter.speed \in Speeds /\ limiter.rot \in Speeds
      /\ limiter'.speed \in Speeds /\ limiter'.rot \in Speeds
  BY ProgramPeriod DEF DriveInv, TypeOK
<1>4. /\ limiter'.speed = Calculate(limiter.speed, 0, Elapsed(lag))
      /\ limiter'.rot = Calculate(limiter.rot, 0, Elapsed(lag))
  <2>1. params'.y = 0 /\ params'.x = 0 OBVIOUS
  <2>. QED BY <1>1, <1>2, <1>3, <2>1, CentredSticksAskForRest
<1>5. \A v \in Speeds : v - 0 = v BY SpeedsRange
<1>6. 0 \in Speeds BY SpeedsRange
<1>7. /\ Brakes(limiter.speed - 0, limiter'.speed - 0)
      /\ Brakes(limiter.rot - 0, limiter'.rot - 0)
  BY <1>1, <1>3, <1>4, <1>6, CalculateApproaches
<1>. QED BY <1>3, <1>5, <1>7

THEOREM LimitersWindDownCorrect == Spec => LimitersWindDown
<1>1. ASSUME DriveInv, NEW lag \in 1 .. MaxLag, Period(lag), params' = [y |-> 0, x |-> 0]
      PROVE  \/ UNCHANGED limiter /\ command'.by # "program"
             \/ /\ command' = [by |-> "program", speed |-> -limiter'.speed,
                               rot |-> -limiter'.rot]
                /\ Brakes(limiter.speed, limiter'.speed)
                /\ Brakes(limiter.rot, limiter'.rot)
  <2>1. CASE DriveDisabled(lag) BY <2>1 DEF DriveDisabled
  <2>2. CASE DriveAutonomous(lag) BY <2>2 DEF DriveAutonomous
  <2>3. CASE DriveNormalized(lag)
    <3>1. Brakes(limiter.speed, limiter'.speed) /\ Brakes(limiter.rot, limiter'.rot)
      BY <1>1, <2>3, BrakingStep
    <3>. QED BY <2>3, <3>1 DEF DriveNormalized
  <2>. QED BY <1>1, <2>1, <2>2, <2>3 DEF Period
<1>2. DriveInv /\ [Next]_vars
        => [params' = [y |-> 0, x |-> 0]
              => \/ UNCHANGED limiter /\ command'.by # "program"
                 \/ /\ command' = [by |-> "program", speed |-> -limiter'.speed,
                                   rot |-> -limiter'.rot]
                    /\ Brakes(limiter.speed, limiter'.speed)
                    /\ Brakes(limiter.rot, limiter'.rot)]_vars
  BY <1>1 DEF Next
<1>. QED BY <1>2, DriveInvCorrect, PTL DEF Spec, LimitersWindDown

(***************************************************************************)
(* While the program drives, sticks in the dead zone brake without         *)
(* reversing: its last command is the negated value of the limiters.       *)
(***************************************************************************)
LEMMA BrakesMirrored ==
  ASSUME NEW v \in Int, NEW w \in Int, Brakes(v, w)
  PROVE  Brakes(-v, -w)
BY DriveAssumption DEF Brakes, Abs

THEOREM BrakesWithoutReversingCorrect == Spec => BrakesWithoutReversing
<1>1. ASSUME DriveInv, NEW lag \in 1 .. MaxLag, Period(lag), command.by = "program",
             command'.by = "program", params' = [y |-> 0, x |-> 0]
      PROVE  Brakes(command.speed, command'.speed) /\ Brakes(command.rot, command'.rot)
  <2>1. DriveNormalized(lag) BY <1>1 DEF Period, DriveDisabled, DriveAutonomous
  <2>2. Brakes(limiter.speed, limiter'.speed) /\ Brakes(limiter.rot, limiter'.rot)
    BY <1>1, <2>1, BrakingStep
  <2>3. /\ limiter.speed \in Int /\ limiter.rot \in Int
        /\ limiter'.speed \in Int /\ limiter'.rot \in Int
    <3>1. limiter.speed \in Speeds /\ limiter.rot \in Speeds BY <1>1 DEF DriveInv, TypeOK
    <3>2. limiter'.speed \in Speeds /\ limiter'.rot \in Speeds BY <1>1, <2>1, ProgramPeriod
    <3>. QED BY <3>1, <3>2, SpeedsRange
  <2>4. /\ command.speed = -limiter.speed /\ command.rot = -limiter.rot
        /\ command'.speed = -limiter'.speed /\ command'.rot = -limiter'.rot
    BY <1>1, <2>1 DEF DriveInv, DriveNormalized
  <2>. QED BY <2>2, <2>3, <2>4, BrakesMirrored
<1>2. DriveInv /\ [Next]_vars
        => [command.by = "program" /\ command'.by = "program" /\ params' = [y |-> 0, x |-> 0]
              => /\ Brakes(command.speed, command'.speed)
                 /\ Brakes(command.rot, command'.rot)]_vars
  BY <1>1 DEF Next
<1>. QED BY <1>2, DriveInvCorrect, PTL DEF Spec, BrakesWithoutReversing
=============================================================================
