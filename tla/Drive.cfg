\* Periods of 100 ms, of which a loop takes one or two; sticks at one end, at the
\* edge of the dead zone and just beyond it.
CONSTANTS
  Axes <- EdgeAxes
  AutoSpeeds <- AutoForward
  Throttle = 54
  Rate = 2400
  MaxLag = 2
  SinceCap = 7
  IsReal = TRUE
SPECIFICATION Spec
INVARIANT TypeOK
PROPERTIES GentleWhileDriving BrakesWithoutReversing ComesToRest
