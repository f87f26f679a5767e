\* Two start poses, in a simulation and on a robot.
CONSTANTS
  StartPoses <- TwoPoses
  MaxPos = 2
  MaxTurn = 2
  MaxWheel = 4
SPECIFICATION Spec
INVARIANTS TypeOK PoseTracks HeadingErrorIsOffset
PROPERTIES NoJump
