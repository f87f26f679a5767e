\* The start pose of the shipped trajectories.
CONSTANTS
  StartPoses <- ShippedPoses
  MaxPos = 2
  MaxTurn = 2
  MaxWheel = 4
SPECIFICATION Spec
INVARIANT EstimateIsPosition
