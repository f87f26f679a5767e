\* The robot program alone.
CONSTANTS
  Lifecycles = {first, second, third}
  NoState = NoState
  Programs = {"firmware"}
  Static = first
SPECIFICATION Spec
CHECK_DEADLOCK FALSE
INVARIANT
  Released
