\* The robot program, the unit tests, and a client with three Lifecycle objects.
CONSTANTS
  Lifecycles = {first, second, third}
  NoState = NoState
  Programs = {"firmware", "tests", "client"}
  Static = first
SPECIFICATION Spec
CHECK_DEADLOCK FALSE
INVARIANTS
  TypeOK LuaReachesLiving StateSpansRobot EngineInOpenState OwnerHasState
