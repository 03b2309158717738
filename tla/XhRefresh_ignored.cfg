\* A symbol of one hook info is ignored in a library of two.
SPECIFICATION Spec
CONSTANTS
  Bases = {1, 2}
  Paths = {"a", "b", "data", "stripped"}
  Lib <- LibDef
  Setups <- SetupsIgnored
  MaxLoads = 1
  MaxRefreshes = 1
  MaxClears = 0
  MayReload = FALSE
  None = None
INVARIANTS Hooked
\* The program makes a bounded number of calls.
CHECK_DEADLOCK FALSE
