\* Libraries come and go during the refreshes; the infos are cleared once.
SPECIFICATION Spec
CONSTANTS
  Bases = {1, 2}
  Paths = {"a", "b", "data", "stripped"}
  Lib <- LibDef
  Setups <- SetupsAll
  MaxLoads = 4
  MaxRefreshes = 2
  MaxClears = 1
  MayReload = FALSE
  None = None
INVARIANTS TypeOK MapsDisjoint Hooked ReachesOriginal
PROPERTIES OnlyWantedReplaced
\* The program makes a bounded number of calls.
CHECK_DEADLOCK FALSE
