\* Every API level on arm; one target, two hooks, any failure.
SPECIFICATION Spec
CONSTANTS
  t1 = t1
  h1 = h1
  h2 = h2
  b1 = b1
  None = None
  Abi = "arm"
  Sdks <- AllSdks
  Builds <- AllBuilds
  Requests <- BothRequests
  MaxCalls = 2
  MmapMayFail = TRUE
  InitClassMayFail = TRUE
  MayRepeat = FALSE
INVARIANTS TypeOK HookEffective HookHasBackup TrampolineNotCompiled NoRecursion
PROPERTY ImplementsHook
\* The program makes MaxCalls calls and stops.
CHECK_DEADLOCK FALSE
