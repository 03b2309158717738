\* The same call is made twice.
SPECIFICATION Spec
CONSTANTS
  t1 = t1
  h1 = h1
  h2 = h2
  b1 = b1
  None = None
  Abi = "arm"
  Sdks <- AllSdks
  Builds <- AllBuilds
  Requests <- OneRequest
  MaxCalls = 2
  MmapMayFail = FALSE
  InitClassMayFail = FALSE
  MayRepeat = TRUE
INVARIANTS NoRecursion
\* The program makes MaxCalls calls and stops.
CHECK_DEADLOCK FALSE
