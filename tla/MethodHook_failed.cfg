\* mmap may fail during the backup half.
SPECIFICATION Spec
CONSTANTS
  t1 = t1
  h1 = h1
  h2 = h2
  b1 = b1
  None = None
  Abi = "arm"
  Sdks <- AllSdks
  Builds <- AllBuilds
  Requests <- OneRequest
  MaxCalls = 1
  MmapMayFail = TRUE
  InitClassMayFail = FALSE
  MayRepeat = FALSE
INVARIANTS FailureLeavesTarget
\* The program makes MaxCalls calls and stops.
CHECK_DEADLOCK FALSE
