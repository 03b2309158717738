\* Every API level and ABI; two threads that hook twice.
SPECIFICATION Spec
CONSTANTS
  Threads = {t1, t2}
  Sdks <- SdksAll
  Devices <- DevicesAll
  MaxCalls = 2
  OpenMayFail = TRUE
  Null = Null
INVARIANTS TypeOK EntryPointFound AllFound CallsLinker FailsForReason SuccessLasts
\* The threads make MaxCalls calls and stop; a linker without the functions
\* ends the process.
CHECK_DEADLOCK FALSE
