\* Two application threads that use the whole API, one kind of call at a time.
SPECIFICATION FairSpec
CONSTANTS
  Clients = {c1, c2}
  Workers = {w1, w2}
  Infos = {i1}
  Ops = {"register", "refresh", "refreshAsync", "clear", "protect", "unprotect"}
  MaxOps = 3
  InitMayFail = TRUE
  SwitchInited = FALSE
  Disciplined = TRUE
  NoThread = NoThread
INVARIANTS TypeOK ProtectedInstalled SigRestored WorkerStopped OneWorker InUseAlone
PROPERTIES ListsFrozen CallsReturn PostedIsTaken
\* Each client makes MaxOps calls and stops.
CHECK_DEADLOCK FALSE
