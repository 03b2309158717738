\* Two threads hook methods at the same time; mmap always succeeds.
SPECIFICATION Spec
CONSTANTS
  Abi = "arm"
  SpaceSize = 48
  Pages = {48, 96}
  Methods = {m1, m2}
  None = None
  Threads = {t1, t2}
  EntryPoints = {e1}
  MmapMayFail = FALSE
INVARIANT IssuedIntact
CHECK_DEADLOCK FALSE
