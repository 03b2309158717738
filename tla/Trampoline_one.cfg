\* One hooking thread, mmap may fail; aarch64, whose two template sizes differ
\* and of which one is not a multiple of the pointer size.
SPECIFICATION Spec
CONSTANTS
  Abi = "aarch64"
  SpaceSize = 64
  Pages = {64, 128}
  Methods = {m1, m2}
  None = None
  Threads = {t1}
  EntryPoints = {e1}
  MmapMayFail = TRUE
INVARIANTS TypeOK IssuedIntact FaultsOnlyAtNull
PROPERTY ImplementsAbs
\* A crashed process takes no step.
CHECK_DEADLOCK FALSE
