\* A 64-bit library that has relocations in .rela.dyn only.
SPECIFICATION Spec
CONSTANTS
  WordBits = 16
  TypeBase = 16
  PageSize = 16
  PtrSize = 2
  JUMP_SLOT = 7
  GLOB_DAT = 6
  ABS = 1
  n1 = n1
  n2 = n2
  n3 = n3
  NotFound = NotFound
  Null = Null
  SysvHash <- SysvHashDef
  GnuHash <- GnuHashDef
  Libs <- LibsNoPlt
  Hooks <- HooksNoPlt
  MprotectMayFail = FALSE
INVARIANTS AllReplaced
\* The hooks are made once.
CHECK_DEADLOCK FALSE
