\* Libraries of both kinds of relocations and hash tables, and damaged ones.
SPECIFICATION Spec
CONSTANTS
  WordBits = 16
  TypeBase = 16
  PageSize = 16
  PtrSize = 2
  JUMP_SLOT = 7
  GLOB_DAT = 6
  ABS = 1
  n1 = n1
  n2 = n2
  n3 = n3
  NotFound = NotFound
  Null = Null
  SysvHash <- SysvHashDef
  GnuHash <- GnuHashDef
  Libs <- LibsAll
  Hooks <- HooksAll
  MprotectMayFail = TRUE
INVARIANTS TypeOK ReadsRight AllReplaced OnlySought CallsEnd StoreWritable ProtRestored
\* The hooks are made once.
CHECK_DEADLOCK FALSE
