SPECIFICATION Spec
CONSTANTS
  p1 = p1
  p2 = p2
  Procs = {p1}
  NReaders = 1
  Home <- SingleHome
  InitMetas <- UsedFile
  MaxTxn = 4
  MaxPg = 6
  MaxDirty = 1
  NoSync = FALSE
  NoMetaSync = TRUE
  WriteMap = FALSE
  UserSync = FALSE
  IoErrors = FALSE
  NoStall = TRUE
  PowerLoss = TRUE
  MaxCrash = 1
  Unlocked = Unlocked
  OwnerDead = OwnerDead
  NoView = NoView
INVARIANTS CrashSafe IInv
PROPERTY ImplementsSnapshot
