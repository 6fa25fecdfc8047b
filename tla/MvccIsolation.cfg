SPECIFICATION Spec
CONSTANTS
  p1 = p1
  p2 = p2
  Procs = {p1}
  NReaders = 2
  Home <- SingleHome
  InitMetas <- UsedFile
  MaxTxn = 4
  MaxPg = 6
  MaxDirty = 1
  NoSync = TRUE
  NoMetaSync = TRUE
  WriteMap = FALSE
  UserSync = FALSE
  IoErrors = FALSE
  NoStall = FALSE
  PowerLoss = FALSE
  MaxCrash = 0
  Unlocked = Unlocked
  OwnerDead = OwnerDead
  NoView = NoView
INVARIANTS SnapshotIntact CachedOldestSafe
