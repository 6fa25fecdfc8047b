SPECIFICATION Spec
CONSTANTS
  p1 = p1
  p2 = p2
  Procs = {p1}
  NReaders = 0
  Home <- SingleHome
  InitMetas <- UsedFile
  MaxTxn = 4
  MaxPg = 6
  MaxDirty = 2
  NoSync = FALSE
  NoMetaSync = FALSE
  WriteMap = TRUE
  UserSync = TRUE
  IoErrors = TRUE
  NoStall = TRUE
  PowerLoss = TRUE
  MaxCrash = 1
  Unlocked = Unlocked
  OwnerDead = OwnerDead
  NoView = NoView
INVARIANTS SnapshotPartition DurabilityBound DurableInv
