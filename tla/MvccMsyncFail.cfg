SPECIFICATION Spec
CONSTANTS
  p1 = p1
  p2 = p2
  Procs = {p1, p2}
  NReaders = 0
  Home <- SingleHome
  InitMetas <- UsedFile
  MaxTxn = 4
  MaxPg = 7
  MaxDirty = 1
  NoSync = FALSE
  NoMetaSync = FALSE
  WriteMap = TRUE
  UserSync = FALSE
  IoErrors = TRUE
  NoStall = TRUE
  PowerLoss = FALSE
  MaxCrash = 0
  Unlocked = Unlocked
  OwnerDead = OwnerDead
  NoView = NoView
INVARIANT WriterBaseIsNewest
