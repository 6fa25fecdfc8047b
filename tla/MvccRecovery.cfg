SPECIFICATION Spec
CONSTANTS
  p1 = p1
  p2 = p2
  Procs = {p1, p2}
  NReaders = 1
  Home <- SpreadHome
  InitMetas <- UsedFile
  MaxTxn = 4
  MaxPg = 5
  MaxDirty = 1
  NoSync = TRUE
  NoMetaSync = TRUE
  WriteMap = FALSE
  UserSync = FALSE
  IoErrors = TRUE
  NoStall = TRUE
  PowerLoss = FALSE
  MaxCrash = 1
  Unlocked = Unlocked
  OwnerDead = OwnerDead
  NoView = NoView
INVARIANTS WriterBaseIsNewest FreshInv
