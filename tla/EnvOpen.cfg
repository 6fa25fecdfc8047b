SPECIFICATION Spec
CONSTANTS
  Procs = {p1, p2, p3}
  Modes = {"rw", "ro", "rwprev", "roprev"}
  OpenErrors = TRUE
  MaxCommits = 2
  p1 = p1
  p2 = p2
  p3 = p3
  Unlocked = Unlocked
  OwnerDead = OwnerDead
SYMMETRY Symmetry
INVARIANTS NoCommitLost WriterKeepsMutex IInv
PROPERTY FreshRead
