SPECIFICATION Spec
CONSTANTS
  Procs = {p1, p2}
  Modes = {"rw"}
  OpenErrors = TRUE
  MaxCommits = 3
  p1 = p1
  p2 = p2
  Unlocked = Unlocked
  OwnerDead = OwnerDead
INVARIANT CommitsKept
