SPECIFICATION Spec
CONSTANTS
  Procs = {p1}
  Modes = {"rw", "rwprev"}
  OpenErrors = FALSE
  MaxCommits = 4
  p1 = p1
  Unlocked = Unlocked
  OwnerDead = OwnerDead
INVARIANT CommitsKept
