SPECIFICATION Spec
SYMMETRY Symmetry
CONSTANTS
  p1 = p1
  p2 = p2
  t1 = t1
  t2 = t2
  t3 = t3
  Pids = {p1, p2}
  Threads = {t1, t2, t3}
  Pid <- TwoProcesses
  MaxReaders = 2
  NoPid = NoPid
  Free = Free
  OwnerDead = OwnerDead
INVARIANTS HolderKeepsSlot CheckFindsAll IInv
