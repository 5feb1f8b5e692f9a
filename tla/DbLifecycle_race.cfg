SPECIFICATION Spec
CONSTANTS
  Dbs = {d1}
  Iters = {i1, i2}
  Snaps = {s1}
  Threads = {t1, t2, t3}
  Ops <- RaceCalls
  WriterPreference = TRUE
  None = None
SYMMETRY Symmetry
INVARIANTS LeaseCount NoDanglingHandle HandleUseExclusive NoLockCycle
