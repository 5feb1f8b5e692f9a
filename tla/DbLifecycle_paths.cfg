SPECIFICATION Spec
CONSTANTS
  Dbs = {d1, d2}
  Iters = {i1}
  Snaps = {s1}
  Threads = {t1, t2}
  Ops <- PathCalls
  WriterPreference = FALSE
  None = None
SYMMETRY Symmetry
INVARIANT PathReleasedByClose
