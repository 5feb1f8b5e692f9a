SPECIFICATION Spec
CONSTANTS
  Dbs = {d1}
  Iters = {i1}
  Snaps = {s1}
  Threads = {t1, t2}
  Ops <- AllCalls
  WriterPreference = TRUE
  None = None
SYMMETRY Symmetry
INVARIANTS TypeOK DbStaysOpenInCalls IInv
PROPERTY ImplementsContract
