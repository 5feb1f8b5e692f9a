SPECIFICATION FairSpec
CONSTANTS
  Dbs = {d1}
  Iters = {i1}
  Snaps = {s1}
  Threads = {t1, t2}
  Ops <- LiveCalls
  WriterPreference = TRUE
  None = None
PROPERTIES CallsReturn LeasesDrain AbandonedDbReleasesPath
