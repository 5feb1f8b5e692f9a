SPECIFICATION Spec
CONSTANTS
  f1 = f1
  f2 = f2
  Families = {f1, f2}
  Shapes <- mcShapes
  Roles = {none}
  WriteTerms <- mcTerms
  OpenOptions <- mcOptions
  NotMap = NotMap
  Junk = Junk
  NoJob = NoJob
  MaxWrites = 2
  MaxBackups = 2
  MaxI32 = 3
INVARIANTS TypeOK BatchWhole StoreShowsAcked
PROPERTIES ImplementsCrashStore CopyCovers CopyConsistent RestoreBringsBack
CHECK_DEADLOCK FALSE
