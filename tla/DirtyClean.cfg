SPECIFICATION Spec
CONSTANTS
  f1 = f1
  f2 = f2
  Families = {f1, f2}
  MarkerFamily = f1
  RowFamily <- mcRowFamily
  Groups = 2
  MaxFaults = 2
  Shapes <- mcShapes
  Roles <- WriterRoles
  WriteTerms <- mcTerms
  OpenOptions <- mcOptions
  NotMap = NotMap
  Junk = Junk
  MaxWrites = 22
INVARIANTS WriterTypeOK CleanCovers PartialIsDirty CursorBehindClean
PROPERTY GroupsComplete
CHECK_DEADLOCK FALSE
