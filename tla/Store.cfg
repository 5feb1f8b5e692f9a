SPECIFICATION Spec
CONSTANTS
  Names <- mcNames
  Keys = {1, 2}
  PlainKeys <- mcPlainKeys
  FamilyPlain <- mcFamilyPlain
  DefaultType = "snappy"
  PresetType = "lz4"
  Spelling <- mcSpelling
  Terms <- mcTerms
  Writes <- mcWrites
  Batches <- mcBatches
  Snaps = {s1}
  Closed = Closed
  NotMap = NotMap
  NoAtom = NoAtom
  Junk = Junk
  Number = Number
  Wide = Wide
  MaxSeq = 3
  MaxFamilies = 3
INVARIANTS TypeOK SnapshotStable SettingsInEffect
PROPERTY ImplementsKvStore
CHECK_DEADLOCK FALSE
