SPECIFICATION FairSpec
CONSTANTS
  Keys <- ThreeKeys
  Size <- EntrySizes
  PrefixOf <- KeyPrefixes
  EntryLimits = {1, 2, 3}
  ByteLimits = {1, 2, 3}
  Requests <- BoundsAsked
  MaxFaults = 2
  None = None
  End = End
  Failed = Failed
INVARIANTS TypeOK NoGapNoRepeat NeverTwice PageWithinBounds MoreHasRows EndIsComplete
PROPERTY ScanEnds
