SPECIFICATION FairSpec
CONSTANTS
  Keys <- ThreeKeys
  Size <- EntrySizes
  PrefixOf <- KeyPrefixes
  EntryLimits = {1, 2}
  ByteLimits = {2}
  Requests <- BoundsAsked
  MaxFaults = 1
  None = None
  End = End
  Failed = Failed
INVARIANT EndMeansExhaustion
