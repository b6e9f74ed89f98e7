\* Three requests for two keys, a process limit of one or two, one other process.
SPECIFICATION FairSpec
CONSTANTS
  a = a
  b = b
  r1 = r1
  r2 = r2
  r3 = r3
  Request = {r1, r2, r3}
  Key = {a, b}
  KeyOf <- TwoOfA
  Size <- Sizes
  Other = {other}
  ByteLimit = {1, 2}
  SlotLimit = {1, 2}
  None = None
INVARIANTS
  NothingLeaks
  ReadersKeepTheirEntry
PROPERTIES
  GrowthWithinLimit
  PublishesOnlyWanted
  CancelledRequestsEnd
