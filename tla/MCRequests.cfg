\* One project of up to two items; two editors, or an editor and an agent; three revisions.
\* A table of up to five rows.  Two clients of the assets of one medium, which changes once.
\* Two processes with a request each for the archive of a batch of two outputs, one crash.
SPECIFICATION MCSpec
CONSTANTS
  i1 = i1
  i2 = i2
  s1 = s1
  s2 = s2
  e1 = e1
  e2 = e2
  a1 = a1
  None = None
  Item = {i1, i2}
  SegmentId = {s1, s2}
  MaxDuration = 2
  Editor = {e1, e2}
  Agent = {a1}
  MaxSegments = 2
  MaxOperations = 2
  MaxRevision = 3
  Id = {1, 2, 3, 4, 5}
  Allowed = {2, 4, 5}
  PageLimit = 2
  ScanLimit = 3
  Wanted = {1, 2}
  thumbnails = thumbnails
  waveform = waveform
  Client = {c1, c2}
  Kind = {thumbnails, waveform}
  Size <- SizeOf
  Limit = {1, 3}
  Versions = 2
  here = here
  there = there
  left = left
  right = right
  Foreign = Foreign
  Process = {here, there}
  Request = {left, right}
  HomeOf <- Homes
  Output = {1, 2}
  Attempts = 2
  Crashes = 1
CHECK_DEADLOCK FALSE
INVARIANTS
  EditorsKnow
  SavedIsDisjoint
  NothingMissed
  FreshBytes
  WithinBudget
  ArchiveIsWholeAndListed
PROPERTIES
  NoLostUpdate
  RowSpec
  WaitersGoOn
