\* An export in separate mode, then one merged to a download and one kept in the archive.
SPECIFICATION MCFairSpec
CONSTANTS
  split = split
  merged = merged
  kept = kept
  Job = {split, merged, kept}
  Part <- TwoFiles
  Merge = {merged, kept}
  Archive = {kept}
  Attempts = 2
  Streams = 1
INVARIANTS
  Evidence
  FailedLeavesNothing
  SuccessKeepsFiles
PROPERTIES
  DownloadsKeepFiles
  ForeignFilesStay
  ExpiredFilesGo
