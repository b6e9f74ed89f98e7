\* A success with two files, one of which somebody moves away.
SPECIFICATION AloneSpec
CONSTANTS
  merged = merged
  split = split
  kept = kept
  Job = {split}
  Part <- TwoFiles
  Merge = {}
  Archive = {}
  Attempts = 1
  Streams = 1
INVARIANT
  UntouchedOutputsStay
