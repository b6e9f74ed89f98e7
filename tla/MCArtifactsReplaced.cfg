\* A download that has expired and whose file was replaced.
SPECIFICATION AloneSpec
CONSTANTS
  merged = merged
  split = split
  kept = kept
  Job = {merged}
  Part <- OneFile
  Merge = {merged}
  Archive = {}
  Attempts = 1
  Streams = 1
PROPERTY
  ReplacementsStay
