\* A cached preview is asked for again, and that request is cancelled.
SPECIFICATION Spec
CONSTANTS
  a = a
  b = b
  r1 = r1
  r2 = r2
  r3 = r3
  Request = {r1, r2, r3}
  Key = {a, b}
  KeyOf <- TwoOfA
  Size <- Sizes
  Other = {}
  ByteLimit = {2}
  SlotLimit = {1}
  None = None
PROPERTY
  CancelledOpenKeepsEntry
