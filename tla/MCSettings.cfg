\* Two roots with a file each; refreshes that overtake each other, or one of them, an
\* opening of a source and two updates.
SPECIFICATION MCSpec
CONSTANTS
  f1 = f1
  f2 = f2
  r1 = r1
  r2 = r2
  c1 = c1
  c2 = c2
  o1 = o1
  u1 = u1
  u2 = u2
  v1 = v1
  v2 = v2
  None = None
  Root = {r1, r2}
  File = {f1, f2}
  RootOf <- RootOfEach
  Version = {v1, v2}
  Refresh = {c1, c2}
  Open = {o1}
  MaxFiles <- AllowFiles
  Setting = {1, 2}
  Update = {u1, u2}
  MaxRevision = 2
INVARIANTS
  LiveIsStored
  StatusOfNewest
  NobodyIsStuck
PROPERTIES
  ServedAsIndexed
