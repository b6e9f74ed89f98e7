\* A proposal of a project with two sources, an attended and an unattended credential,
\* two calls.
SPECIFICATION Spec
CONSTANTS
  p1 = p1
  i1 = i1
  i2 = i2
  Proposal = {p1}
  OfProject = {p1}
  Item = {i1, i2}
  ItemsOf <- TwoItems
  v1 = v1
  v2 = v2
  c1 = c1
  c2 = c2
  Version = {v1, v2}
  MaxRevision = 2
  Credential = {k1, k2}
  Unattended = {k2}
  Call = {c1, c2}
  None = None
SYMMETRY Symmetric
INVARIANTS
  Consent
  StartsOnlyWhatHeld
  OneBatchPerProposal
