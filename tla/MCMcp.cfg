\* Two requests, with a credential each; one session at a time, one slot, two projects.
SPECIFICATION MCSpec
CONSTANTS
  c1 = c1
  c2 = c2
  m1 = m1
  m2 = m2
  p1 = p1
  p2 = p2
  q1 = q1
  q2 = q2
  s1 = s1
  s2 = s2
  None = None
  Credential = {c1, c2}
  Permissions <- Grants
  MediaScope <- Media_
  Limitless = {c2}
  Media = {m1, m2}
  RootOf <- Roots
  Project = {p1, p2}
  Request = {q1, q2}
  Session = {s1, s2}
  MaxSessions = 1
  MaxConcurrentRequests = 1
  RequestsPerMinute = 3
  SessionTTL = 2
  ScopeIDLimit = 2
  MaxAudit = 1
INVARIANTS
  WithinLimits
  ScopesHold
PROPERTIES
  SessionsAreKept
  CallsAreEntitled
