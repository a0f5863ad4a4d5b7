SPECIFICATION OnbFairSpec
CONSTANTS
  v1 = v1
  v2 = v2
  i1 = i1
  s1 = s1
  s2 = s2
  r1 = r1
  r2 = r2
  u1 = u1
  u2 = u2
  w1 = w1
  w2 = w2
  None = None
  Visitors = {v1, v2}
  Ips = {i1}
  IpOf <- MCIpOf
  Sessions = {s1}
  Requests = {r1, r2}
  Users = {u1}
  Workspaces = {w1, w2}
  Limit = 1
INVARIANTS
  OnbTypeOK
  RateLimitHolds
  LandsInOwnWorkspace
  ReadyMeansEnded
PROPERTIES
  WaitingPageLearns
CHECK_DEADLOCK FALSE
