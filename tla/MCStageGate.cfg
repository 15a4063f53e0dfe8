SPECIFICATION LiveSpec
CONSTANTS
  w3 = w3
  p1 = p1
  p2 = p2
  Workers = {w1, w2, w3}
  Pods = {p1, p2}
  PodOf <- MCPodOf
  Urls = {u1}
  Tokens = {t1, t2, t3}
  NoToken = NoToken
  Capacity = 1
  Free = Free
  Stray = Stray
  NoUrl = NoUrl
INVARIANTS
  PermitsAccounted
PROPERTIES
  AcquireEnds
  LeaseKept
