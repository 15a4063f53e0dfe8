SPECIFICATION FetchSpec
CONSTANTS
  i1 = i1
  i2 = i2
  a1 = a1
  a2 = a2
  b1 = b1
  x1 = x1
  a = a
  b = b
  Intakes = {i1, i2}
  Consumers = {c1, c2}
  Messages = {a1, a2, b1, x1}
  Log <- MCLog
  IdOf <- MCIdOf
  RankOf <- MCRankOf
  Bare = {a1}
  NoId = NoId
  Nothing = Nothing
  MaxSize = 1
  MaxFaults = 1
  s1 = s1
  s2 = s2
  s3 = s3
  n1 = n1
  n2 = n2
  Sites = {s1, s2, s3}
  Addresses = {n1, n2}
  AddressOf <- SharedAddress
  Callers = {g1, g2}
  Burst = 1
  MaxUpsets = 2
SYMMETRY ConsumerAndCallerSymmetry
CHECK_DEADLOCK FALSE
INVARIANTS
  OwnHeaders
  CommittedIsKept
  OpenForAReason
