SPECIFICATION LiveSpec
CONSTANTS
  Jobs = {b1, b2, g1}
  Buffered = {b1, b2, g1}
  Garbled = {g1}
  Callers = {c1}
  Drainers = {d1, d2}
  MaxLen = 2
  TargetBacklog = 2
  DrainBatch = 2
  MaxFaults = 1
INVARIANTS
  JobKept
  OneLeader
PROPERTIES
  BufferDrains
