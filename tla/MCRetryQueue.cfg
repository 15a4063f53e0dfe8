SPECIFICATION LiveSpec
CONSTANTS
  Jobs = {j1}
  Workers = {w1}
  Schedulers = {s1, s2}
  MaxRetries = 2
  MaxFaults = 2
CHECK_DEADLOCK FALSE
INVARIANTS
  OwedIsKept
  PublishedOnceEach
PROPERTIES
  OwedIsPublished
