SPECIFICATION HostSpec
CONSTANTS
  h1 = h1
  Hosts = {h1}
  Pages = {p1, p2}
  Instances = {i1, i2}
  HostOf <- OneHost
  Nobody = Nobody
  Threshold = 1
  PeekMax = 2
  Slots = 1
  MaxTrouble = 1
SYMMETRY Symmetry
CHECK_DEADLOCK FALSE
INVARIANTS
  RepublishedOnce
  OwedIsTracked
PROPERTIES
  ManualBrowserStays
