SPECIFICATION SchedulerSpec
CONSTANTS
  Seeds = {s1}
  Lists = {s1}
  Articles = {a1}
  Workers = {w1, w2}
  MaxPages = 1
  MaxFaults = 1
  Versions = {v1, v2}
  Static = v1
  MaxChanges = 1
INVARIANTS
  OneEntryPerMarker
  CancelledLeaveNoMarker
PROPERTIES
  TableTakesEffect
  EnabledSeedResumes
  ArticleReturnsWhileEnabled
