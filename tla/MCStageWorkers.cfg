SPECIFICATION MCSpec
CONSTANTS
  Urls = {u1, u2}
  Seeds = {u1}
  Consumers = {w1, w2}
  Unheld = Unheld
  Orphan = Orphan
  Bodies = {news, spam}
  Spam = {spam}
  BrowserUrls = {u2}
  MaxRaw = 3
  MaxReparse = 1
  MaxRetry = 1
  MaxSkips = 1
  MaxFaults = 1
SYMMETRY WorkerSymmetry
CHECK_DEADLOCK FALSE
INVARIANTS
  ArticleAccounted
  SingleCopy
  RawCleared
  ReparseLimitKept
