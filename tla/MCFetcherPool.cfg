SPECIFICATION Spec
CONSTANTS
  NumJobs = 2
  Workers = {w1, w2}
  MaxRetries = 1
  ChanCap = 1
  MaxLog = 3
  MaxRestarts = 1
SYMMETRY WorkerSymmetry
CHECK_DEADLOCK FALSE
INVARIANTS
  JobAccounted
  RetriesWithinBudget
