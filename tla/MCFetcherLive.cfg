SPECIFICATION LiveSpec
CONSTANTS
  NumJobs = 2
  Workers = {w1, w2}
  MaxRetries = 1
  ChanCap = 1
  MaxLog = 4
  MaxRestarts = 0
CHECK_DEADLOCK FALSE
PROPERTIES
  JobSettles
