SPECIFICATION FairSpec
CONSTANTS
  Items = {a}
  MaxItems = 1
  Videos = {}
  MaxJobs = 2
  MaxFaults = 0
  Uploaders = {u1}
  ExtractAttempts = 1
  Workers = {w1, w2}
  DepositAttempts = 1
  Admins = {m1}
  MaxRetries = 1
  MaxRestarts = 1
PROPERTY TranscribedSettles
PROPERTY TranscriptionAnswered
PROPERTY SlotsEnd
PROPERTY PoolSpec
CHECK_DEADLOCK FALSE
