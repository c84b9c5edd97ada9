SPECIFICATION FairSpec
CONSTANTS
  Items = {v}
  MaxItems = 1
  Videos = {v}
  MaxJobs = 2
  MaxFaults = 0
  Uploaders = {u1}
  ExtractAttempts = 1
  Workers = {w1}
  DepositAttempts = 1
  Admins = {m1}
  MaxRetries = 1
  MaxRestarts = 0
PROPERTY ExtractionEnds
CHECK_DEADLOCK FALSE
