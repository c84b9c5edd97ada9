SPECIFICATION Spec
CONSTANTS
  Items = {v}
  MaxItems = 1
  Videos = {v}
  MaxJobs = 1
  MaxFaults = 0
  Uploaders = {u1,u2}
  ExtractAttempts = 1
  Workers = {w1}
  DepositAttempts = 1
  Admins = {m1}
  MaxRetries = 0
  MaxRestarts = 0
SYMMETRY Symmetry
PROPERTY PipelineRowKept
CHECK_DEADLOCK FALSE
