SPECIFICATION Spec
CONSTANTS
  Sources = {s1}
  AutoSources = {}
  Callers = {c1}
  Tasks = {t1}
  MaxConcurrent = 1
  MaxJobs = 1
  MaxFaults = 0
  MaxRestarts = 1
INVARIANT FailedDiscoveryReported
CHECK_DEADLOCK FALSE
