SPECIFICATION FairSpec
CONSTANTS
  Sources = {s1}
  AutoSources = {}
  Callers = {c1}
  Tasks = {t1, t2}
  MaxConcurrent = 2
  MaxJobs = 2
  MaxFaults = 0
  MaxRestarts = 1
PROPERTIES JobsSettle DiscoveryAnswered
CHECK_DEADLOCK FALSE
