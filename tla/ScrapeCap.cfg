SPECIFICATION Spec
CONSTANTS
  Sources = {s1}
  AutoSources = {}
  Callers = {c1}
  Tasks = {t1, t2}
  MaxConcurrent = 1
  MaxJobs = 2
  MaxFaults = 1
  MaxRestarts = 0
INVARIANT CapRespected
CHECK_DEADLOCK FALSE
