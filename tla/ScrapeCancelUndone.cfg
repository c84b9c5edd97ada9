SPECIFICATION Spec
CONSTANTS
  Sources = {s1}
  AutoSources = {s1}
  Callers = {c1}
  Tasks = {t1}
  MaxConcurrent = 1
  MaxJobs = 2
  MaxFaults = 0
  MaxRestarts = 0
PROPERTY CancellationSticks
CHECK_DEADLOCK FALSE
