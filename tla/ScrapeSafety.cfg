SPECIFICATION Spec
CONSTANTS
  Sources = {s1}
  AutoSources = {s1}
  Callers = {c1}
  Tasks = {t1, t2}
  MaxConcurrent = 1
  MaxJobs = 3
  MaxFaults = 1
  MaxRestarts = 1
SYMMETRY Symmetry
INVARIANTS TypeOK PermitLedger ExclusiveRun NoOrphan
PROPERTIES OutcomeFinal BoardSpec
CHECK_DEADLOCK FALSE
