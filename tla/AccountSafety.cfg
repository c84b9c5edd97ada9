SPECIFICATION Spec
CONSTANTS
  Wallets = {w}
  Secrets = {s}
  Keys = {k1, k2}
  Credentials = {d}
  Callers = {c1, c2}
  Monitor = m
  MaxCalls = 2
  MaxFaults = 1
  MaxPolls = 1
SYMMETRY Symmetry
ACTION_CONSTRAINT TwoAtATime
INVARIANT TypeOK
INVARIANT SurvivorKeepsValue
INVARIANT NoOrphanValue
PROPERTY PrimaryKept
CHECK_DEADLOCK FALSE
