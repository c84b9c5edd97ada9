SPECIFICATION Spec
CONSTANTS
  a = a
  r1 = r1
  r2 = r2
  c1 = c1
  c2 = c2
  w1 = w1
  d = d
  Items = {a}
  Videos = {}
  MaxJobs = 3
  MaxFaults = 1
  Runs = {r1, r2}
  MaxDownloads = 3
  Workers = {w1}
  DepositAttempts = 1
  Clients = {c1, c2}
  Discoverer = d
  MaxCalls = 3
  MaxRestarts = 1
SYMMETRY Symmetry
ACTION_CONSTRAINT OneMishap
ACTION_CONSTRAINT LastAlone
INVARIANT TypeOK
INVARIANT DownloadOwned
INVARIANT QueuedServed
INVARIANT DocumentsAccounted
INVARIANT DepositOwned
INVARIANT ClaimsHeld
PROPERTY DepositKept
CHECK_DEADLOCK FALSE
