SPECIFICATION Spec
CONSTANTS
  Items = {a, v}
  MaxItems = 1
  Videos = {v}
  MaxJobs = 3
  MaxFaults = 1
  Uploaders = {u1,u2}
  ExtractAttempts = 2
  Workers = {w1}
  DepositAttempts = 2
  Admins = {m1}
  MaxRetries = 1
  MaxRestarts = 1
SYMMETRY Symmetry
ACTION_CONSTRAINT LateCallsAlone
INVARIANT TypeOK
INVARIANT DocumentsAccounted
INVARIANT DepositOwned
INVARIANT RawKept
INVARIANT OneTranscription
INVARIANT AudioOwned
INVARIANT DeletedExpired
INVARIANT ClaimsHeld
CHECK_DEADLOCK FALSE
