CONSTANTS
  Bodies = {old, new}
  Partial = partial
  Absent = absent
  Headers = {0, 1, 60, 61, 3600}
  MaxCalls = 2
SPECIFICATION FairSpec
INVARIANT TypeOK
INVARIANT PatienceBounded
PROPERTY AtomicDownload
PROPERTY CallReturns
CHECK_DEADLOCK FALSE
