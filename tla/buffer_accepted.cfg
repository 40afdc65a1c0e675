SPECIFICATION Spec
CONSTANTS
  MaxRows = 1
  MaxRetries = 2
  Limit = 1
  Overlap = 2
  MaxFailures = 4
  MaxCrashes = 0
  Rejected = {}
INVARIANTS
  AcceptedNotFailed
