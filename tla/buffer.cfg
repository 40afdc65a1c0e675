SPECIFICATION FairSpec
CONSTANTS
  MaxRows = 3
  MaxRetries = 2
  Limit = 2
  Overlap = 2
  MaxFailures = 2
  MaxCrashes = 1
  Rejected <- OneRejected
INVARIANTS
  FailedAfterMaxRetries
PROPERTIES
  ImplementsOutbox
  AcceptableRowsSettle
