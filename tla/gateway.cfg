SPECIFICATION FairSpec
CONSTANTS
  MaxBuffer = 3
  Attempts = 2
  MaxEntries = 5
  Bad <- OneBad
INVARIANTS
  EntriesOnce
  ShutdownAccounts
  NoEvictionWithoutPressure
PROPERTIES
  ImplementsOutbox
  GracefulExit
  EntriesSettle
