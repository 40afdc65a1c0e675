SPECIFICATION FairSpec
CONSTANTS
  QueueSize = 2
  Chunk = 2
  WdtSeconds = 2
  MaxEvents = 3
  MaxDrops = 1
  MaxResets = 1
  MaxFaults = 1
INVARIANTS
  SpoolOrdered
  SpooledNotLost
PROPERTIES
  ChronologicalOrder
  SpoolDrains
