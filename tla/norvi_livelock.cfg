SPECIFICATION FairSpec
CONSTANTS
  QueueSize = 2
  Chunk = 1
  WdtSeconds = 2
  MaxEvents = 2
  MaxDrops = 0
  MaxResets = 0
  MaxFaults = 0
PROPERTIES
  SpoolReplayed
