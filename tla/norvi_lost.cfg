SPECIFICATION Spec
CONSTANTS
  QueueSize = 2
  Chunk = 2
  WdtSeconds = 2
  MaxEvents = 1
  MaxDrops = 1
  MaxResets = 0
  MaxFaults = 0
INVARIANTS
  SpoolKept
