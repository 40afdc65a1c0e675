SPECIFICATION FairSpec
CONSTANTS
  PoolSize = 2
  MaxSize = 1
  MaxFrames = 3
  MaxDefects = 1
INVARIANTS
  SlotOwnership
  FrameAccounting
  ShutdownOrdered
PROPERTIES
  ImplementsChannel
