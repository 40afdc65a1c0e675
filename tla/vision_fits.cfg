SPECIFICATION FairSpec
CONSTANTS
  PoolSize = 3
  MaxSize = 3
  MaxFrames = 4
  MaxDefects = 0
INVARIANTS
  PublishedFaithful
  NoLostWakeup
  NoDropWhenPoolFits
PROPERTIES
  ShutdownCompletes
