SPECIFICATION Spec
CONSTANTS
  TelemetryFrames = 3
  Temps = {60, 65, 76, 90}
  KeepaliveInterval = 3
  KeepaliveTimeout = 8
  KeepaliveMisses = 1
  EdgePoll = 2
  EdgeTimeout = 5
  EdgeIterations = 3
  Limit = 2
  CollectorFrames = 4
  CollectorSets = 2
  CollectorSeconds = 1
  BatchSize = 3
  MaxLoads = 3
  Ranges = {"red", "green"}
  Ratio = 80
  Regions <- SomeRegions
  NumClasses = 3
  Values = {0, 1}
  NotFinite = 99
  Timesteps = 5
  MaxKey = 3
  Faults = {"save", "kill", "power"}
  NumFields = 2
  FieldValues = {0, 1}
  MaxUpdates = 2
  MaxStarts = 2
  ConfigFaults = {"open", "full", "rename", "kill", "power"}
INVARIANTS
  TelemetryInv
  ThermalInv
  WatchdogInv
  EdgeInv
  CollectorInv
  CalibratorInv
  PostProcInv
  DecodedRuns
  KeysInv
  ConfigDurable
PROPERTIES
  TelemetryStopsPromptly
  ConfigSettles
CHECK_DEADLOCK FALSE
