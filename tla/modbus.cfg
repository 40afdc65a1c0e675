SPECIFICATION Spec
CONSTANTS
  NumSlaves = 3
  MaxRounds = 2
  MaxLate = 2
  MaxNoise = 1
INVARIANTS
  FaultsIsolated
  
  BacklogBounded
