SPECIFICATION Spec
CONSTANTS
  NumSlaves = 2
  MaxRounds = 1
  MaxLate = 1
  MaxNoise = 0
INVARIANTS
  NodesCarryTheirOwn
