SPECIFICATION Spec
CONSTANTS
  Corpora <- Corpora2
  Versions = {"task2", "v3"}
  byte_max = 2
  kParallelThreshold = 3
  max_threads = 2
  Team = {0, 1}
  FingerprintBytes = 2
  no_position = no_position
INVARIANTS
  CountsExact
  LiveEdgesGrouped
  RoundDrainsPair
PROPERTIES
  ImplementsGreedyBPE
