SPECIFICATION Spec
CONSTANTS
  Corpora <- ThreadCorpora
  byte_max = 2
  kParallelThreshold = 3
  max_threads = 2
  Team = {0}
  FingerprintBytes = 2
  no_position = no_position
INVARIANTS
  RegionMergesAll
