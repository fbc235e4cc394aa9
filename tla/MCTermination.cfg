SPECIFICATION Spec
CONSTANTS
  Corpora <- ShortCorpora
  byte_max = 2
  kParallelThreshold = 3
  max_threads = 2
  Team = {0, 1}
  FingerprintBytes = 2
  no_position = no_position
PROPERTIES
  MergeLoopEnds
