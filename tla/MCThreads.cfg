SPECIFICATION Spec
CONSTANTS
  Corpora <- ThreadCorpora
  byte_max = 2
  kParallelThreshold = 4
  max_threads = 2
  Team = {0, 1}
  FingerprintBytes = 2
  no_position = no_position
INVARIANTS
  ResultIsGreedy
  CountsExact
  ListsExact
  GroupsSafe
  NoAbort
  RoundUsesUpPair
  ChainIntact
  HeldFresh
  WordsNotShared
  NothingMergedAhead
PROPERTIES
  ImplementsGreedyBPE
