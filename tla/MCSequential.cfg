SPECIFICATION Spec
CONSTANTS
  Corpora <- PairCorpora
  byte_max = 2
  kParallelThreshold = 100
  max_threads = 2
  Team = {0, 1}
  FingerprintBytes = 2
  no_position = no_position
INVARIANTS
  TypeOK
  CountsExact
  TokenCountsExact
  ListsExact
  GroupsExact
  QueueCovers
  TextsUnique
PROPERTIES
  ImplementsGreedyBPE
  OnlyNewbornsGrow
