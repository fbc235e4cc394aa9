SPECIFICATION Task1Spec
CONSTANTS
  Separators = {0, 2}
  Inputs <- ShortInputs
  Base = 8
  ChunkBytes = 3
  limit = 3
  Folded <- SumModThree
INVARIANTS
  TypeOK
  NoSeparatorSkipped
  WordsExact
  WordCountsExact
