SPECIFICATION Spec
CONSTANTS
  Separators = {0, 1}
  Inputs <- SmallInputs
  max_threads = 3
  Team = {0, 1}
INVARIANTS
  SplitExact
