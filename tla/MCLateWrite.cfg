SPECIFICATION Spec
CONSTANTS
  Files <- SomeFiles
  Rooms = {0, 1, 2, 3, 9}
  SlotLimit = 10
  StreamBuffer = 2
  Separators = {0, 3}
  FingerprintBytes = 2
INVARIANTS
  SuccessMeansWhole
