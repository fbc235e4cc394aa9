SPECIFICATION Spec
CONSTANTS
  Entries = {1, 2, 3}
  comp <- Below
  Capacity = 8
INVARIANTS
  TypeOK
  SiftOrder
PROPERTIES
  ImplementsPriorityQueue
