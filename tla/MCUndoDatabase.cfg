SPECIFICATION Spec
CONSTANTS
  k1 = k1
  k2 = k2
  d1 = d1
  d2 = d2
  idx = idx
  Absent = Absent
  Index <- MCIndex
  Key <- MCKey
  Data <- MCData
  MaxSizes <- MCMaxSizes
  MaxInstances = 2
  MaxNesting = 3
  MaxStack = 3
INVARIANTS
  RollbackExact
  RollbackNeverThrows
  SessionsBacked
PROPERTIES
  SnapshotSpec
SYMMETRY Symmetry
