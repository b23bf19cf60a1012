SPECIFICATION Spec
CONSTANTS
  GasLimit = {12}
  Request = {2, 12}
  OpFee = {1}
  CallFee = 2
  CreateFee = 3
  ValueFee = 3
  Stipend = 1
  NewAccountFee = 2
  CreateData = 1
  MemoryFee = 1
  QuadCoeffDiv = 2
  Reserve = 4
  Region <- MCRegion
  SafeOffset = 8
  MaxDepth = 3
INVARIANTS
  MemoryIsPaid
  CalleeIsCovered
  WorkIsPaid
PROPERTIES
  Halts
