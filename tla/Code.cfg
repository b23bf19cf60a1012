SPECIFICATION ExecutionSpec
CONSTANTS
  ByteBits = 2
  WordBytes = 2
  StackLimit = 7
  SafeOffset = 12
  Job <- MCJob
  Env <- MCEnv
  Lookup <- MCLookup
  CallData <- MCCallData
  ExtCode <- MCExtCode
  Answer <- MCAnswer
  Price <- MCPrice
  Keccak <- MCKeccak
  HalfBits = 4
  IV <- MCIV
  PrecompilePrice <- MCPrecompilePrice
  External <- MCExternal
  MaxSize = 8
  BloomBytes = 4
  BloomHash <- MCBloomHash
  Request <- MCRequest
  Addresses <- MCAddresses
  NoRequest = NoRequest
  NoResult = NoResult
INVARIANTS
  TypeOK
  OnBoundary
  MemoryIsCharged
  PrecompileWithinLimit
  ModexpExact
  CompressionExact
  BloomExact
PROPERTIES
  ImplementsMachine
CHECK_DEADLOCK FALSE
