SPECIFICATION Spec
CONSTANTS
  NoAddress = NoAddress
  NoMessage = NoMessage
  NoResult = NoResult
  Address = {em, osm, c}
  EM = em
  OSM = osm
  Precompile = {}
  Contract = {em, osm}
  Funded = {c}
  Value = {0, 1}
  MaxBalance = 2
  Unfunded = FALSE
  Throws = FALSE
  StackLimit = 2
  MaxSteps = 3
  MaxNonce = 1
  MaxSaved = 4
INVARIANTS
  CheckpointsMatch
  ContractFresh
  StaticMovesNothing
  NoEtherCreated
PROPERTIES
  ImplementsJournal
