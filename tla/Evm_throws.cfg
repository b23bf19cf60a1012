SPECIFICATION FairSpec
CONSTANTS
  NoAddress = NoAddress
  NoMessage = NoMessage
  NoResult = NoResult
  Address = {em, osm, p}
  EM = em
  OSM = osm
  Precompile = {p}
  Contract = {em, osm}
  Funded = {em}
  Value = {0, 1}
  MaxBalance = 1
  Unfunded = TRUE
  Throws = TRUE
  StackLimit = 1
  MaxSteps = 1
  MaxNonce = 1
  MaxSaved = 3
INVARIANTS
  CheckpointsSuffice
PROPERTIES
  Terminates
CHECK_DEADLOCK FALSE
