SPECIFICATION Spec
CONSTANTS
  Call = {v}
  em = em osm = osm gen = gen
  good = good failing = failing overflowing = overflowing bad = bad
  b1 = b1 b2 = b2 c2 = c2 c3 = c3 x1 = x1 h1 = h1 g1 = g1 o1 = o1 g2 = g2 m1 = m1
  Account = {em, osm, gen}
  Dump <- MCDump
  GenesisAccount = {gen}
  Tx = {good, failing, overflowing, bad}
  Outcome <- MCOutcome
  Writes <- MCWrites
  GasLimit <- MCGasLimit
  Consumed <- MCConsumed
  Refund <- MCRefund
  Block = {b1, o1}
  Genesis = Genesis
  Parent <- MCParent
  Number <- MCNumber
  Transactions <- MCTransactions
  Coinbase <- MCCoinbase
  BlockGasLimit <- MCBlockGasLimit
  HeaderRoot <- MCHeaderRoot
  HeaderGas <- MCHeaderGas
  Malformed = {}
  MaxCalls = 2
  UnknownRoot = UnknownRoot
  NoRoot = NoRoot
  NoTx = NoTx
  NoBlock = NoBlock
INVARIANTS
  GenerateReverts
CHECK_DEADLOCK FALSE
