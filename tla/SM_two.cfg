SPECIFICATION Spec
CONSTANTS
  NoAccount = NoAccount
  NoEntry = NoEntry
  NoTrie = NoTrie
  Address = {a1, a2}
  Body = {b0, b1}
  EmptyBody = b0
  Slot = {s1}
  Val = {v0, v1}
  Zero = v0
  Ripemd = a2
  Destructible = {a1}
  Codeless = {a1}
  GenesisAddress = {a1}
  GenesisBody = b1
  MaxDepth = 1
  MaxRoots = 0
INVARIANTS
  StorageNeedsBody
  NoEmptyEscapes
PROPERTIES
  RipemdStaysTouched
