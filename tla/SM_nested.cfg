SPECIFICATION Spec
CONSTANTS
  NoAccount = NoAccount
  NoEntry = NoEntry
  NoTrie = NoTrie
  Address = {a1}
  Body = {b0, b1}
  EmptyBody = b0
  Slot = {s1}
  Val = {v0, v1}
  Zero = v0
  Ripemd = a1
  Destructible = {}
  Codeless = {}
  GenesisAddress = {}
  GenesisBody = b1
  MaxDepth = 3
  MaxRoots = 2
INVARIANTS
  CheckpointsAligned
  CacheCoherent
  StorageCoherent
PROPERTIES
  DurableAtLastCheckpoint
  ImplementsLedger
