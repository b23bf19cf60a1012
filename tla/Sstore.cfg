SPECIFICATION SstoreSpec
CONSTANTS
  Slot = {s, t}
  Value = {0, 1, 2}
  Zero = 0
  Unread = Unread
  Fork = {"petersburg", "constantinople", "istanbul"}
  NetMetered = {"constantinople", "istanbul"}
  Fee <- MCFee
  MaxMessages = 2
  MaxWrites = 4
INVARIANTS
  OriginalIsStart
  RefundSuffices
  CostIsNet
