SPECIFICATION Spec
CONSTANTS
  Key = {1, 2}
  Account = {e, a}
  Empty = e
  Absent = Absent
  Start = {a, Absent}
  MaxCalls = 3
  MaxPuts = 2
INVARIANTS
  FindsLatest
  NobodyForgotten
PROPERTIES
  FlushIsComplete
  NoEmptyStays
CHECK_DEADLOCK FALSE
