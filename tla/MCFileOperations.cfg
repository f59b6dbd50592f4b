SPECIFICATION Spec
CONSTANTS
  a = a
  b = b
  c = c
  f = f
  d = d
  x = x
  Names = {a, b, c}
  Files = {f, x}
  Dirs = {d}
  Shares = {s1}
  NoEntry = NoEntry
  Home <- MCHome
  MaxOperations = 1
  MaxFaults = 2
  MaxExternal = 1
  MaxCrashes = 1
INVARIANTS StorageAgrees NothingLost DurableReply
CHECK_DEADLOCK FALSE
