SPECIFICATION FairSpec
CONSTANTS
  a = a
  b = b
  c = c
  f = f
  d = d
  x = x
  Names = {a, b, c}
  Files = {f}
  Dirs = {d}
  Shares = {}
  NoEntry = NoEntry
  Home <- MCHome
  MaxOperations = 1
  MaxFaults = 1
  MaxExternal = 0
  MaxCrashes = 1
PROPERTIES StaleManifestHarmless
CHECK_DEADLOCK FALSE
