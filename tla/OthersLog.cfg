CONSTANTS
  a = a
  b = b
  Threads = {a, b}
  NoThread = NoThread
  NoCopy = NoCopy
  Requests <- AllRequests
  Splits = FALSE
  Seeded = 1
  MaxDrawn = 3
  MaxTokens = 2
  MaxResets = 1
  MaxCrashes = 0
SPECIFICATION Spec
INVARIANT LogIsOfThisReset
