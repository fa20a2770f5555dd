CONSTANTS
  a = a
  b = b
  Threads = {a, b}
  NoThread = NoThread
  NoCopy = NoCopy
  Requests <- SetRequests
  Splits = FALSE
  Seeded = 1
  MaxDrawn = 3
  MaxTokens = 2
  MaxResets = 0
  MaxCrashes = 1
SPECIFICATION Spec
PROPERTY Atomic
