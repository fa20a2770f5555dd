CONSTANTS
  a = a
  b = b
  Threads = {a, b}
  NoThread = NoThread
  NoCopy = NoCopy
  Requests <- AllRequests
  Splits = TRUE
  Seeded = 1
  MaxDrawn = 3
  MaxTokens = 1
  MaxResets = 1
  MaxCrashes = 1
SPECIFICATION FairSpec
INVARIANTS  NumbersAreFresh WritersAreAdmitted
PROPERTIES Atomic LockIsLetGo
