SPECIFICATION Spec
CONSTANTS
    t1 = t1
    t2 = t2
    Real = Real
    Threads <- Two
    Ttl = 1
    Start = Real
    NoStart = Real
    Day = 2
    MostDays = 1
    MaxTokens = 3
    MaxTime = 1
SYMMETRY Either
INVARIANTS
    RotatesOnce
