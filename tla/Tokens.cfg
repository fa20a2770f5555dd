SPECIFICATION FairSpec
CONSTANTS
    t1 = t1
    t2 = t2
    Real = Real
    Threads <- Two
    Ttl = 1
    Start = 1
    NoStart = Real
    Day = 2
    MostDays = 1
    MaxTokens = 2
    MaxTime = 3
INVARIANTS
    SpentIsGone
PROPERTIES
    ExpiredForGood
    RequestIsAnswered
