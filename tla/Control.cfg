\* Requests of two threads under rules that are given, used up, cleared and reset.
SPECIFICATION FairSpec
CONSTANTS
    Threads = {t1, t2}
    NoThread = NoThread
    Pleas <- SomePleas
    Offers <- SomeOffers
    Configs <- SomeConfigs
    MaxRequests = 3
    MaxRules = 1
    MaxTokens = 1
    MaxResets = 1
CHECK_DEADLOCK FALSE
INVARIANTS
    GoodForItsCount
    NothingOutlivesReset
    ServedWasKnown
PROPERTY OneWaitsAlone
