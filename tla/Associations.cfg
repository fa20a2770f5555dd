\* Entities created, changed, deleted and linked, with what hangs off them; and read.
SPECIFICATION AllSpec
CONSTANTS
    Ids = {1, 2}
    Entities <- SomeEntities
    Starts <- SomeStarts
    MaxWrites = 3
    MaxTime = 1
    Null = Null
    AsText <- SomeTexts
    Held <- SomeHeld
    Rowids <- SomeRowids
    Expressions <- SomeExpressions
    Depth <- SomeDepth
    Malformed <- SomeMalformed
    Options <- SomeOptions
    Expansions <- SomeExpansions
    Pipelines <- SomePipelines
    MaxReadsAfter = 0
CHECK_DEADLOCK FALSE
INVARIANTS
    NothingIsOrphaned
    FilterMeansWhatItSays
    PageIsItsShare
    AggregateAddsUp
PROPERTY NothingGoesUnseen
