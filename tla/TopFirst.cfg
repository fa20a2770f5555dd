\* By hand: a top that comes before an aggregation does not limit what is counted.
SPECIFICATION AllSpec
CONSTANTS
    Ids = {1, 2}
    Entities <- SomeEntities
    Starts <- SomeStarts
    MaxWrites = 0
    MaxTime = 1
    Null = Null
    AsText <- SomeTexts
    Held <- SomeHeld
    Rowids <- SomeRowids
    Expressions <- SomeExpressions
    Depth <- SomeDepth
    Malformed <- SomeMalformed
    Options <- SomeOptions
    Expansions <- SomeExpansions
    Pipelines <- SomePipelines
    MaxReadsAfter = 0
CHECK_DEADLOCK FALSE
INVARIANT TopComesFirst
