\* README.md:254: writes of links re-point the foreign key - of the link they name.
SPECIFICATION Spec
CONSTANTS
    Ids = {1, 2}
    Entities <- SomeEntities
    Starts <- SomeStarts
    MaxWrites = 2
    MaxTime = 0
CHECK_DEADLOCK FALSE
PROPERTY UnlinksItsOwn
