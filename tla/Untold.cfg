\* README.md:324: a rollback that follows a call which wrote something answers E.
SPECIFICATION Spec
CONSTANTS
    o1 = o1  o2 = o2  i1 = i1  i2 = i2  Anything = Anything  Missing = Missing
    Orders = {o1}
    Items = {i1}
    Quantities = {1, 2}
    Doors = {"rfc"}
    Tolerance <- None
    Unlimited = Anything
    NoItem = Missing
    Foreign = 99
    MaxDrawn = 2
    MaxIdocs = 0
    MaxChanges = 1
    MaxCrashes = 0
PROPERTIES
    RollbackTellsTheTruth
