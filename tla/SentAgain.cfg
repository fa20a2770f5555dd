\* README.md:407: a DELVRY creates a delivery only if it announces one never seen.
SPECIFICATION Spec
CONSTANTS
    o1 = o1  o2 = o2  i1 = i1  i2 = i2  Anything = Anything  Missing = Missing
    Orders = {o1}
    Items = {i1}
    Quantities = {1}
    Doors = {"idoc"}
    Tolerance <- AHalf
    Unlimited = Anything
    NoItem = Missing
    Foreign = 99
    MaxDrawn = 2
    MaxIdocs = 2
    MaxChanges = 0
    MaxCrashes = 0
INVARIANTS
    SeenIsNotCreatedAgain
