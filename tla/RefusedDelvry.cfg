\* README.md:480: a DELVRY that ends in 51 creates no delivery.
SPECIFICATION Spec
CONSTANTS
    o1 = o1  o2 = o2  i1 = i1  i2 = i2  Anything = Anything  Missing = Missing
    Orders = {o1, o2}
    Items = {i1}
    Quantities = {1, 2}
    Doors = {"idoc"}
    Tolerance <- None
    Unlimited = Anything
    NoItem = Missing
    Foreign = 99
    MaxDrawn = 2
    MaxIdocs = 1
    MaxChanges = 0
    MaxCrashes = 0
INVARIANTS
    RefusedCreatesNothing
