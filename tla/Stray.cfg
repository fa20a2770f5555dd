\* README.md:411: the status is what every delivery against the order adds up to.
SPECIFICATION Spec
CONSTANTS
    o1 = o1  o2 = o2  i1 = i1  i2 = i2  Anything = Anything  Missing = Missing
    Orders = {o1}
    Items = {i1}
    Quantities = {1, 2}
    Doors = {"rfc"}
    Tolerance <- None
    Unlimited = Anything
    NoItem = Missing
    Foreign = 99
    MaxDrawn = 1
    MaxIdocs = 0
    MaxChanges = 0
    MaxCrashes = 0
INVARIANTS
    StatusIsOfTheDeliveries
