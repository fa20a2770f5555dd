\* Deliveries of one order over RFC, with client changes and a crash.
SPECIFICATION Spec
CONSTANTS
    o1 = o1  o2 = o2  i1 = i1  i2 = i2  Anything = Anything  Missing = Missing
    Orders = {o1}
    Items = {i1, i2}
    Quantities = {0, 1}
    Doors = {"rfc", "odata"}
    Tolerance <- AHalfAndAny
    Unlimited = Anything
    NoItem = Missing
    Foreign = 99
    MaxDrawn = 3
    MaxIdocs = 0
    MaxChanges = 1
    MaxCrashes = 1
INVARIANTS
    StatusAddsUp
    NoFalseAlarm
PROPERTIES
    WithinTolerance
