\* Inbound DELVRYs that name two orders, and generated ones, while clients write.
SPECIFICATION Spec
CONSTANTS
    o1 = o1  o2 = o2  i1 = i1  i2 = i2  Anything = Anything  Missing = Missing
    Orders = {o1, o2}
    Items = {i1}
    Quantities = {1, 2}
    Doors = {"idoc", "odata"}
    Tolerance <- AHalf
    Unlimited = Anything
    NoItem = Missing
    Foreign = 99
    MaxDrawn = 2
    MaxIdocs = 2
    MaxChanges = 1
    MaxCrashes = 0
SYMMETRY OrdersAlike
INVARIANTS
    DeliveriesAreTold
    PostedHasMoved
