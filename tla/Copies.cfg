\* By hand: what clients and readers keep of orders, and are told of them.  Of the
\* invariants, which the code does not keep, one is checked and four are commented out.
SPECIFICATION Spec
CONSTANTS
    o1 = o1  o2 = o2  i1 = i1  i2 = i2
    c1 = c1  c2 = c2  r1 = r1  r2 = r2
    open = open  done = done
    NoEntity = NoEntity  NoLink = NoLink
    NoOrder = NoEntity
    NoToken = NoLink
    Fields = {open, done}
    Orders = {o1, o2}
    Items = {i1}
    Amounts = {5}
    Clients = {c1}
    Readers = {r1}
    Filters <- BothFilters
    MaxTime = 2
    MaxWrites = 3
SYMMETRY Alike
INVARIANT TotalsAreReported
\* INVARIANT PagesAreReported
\* INVARIANT LeaversAreReported
\* INVARIANT RemovedHasGone
\* INVARIANT EtagMovesWithTheEntity
