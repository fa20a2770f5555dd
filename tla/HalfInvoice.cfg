\* README.md:635: an IDoc that does not post owes nobody anything.
SPECIFICATION Spec
CONSTANTS
    s1 = s1  p1 = p1  p2 = p2  n1 = n1  n2 = n2
    Suppliers = {s1}  Nobody = Nobody
    Positions = {p1, p2}  NoPosition = NoPosition
    Notes = {n1, n2}  NoNote = NoNote
    Unstated = Unstated  NoReceipt = NoReceipt
    Receipts <- AllReceipts
    Bills <- TooLong
    Postings <- WholeCents
    MaxRequests = 3
    MaxCrashes = 0
CHECK_DEADLOCK FALSE
INVARIANT RefusedOwesNothing
