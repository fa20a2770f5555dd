\* README.md:472: FI writes no document that does not balance.
SPECIFICATION Spec
CONSTANTS
    s1 = s1  p1 = p1  p2 = p2  n1 = n1  n2 = n2
    Suppliers = {s1}  Nobody = Nobody
    Positions = {p1, p2}  NoPosition = NoPosition
    Notes = {n1, n2}  NoNote = NoNote
    Unstated = Unstated  NoReceipt = NoReceipt
    Receipts <- AllReceipts
    Bills <- TooLong
    Postings <- PartsOfCents
    MaxRequests = 1
    MaxCrashes = 0
CHECK_DEADLOCK FALSE
INVARIANT WrittenBalanced
