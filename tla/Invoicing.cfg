\* Receipts, bills over both doors and documents, and a stop between any two commits.
SPECIFICATION Spec
CONSTANTS
    s1 = s1  p1 = p1  p2 = p2  n1 = n1  n2 = n2
    Suppliers = {s1}  Nobody = Nobody
    Positions = {p1, p2}  NoPosition = NoPosition
    Notes = {n1, n2}  NoNote = NoNote
    Unstated = Unstated  NoReceipt = NoReceipt
    Receipts <- AllReceipts
    Bills <- OkBills
    Postings <- WholeCents
    MaxRequests = 3
    MaxCrashes = 1
CHECK_DEADLOCK FALSE
INVARIANTS
    InvoiceHasItsPayable
    OutcomeIsWhatWasPosted
    BilledWasReceived
