\* Two customers' transfers, in full, net or for too many invoices, and their return.
SPECIFICATION FairSpec
CONSTANTS
    EUR = EUR  USD = USD
    inv1 = inv1  inv2 = inv2
    NoRun = NoRun
    NoReference = NoReference
    NoBalance = NoBalance
    Suppliers = {}
    Customers = {c1, c2}
    Currencies = {EUR}
    References = {}
    Runs = {}
    Settings = {}
    Bills = {}
    Sales <- ReceivableSales
    MaxInvoices = 3
    Lines <- CustomerLines
    Statements <- DatedStatements
    ClientNumbers = {}
    MostQuoted = 2
    MostWays = 6
    MaxLines = 2
    MaxStatements = 2
CHECK_DEADLOCK FALSE
INVARIANTS
    ClearingSound
    EveryLineIsAnswered
    OpenItemsAreTheBalance
PROPERTIES
    OnlyEarnedDiscountsAreWrittenOff
