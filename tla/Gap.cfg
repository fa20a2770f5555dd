\* Three statements in a row, one of which may be an interim statement.
SPECIFICATION FairSpec
CONSTANTS
    EUR = EUR  USD = USD
    inv1 = inv1  inv2 = inv2
    NoRun = NoRun
    NoReference = NoReference
    NoBalance = NoBalance
    Suppliers = {}
    Customers = {}
    Currencies = {EUR}
    References = {}
    Runs = {}
    Settings = {}
    Bills = {}
    Sales = {}
    MaxInvoices = 0
    Lines = {}
    Statements <- ChainedStatements
    ClientNumbers = {}
    MostQuoted = 16
    MostWays = 1048576
    MaxLines = 0
    MaxStatements = 3
CHECK_DEADLOCK FALSE
INVARIANT GapIsReported
