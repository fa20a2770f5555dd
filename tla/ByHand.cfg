\* By hand: a client that sets an open item itself parts it from its invoice.
SPECIFICATION Spec
CONSTANTS
    EUR = EUR  USD = USD
    inv1 = inv1  inv2 = inv2
    NoRun = NoRun
    NoReference = NoReference
    NoBalance = NoBalance
    Suppliers = {s1, s2}
    Customers = {}
    Currencies = {EUR, USD}
    References = {inv1, inv2}
    Runs = {run1}
    Settings <- MixedSettings
    Bills <- MixedBills
    Sales = {}
    MaxInvoices = 2
    Lines <- MixedLines
    Statements <- PlainStatements
    ClientNumbers = {4}
    MostQuoted = 16
    MostWays = 1048576
    MaxLines = 2
    MaxStatements = 1
INVARIANT RowsAgree
