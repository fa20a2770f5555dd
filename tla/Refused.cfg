\* Two suppliers paid by one statement, and a client who numbers an entry itself.
SPECIFICATION Spec
CONSTANTS
    EUR = EUR  USD = USD
    inv1 = inv1  inv2 = inv2
    NoRun = NoRun
    NoReference = NoReference
    NoBalance = NoBalance
    Suppliers = {s1, s2}
    Customers = {}
    Currencies = {EUR}
    References = {inv1, inv2}
    Runs = {}
    Settings = {}
    Bills <- PayableBills
    Sales = {}
    MaxInvoices = 2
    Lines <- RefusedLines
    Statements <- PlainStatements
    ClientNumbers = {4}
    MostQuoted = 16
    MostWays = 1048576
    MaxLines = 2
    MaxStatements = 1
INVARIANT RefusedStatementClearsNothing
