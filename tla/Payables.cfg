\* One supplier's invoices, paid and returned, by statements that follow or leave a gap.
SPECIFICATION FairSpec
CONSTANTS
    EUR = EUR  USD = USD
    inv1 = inv1  inv2 = inv2
    NoRun = NoRun
    NoReference = NoReference
    NoBalance = NoBalance
    Suppliers = {s1}
    Customers = {}
    Currencies = {EUR}
    References = {inv1}
    Runs = {}
    Settings = {}
    Bills <- PayableBills
    Sales = {}
    MaxInvoices = 2
    Lines <- PayableLines
    Statements <- FollowingStatements
    ClientNumbers = {}
    MostQuoted = 16
    MostWays = 1048576
    MaxLines = 3
    MaxStatements = 2
INVARIANTS
    SpokenForOnce
    BankAgreesWithOutcome
    OutcomeIsTrue
    NoGapIsInvented
PROPERTIES
    ReopenedWithTheMoney
    StatementIsAnswered
