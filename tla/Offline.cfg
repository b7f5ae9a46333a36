SPECIFICATION OfflineSpec
CONSTANTS
    Sources <- MCSources
    Month <- MCMonth
    Accounts <- MCAccounts
    Cards <- MCCards
    Alias = "old"
    Refused = Refused
    Unplanned = Unplanned
    Cases <- MCCases
    Carried <- MCCarried
    Runners = {r1, r2}
    Stray = "stray"
    Baseline <- MCBaseline
    MaxAttempts = 2
    MaxPosts = 1
    MaxChanges = 2
    Operators = {o1, o2}
    Expenses = {"e1", "e2"}
    MaxRuns = 3
    MaxLive = 2
    LedgerBooks = {"b1", "b2"}
    Purses = {"cash", "food"}
    MaxRecorded = 3
    MaxReports = 2
INVARIANTS RepairsMoveTheExpense RerunsVerify ReportsAreTrue
PROPERTIES PlansAgree ImportIsFaithful
CHECK_DEADLOCK FALSE
