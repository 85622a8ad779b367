SPECIFICATION Spec
CONSTANTS
    Users = {u1, u2}
    Accounts = {a1, a2}
    NoAccount = NoAccount
    NoUser = NoUser
    Procs = {p1, p2}
    Amounts <- MCAmounts
    Shares = {10000}
    InitialBalance <- MCBalance
    InitialEarnings = 10000
    InitialFunds = 20000
    MaxIncomes = 1
    MaxFailures = 1
CHECK_DEADLOCK FALSE
SYMMETRY Symmetric
INVARIANTS
    TransfersReachOwners
    OverdraftTakesTwo
    PayoutsAreDebited
PROPERTIES
    AccountIsStable
