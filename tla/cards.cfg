SPECIFICATION Spec
CONSTANTS
    Users = {u1}
    NoUser = NoUser
    CardIds = {c1, c2}
    NoCard = NoCard
    Customers = {k1, k2, k3}
    NoCustomer = NoCustomer
    Procs = {p1, p2}
    MaxCalls = 6
    MaxRepeats = 1
    MaxCrashes = 1
CHECK_DEADLOCK FALSE
SYMMETRY Symmetric
INVARIANTS
    CustomersAreKept
    CardsSettle
    DefaultSettles
