SPECIFICATION Spec
CONSTANTS
    Users = {u1, u2}
    Emails = {e1, e2}
    NoEmail = NoEmail
    NoUser = NoUser
    Codes = {c1, c2}
    NoCode = NoCode
    Procs = {p1, p2}
    MaxCalls = 4
    MaxFailures = 1
CHECK_DEADLOCK FALSE
SYMMETRY Symmetric
INVARIANTS
    VerifiedAddressesProven
    AddressedRight
    CodesWorkOnce
    MembersAreEquipped
    SweptAreUnverified
