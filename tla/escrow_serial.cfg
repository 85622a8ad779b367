SPECIFICATION Spec
CONSTANTS
    Bookings = {b1, b2}
    Requests = {r1, r2}
    Procs = {p1}
    NoBooking = NoBooking
    NoRequest = NoRequest
    NoUser = NoUser
    sender = sender
    traveller = traveller
    Users <- MCUsers
    OwnerOf <- MCOwnerOf
    TravellerOf <- MCTravellerOf
    Amount <- MCAmount
    PlatformPercentage <- MCPercentage
    InitialBalance <- MCInitialBalance
    HourSamples <- MCHours
    Ops <- MCMoneyOps
    MaxCharges = 0
    MaxDeliveries = 0
    MaxFailures = 0
    MaxAdminEdits = 1
CHECK_DEADLOCK FALSE
SYMMETRY Symmetric
INVARIANTS
    NoOverdraft
    AcceptedNotExpired
PROPERTIES
    AnswerIsFinal
