SPECIFICATION Spec
CONSTANTS
    Bookings = {b1}
    Requests = {r1}
    Procs = {p1, p2}
    NoBooking = NoBooking
    NoRequest = NoRequest
    NoUser = NoUser
    sender = sender
    traveller = traveller
    Users <- MCUsers
    OwnerOf <- MCOwnerOf
    TravellerOf <- MCTravellerOf
    Amount <- MCAmount
    PlatformPercentage <- MCPercentage
    InitialBalance <- MCInitialBalance
    HourSamples <- MCLate
    Ops <- MCPaymentOps
    MaxCharges = 0
    MaxDeliveries = 0
    MaxFailures = 0
    MaxAdminEdits = 0
CHECK_DEADLOCK FALSE
INVARIANTS
    AcceptedNotExpired
