SPECIFICATION FairSpec
CONSTANTS
    Bookings = {b1}
    Requests = {r1, r2}
    Procs = {p1, p2}
    NoBooking = NoBooking
    NoRequest = NoRequest
    NoUser = NoUser
    sender = sender
    traveller = traveller
    Users <- MCUsers
    OwnerOf <- MCOwnerOf
    TravellerOf <- MCTravellerOf
    Amount <- MCAmount
    PlatformPercentage <- MCPercentage
    InitialBalance <- MCInitialBalance
    HourSamples <- MCLate
    Ops <- MCPaymentOps
    MaxCharges = 1
    MaxDeliveries = 1
    MaxFailures = 1
    MaxAdminEdits = 0
CHECK_DEADLOCK FALSE
PROPERTIES
    UnansweredIsClosed
    RefusedIsRefunded
    ImplementsLedger
