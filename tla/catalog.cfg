SPECIFICATION FairSpec
CONSTANTS
    Users = {u1, u2}
    NoUser = NoUser
    Travels = {t1}
    NoTravel = NoTravel
    Packages = {k1}
    NoPackage = NoPackage
    Bookings = {b1, b2}
    NoBooking = NoBooking
    Summaries = {x1, x2}
    NoSummary = NoSummary
    Procs = {p1, p2}
    MaxCalls = 3
    MaxFailures = 1
CHECK_DEADLOCK FALSE
INVARIANTS
    OneBookingUnderWay
    OneReviewEach
    
PROPERTIES
    SummaryKept
    BookingsStay
    SweptInTheEnd
