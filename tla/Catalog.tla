--------------------------------- MODULE Catalog ---------------------------------
(***************************************************************************)
(* Trips, packages, the bookings that join them, and the reviews and       *)
(* reports about bookings: PackageService, TravelService, ReviewsService,  *)
(* the parts of BookingService that create, describe and list bookings,    *)
(* the administrator's changes, and the cron that sweeps unverified users  *)
(* away with all that hangs on them.                                       *)
(*                                                                         *)
(* What the life cycle does to a booking (BookingEscrow has it in full) is *)
(* here no more than a change of its status.  Whether a user is verified   *)
(* in time is Accounts' matter: here it is settled from the start.  What   *)
(* is published is listed to others, and changes nothing else.             *)
(***************************************************************************)
EXTENDS Naturals

CONSTANTS
    Users, NoUser,
    Travels, NoTravel,      \* ids of trips, never used twice
    Packages, NoPackage,    \* ids of packages, never used twice
    Bookings, NoBooking,    \* ids of bookings, never used twice
    Summaries, NoSummary,   \* order summaries, and the empty one
    Procs,                  \* slots for handlers in flight
    MaxCalls,               \* bound: requests that reach the server
    MaxFailures             \* bound: transactions that fail on their own

ASSUME CatalogAssumption ==
    /\ NoUser \notin Users
    /\ NoTravel \notin Travels
    /\ NoPackage \notin Packages
    /\ NoBooking \notin Bookings
    /\ NoSummary \notin Summaries
    /\ MaxCalls \in Nat
    /\ MaxFailures \in Nat

VARIABLES
    members,        \* the users table
    unverified,     \* users without email_verified_at, all old enough to go
    cards,          \* users with a row in payment_methods
    travel,         \* the travels table
    package,        \* the packages table
    booking,        \* the bookings table
    reviews,        \* number of reviews of a booking by a user
    reports,        \* reports, by whom and about which package
    job,            \* the handlers in flight
    sweep,          \* what the cron has selected, and its open transaction
    (* Ghosts. *)
    beside,         \* bookings made since the create of a booking had looked
    revived,        \* bookings taken up again after they were over
    unasked,        \* bookings whose status the administrator has set
    again,          \* who has reviewed what twice, both having looked first
    (* Counters behind the bounds. *)
    calls, failures

rows == <<members, unverified, cards, travel, package, booking, reviews, reports>>
ghosts == <<beside, revived, unasked, again>>
vars == <<rows, job, sweep, ghosts, calls, failures>>

Row == {"none", "live", "gone"}

Travel == [state : Row, user : Users \cup {NoUser}, departed : BOOLEAN]
NoTravelRow == [state |-> "none", user |-> NoUser, departed |-> FALSE]

Package == [state : Row, owner : Users \cup {NoUser},
            weighed : BOOLEAN]      \* parseWeight makes a number of weight
NoPackageRow == [state |-> "none", owner |-> NoUser, weighed |-> FALSE]

(* pending stands for pending and in_progress, pick_up for pick_up and     *)
(* on_the_way, over for the eight statuses a booking ends in.              *)
Status == {"pending", "pick_up", "delivered", "over"}

Booking == [state : Row,
            travel : Travels \cup {NoTravel},
            package : Packages \cup {NoPackage},
            status : Status,
            confirmed : BOOLEAN,
            order_summary : Summaries \cup {NoSummary}]
NoBookingRow == [state |-> "none", travel |-> NoTravel, package |-> NoPackage,
                 status |-> "pending", confirmed |-> FALSE,
                 order_summary |-> NoSummary]

Report == [reported_by : Users, package : Packages]

Job == [op : {"none", "book", "review", "summary"},
        user : Users \cup {NoUser},
        travel : Travels \cup {NoTravel},
        package : Packages \cup {NoPackage},
        booking : Bookings \cup {NoBooking},
        text : Summaries \cup {NoSummary},
        known : SUBSET Bookings]        \* ghost: the bookings there were
Idle == [op |-> "none", user |-> NoUser, travel |-> NoTravel,
         package |-> NoPackage, booking |-> NoBooking, text |-> NoSummary,
         known |-> {}]

Sweep == [todo : SUBSET Users,          \* users selected
          user : Users \cup {NoUser},   \* the one whose transaction is open
          travels : SUBSET Travels, packages : SUBSET Packages,
          bookings : SUBSET Bookings]
NoSweep == [todo |-> {}, user |-> NoUser, travels |-> {}, packages |-> {},
            bookings |-> {}]

TypeOK ==
    /\ members \subseteq Users
    /\ unverified \subseteq Users
    /\ cards \subseteq Users
    /\ travel \in [Travels -> Travel]
    /\ package \in [Packages -> Package]
    /\ booking \in [Bookings -> Booking]
    /\ reviews \in [Bookings -> [Users -> Nat]]
    /\ reports \subseteq Report
    /\ job \in [Procs -> Job]
    /\ sweep \in Sweep
    /\ beside \in [Bookings -> SUBSET Bookings]
    /\ revived \subseteq Bookings
    /\ unasked \subseteq Bookings
    /\ again \subseteq Bookings \X Users
    /\ calls \in Nat
    /\ failures \in Nat

(* Users there are, with trips and packages, and it may be a booking: not  *)
(* yet accepted, or accepted and delivered.                                *)
Init ==
    /\ members = Users
    /\ unverified \in SUBSET Users
    /\ cards = {}
    /\ travel \in [Travels -> {NoTravelRow} \cup
            {[state |-> "live", user |-> u, departed |-> FALSE] : u \in Users}]
    /\ package \in [Packages -> {NoPackageRow} \cup
            {[state |-> "live", owner |-> u, weighed |-> TRUE] : u \in Users}]
    /\ \/ booking = [b \in Bookings |-> NoBookingRow]
       \/ \E b \in Bookings, t \in Travels, k \in Packages :
            \E delivered \in BOOLEAN :
                /\ travel[t].state = "live" /\ package[k].state = "live"
                /\ booking = [c \in Bookings |-> IF c # b THEN NoBookingRow
                        ELSE [state |-> "live", travel |-> t, package |-> k,
                              status |-> IF delivered THEN "delivered"
                                                      ELSE "pending",
                              confirmed |-> delivered,
                              order_summary |-> NoSummary]]
    /\ reviews = [b \in Bookings |-> [u \in Users |-> 0]]
    /\ reports = {}
    /\ job = [p \in Procs |-> Idle]
    /\ sweep = NoSweep
    /\ beside = [b \in Bookings |-> {}]
    /\ revived = {}
    /\ unasked = {}
    /\ again = {}
    /\ calls = 0
    /\ failures = 0

-----------------------------------------------------------------------------
(* Helpers *)

Call == calls < MaxCalls /\ calls' = calls + 1

LiveTravel(t) == t \in Travels /\ travel[t].state = "live"
LivePackage(k) == k \in Packages /\ package[k].state = "live"
LiveBooking(b) == b \in Bookings /\ booking[b].state = "live"

BookingsOf(ts, ks) == {b \in Bookings : /\ LiveBooking(b)
                                        /\ \/ booking[b].travel \in ts
                                           \/ booking[b].package \in ks}

(* traveller_id and owner_id are those of the trip and the package.        *)
TravellerOf(b) == travel[booking[b].travel].user
OwnerOf(b) == package[booking[b].package].owner

Active == {"pending", "pick_up", "delivered"}
ActiveOf(k) == {b \in BookingsOf({}, {k}) : booking[b].status \in Active}

Start(p, op, u, t, k, b, x) ==
    /\ job[p] = Idle
    /\ u \in members
    /\ Call
    /\ job' = [job EXCEPT ![p] = [op |-> op, user |-> u, travel |-> t,
                    package |-> k, booking |-> b, text |-> x,
                    known |-> BookingsOf({}, {k})]]

Return(p) == job' = [job EXCEPT ![p] = Idle]

-----------------------------------------------------------------------------
(* Trips and packages *)

TravelCreate(u, t) ==
    /\ u \in members
    /\ travel[t].state = "none"
    /\ Call
    /\ travel' = [travel EXCEPT ![t] = [state |-> "live", user |-> u,
                                        departed |-> FALSE]]
    /\ UNCHANGED <<members, unverified, cards, package, booking, reviews, reports,
                   job, sweep, ghosts, failures>>

(* update: its owner gives a trip new dates, booked or not.                *)
TravelUpdate(t) ==
    /\ LiveTravel(t)
    /\ travel[t].user \in members
    /\ Call
    /\ travel' = [travel EXCEPT ![t].departed = ~@]
    /\ UNCHANGED <<members, unverified, cards, package, booking, reviews, reports,
                   job, sweep, ghosts, failures>>

(* Time passes.                                                            *)
Departs(t) ==
    /\ LiveTravel(t)
    /\ ~travel[t].departed
    /\ travel' = [travel EXCEPT ![t].departed = TRUE]
    /\ UNCHANGED <<members, unverified, cards, package, booking, reviews, reports,
                   job, sweep, ghosts, calls, failures>>

(* Mutant: the bookings of a trip go with it (onDelete: Cascade). *)
TravelRemoveCascade(t) ==
    /\ LiveTravel(t)
    /\ travel[t].user \in members
    /\ Call
    /\ travel' = [travel EXCEPT ![t].state = "gone"]
    /\ booking' = [b \in Bookings |-> IF b \in BookingsOf({t}, {})
                        THEN [booking[b] EXCEPT !.state = "gone"] ELSE booking[b]]
    /\ UNCHANGED <<members, unverified, cards, package, reviews, reports, job,
                   sweep, ghosts, failures>>

(* remove: a booking holds its trip, and what is announced goes with it.   *)
TravelRemove(t) ==
    /\ LiveTravel(t)
    /\ travel[t].user \in members
    /\ BookingsOf({t}, {}) = {}
    /\ Call
    /\ travel' = [travel EXCEPT ![t].state = "gone"]
    /\ UNCHANGED <<members, unverified, cards, package, booking, reviews, reports,
                   job, sweep, ghosts, failures>>

(* create asks for a weight it can read.                                   *)
PackageCreate(u, k) ==
    /\ u \in members
    /\ package[k].state = "none"
    /\ Call
    /\ package' = [package EXCEPT ![k] = [state |-> "live", owner |-> u,
                                          weighed |-> TRUE]]
    /\ UNCHANGED <<members, unverified, cards, travel, booking, reviews, reports,
                   job, sweep, ghosts, failures>>

(* update takes any.                                                       *)
PackageUpdate(k, weighed) ==
    /\ LivePackage(k)
    /\ package[k].owner \in members
    /\ package[k].weighed # weighed
    /\ Call
    /\ package' = [package EXCEPT ![k].weighed = weighed]
    /\ UNCHANGED <<members, unverified, cards, travel, booking, reviews, reports,
                   job, sweep, ghosts, failures>>

(* remove: a booking holds its package; a report about it loses its name.  *)
PackageRemove(k) ==
    /\ LivePackage(k)
    /\ package[k].owner \in members
    /\ BookingsOf({}, {k}) = {}
    /\ Call
    /\ package' = [package EXCEPT ![k].state = "gone"]
    /\ UNCHANGED <<members, unverified, cards, travel, booking, reviews, reports,
                   job, sweep, ghosts, failures>>

-----------------------------------------------------------------------------
(* Bookings *)

(* Mutant: whether the package is booked already is not asked. *)
MayBook(u, t, k) ==
    /\ LiveTravel(t) /\ ~travel[t].departed
    /\ LivePackage(k) /\ package[k].owner = u /\ package[k].weighed

(* create: a trip that has not departed, an own package with a weight, and *)
(* no booking of it under way; one on the same trip is returned as it is,  *)
(* one on another trip is an error ...                                     *)
Bookable(u, t, k) ==
    /\ LiveTravel(t) /\ ~travel[t].departed
    /\ LivePackage(k) /\ package[k].owner = u /\ package[k].weighed
    /\ ActiveOf(k) = {}

BookCheck(p, u, t, k) ==
    /\ Bookable(u, t, k)
    /\ Start(p, "book", u, t, k, NoBooking, NoSummary)
    /\ UNCHANGED <<rows, sweep, ghosts, failures>>

(* ... and then a new booking, unless trip or package have gone.           *)
BookInsert(p) ==
    /\ job[p].op = "book"
    /\ IF LiveTravel(job[p].travel) /\ LivePackage(job[p].package)
          THEN \E b \in Bookings :
                /\ booking[b].state = "none"
                /\ booking' = [booking EXCEPT ![b] =
                        [NoBookingRow EXCEPT !.state = "live",
                                             !.travel = job[p].travel,
                                             !.package = job[p].package]]
                /\ beside' = [beside EXCEPT ![b] =
                        BookingsOf({}, {job[p].package}) \ job[p].known]
          ELSE UNCHANGED <<booking, beside>>
    /\ Return(p)
    /\ UNCHANGED <<members, unverified, cards, travel, package, reviews, reports,
                   sweep, revived, unasked, again, calls, failures>>

(* updateSummary looks for an empty summary ...                            *)
SummaryCheck(p, b, x) ==
    /\ LiveBooking(b)
    /\ booking[b].order_summary = NoSummary
    /\ Start(p, "summary", OwnerOf(b), NoTravel, NoPackage, b, x)
    /\ UNCHANGED <<rows, sweep, ghosts, failures>>

(* Mutant: the update does not ask again for an empty summary. *)
SummaryWriteAnyway(p) ==
    /\ job[p].op = "summary"
    /\ LET b == job[p].booking
       IN  booking' = IF LiveBooking(b)
                         THEN [booking EXCEPT ![b].order_summary = job[p].text]
                         ELSE booking
    /\ Return(p)
    /\ UNCHANGED <<members, unverified, cards, travel, package, reviews, reports,
                   sweep, ghosts, calls, failures>>

(* ... and its update looks for it again.                                  *)
SummaryWrite(p) ==
    /\ job[p].op = "summary"
    /\ LET b == job[p].booking
       IN  booking' = IF /\ LiveBooking(b)
                         /\ booking[b].order_summary = NoSummary
                         THEN [booking EXCEPT ![b].order_summary = job[p].text]
                         ELSE booking
    /\ Return(p)
    /\ UNCHANGED <<members, unverified, cards, travel, package, reviews, reports,
                   sweep, ghosts, calls, failures>>

(* A booking's status changes; one that was over is taken up again.        *)
Becomes(b, status, confirmed) ==
    /\ booking' = [booking EXCEPT ![b].status = status,
                                  ![b].confirmed = confirmed]
    /\ revived' = IF booking[b].status \notin Active /\ status \in Active
                     THEN revived \cup {b} ELSE revived

(* Mutant: the booking is not marked as confirmed. *)
AcceptUnconfirmed(b) ==
    /\ LiveBooking(b)
    /\ booking[b].status \in {"pending", "over"}
    /\ Call
    /\ Becomes(b, "pick_up", booking[b].confirmed)
    /\ unasked' = unasked \ {b}
    /\ UNCHANGED <<members, unverified, cards, travel, package, reviews, reports,
                   job, sweep, beside, again, failures>>

(* updateRequest with is_accepted: the traveller takes the booking, also   *)
(* one that has been cancelled in the meantime.                            *)
Accept(b) ==
    /\ LiveBooking(b)
    /\ booking[b].status \in {"pending", "over"}
    /\ Call
    /\ Becomes(b, "pick_up", TRUE)
    /\ unasked' = unasked \ {b}
    /\ UNCHANGED <<members, unverified, cards, travel, package, reviews, reports,
                   job, sweep, beside, again, failures>>

(* dropOff, and what ends a booking: of a delivered one, complete sets     *)
(* confirmed and reject takes it back.                                     *)
LifeCycle(b, status, confirmed) ==
    /\ LiveBooking(b)
    /\ \/ /\ booking[b].status = "pick_up" /\ status = "delivered"
          /\ confirmed = booking[b].confirmed
       \/ /\ booking[b].status \in Active /\ status = "over"
          /\ \/ confirmed = booking[b].confirmed
             \/ booking[b].status = "delivered"
    /\ Call
    /\ Becomes(b, status, confirmed)
    /\ UNCHANGED <<members, unverified, cards, travel, package, reviews, reports,
                   job, sweep, beside, unasked, again, failures>>

(* allConditonsAreNotMet: the traveller gives a parcel up and may report   *)
(* it; the report names the package, not the trip.                         *)
AllConditionsAreNotMet(b, reported) ==
    /\ LiveBooking(b)
    /\ booking[b].status = "pick_up"
    /\ Call
    /\ reports' = IF reported
                     THEN reports \cup {[reported_by |-> TravellerOf(b),
                                         package |-> booking[b].package]}
                     ELSE reports
    /\ Becomes(b, "over", booking[b].confirmed)
    /\ UNCHANGED <<members, unverified, cards, travel, package, reviews, job,
                   sweep, beside, unasked, again, failures>>

(* The administrator's updateStatus: any status.                           *)
UpdateStatus(b, status) ==
    /\ LiveBooking(b)
    /\ booking[b].status # status
    /\ Call
    /\ Becomes(b, status, booking[b].confirmed)
    /\ unasked' = unasked \cup {b}
    /\ UNCHANGED <<members, unverified, cards, travel, package, reviews, reports,
                   job, sweep, beside, again, failures>>

(* The four lists of bookings.                                             *)
UnderWay == {"pending", "pick_up"}
BookingsAsTraveller(u) ==
    {b \in Bookings : /\ LiveBooking(b) /\ TravellerOf(b) = u
                      /\ booking[b].confirmed
                      /\ booking[b].status \in UnderWay}
BookingsAsPackageOwner(u) ==
    {b \in Bookings : /\ LiveBooking(b) /\ OwnerOf(b) = u
                      /\ booking[b].status \in UnderWay}
BookingHistoryAsTraveller(u) ==
    {b \in Bookings : /\ LiveBooking(b) /\ TravellerOf(b) = u
                      /\ booking[b].status \notin UnderWay}
BookingHistoryAsPackageOwner(u) ==
    {b \in Bookings : /\ LiveBooking(b) /\ OwnerOf(b) = u
                      /\ booking[b].status \notin UnderWay}

-----------------------------------------------------------------------------
(* Reviews *)

(* Mutant: whether the user has reviewed the booking is not asked. *)
ReviewCheckDelivery(p, u, b) ==
    /\ LiveBooking(b)
    /\ u \in {OwnerOf(b), TravellerOf(b)}
    /\ booking[b].status = "delivered"
    /\ Start(p, "review", u, NoTravel, NoPackage, b, NoSummary)
    /\ UNCHANGED <<rows, sweep, ghosts, failures>>

(* create: one of the two of a delivered booking, who has not reviewed it ...*)
ReviewCheck(p, u, b) ==
    /\ LiveBooking(b)
    /\ u \in {OwnerOf(b), TravellerOf(b)}
    /\ booking[b].status = "delivered"
    /\ reviews[b][u] = 0
    /\ Start(p, "review", u, NoTravel, NoPackage, b, NoSummary)
    /\ UNCHANGED <<rows, sweep, ghosts, failures>>

(* ... and then the review, whatever has happened to the booking.          *)
ReviewInsert(p) ==
    /\ job[p].op = "review"
    /\ LET b == job[p].booking
           u == job[p].user
       IN  IF LiveBooking(b)
              THEN /\ reviews' = [reviews EXCEPT ![b][u] = @ + 1]
                   /\ again' = IF \E q \in Procs \ {p} :
                                    /\ job[q].op = "review"
                                    /\ job[q].booking = b /\ job[q].user = u
                                  THEN again \cup {<<b, u>>} ELSE again
              ELSE UNCHANGED <<reviews, again>>
    /\ Return(p)
    /\ UNCHANGED <<members, unverified, cards, travel, package, booking, reports,
                   sweep, beside, revived, unasked, calls, failures>>

-----------------------------------------------------------------------------
(* The sweep *)

(* A card is saved: a row that holds its user (Cards has the rest).        *)
SaveCard(u) ==
    /\ u \in members \ cards
    /\ Call
    /\ cards' = cards \cup {u}
    /\ UNCHANGED <<members, unverified, travel, package, booking, reviews, reports,
                   job, sweep, ghosts, failures>>

(* Every minute, all unverified users; they are taken one by one.          *)
SweepSelect ==
    /\ sweep = NoSweep
    /\ unverified \cap members # {}
    /\ sweep' = [NoSweep EXCEPT !.todo = unverified \cap members]
    /\ UNCHANGED <<rows, job, ghosts, calls, failures>>

(* A transaction is opened; it reads the trips and packages of the user    *)
(* and the bookings of any of them ...                                     *)
SweepRead(u) ==
    /\ sweep.user = NoUser
    /\ u \in sweep.todo
    /\ LET ts == {t \in Travels : LiveTravel(t) /\ travel[t].user = u}
           ks == {k \in Packages : LivePackage(k) /\ package[k].owner = u}
       IN  sweep' = [todo |-> sweep.todo \ {u}, user |-> u, travels |-> ts,
                     packages |-> ks, bookings |-> BookingsOf(ts, ks)]
    /\ UNCHANGED <<rows, job, ghosts, calls, failures>>

(* Mutant: the reviews are not deleted. *)
NoReviews(bs) == reviews

(* ... deletes the reviews of those bookings, the bookings, the reports    *)
(* about the packages, the trips, the packages, and last the user.         *)
WithoutReviews(bs) ==
    [b \in Bookings |-> IF b \in bs THEN [u \in Users |-> 0] ELSE reviews[b]]

WithoutReports(ks) == {r \in reports : r.package \notin ks}

Gone(table, ids) ==
    [i \in DOMAIN table |-> IF i \in ids THEN [table[i] EXCEPT !.state = "gone"]
                                         ELSE table[i]]

(* What still refers to a row that is to go makes the database refuse:     *)
(* reviews of the bookings, bookings made since, trips and packages added  *)
(* since, reports by the user about packages of others, and cards.         *)
Refused ==
    LET u == sweep.user
    IN  \/ \E b \in sweep.bookings : \E v \in Users :
                WithoutReviews(sweep.bookings)[b][v] # 0
        \/ ~(BookingsOf(sweep.travels, sweep.packages) \subseteq sweep.bookings)
        \/ \E t \in Travels \ sweep.travels : LiveTravel(t) /\ travel[t].user = u
        \/ \E k \in Packages \ sweep.packages :
                LivePackage(k) /\ package[k].owner = u
        \/ \E r \in WithoutReports(sweep.packages) : r.reported_by = u
        \/ u \in cards

Rest == sweep' = [NoSweep EXCEPT !.todo = sweep.todo]

SweepCommit ==
    /\ sweep.user # NoUser
    /\ ~Refused
    /\ members' = members \ {sweep.user}
    /\ travel' = Gone(travel, sweep.travels)
    /\ package' = Gone(package, sweep.packages)
    /\ booking' = Gone(booking, sweep.bookings)
    /\ reviews' = WithoutReviews(sweep.bookings)
    /\ reports' = WithoutReports(sweep.packages)
    /\ Rest
    /\ UNCHANGED <<unverified, cards, job, ghosts, calls, failures>>

(* All or nothing: what is refused, or fails, is as it was.                *)
SweepRollback ==
    /\ sweep.user # NoUser
    /\ \/ Refused /\ UNCHANGED failures
       \/ failures < MaxFailures /\ failures' = failures + 1
    /\ Rest
    /\ UNCHANGED <<rows, job, ghosts, calls>>

-----------------------------------------------------------------------------
(* The routes of the controllers.  Departs is time, not a request.         *)
TravelRoutes == \E u \in Users, t \in Travels : TravelCreate(u, t)

TravelEdits == \E t \in Travels : TravelUpdate(t) \/ TravelRemove(t)

PackageRoutes == \E u \in Users, k \in Packages : PackageCreate(u, k)

PackageEdits ==
    \E k \in Packages :
        \/ \E weighed \in BOOLEAN : PackageUpdate(k, weighed)
        \/ PackageRemove(k)

BookingRoutes ==
    \E p \in Procs :
        \/ \E u \in Users, t \in Travels, k \in Packages : BookCheck(p, u, t, k)
        \/ \E b \in Bookings, x \in Summaries : SummaryCheck(p, b, x)

AnswerRoutes == \E b \in Bookings : Accept(b)

LifeCycleRoutes ==
    \E b \in Bookings :
        \/ \E status \in Status, confirmed \in BOOLEAN :
                LifeCycle(b, status, confirmed)
        \/ \E reported \in BOOLEAN : AllConditionsAreNotMet(b, reported)

AdminRoutes ==
    \E b \in Bookings, status \in Status : UpdateStatus(b, status)

ReviewRoutes ==
    \E p \in Procs, u \in Users, b \in Bookings : ReviewCheck(p, u, b)

Continue(p) == BookInsert(p) \/ SummaryWrite(p) \/ ReviewInsert(p)

SweepStep ==
    \/ SweepSelect
    \/ \E u \in Users : SweepRead(u)
    \/ SweepCommit
    \/ SweepRollback

Next ==
    \/ TravelRoutes \/ TravelEdits
    \/ PackageRoutes \/ PackageEdits
    \/ BookingRoutes
    \/ AnswerRoutes
    \/ LifeCycleRoutes
    \/ AdminRoutes
    \/ ReviewRoutes
    \/ \E t \in Travels : Departs(t)
    \/ \E p \in Procs : Continue(p)
    \/ \E u \in Users : SaveCard(u)
    \/ SweepStep

Spec == Init /\ [][Next]_vars

(* The cron comes every minute and goes through the users it finds.        *)
FairSpec == Spec /\ WF_vars(SweepStep)

-----------------------------------------------------------------------------
(* A package has one booking under way, unless the second was being made   *)
(* when the first was, or one of the two was taken up again.               *)
OneBookingUnderWay ==
    \A k \in Packages : \A a, b \in ActiveOf(k) :
        a = b \/ a \in beside[b] \/ b \in beside[a] \/ {a, b} \cap revived # {}

(* Nobody reviews a booking twice, unless both requests were under way at  *)
(* once.                                                                   *)
OneReviewEach ==
    \A b \in Bookings, u \in Users : reviews[b][u] > 1 => <<b, u>> \in again

(* A summary, once there, stays as it is, however many send one at once.   *)
SummaryKept ==
    [][\A b \in Bookings :
            booking[b].order_summary # NoSummary
                => booking'[b].order_summary = booking[b].order_summary]_vars

(* A booking is only ever deleted with an unverified user who is one of    *)
(* its two, and then nothing of it is left: no review, and no trip or      *)
(* package of that user.                                                   *)
BookingsStay ==
    [][\A b \in Bookings :
            LiveBooking(b) /\ booking'[b].state # "live" =>
                /\ \E u \in {OwnerOf(b), TravellerOf(b)} \cap unverified :
                        /\ u \notin members'
                        /\ \A t \in Travels : travel[t].user = u
                                => travel'[t].state # "live"
                        /\ \A k \in Packages : package[k].owner = u
                                => package'[k].state # "live"
                /\ \A v \in Users : reviews'[b][v] = 0]_vars

(* Each of the two sees a booking in one list: the sender always, the      *)
(* traveller once he has accepted it, unless the administrator moved it.   *)
ListedOnce ==
    \A b \in Bookings : LiveBooking(b) =>
        /\ (b \in BookingsAsPackageOwner(OwnerOf(b)))
                # (b \in BookingHistoryAsPackageOwner(OwnerOf(b)))
        /\ b \notin BookingsAsTraveller(TravellerOf(b))
                        \cap BookingHistoryAsTraveller(TravellerOf(b))
        /\ booking[b].status # "pending" /\ b \notin unasked =>
                b \in BookingsAsTraveller(TravellerOf(b))
                        \cup BookingHistoryAsTraveller(TravellerOf(b))

(* What keeps the cron from deleting a user: a saved card, or a report     *)
(* about somebody else's package.                                          *)
Held(u) ==
    \/ u \in cards
    \/ \E r \in reports : r.reported_by = u /\ package[r.package].owner # u

(* An unverified user is in the end deleted, or held, for good.            *)
SweptInTheEnd ==
    \A u \in Users : <>[](u \in unverified /\ u \in members => Held(u))

===================================================================================
