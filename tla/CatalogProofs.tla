----------------------------- MODULE CatalogProofs -----------------------------
(***************************************************************************)
(* The safety of Catalog, for any users, trips, packages, bookings, slots  *)
(* and bounds.  Every property rests on TypeInv: the rows have their       *)
(* types, a booking that is there has its trip and its package, and a      *)
(* booking that has never been is blank.                                   *)
(***************************************************************************)
EXTENDS Catalog, TLAPS

-----------------------------------------------------------------------------
(* Types and references *)

LinksSound ==
    /\ \A t \in Travels : travel[t].state # "none" => travel[t].user \in Users
    /\ \A k \in Packages : package[k].state # "none" => package[k].owner \in Users
    /\ \A b \in Bookings : booking[b].state = "live" =>
            LiveTravel(booking[b].travel) /\ LivePackage(booking[b].package)

NeverWasBlank ==
    \A b \in Bookings : booking[b].state = "none" => booking[b] = NoBookingRow

JobsSound ==
    \A p \in Procs : job[p].op # "none" =>
        /\ job[p].user \in Users
        /\ job[p].op = "summary" => job[p].text \in Summaries

(* What a sweep has read has been there.                                   *)
SweepSound ==
    /\ \A t \in Travels : t \in sweep.travels => travel[t].state # "none"
    /\ \A k \in Packages : k \in sweep.packages => package[k].state # "none"
    /\ \A b \in Bookings : b \in sweep.bookings => booking[b].state # "none"

TypeInv == TypeOK /\ LinksSound /\ NeverWasBlank /\ JobsSound /\ SweepSound

LEMMA TypeInit == Init => TypeInv
<1> SUFFICES ASSUME Init PROVE TypeInv
  OBVIOUS
<1>1. /\ travel \in [Travels -> Travel]
      /\ \A t \in Travels : travel[t].state # "none" =>
            travel[t].state = "live" /\ travel[t].user \in Users
  <2> DEFINE New(u) == [state |-> "live", user |-> u, departed |-> FALSE]
  <2>1. travel \in [Travels -> {NoTravelRow} \cup {New(u) : u \in Users}]
    BY DEF Init
  <2>2. \A u \in Users : /\ New(u) \in Travel
                         /\ New(u).state = "live" /\ New(u).user \in Users
    BY DEF Travel, Row
  <2>3. NoTravelRow \in Travel /\ NoTravelRow.state = "none"
    BY DEF Travel, Row, NoTravelRow
  <2> HIDE DEF New
  <2> QED
    BY <2>1, <2>2, <2>3
<1>2. /\ package \in [Packages -> Package]
      /\ \A k \in Packages : package[k].state # "none" =>
            package[k].state = "live" /\ package[k].owner \in Users
  <2> DEFINE New(u) == [state |-> "live", owner |-> u, weighed |-> TRUE]
  <2>1. package \in [Packages -> {NoPackageRow} \cup {New(u) : u \in Users}]
    BY DEF Init
  <2>2. \A u \in Users : /\ New(u) \in Package
                         /\ New(u).state = "live" /\ New(u).owner \in Users
    BY DEF Package, Row
  <2>3. NoPackageRow \in Package /\ NoPackageRow.state = "none"
    BY DEF Package, Row, NoPackageRow
  <2> HIDE DEF New
  <2> QED
    BY <2>1, <2>2, <2>3
<1> USE DEF Init
<1>3. /\ booking \in [Bookings -> Booking]
      /\ \A b \in Bookings :
            \/ booking[b] = NoBookingRow
            \/ /\ booking[b].state = "live"
               /\ LiveTravel(booking[b].travel)
               /\ LivePackage(booking[b].package)
  <2>1. CASE booking = [b \in Bookings |-> NoBookingRow]
    BY <2>1 DEF Booking, NoBookingRow, Row, Status
  <2>2. ASSUME NEW b \in Bookings, NEW t \in Travels, NEW k \in Packages,
               NEW delivered \in BOOLEAN,
               travel[t].state = "live", package[k].state = "live",
               booking = [c \in Bookings |-> IF c # b THEN NoBookingRow
                        ELSE [state |-> "live", travel |-> t, package |-> k,
                              status |-> IF delivered THEN "delivered"
                                                      ELSE "pending",
                              confirmed |-> delivered,
                              order_summary |-> NoSummary]]
        PROVE  <1>3!1 /\ <1>3!2
    BY <2>2 DEF Booking, NoBookingRow, Row, Status, LiveTravel, LivePackage
  <2> QED
    BY <2>1, <2>2
<1>4. job \in [Procs -> Job] /\ sweep \in Sweep
  BY DEF Job, Idle, Sweep, NoSweep
<1>5. TypeOK
  BY <1>1, <1>2, <1>3, <1>4, CatalogAssumption DEF TypeOK, Report
<1>6. LinksSound /\ NeverWasBlank
  BY <1>1, <1>2, <1>3 DEF LinksSound, NeverWasBlank, NoBookingRow
<1>7. JobsSound
  BY DEF JobsSound, Idle
<1>8. SweepSound
  BY DEF SweepSound, NoSweep
<1> QED
  BY <1>5, <1>6, <1>7, <1>8 DEF TypeInv


(* New dates leave a trip with its user.                                   *)
LEMMA DatesKeep ==
    ASSUME TypeInv, NEW t \in Travels, NEW d \in BOOLEAN,
           travel' = [travel EXCEPT ![t].departed = d]
    PROVE  /\ travel' \in [Travels -> Travel]
           /\ \A s \in Travels : /\ travel'[s].state = travel[s].state
                                 /\ travel'[s].user = travel[s].user
BY DEF TypeInv, TypeOK, Travel

(* A new status leaves a booking with its trip and its package.            *)
LEMMA StatusKeeps ==
    ASSUME TypeInv, NEW b \in Bookings, NEW status \in Status,
           NEW confirmed \in BOOLEAN, LiveBooking(b),
           Becomes(b, status, confirmed),
           UNCHANGED <<travel, package, sweep>>
    PROVE  /\ booking' \in [Bookings -> Booking]
           /\ revived' \subseteq Bookings
           /\ \A c \in Bookings : /\ booking'[c].state = booking[c].state
                                  /\ booking'[c].travel = booking[c].travel
                                  /\ booking'[c].package = booking[c].package
           /\ LinksSound' /\ NeverWasBlank' /\ SweepSound'
<1>1. booking \in [Bookings -> Booking] /\ revived \subseteq Bookings
  BY DEF TypeInv, TypeOK
<1> DEFINE row == [booking[b] EXCEPT !.status = status, !.confirmed = confirmed]
<1>2. row \in Booking
  BY <1>1 DEF Booking
<1>3. /\ row.state = booking[b].state /\ row.travel = booking[b].travel
      /\ row.package = booking[b].package
  BY <1>1 DEF Booking
<1>4. booking' = [booking EXCEPT ![b] = row]
  BY <1>1 DEF Becomes, Booking
<1>5. revived' \subseteq Bookings
  BY <1>1 DEF Becomes
<1>6. NeverWasBlank
  BY DEF TypeInv
<1> HIDE DEF row
<1>7. booking' \in [Bookings -> Booking]
  BY <1>1, <1>2, <1>4
<1>8. NeverWasBlank'
  BY <1>1, <1>3, <1>4, <1>6 DEF NeverWasBlank, LiveBooking
<1>9. \A c \in Bookings : /\ booking'[c].state = booking[c].state
                          /\ booking'[c].travel = booking[c].travel
                          /\ booking'[c].package = booking[c].package
  BY <1>1, <1>3, <1>4
<1>10. LinksSound' /\ SweepSound'
  <2>1. LinksSound /\ SweepSound
    BY DEF TypeInv
  <2> QED
    BY <1>9, <2>1 DEF LinksSound, SweepSound, LiveTravel, LivePackage
<1> QED
  BY <1>5, <1>7, <1>8, <1>9, <1>10

(* A handler that starts remembers its user, and bookings there are.       *)
LEMMA StartKeeps ==
    ASSUME TypeInv, NEW p \in Procs, NEW op \in {"book", "review", "summary"},
           NEW u \in Users, NEW t \in Travels \cup {NoTravel},
           NEW k \in Packages \cup {NoPackage},
           NEW b \in Bookings \cup {NoBooking},
           NEW x \in Summaries \cup {NoSummary},
           op = "summary" => x \in Summaries,
           Start(p, op, u, t, k, b, x)
    PROVE  job' \in [Procs -> Job] /\ JobsSound' /\ calls' \in Nat
<1>1. job \in [Procs -> Job] /\ calls \in Nat /\ JobsSound
  BY DEF TypeInv, TypeOK
<1> DEFINE new == [op |-> op, user |-> u, travel |-> t, package |-> k,
                   booking |-> b, text |-> x, known |-> BookingsOf({}, {k})]
<1>2. new \in Job
  BY DEF Job, BookingsOf
<1>3. new.op = op /\ new.user = u /\ new.text = x
  OBVIOUS
<1>4. job' = [job EXCEPT ![p] = new] /\ calls' \in Nat
  BY <1>1 DEF Start, Call
<1> HIDE DEF new
<1> QED
  BY <1>1, <1>2, <1>3, <1>4 DEF JobsSound

(* A handler that returns leaves the others.                               *)
LEMMA ReturnKeeps ==
    ASSUME TypeInv, NEW p \in Procs, Return(p)
    PROVE  job' \in [Procs -> Job] /\ JobsSound'
BY DEF TypeInv, TypeOK, JobsSound, Return, Idle, Job

(* Rows that are gone are still rows.                                      *)
LEMMA GoneKeeps ==
    ASSUME TypeInv,
           NEW ts \in SUBSET Travels, NEW ks \in SUBSET Packages,
           NEW bs \in SUBSET Bookings
    PROVE  /\ Gone(travel, ts) \in [Travels -> Travel]
           /\ Gone(package, ks) \in [Packages -> Package]
           /\ Gone(booking, bs) \in [Bookings -> Booking]
           /\ \A t \in Travels :
                /\ Gone(travel, ts)[t].user = travel[t].user
                /\ Gone(travel, ts)[t].state
                        = IF t \in ts THEN "gone" ELSE travel[t].state
           /\ \A k \in Packages :
                /\ Gone(package, ks)[k].owner = package[k].owner
                /\ Gone(package, ks)[k].state
                        = IF k \in ks THEN "gone" ELSE package[k].state
           /\ \A b \in Bookings :
                /\ b \in bs => Gone(booking, bs)[b].state = "gone"
                /\ b \notin bs => Gone(booking, bs)[b] = booking[b]
                /\ Gone(booking, bs)[b].travel = booking[b].travel
                /\ Gone(booking, bs)[b].package = booking[b].package
                /\ Gone(booking, bs)[b].order_summary = booking[b].order_summary
<1>1. /\ travel \in [Travels -> Travel]
      /\ package \in [Packages -> Package]
      /\ booking \in [Bookings -> Booking]
  BY DEF TypeInv, TypeOK
<1>2. "gone" \in Row
  BY DEF Row
<1>3. \A t \in Travels : [travel[t] EXCEPT !.state = "gone"] \in Travel
  BY <1>1, <1>2 DEF Travel
<1>4. \A k \in Packages : [package[k] EXCEPT !.state = "gone"] \in Package
  BY <1>1, <1>2 DEF Package
<1>5. \A b \in Bookings : [booking[b] EXCEPT !.state = "gone"] \in Booking
  BY <1>1, <1>2 DEF Booking
<1>6. /\ \A t \in Travels :
            Gone(travel, ts)[t] = IF t \in ts
                THEN [travel[t] EXCEPT !.state = "gone"] ELSE travel[t]
      /\ Gone(travel, ts) \in [Travels -> Travel]
  BY <1>1, <1>3 DEF Gone
<1>7. /\ \A k \in Packages :
            Gone(package, ks)[k] = IF k \in ks
                THEN [package[k] EXCEPT !.state = "gone"] ELSE package[k]
      /\ Gone(package, ks) \in [Packages -> Package]
  BY <1>1, <1>4 DEF Gone
<1>8. /\ \A b \in Bookings :
            Gone(booking, bs)[b] = IF b \in bs
                THEN [booking[b] EXCEPT !.state = "gone"] ELSE booking[b]
      /\ Gone(booking, bs) \in [Bookings -> Booking]
  BY <1>1, <1>5 DEF Gone
<1>9. \A t \in Travels :
        /\ Gone(travel, ts)[t].user = travel[t].user
        /\ Gone(travel, ts)[t].state
                = IF t \in ts THEN "gone" ELSE travel[t].state
  BY <1>1, <1>6 DEF Travel
<1>10. \A k \in Packages :
        /\ Gone(package, ks)[k].owner = package[k].owner
        /\ Gone(package, ks)[k].state
                = IF k \in ks THEN "gone" ELSE package[k].state
  BY <1>1, <1>7 DEF Package
<1>11. \A b \in Bookings :
        /\ b \in bs => Gone(booking, bs)[b].state = "gone"
        /\ b \notin bs => Gone(booking, bs)[b] = booking[b]
        /\ Gone(booking, bs)[b].travel = booking[b].travel
        /\ Gone(booking, bs)[b].package = booking[b].package
        /\ Gone(booking, bs)[b].order_summary = booking[b].order_summary
  BY <1>1, <1>8 DEF Booking
<1> QED
  BY <1>6, <1>7, <1>8, <1>9, <1>10, <1>11
(* Every step keeps the types and the references.                          *)
LEMMA TypeStep == TypeInv /\ [Next]_vars => TypeInv'
<1> SUFFICES ASSUME TypeInv, [Next]_vars
             PROVE  TypeInv'
  OBVIOUS
<1>0. TypeInv
  OBVIOUS
<1> USE DEF TypeInv, TypeOK, LinksSound, NeverWasBlank, JobsSound,
            SweepSound, LiveTravel, LivePackage, LiveBooking, Call, rows, ghosts
<1>1. ASSUME NEW u \in Users, NEW t \in Travels, TravelCreate(u, t)
      PROVE  TypeInv'
  BY <1>0, <1>1
     DEF TravelCreate, Travel, Row
<1>2. ASSUME NEW t \in Travels, TravelUpdate(t) PROVE TypeInv'
  <2>1. (~travel[t].departed) \in BOOLEAN
    OBVIOUS
  <2>2. /\ travel' \in [Travels -> Travel]
        /\ \A s \in Travels : /\ travel'[s].state = travel[s].state
                              /\ travel'[s].user = travel[s].user
    BY <1>0, <1>2, <2>1, DatesKeep DEF TravelUpdate
  <2> QED
    BY <1>0, <1>2, <2>2 DEF TravelUpdate
<1>3. ASSUME NEW t \in Travels, TravelRemove(t) PROVE TypeInv'
  BY <1>0, <1>3
     DEF TravelRemove, Travel, Row, BookingsOf
<1>4. ASSUME NEW t \in Travels, Departs(t) PROVE TypeInv'
  <2>1. /\ travel' \in [Travels -> Travel]
        /\ \A s \in Travels : /\ travel'[s].state = travel[s].state
                              /\ travel'[s].user = travel[s].user
    BY <1>0, <1>4, DatesKeep DEF Departs
  <2> QED
    BY <1>0, <1>4, <2>1 DEF Departs
<1>5. ASSUME NEW u \in Users, NEW k \in Packages, PackageCreate(u, k)
      PROVE  TypeInv'
  BY <1>0, <1>5
     DEF PackageCreate, Package, Row
<1>6. ASSUME NEW k \in Packages, NEW weighed \in BOOLEAN, PackageUpdate(k,
            weighed)
      PROVE  TypeInv'
  BY <1>0, <1>6
     DEF PackageUpdate, Package
<1>7. ASSUME NEW k \in Packages, PackageRemove(k) PROVE TypeInv'
  <2>1. /\ package' \in [Packages -> Package]
        /\ \A j \in Packages :
                /\ package'[j].owner = package[j].owner
                /\ package'[j].state # package[j].state => j = k
    BY <1>0, <1>7 DEF PackageRemove, Package, Row
  <2>2. \A b \in Bookings : booking[b].state = "live" => booking[b].package # k
    BY <1>0, <1>7 DEF PackageRemove, BookingsOf
  <2>3. LinksSound'
    BY <1>0, <1>7, <2>1, <2>2 DEF PackageRemove
  <2> QED
    BY <1>0, <1>7, <2>1, <2>3 DEF PackageRemove
<1>8. ASSUME NEW p \in Procs, NEW u \in Users, NEW t \in Travels, NEW k \in
            Packages, BookCheck(p, u, t, k)
      PROVE  TypeInv'
  BY <1>0, <1>8
     DEF BookCheck, Start, Job, BookingsOf
<1>9. ASSUME NEW p \in Procs, BookInsert(p) PROVE TypeInv'
  <2>1. job' \in [Procs -> Job] /\ JobsSound'
    BY <1>0, <1>9, ReturnKeeps DEF BookInsert
  <2>2. CASE booking' = booking /\ beside' = beside
    BY <1>0, <1>9, <2>1, <2>2 DEF BookInsert
  <2>3. ASSUME NEW b \in Bookings,
               LiveTravel(job[p].travel), LivePackage(job[p].package),
               booking[b].state = "none",
               booking' = [booking EXCEPT ![b] =
                        [NoBookingRow EXCEPT !.state = "live",
                                             !.travel = job[p].travel,
                                             !.package = job[p].package]],
               beside' = [beside EXCEPT ![b] =
                        BookingsOf({}, {job[p].package}) \ job[p].known]
        PROVE  TypeInv'
    <3> DEFINE row == [NoBookingRow EXCEPT !.state = "live",
                                           !.travel = job[p].travel,
                                           !.package = job[p].package]
    <3>1. row \in Booking
      BY <2>3 DEF Booking, NoBookingRow, Row, Status
    <3>2. /\ row.state = "live" /\ row.travel = job[p].travel
          /\ row.package = job[p].package
      BY DEF NoBookingRow
    <3>3. booking' = [booking EXCEPT ![b] = row]
      BY <2>3
    <3>4. beside' \in [Bookings -> SUBSET Bookings]
      BY <1>0, <2>3 DEF BookingsOf
    <3> HIDE DEF row
    <3>5. booking' \in [Bookings -> Booking] /\ LinksSound' /\ NeverWasBlank'
      BY <1>0, <1>9, <2>3, <3>1, <3>2, <3>3 DEF BookInsert
    <3> QED
      BY <1>0, <1>9, <2>1, <3>4, <3>5, ZenonT(60) DEF BookInsert
  <2> QED
    BY <1>9, <2>2, <2>3 DEF BookInsert
<1>10. ASSUME NEW p \in Procs, NEW b \in Bookings, NEW x \in Summaries,
            SummaryCheck(p, b, x)
      PROVE  TypeInv'
  BY <1>0, <1>10
     DEF SummaryCheck, Start, Job, BookingsOf
<1>11. ASSUME NEW p \in Procs, SummaryWrite(p) PROVE TypeInv'
  <2>1. job' \in [Procs -> Job] /\ JobsSound'
    BY <1>0, <1>11, ReturnKeeps DEF SummaryWrite
  <2>2. job[p].text \in Summaries
    BY <1>0, <1>11 DEF SummaryWrite
  <2>3. /\ booking' \in [Bookings -> Booking]
        /\ \A b \in Bookings :
                /\ booking'[b].state = booking[b].state
                /\ booking'[b].travel = booking[b].travel
                /\ booking'[b].package = booking[b].package
                /\ booking[b].state # "live" => booking'[b] = booking[b]
    <3>1. CASE booking' = booking
      BY <1>0, <3>1
    <3>2. ASSUME NEW b \in Bookings, booking[b].state = "live",
                 booking' = [booking EXCEPT ![b].order_summary = job[p].text]
          PROVE  <2>3
      <4> DEFINE row == [booking[b] EXCEPT !.order_summary = job[p].text]
      <4>1. booking \in [Bookings -> Booking]
        BY <1>0
      <4>2. /\ row \in Booking
            /\ row.state = booking[b].state
            /\ row.travel = booking[b].travel
            /\ row.package = booking[b].package
        BY <2>2, <4>1 DEF Booking
      <4>3. booking' = [booking EXCEPT ![b] = row]
        BY <3>2
      <4> HIDE DEF row
      <4>4. /\ booking' \in [Bookings -> Booking]
            /\ booking'[b] = row
            /\ \A c \in Bookings \ {b} : booking'[c] = booking[c]
        BY <4>1, <4>2, <4>3
      <4> QED
        BY <3>2, <4>2, <4>4
    <3> QED
      BY <1>11, <3>1, <3>2 DEF SummaryWrite
  <2> QED
    <3>1. UNCHANGED <<members, unverified, cards, travel, package, reviews,
                      reports, sweep, beside, revived, unasked, again, calls,
                      failures>>
      BY <1>11 DEF SummaryWrite, ghosts
    <3>2. LinksSound'
      <4>1. ASSUME NEW b \in Bookings, booking'[b].state = "live"
            PROVE  /\ LiveTravel(booking[b].travel)'
                   /\ LivePackage(booking[b].package)'
        <5>1. /\ booking[b].state = "live"
              /\ booking'[b].travel = booking[b].travel
              /\ booking'[b].package = booking[b].package
          BY <2>3, <4>1
        <5>2. LiveTravel(booking[b].travel) /\ LivePackage(booking[b].package)
          BY <5>1
        <5> QED
          BY <3>1, <5>1, <5>2
      <4>2. /\ \A t \in Travels :
                 travel'[t].state # "none" => travel'[t].user \in Users
            /\ \A k \in Packages :
                 package'[k].state # "none" => package'[k].owner \in Users
        BY <3>1
      <4> QED
        BY <4>1, <4>2
    <3>3. NeverWasBlank'
      BY <1>0, <2>3
    <3>4. TypeOK'
      BY <1>0, <2>1, <2>3, <3>1
    <3>5. SweepSound'
      BY <1>0, <2>3, <3>1
    <3> QED
      BY <2>1, <3>2, <3>3, <3>4, <3>5
<1>12. ASSUME NEW b \in Bookings, Accept(b) PROVE TypeInv'
  <2>1. /\ booking' \in [Bookings -> Booking]
        /\ revived' \subseteq Bookings
        /\ \A c \in Bookings : /\ booking'[c].state = booking[c].state
                               /\ booking'[c].travel = booking[c].travel
                               /\ booking'[c].package = booking[c].package
        /\ LinksSound' /\ NeverWasBlank' /\ SweepSound'
    <3>1. "pick_up" \in Status /\ TRUE \in BOOLEAN
      BY <1>0 DEF Status, Booking
    <3>2. LiveBooking(b) /\ Becomes(b, "pick_up", TRUE)
      BY <1>12 DEF Accept
    <3>3. UNCHANGED <<travel, package, sweep>> /\ TypeInv
      BY <1>0, <1>12 DEF Accept
    <3> HIDE DEF TypeInv, LinksSound, NeverWasBlank, SweepSound, LiveBooking
    <3> QED
      BY <3>1, <3>2, <3>3, StatusKeeps
  <2> QED
    BY <1>0, <1>12, <2>1 DEF Accept
<1>13. ASSUME NEW b \in Bookings, NEW status \in Status, NEW confirmed \in
            BOOLEAN, LifeCycle(b, status, confirmed)
      PROVE  TypeInv'
  <2>1. /\ booking' \in [Bookings -> Booking]
        /\ revived' \subseteq Bookings
        /\ \A c \in Bookings : /\ booking'[c].state = booking[c].state
                               /\ booking'[c].travel = booking[c].travel
                               /\ booking'[c].package = booking[c].package
        /\ LinksSound' /\ NeverWasBlank' /\ SweepSound'
    <3>1. status \in Status /\ confirmed \in BOOLEAN
      BY <1>0 DEF Status, Booking
    <3>2. LiveBooking(b) /\ Becomes(b, status, confirmed)
      BY <1>13 DEF LifeCycle
    <3>3. UNCHANGED <<travel, package, sweep>> /\ TypeInv
      BY <1>0, <1>13 DEF LifeCycle
    <3> HIDE DEF TypeInv, LinksSound, NeverWasBlank, SweepSound, LiveBooking
    <3> QED
      BY <3>1, <3>2, <3>3, StatusKeeps
  <2> QED
    BY <1>0, <1>13, <2>1 DEF LifeCycle
<1>14. ASSUME NEW b \in Bookings, NEW reported \in BOOLEAN,
            AllConditionsAreNotMet(b, reported)
      PROVE  TypeInv'
  <2>1. /\ booking' \in [Bookings -> Booking]
        /\ revived' \subseteq Bookings
        /\ \A c \in Bookings : /\ booking'[c].state = booking[c].state
                               /\ booking'[c].travel = booking[c].travel
                               /\ booking'[c].package = booking[c].package
        /\ LinksSound' /\ NeverWasBlank' /\ SweepSound'
    <3>1. "over" \in Status /\ booking[b].confirmed \in BOOLEAN
      BY <1>0 DEF Status, Booking
    <3>2. LiveBooking(b) /\ Becomes(b, "over", booking[b].confirmed)
      BY <1>14 DEF AllConditionsAreNotMet
    <3>3. UNCHANGED <<travel, package, sweep>> /\ TypeInv
      BY <1>0, <1>14 DEF AllConditionsAreNotMet
    <3> HIDE DEF TypeInv, LinksSound, NeverWasBlank, SweepSound, LiveBooking
    <3> QED
      BY <3>1, <3>2, <3>3, StatusKeeps
  <2>2. reports' \subseteq Report
    BY <1>0, <1>14 DEF AllConditionsAreNotMet, Report, TravellerOf
  <2> QED
    BY <1>0, <1>14, <2>1, <2>2 DEF AllConditionsAreNotMet
<1>15. ASSUME NEW b \in Bookings, NEW status \in Status, UpdateStatus(b,
            status)
      PROVE  TypeInv'
  <2>1. /\ booking' \in [Bookings -> Booking]
        /\ revived' \subseteq Bookings
        /\ \A c \in Bookings : /\ booking'[c].state = booking[c].state
                               /\ booking'[c].travel = booking[c].travel
                               /\ booking'[c].package = booking[c].package
        /\ LinksSound' /\ NeverWasBlank' /\ SweepSound'
    <3>1. status \in Status /\ booking[b].confirmed \in BOOLEAN
      BY <1>0 DEF Status, Booking
    <3>2. LiveBooking(b) /\ Becomes(b, status, booking[b].confirmed)
      BY <1>15 DEF UpdateStatus
    <3>3. UNCHANGED <<travel, package, sweep>> /\ TypeInv
      BY <1>0, <1>15 DEF UpdateStatus
    <3> HIDE DEF TypeInv, LinksSound, NeverWasBlank, SweepSound, LiveBooking
    <3> QED
      BY <3>1, <3>2, <3>3, StatusKeeps
  <2> QED
    BY <1>0, <1>15, <2>1 DEF UpdateStatus
<1>16. ASSUME NEW p \in Procs, NEW u \in Users, NEW b \in Bookings,
            ReviewCheck(p, u, b)
      PROVE  TypeInv'
  BY <1>0, <1>16
     DEF ReviewCheck, Start, Job, BookingsOf
<1>17. ASSUME NEW p \in Procs, ReviewInsert(p) PROVE TypeInv'
  <2>1. job' \in [Procs -> Job] /\ JobsSound'
    BY <1>0, <1>17, ReturnKeeps DEF ReviewInsert
  <2>2. reviews' \in [Bookings -> [Users -> Nat]]
    <3>1. CASE reviews' = reviews
      BY <1>0, <3>1
    <3>2. ASSUME NEW b \in Bookings, NEW u \in Users,
                 reviews' = [reviews EXCEPT ![b][u] = @ + 1]
          PROVE  reviews' \in [Bookings -> [Users -> Nat]]
      BY <1>0, <3>2
    <3> QED
      BY <1>0, <1>17, <3>1, <3>2 DEF ReviewInsert
  <2>3. again' \subseteq Bookings \X Users
    BY <1>0, <1>17 DEF ReviewInsert
  <2> QED
    BY <1>0, <1>17, <2>1, <2>2, <2>3 DEF ReviewInsert
<1>18. ASSUME NEW u \in Users, SaveCard(u) PROVE TypeInv'
  BY <1>0, <1>18
     DEF SaveCard
<1>19. ASSUME SweepSelect PROVE TypeInv'
  BY <1>0, <1>19
     DEF SweepSelect, Sweep, NoSweep
<1>20. ASSUME NEW u \in Users, SweepRead(u) PROVE TypeInv'
  BY <1>0, <1>20
     DEF SweepRead, Sweep, BookingsOf
<1>21. ASSUME SweepCommit PROVE TypeInv'
  <2> DEFINE ts == sweep.travels
             ks == sweep.packages
             bs == sweep.bookings
  <2>1. ts \subseteq Travels /\ ks \subseteq Packages /\ bs \subseteq Bookings
    BY <1>0 DEF Sweep
  <2>2. /\ travel' = Gone(travel, ts)
        /\ package' = Gone(package, ks)
        /\ booking' = Gone(booking, bs)
    BY <1>21 DEF SweepCommit
  <2>3. \A b \in Bookings :
            booking[b].state = "live" /\ b \notin bs =>
                booking[b].travel \notin ts /\ booking[b].package \notin ks
    BY <1>21 DEF SweepCommit, Refused, BookingsOf
  <2>4. sweep' \in Sweep
    BY <1>0, <1>21 DEF SweepCommit, Rest, Sweep, NoSweep
  <2>5. reviews' \in [Bookings -> [Users -> Nat]]
    BY <1>0, <1>21 DEF SweepCommit, WithoutReviews
  <2>6. members' \subseteq Users /\ reports' \subseteq Report
    BY <1>0, <1>21 DEF SweepCommit, WithoutReports
  <2> HIDE DEF ts, ks, bs
  <2>7. /\ travel' \in [Travels -> Travel]
        /\ package' \in [Packages -> Package]
        /\ booking' \in [Bookings -> Booking]
        /\ \A t \in Travels :
                /\ travel'[t].user = travel[t].user
                /\ travel'[t].state = IF t \in ts THEN "gone" ELSE travel[t].state
        /\ \A k \in Packages :
                /\ package'[k].owner = package[k].owner
                /\ package'[k].state = IF k \in ks THEN "gone"
                                                  ELSE package[k].state
        /\ \A b \in Bookings :
                /\ b \in bs => booking'[b].state = "gone"
                /\ b \notin bs => booking'[b] = booking[b]
    <3>1. TypeInv
      BY <1>0
    <3> HIDE DEF TypeInv
    <3> QED
      BY <3>1, <2>1, <2>2, GoneKeeps
  <2>8. LinksSound'
    <3>1. \A t \in Travels : travel'[t].state # "none" => travel'[t].user \in Users
      BY <1>0, <2>1, <2>7 DEF ts
    <3>2. \A k \in Packages :
            package'[k].state # "none" => package'[k].owner \in Users
      BY <1>0, <2>1, <2>7 DEF ks
    <3>3. ASSUME NEW b \in Bookings, booking'[b].state = "live"
          PROVE  LiveTravel(booking[b].travel)' /\ LivePackage(booking[b].package)'
      BY <1>0, <2>3, <2>7, <3>3
    <3> QED
      BY <3>1, <3>2, <3>3
  <2>9. NeverWasBlank'
    BY <1>0, <2>7
  <2> QED
    BY <1>0, <1>21, <2>4, <2>5, <2>6, <2>7, <2>8, <2>9
       DEF SweepCommit, Rest, NoSweep
<1>22. ASSUME SweepRollback PROVE TypeInv'
  BY <1>0, <1>22
     DEF SweepRollback, Rest, Sweep, NoSweep
<1>23. CASE UNCHANGED vars
  BY <1>0, <1>23 DEF vars
<1> QED
  BY <1>1, <1>2, <1>3, <1>4, <1>5, <1>6, <1>7, <1>8, <1>9, <1>10, <1>11,
     <1>12, <1>13, <1>14, <1>15, <1>16, <1>17, <1>18, <1>19, <1>20, <1>21, <1>22, <1>23
     DEF Next, TravelRoutes, TravelEdits, PackageRoutes, PackageEdits,
         BookingRoutes, AnswerRoutes, LifeCycleRoutes, AdminRoutes,
         ReviewRoutes, Continue, SweepStep


(* Every row, and every handler in flight, is of its type.                 *)
THEOREM TypesHold == Spec => []TypeInv
BY TypeInit, TypeStep, PTL DEF Spec

-----------------------------------------------------------------------------
(* Reviews *)

(* A handler that is about to review has found no review, unless another   *)
(* has found none with it.                                                 *)
Reviewing(p, b, u) ==
    job[p].op = "review" /\ job[p].booking = b /\ job[p].user = u

ReviewInv ==
    /\ OneReviewEach
    /\ \A p \in Procs, b \in Bookings, u \in Users :
            Reviewing(p, b, u) /\ reviews[b][u] > 0 => <<b, u>> \in again

LEMMA ReviewStep == TypeInv /\ ReviewInv /\ [Next]_vars => ReviewInv'
<1> SUFFICES ASSUME TypeInv, ReviewInv, [Next]_vars
             PROVE  ReviewInv'
  OBVIOUS
<1>0. /\ job \in [Procs -> Job]
      /\ reviews \in [Bookings -> [Users -> Nat]]
      /\ again \subseteq Bookings \X Users
      /\ JobsSound
  BY DEF TypeInv, TypeOK
<1> USE DEF ReviewInv, OneReviewEach, Reviewing
(* Steps that start no review and write none.                              *)
<1>1. ASSUME UNCHANGED <<reviews, job, again>> PROVE ReviewInv'
  BY <1>1
<1>2. ASSUME NEW p \in Procs, NEW u \in Users, NEW b \in Bookings,
             ReviewCheck(p, u, b)
      PROVE  ReviewInv'
  <2>1. /\ UNCHANGED <<reviews, again>>
        /\ reviews[b][u] = 0
    BY <1>2 DEF ReviewCheck, rows, ghosts
  <2>2. \A q \in Procs : \/ job'[q] = job[q]
                         \/ job'[q].booking = b /\ job'[q].user = u
    BY <1>0, <1>2 DEF ReviewCheck, Start
  <2> QED
    BY <1>0, <2>1, <2>2
<1>3. ASSUME NEW p \in Procs, ReviewInsert(p) PROVE ReviewInv'
  <2> DEFINE b == job[p].booking
             u == job[p].user
  <2>1. \A q \in Procs : job'[q] = IF q = p THEN Idle ELSE job[q]
    BY <1>0, <1>3 DEF ReviewInsert, Return
  <2>2. u \in Users /\ job[p].op = "review"
    BY <1>0, <1>3 DEF ReviewInsert, JobsSound
  <2>3. CASE UNCHANGED <<reviews, again>>
    BY <1>0, <2>1, <2>3 DEF Idle
  <2>4. CASE /\ b \in Bookings
             /\ reviews' = [reviews EXCEPT ![b][u] = @ + 1]
             /\ again' = IF \E q \in Procs \ {p} : Reviewing(q, b, u)
                            THEN again \cup {<<b, u>>} ELSE again
    <3>1. \A c \in Bookings, v \in Users :
            reviews'[c][v] = IF c = b /\ v = u THEN reviews[c][v] + 1
                                               ELSE reviews[c][v]
      BY <1>0, <2>2, <2>4
    <3>2. again \subseteq again'
      BY <2>4
    <3>3. reviews[b][u] > 0 => <<b, u>> \in again
      BY <2>2, <2>4
    <3>4. reviews[b][u] \in Nat
      BY <1>0, <2>2, <2>4
    <3>5. OneReviewEach'
      BY <1>0, <3>1, <3>2, <3>3, <3>4, SMTT(30)
    <3>6. ASSUME NEW q \in Procs, NEW c \in Bookings, NEW v \in Users,
                 Reviewing(q, c, v)', (reviews[c][v] > 0)'
          PROVE  (<<c, v>> \in again)'
      <4>1. q # p /\ Reviewing(q, c, v)
        BY <2>1, <3>6 DEF Idle
      <4>2. CASE c = b /\ v = u
        BY <2>4, <4>1, <4>2
      <4>3. CASE ~(c = b /\ v = u)
        BY <3>1, <3>2, <3>6, <4>1, <4>3
      <4> QED
        BY <4>2, <4>3
    <3> QED
      BY <3>5, <3>6
  <2> QED
    BY <1>3, <2>3, <2>4 DEF ReviewInsert, LiveBooking
<1>4. ASSUME SweepCommit PROVE ReviewInv'
  <2>1. UNCHANGED <<job, again>>
    BY <1>4 DEF SweepCommit, ghosts
  <2>2. \A b \in Bookings, u \in Users :
            reviews'[b][u] = 0 \/ reviews'[b][u] = reviews[b][u]
    BY <1>0, <1>4 DEF SweepCommit, WithoutReviews
  <2> QED
    BY <1>0, <2>1, <2>2
<1>5. ASSUME NEW p \in Procs, NEW u \in Users, NEW t \in Travels,
             NEW k \in Packages, BookCheck(p, u, t, k)
      PROVE  ReviewInv'
  BY <1>0, <1>5 DEF BookCheck, Start, rows, ghosts
<1>6. ASSUME NEW p \in Procs, NEW b \in Bookings, NEW x \in Summaries,
             SummaryCheck(p, b, x)
      PROVE  ReviewInv'
  BY <1>0, <1>6 DEF SummaryCheck, Start, rows, ghosts
<1>7. ASSUME NEW p \in Procs, BookInsert(p) \/ SummaryWrite(p)
      PROVE  ReviewInv'
  BY <1>0, <1>7 DEF BookInsert, SummaryWrite, Return, Idle, ghosts
<1>8. ASSUME \/ TravelRoutes \/ TravelEdits \/ PackageRoutes \/ PackageEdits
             \/ \E t \in Travels : Departs(t)
      PROVE  ReviewInv'
  BY <1>1, <1>8
     DEF TravelRoutes, TravelEdits, PackageRoutes, PackageEdits, Departs,
         TravelCreate, TravelUpdate, TravelRemove, PackageCreate,
         PackageUpdate, PackageRemove, ghosts
<1>9. ASSUME AnswerRoutes \/ LifeCycleRoutes \/ AdminRoutes
       PROVE  ReviewInv'
  BY <1>1, <1>9
     DEF AnswerRoutes, LifeCycleRoutes, AdminRoutes, Accept, LifeCycle,
         AllConditionsAreNotMet, UpdateStatus
<1>10. ASSUME \/ \E u \in Users : SaveCard(u) \/ SweepRead(u)
              \/ SweepSelect \/ SweepRollback
       PROVE  ReviewInv'
  BY <1>1, <1>10
     DEF SaveCard, SweepRead, SweepSelect, SweepRollback, rows, ghosts
<1>11. CASE UNCHANGED vars
  BY <1>1, <1>11 DEF vars, rows, ghosts
<1> QED
  BY <1>2, <1>3, <1>4, <1>5, <1>6, <1>7, <1>8, <1>9, <1>10, <1>11
     DEF Next, BookingRoutes, ReviewRoutes, Continue, SweepStep

(* create of a review looks and then inserts: only two that looked at once *)
(* make two reviews.                                                       *)
THEOREM ReviewsHold == Spec => []OneReviewEach
<1>1. Init => ReviewInv
  BY DEF Init, ReviewInv, OneReviewEach, Reviewing, Idle
<1>2. ReviewInv => OneReviewEach
  BY DEF ReviewInv
<1> QED
  BY <1>1, <1>2, ReviewStep, TypesHold, PTL DEF Spec

-----------------------------------------------------------------------------
(* Bookings of one package *)

InProgress(a) == booking[a].state = "live" /\ booking[a].status \in Active

(* A handler that is about to book a package has found no booking of it    *)
(* under way.                                                              *)
BookingInv ==
    /\ \A a, b \in Bookings :
            /\ a # b /\ InProgress(a) /\ InProgress(b)
            /\ booking[a].package = booking[b].package
            => \/ a \in beside[b] \/ b \in beside[a]
               \/ a \in revived \/ b \in revived
    /\ \A p \in Procs, a \in Bookings :
            job[p].op = "book" /\ a \in job[p].known =>
                /\ booking[a].state # "none"
                /\ InProgress(a) /\ booking[a].package = job[p].package
                        => a \in revived

LEMMA BookingStep == TypeInv /\ BookingInv /\ [Next]_vars => BookingInv'
<1> SUFFICES ASSUME TypeInv, BookingInv, [Next]_vars
             PROVE  BookingInv'
  OBVIOUS
<1>0. /\ job \in [Procs -> Job]
      /\ booking \in [Bookings -> Booking]
      /\ beside \in [Bookings -> SUBSET Bookings]
      /\ NeverWasBlank /\ SweepSound
      /\ sweep.bookings \subseteq Bookings
  BY DEF TypeInv, TypeOK, Sweep
<1> USE DEF BookingInv, InProgress
(* Steps that book nothing, and take up again only what revived remembers. *)
<1>1. ASSUME \A a \in Bookings :
                /\ booking'[a].package = booking[a].package
                /\ booking[a].state # "none" => booking'[a].state # "none"
                /\ InProgress(a)' => InProgress(a) \/ a \in revived',
             \A p \in Procs : job'[p].op = "book" => job'[p] = job[p],
             revived \subseteq revived', UNCHANGED beside
      PROVE  BookingInv'
  BY <1>1
<1>2. ASSUME UNCHANGED <<booking, beside, revived>>,
             \A p \in Procs : job'[p].op = "book" => job'[p] = job[p]
      PROVE  BookingInv'
  BY <1>1, <1>2
<1>3. ASSUME NEW p \in Procs, NEW u \in Users, NEW t \in Travels,
             NEW k \in Packages, BookCheck(p, u, t, k)
      PROVE  BookingInv'
  <2>1. /\ UNCHANGED <<booking, beside, revived>>
        /\ \A a \in Bookings : InProgress(a) => booking[a].package # k
    BY <1>3
       DEF BookCheck, Bookable, ActiveOf, BookingsOf, LiveBooking, rows, ghosts
  <2>2. \A q \in Procs :
            IF q = p THEN /\ job'[q].package = k
                          /\ \A a \in job'[q].known : booking[a].state = "live"
                     ELSE job'[q] = job[q]
    BY <1>0, <1>3 DEF BookCheck, Start, BookingsOf, LiveBooking
  <2> QED
    BY <2>1, <2>2
<1>4. ASSUME NEW p \in Procs, BookInsert(p) PROVE BookingInv'
  <2>1. \A q \in Procs : job'[q] = IF q = p THEN Idle ELSE job[q]
    BY <1>0, <1>4 DEF BookInsert, Return
  <2>2. UNCHANGED revived /\ job[p].op = "book"
    BY <1>4 DEF BookInsert
  <2>3. CASE UNCHANGED <<booking, beside>>
    BY <1>2, <2>1, <2>2, <2>3 DEF Idle
  <2>4. ASSUME NEW b \in Bookings, booking[b].state = "none",
               booking' = [booking EXCEPT ![b] =
                        [NoBookingRow EXCEPT !.state = "live",
                                             !.travel = job[p].travel,
                                             !.package = job[p].package]],
               beside' = [beside EXCEPT ![b] =
                        BookingsOf({}, {job[p].package}) \ job[p].known]
        PROVE  BookingInv'
    <3>1. /\ \A a \in Bookings \ {b} : booking'[a] = booking[a]
          /\ \A a \in Bookings \ {b} : beside'[a] = beside[a]
          /\ booking'[b].package = job[p].package
          /\ booking'[b].state = "live"
      BY <1>0, <2>4 DEF NoBookingRow
    <3>2. \A a \in Bookings \ {b} :
            InProgress(a) /\ booking[a].package = job[p].package
                => a \in beside'[b] \/ a \in revived
      BY <1>0, <2>2, <2>4 DEF BookingsOf, LiveBooking
    <3>3. \A q \in Procs : job[q].op = "book" => b \notin job[q].known
      BY <2>4
    <3> QED
      BY <2>1, <2>2, <3>1, <3>2, <3>3 DEF Idle
  <2> QED
    BY <1>4, <2>3, <2>4 DEF BookInsert
<1>5. ASSUME NEW p \in Procs, SummaryWrite(p) PROVE BookingInv'
  <2>1. \A a \in Bookings : /\ booking'[a].state = booking[a].state
                            /\ booking'[a].status = booking[a].status
                            /\ booking'[a].package = booking[a].package
    BY <1>0, <1>5 DEF SummaryWrite, Booking
  <2>2. /\ UNCHANGED <<beside, revived>>
        /\ \A q \in Procs : job'[q] = IF q = p THEN Idle ELSE job[q]
    BY <1>0, <1>5 DEF SummaryWrite, Return, ghosts
  <2> QED
    BY <1>1, <2>1, <2>2 DEF Idle
<1>6. ASSUME NEW b \in Bookings, NEW status \in Status, NEW confirmed,
             Becomes(b, status, confirmed), UNCHANGED <<job, beside>>
      PROVE  BookingInv'
  <2>1. \A a \in Bookings :
            /\ booking'[a].state = booking[a].state
            /\ booking'[a].package = booking[a].package
            /\ booking'[a].status = IF a = b THEN status ELSE booking[a].status
    BY <1>0, <1>6 DEF Becomes, Booking
  <2>2. /\ revived \subseteq revived'
        /\ booking[b].status \notin Active /\ status \in Active => b \in revived'
    BY <1>6 DEF Becomes
  <2> QED
    BY <1>1, <1>6, <2>1, <2>2
<1>7. ASSUME AnswerRoutes \/ LifeCycleRoutes \/ AdminRoutes
      PROVE  BookingInv'
  BY <1>6, <1>7
     DEF AnswerRoutes, LifeCycleRoutes, AdminRoutes, Accept, LifeCycle,
         AllConditionsAreNotMet, UpdateStatus, Status
<1>8. ASSUME SweepCommit PROVE BookingInv'
  <2>1. UNCHANGED <<job, beside, revived>>
    BY <1>8 DEF SweepCommit, ghosts
  <2>2. \A a \in Bookings :
            /\ booking'[a].package = booking[a].package
            /\ booking'[a].state # booking[a].state => booking'[a].state = "gone"
            /\ booking'[a].status = booking[a].status
    <3>1. \A a \in Bookings :
            booking'[a] = IF a \in sweep.bookings
                             THEN [booking[a] EXCEPT !.state = "gone"]
                             ELSE booking[a]
      BY <1>0, <1>8 DEF SweepCommit, Gone
    <3> QED
      BY <1>0, <3>1 DEF Booking
  <2> QED
    BY <1>1, <2>1, <2>2
<1>9. ASSUME NEW p \in Procs, NEW b \in Bookings,
             \/ \E x \in Summaries : SummaryCheck(p, b, x)
             \/ \E u \in Users : ReviewCheck(p, u, b)
      PROVE  BookingInv'
  <2>1. UNCHANGED <<booking, beside, revived>>
    BY <1>9 DEF SummaryCheck, ReviewCheck, rows, ghosts
  <2>2. \A q \in Procs : job'[q].op # "book" \/ job'[q] = job[q]
    BY <1>0, <1>9 DEF SummaryCheck, ReviewCheck, Start
  <2> QED
    BY <1>2, <2>1, <2>2
<1>10. ASSUME NEW p \in Procs, ReviewInsert(p) PROVE BookingInv'
  BY <1>0, <1>2, <1>10 DEF ReviewInsert, Return, Idle
<1>11. ASSUME \/ TravelRoutes \/ TravelEdits \/ PackageRoutes \/ PackageEdits
              \/ \E t \in Travels : Departs(t)
       PROVE  BookingInv'
  BY <1>2, <1>11
     DEF TravelRoutes, TravelEdits, PackageRoutes, PackageEdits, Departs,
         TravelCreate, TravelUpdate, TravelRemove, PackageCreate,
         PackageUpdate, PackageRemove, ghosts
<1>12. ASSUME \/ \E u \in Users : SaveCard(u) \/ SweepRead(u)
              \/ SweepSelect \/ SweepRollback
       PROVE  BookingInv'
  BY <1>2, <1>12
     DEF SaveCard, SweepRead, SweepSelect, SweepRollback, rows, ghosts
<1>13. CASE UNCHANGED vars
  BY <1>2, <1>13 DEF vars, rows, ghosts
<1> QED
  BY <1>3, <1>4, <1>5, <1>7, <1>8, <1>9, <1>10, <1>11, <1>12, <1>13
     DEF Next, BookingRoutes, ReviewRoutes, Continue, SweepStep

(* create of a booking looks and then inserts: a package has one booking   *)
(* under way, but for one made meanwhile or taken up again.                *)
THEOREM BookingsHold == Spec => []OneBookingUnderWay
<1>1. Init => BookingInv
  <2> SUFFICES ASSUME Init PROVE BookingInv
    OBVIOUS
  <2>1. \A p \in Procs : job[p].op # "book"
    BY DEF Init, Idle
  <2>2. \A a, b \in Bookings : a = b \/ ~InProgress(a) \/ ~InProgress(b)
    BY DEF Init, InProgress, NoBookingRow
  <2> QED
    BY <2>1, <2>2 DEF BookingInv
<1>2. BookingInv => OneBookingUnderWay
  BY DEF BookingInv, InProgress, OneBookingUnderWay, ActiveOf, BookingsOf,
         LiveBooking
<1> QED
  BY <1>1, <1>2, BookingStep, TypesHold, PTL DEF Spec

-----------------------------------------------------------------------------
(* What a booking says *)

(* A step that finds a summary leaves it: one is written where there is    *)
(* none, and a booking that is made has never been, so was blank.          *)
LEMMA SummaryStep ==
    TypeInv /\ [Next]_vars =>
        \A b \in Bookings :
            booking[b].order_summary # NoSummary
                => booking'[b].order_summary = booking[b].order_summary
<1> SUFFICES ASSUME TypeInv, [Next]_vars, NEW b \in Bookings,
                    booking[b].order_summary # NoSummary
             PROVE  booking'[b].order_summary = booking[b].order_summary
  OBVIOUS
<1>0. booking \in [Bookings -> Booking] /\ NeverWasBlank
  BY DEF TypeInv, TypeOK
<1> DEFINE Kept == booking'[b].order_summary = booking[b].order_summary
<1>1. ASSUME NEW p \in Procs, BookInsert(p) PROVE Kept
  <2>1. booking[b].state # "none"
    BY <1>0 DEF NeverWasBlank, NoBookingRow
  <2> QED
    BY <1>0, <1>1, <2>1 DEF BookInsert
<1>2. ASSUME NEW p \in Procs, SummaryWrite(p) PROVE Kept
  BY <1>0, <1>2 DEF SummaryWrite, Booking
<1>3. ASSUME AnswerRoutes \/ LifeCycleRoutes \/ AdminRoutes PROVE Kept
  <2>1. ASSUME NEW c \in Bookings, NEW status, NEW confirmed,
               Becomes(c, status, confirmed)
        PROVE  Kept
    BY <1>0, <2>1 DEF Becomes, Booking
  <2> HIDE DEF Kept
  <2> QED
    BY <1>3, <2>1
       DEF AnswerRoutes, LifeCycleRoutes, AdminRoutes, Accept, LifeCycle,
           AllConditionsAreNotMet, UpdateStatus
<1>4. ASSUME SweepCommit PROVE Kept
  BY <1>0, <1>4 DEF SweepCommit, Gone, Booking
<1>5. ASSUME UNCHANGED booking PROVE Kept
  BY <1>5
<1>6. ASSUME BookingRoutes \/ ReviewRoutes \/ \E p \in Procs : ReviewInsert(p)
      PROVE  Kept
  BY <1>5, <1>6 DEF BookingRoutes, ReviewRoutes, BookCheck, SummaryCheck,
              ReviewCheck, ReviewInsert, rows
<1>7. ASSUME \/ TravelRoutes \/ TravelEdits \/ PackageRoutes \/ PackageEdits
             \/ \E t \in Travels : Departs(t)
      PROVE  Kept
  BY <1>5, <1>7
     DEF TravelRoutes, TravelEdits, PackageRoutes, PackageEdits, Departs,
         TravelCreate, TravelUpdate, TravelRemove, PackageCreate,
         PackageUpdate, PackageRemove
<1>8. ASSUME \/ \E u \in Users : SaveCard(u) \/ SweepRead(u)
             \/ SweepSelect \/ SweepRollback
      PROVE  Kept
  BY <1>5, <1>8 DEF SaveCard, SweepRead, SweepSelect, SweepRollback, rows
<1>9. CASE UNCHANGED vars
  BY <1>5, <1>9 DEF vars, rows
<1> QED
  BY <1>1, <1>2, <1>3, <1>4, <1>6, <1>7, <1>8, <1>9
     DEF Next, Continue, SweepStep

(* updateSummary looks twice for an empty summary: the first one stays.    *)
THEOREM SummariesHold == Spec => SummaryKept
<1>1. TypeInv /\ [Next]_vars =>
        [\A b \in Bookings :
            booking[b].order_summary # NoSummary
                => booking'[b].order_summary = booking[b].order_summary]_vars
  BY SummaryStep
<1> QED
  BY <1>1, TypesHold, PTL DEF Spec, SummaryKept

(* A booking that waits to be handed over was confirmed by its traveller,  *)
(* or put there by the administrator.                                      *)
ListedInv ==
    \A b \in Bookings :
        /\ booking[b].state = "live" /\ booking[b].status = "pick_up"
        /\ b \notin unasked
        => booking[b].confirmed

LEMMA ListedStep == TypeInv /\ ListedInv /\ [Next]_vars => ListedInv'
<1> SUFFICES ASSUME TypeInv, ListedInv, [Next]_vars
             PROVE  ListedInv'
  OBVIOUS
<1>0. booking \in [Bookings -> Booking] /\ unasked \subseteq Bookings
  BY DEF TypeInv, TypeOK
<1> USE DEF ListedInv
<1>1. ASSUME UNCHANGED <<booking, unasked>> PROVE ListedInv'
  BY <1>1
<1>2. ASSUME NEW p \in Procs, BookInsert(p) PROVE ListedInv'
  BY <1>0, <1>2, ZenonT(60) DEF BookInsert, NoBookingRow
<1>3. ASSUME NEW p \in Procs, SummaryWrite(p) PROVE ListedInv'
  BY <1>0, <1>3 DEF SummaryWrite, Booking, ghosts
<1>4. ASSUME NEW b \in Bookings, Accept(b) PROVE ListedInv'
  BY <1>0, <1>4 DEF Accept, Becomes, Booking
<1>5. ASSUME NEW b \in Bookings, NEW status \in Status,
             NEW confirmed \in BOOLEAN, LifeCycle(b, status, confirmed)
      PROVE  ListedInv'
  BY <1>0, <1>5 DEF LifeCycle, Becomes, Booking, Active
<1>6. ASSUME NEW b \in Bookings, NEW reported \in BOOLEAN,
             AllConditionsAreNotMet(b, reported)
      PROVE  ListedInv'
  BY <1>0, <1>6 DEF AllConditionsAreNotMet, Becomes, Booking
<1>7. ASSUME NEW b \in Bookings, NEW status \in Status, UpdateStatus(b, status)
      PROVE  ListedInv'
  BY <1>0, <1>7 DEF UpdateStatus, Becomes, Booking
<1>8. ASSUME SweepCommit PROVE ListedInv'
  BY <1>0, <1>8 DEF SweepCommit, Gone, Booking, ghosts
<1>9. ASSUME BookingRoutes \/ ReviewRoutes \/ \E p \in Procs : ReviewInsert(p)
      PROVE  ListedInv'
  BY <1>1, <1>9
     DEF BookingRoutes, ReviewRoutes, BookCheck, SummaryCheck, ReviewCheck,
         ReviewInsert, rows, ghosts
<1>10. ASSUME \/ TravelRoutes \/ TravelEdits \/ PackageRoutes \/ PackageEdits
              \/ \E t \in Travels : Departs(t)
       PROVE  ListedInv'
  BY <1>1, <1>10
     DEF TravelRoutes, TravelEdits, PackageRoutes, PackageEdits, Departs,
         TravelCreate, TravelUpdate, TravelRemove, PackageCreate,
         PackageUpdate, PackageRemove, ghosts
<1>11. ASSUME \/ \E u \in Users : SaveCard(u) \/ SweepRead(u)
              \/ SweepSelect \/ SweepRollback
       PROVE  ListedInv'
  BY <1>1, <1>11
     DEF SaveCard, SweepRead, SweepSelect, SweepRollback, rows, ghosts
<1>12. CASE UNCHANGED vars
  BY <1>1, <1>12 DEF vars, rows, ghosts
<1> QED
  BY <1>2, <1>3, <1>4, <1>5, <1>6, <1>7, <1>8, <1>9, <1>10, <1>11, <1>12
     DEF Next, AnswerRoutes, LifeCycleRoutes, AdminRoutes, Continue, SweepStep

(* The lists are split by status, and the traveller's first one asks for   *)
(* the confirmation as well: what is under way is confirmed.               *)
THEOREM ListsHold == Spec => []ListedOnce
<1>1. Init => ListedInv
  BY DEF Init, ListedInv, NoBookingRow
<1>2. TypeInv /\ ListedInv => ListedOnce
  <2> SUFFICES ASSUME TypeInv, ListedInv, NEW b \in Bookings, LiveBooking(b)
               PROVE  ListedOnce!(b)!2
    BY DEF ListedOnce
  <2>1. booking[b].status \in Status
    BY DEF TypeInv, TypeOK, Booking
  <2> QED
    BY <2>1
       DEF ListedInv, Status, UnderWay, LiveBooking, BookingsAsTraveller,
           BookingsAsPackageOwner, BookingHistoryAsTraveller,
           BookingHistoryAsPackageOwner
<1> QED
  BY <1>1, <1>2, ListedStep, TypesHold, PTL DEF Spec

-----------------------------------------------------------------------------
(* What the cron deletes *)

(* What a sweep is about to delete is an unverified user's.                *)
SweepInv ==
    /\ sweep.todo \subseteq unverified
    /\ sweep.user # NoUser =>
        /\ sweep.user \in unverified
        /\ \A b \in Bookings :
                booking[b].state = "live" /\ b \in sweep.bookings =>
                    sweep.user \in {OwnerOf(b), TravellerOf(b)}

LEMMA SweepInvStep == TypeInv /\ SweepInv /\ [Next]_vars => SweepInv'
<1> SUFFICES ASSUME TypeInv, SweepInv, [Next]_vars
             PROVE  SweepInv'
  OBVIOUS
<1>0. /\ travel \in [Travels -> Travel]
      /\ package \in [Packages -> Package]
      /\ booking \in [Bookings -> Booking]
      /\ sweep \in Sweep
      /\ LinksSound /\ NeverWasBlank /\ SweepSound
  BY DEF TypeInv, TypeOK
<1> USE DEF SweepInv, OwnerOf, TravellerOf
<1>1. ASSUME UNCHANGED <<unverified, sweep>>,
             \A b \in Bookings :
                b \in sweep.bookings /\ booking'[b].state = "live" =>
                    /\ booking[b].state = "live"
                    /\ booking'[b].travel = booking[b].travel
                    /\ booking'[b].package = booking[b].package,
             \A t \in Travels : LiveTravel(t) => travel'[t].user = travel[t].user,
             \A k \in Packages : LivePackage(k) => package'[k].owner = package[k].owner
      PROVE  SweepInv'
  BY <1>0, <1>1 DEF LinksSound, LiveTravel, LivePackage
<1>2. ASSUME NEW u \in Users, NEW t \in Travels, TravelCreate(u, t)
      PROVE  SweepInv'
  BY <1>0, <1>1, <1>2 DEF TravelCreate, LiveTravel, ghosts
<1>3. ASSUME NEW t \in Travels, TravelUpdate(t) \/ TravelRemove(t) \/ Departs(t)
      PROVE  SweepInv'
  <2>1. \A s \in Travels : travel'[s].user = travel[s].user
    BY <1>0, <1>3 DEF TravelUpdate, TravelRemove, Departs, Travel
  <2>2. UNCHANGED <<unverified, sweep, booking, package>>
    BY <1>3 DEF TravelUpdate, TravelRemove, Departs
  <2> QED
    BY <1>1, <2>1, <2>2
<1>4. ASSUME NEW u \in Users, NEW k \in Packages, PackageCreate(u, k)
      PROVE  SweepInv'
  BY <1>0, <1>1, <1>4 DEF PackageCreate, LivePackage, ghosts
<1>5. ASSUME PackageEdits PROVE SweepInv'
  <2>1. \A j \in Packages : package'[j].owner = package[j].owner
    BY <1>0, <1>5 DEF PackageEdits, PackageUpdate, PackageRemove, Package
  <2>2. UNCHANGED <<unverified, sweep, booking, travel>>
    BY <1>5 DEF PackageEdits, PackageUpdate, PackageRemove
  <2> QED
    BY <1>1, <2>1, <2>2
<1>6. ASSUME NEW p \in Procs, BookInsert(p) PROVE SweepInv'
  <2>1. UNCHANGED <<unverified, sweep, travel, package>>
    BY <1>6 DEF BookInsert
  <2>2. \A b \in Bookings : booking[b].state # "none" => booking'[b] = booking[b]
    BY <1>0, <1>6 DEF BookInsert
  <2> QED
    BY <1>0, <1>1, <2>1, <2>2 DEF SweepSound
<1>7. ASSUME NEW p \in Procs, SummaryWrite(p) PROVE SweepInv'
  <2>1. UNCHANGED <<unverified, sweep, travel, package>>
    BY <1>7 DEF SummaryWrite
  <2>2. \A b \in Bookings : /\ booking'[b].state = booking[b].state
                            /\ booking'[b].travel = booking[b].travel
                            /\ booking'[b].package = booking[b].package
    BY <1>0, <1>7 DEF SummaryWrite, Booking
  <2> QED
    BY <1>1, <2>1, <2>2
<1>8. ASSUME AnswerRoutes \/ LifeCycleRoutes \/ AdminRoutes PROVE SweepInv'
  <2>1. ASSUME NEW c \in Bookings, NEW status, NEW confirmed,
               Becomes(c, status, confirmed),
               UNCHANGED <<unverified, sweep, travel, package>>
        PROVE  SweepInv'
    <3>1. \A b \in Bookings : /\ booking'[b].state = booking[b].state
                              /\ booking'[b].travel = booking[b].travel
                              /\ booking'[b].package = booking[b].package
      BY <1>0, <2>1 DEF Becomes, Booking
    <3> QED
      BY <1>1, <2>1, <3>1
  <2> QED
    BY <1>8, <2>1
       DEF AnswerRoutes, LifeCycleRoutes, AdminRoutes, Accept, LifeCycle,
           AllConditionsAreNotMet, UpdateStatus
<1>9. ASSUME SweepSelect PROVE SweepInv'
  BY <1>0, <1>9 DEF SweepSelect, NoSweep, rows
<1>10. ASSUME NEW u \in Users, SweepRead(u) PROVE SweepInv'
  <2>1. UNCHANGED <<unverified, booking, travel, package>> /\ u \in unverified
    BY <1>10 DEF SweepRead, rows
  <2>2. /\ sweep'.todo \subseteq sweep.todo /\ sweep'.user = u
        /\ sweep'.bookings =
            BookingsOf({t \in Travels : LiveTravel(t) /\ travel[t].user = u},
                       {k \in Packages : LivePackage(k) /\ package[k].owner = u})
    BY <1>10 DEF SweepRead
  <2>3. \A b \in sweep'.bookings : u \in {OwnerOf(b), TravellerOf(b)}
    BY <2>2 DEF BookingsOf
  <2> QED
    BY <2>1, <2>2, <2>3
<1>11. ASSUME SweepCommit \/ SweepRollback PROVE SweepInv'
  <2>1. sweep' = [NoSweep EXCEPT !.todo = sweep.todo] /\ UNCHANGED unverified
    BY <1>11 DEF SweepCommit, SweepRollback, Rest, rows
  <2>2. sweep'.todo = sweep.todo /\ sweep'.user = NoUser
    BY <2>1 DEF NoSweep
  <2> QED
    BY <2>1, <2>2
<1>12. ASSUME \/ BookingRoutes \/ ReviewRoutes
              \/ \E p \in Procs : ReviewInsert(p)
              \/ \E u \in Users : SaveCard(u)
       PROVE  SweepInv'
  BY <1>12
     DEF BookingRoutes, ReviewRoutes, BookCheck, SummaryCheck, ReviewCheck,
         ReviewInsert, SaveCard, rows
<1>13. CASE UNCHANGED vars
  BY <1>13 DEF vars, rows
<1> QED
  BY <1>2, <1>3, <1>4, <1>5, <1>6, <1>7, <1>8, <1>9, <1>10, <1>11, <1>12,
     <1>13
     DEF Next, TravelRoutes, TravelEdits, PackageRoutes, Continue, SweepStep

(* Only a commit of the sweep takes a booking away, with one of its two,   *)
(* and it commits only when nothing else of that user is left.             *)
LEMMA StayStep ==
    TypeInv /\ SweepInv /\ [Next]_vars =>
        \A b \in Bookings :
            LiveBooking(b) /\ booking'[b].state # "live" =>
                /\ \E u \in {OwnerOf(b), TravellerOf(b)} \cap unverified :
                        /\ u \notin members'
                        /\ \A t \in Travels : travel[t].user = u
                                => travel'[t].state # "live"
                        /\ \A k \in Packages : package[k].owner = u
                                => package'[k].state # "live"
                /\ \A v \in Users : reviews'[b][v] = 0
<1> SUFFICES ASSUME TypeInv, SweepInv, [Next]_vars, NEW b \in Bookings,
                    LiveBooking(b), booking'[b].state # "live"
             PROVE  /\ \E u \in {OwnerOf(b), TravellerOf(b)} \cap unverified :
                        /\ u \notin members'
                        /\ \A t \in Travels : travel[t].user = u
                                => travel'[t].state # "live"
                        /\ \A k \in Packages : package[k].owner = u
                                => package'[k].state # "live"
                    /\ \A v \in Users : reviews'[b][v] = 0
  OBVIOUS
<1>0. /\ booking \in [Bookings -> Booking]
      /\ sweep \in Sweep
      /\ booking[b].state = "live"
  BY DEF TypeInv, TypeOK, LiveBooking
<1>1. ASSUME ~SweepCommit PROVE booking'[b].state = "live"
  <2>1. ASSUME UNCHANGED booking PROVE booking'[b].state = "live"
    BY <1>0, <2>1
  <2>2. ASSUME NEW c \in Bookings, NEW status, NEW confirmed,
               Becomes(c, status, confirmed)
        PROVE  booking'[b].state = "live"
    BY <1>0, <2>2 DEF Becomes, Booking
  <2>3. ASSUME NEW p \in Procs, BookInsert(p) PROVE booking'[b].state = "live"
    BY <1>0, <2>3 DEF BookInsert
  <2>4. ASSUME NEW p \in Procs, SummaryWrite(p)
        PROVE  booking'[b].state = "live"
    BY <1>0, <2>4 DEF SummaryWrite, Booking
  <2>5. ASSUME AnswerRoutes \/ LifeCycleRoutes \/ AdminRoutes
        PROVE  booking'[b].state = "live"
    BY <2>2, <2>5
       DEF AnswerRoutes, LifeCycleRoutes, AdminRoutes, Accept, LifeCycle,
           AllConditionsAreNotMet, UpdateStatus
  <2>6. ASSUME \/ TravelRoutes \/ TravelEdits \/ PackageRoutes \/ PackageEdits
               \/ \E t \in Travels : Departs(t)
        PROVE  booking'[b].state = "live"
    BY <2>1, <2>6
       DEF TravelRoutes, TravelEdits, PackageRoutes, PackageEdits, Departs,
           TravelCreate, TravelUpdate, TravelRemove, PackageCreate,
           PackageUpdate, PackageRemove
  <2>7. ASSUME \/ BookingRoutes \/ ReviewRoutes
               \/ \E p \in Procs : ReviewInsert(p)
        PROVE  booking'[b].state = "live"
    BY <2>1, <2>7
       DEF BookingRoutes, ReviewRoutes, BookCheck, SummaryCheck, ReviewCheck,
           ReviewInsert, rows
  <2>8. ASSUME \/ \E u \in Users : SaveCard(u) \/ SweepRead(u)
               \/ SweepSelect \/ SweepRollback
        PROVE  booking'[b].state = "live"
    BY <2>1, <2>8 DEF SaveCard, SweepRead, SweepSelect, SweepRollback, rows
  <2>9. CASE UNCHANGED vars
    BY <2>1, <2>9 DEF vars, rows
  <2> QED
    BY <1>1, <2>3, <2>4, <2>5, <2>6, <2>7, <2>8, <2>9
       DEF Next, Continue, SweepStep
<1>2. SweepCommit
  BY <1>1
<1> DEFINE u == sweep.user
<1>3. b \in sweep.bookings
  BY <1>0, <1>2 DEF SweepCommit, Gone
<1>4. u \in {OwnerOf(b), TravellerOf(b)} \cap unverified
  BY <1>0, <1>2, <1>3 DEF SweepCommit, SweepInv
<1>5. u \notin members'
  BY <1>2 DEF SweepCommit
<1>6. /\ sweep.travels \in SUBSET Travels
      /\ sweep.packages \in SUBSET Packages
      /\ sweep.bookings \in SUBSET Bookings
  BY <1>0 DEF Sweep
<1>7. /\ \A t \in Travels : travel'[t].state
            = IF t \in sweep.travels THEN "gone" ELSE travel[t].state
      /\ \A k \in Packages : package'[k].state
            = IF k \in sweep.packages THEN "gone" ELSE package[k].state
  BY <1>2, <1>6, GoneKeeps DEF SweepCommit
<1>8. ASSUME NEW t \in Travels, travel[t].user = u
      PROVE  travel'[t].state # "live"
  BY <1>2, <1>7, <1>8 DEF SweepCommit, Refused, LiveTravel
<1>9. ASSUME NEW k \in Packages, package[k].owner = u
      PROVE  package'[k].state # "live"
  BY <1>2, <1>7, <1>9 DEF SweepCommit, Refused, LivePackage
<1>10. \A v \in Users : reviews'[b][v] = 0
  BY <1>2, <1>3 DEF SweepCommit, WithoutReviews
<1> QED
  BY <1>4, <1>5, <1>8, <1>9, <1>10

(* The cron that deletes unverified users: with a user goes all of his,    *)
(* and no booking but his.                                                 *)
THEOREM StaysHold == Spec => BookingsStay
<1>1. Init => SweepInv
  BY DEF Init, SweepInv, NoSweep
<1>2. TypeInv /\ SweepInv /\ [Next]_vars =>
        [\A b \in Bookings :
            LiveBooking(b) /\ booking'[b].state # "live" =>
                /\ \E u \in {OwnerOf(b), TravellerOf(b)} \cap unverified :
                        /\ u \notin members'
                        /\ \A t \in Travels : travel[t].user = u
                                => travel'[t].state # "live"
                        /\ \A k \in Packages : package[k].owner = u
                                => package'[k].state # "live"
                /\ \A v \in Users : reviews'[b][v] = 0]_vars
  BY StayStep
<1> QED
  BY <1>1, <1>2, SweepInvStep, TypesHold, PTL DEF Spec, BookingsStay

===============================================================================
