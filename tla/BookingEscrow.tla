----------------------------- MODULE BookingEscrow -----------------------------
(***************************************************************************)
(* The life of a paid booking: BookingService, TravelService.updateRequest,*)
(* WalletService.completeBookingWithWallet, the Stripe payment webhook and *)
(* the 12-hour cron of AnnouncementCronService, over the tables they share.*)
(*                                                                         *)
(* Every handler reads with one await, checks what it read, and writes     *)
(* with later awaits, so other handlers run in between.  A handler in      *)
(* flight is a job: `at` is the await it has reached and the other fields  *)
(* are what it still remembers.  Each action below is the code from one    *)
(* await to the next.  A Prisma $transaction of plain increments is one    *)
(* action; the one of the wallet payment, which also writes outside        *)
(* itself, has its row locks modelled.  A booking's amount stays what it   *)
(* was created with: the webhook writes back the amount that was charged.  *)
(*                                                                         *)
(* Left out because no handler reads them back: notifications, the         *)
(* conversation's label, Transaction audit rows, cancellation counters,    *)
(* photos and reasons.                                                     *)
(***************************************************************************)
EXTENDS Integers, FiniteSets, Functions, Settlement

CONSTANTS
    Bookings,           \* rows of the bookings table, created and not yet paid
    Users,
    Requests,           \* ids an AnnouncementRequest may get
    Procs,              \* slots for handlers in flight
    NoBooking, NoRequest, NoUser,   \* NULL
    OwnerOf,            \* [Bookings -> Users], the sender
    TravellerOf,        \* [Bookings -> Users]
    Amount,             \* [Bookings -> Nat \ {0}]
    PlatformPercentage,
    InitialBalance,     \* [Users -> Nat]
    HourSamples,        \* hours before departure that are told apart
    Ops,                \* the operations clients and the scheduler invoke
    MaxCharges,         \* bound: card payments of one booking
    MaxDeliveries,      \* bound: webhook deliveries for one booking
    MaxFailures,        \* bound: handlers that stop half-way
    MaxAdminEdits       \* bound: status edits by an administrator

ASSUME BookingAssumption ==
    /\ NoBooking \notin Bookings
    /\ NoRequest \notin Requests
    /\ NoUser \notin Users
    /\ OwnerOf \in [Bookings -> Users]
    /\ TravellerOf \in [Bookings -> Users]
    /\ Amount \in [Bookings -> Nat \ {0}]
    /\ PlatformPercentage \in Int
    /\ InitialBalance \in [Users -> Nat]
    /\ HourSamples \subseteq Int
    /\ HourSamples # {}

(* Tables hold finitely many rows. *)
ASSUME FiniteAssumption == IsFiniteSet(Bookings) /\ IsFiniteSet(Users)

ASSUME BoundAssumption ==
    /\ MaxCharges \in Nat
    /\ MaxDeliveries \in Nat
    /\ MaxFailures \in Nat
    /\ MaxAdminEdits \in Nat

VARIABLES
    booking,            \* the bookings table
    request,            \* the announcement_requests table
    balance,            \* wallets.balance
    earnings,           \* platform_wallet.total_earnings
    hoursLeft,          \* hours until the departure of each booking's travel
    job,                \* the handlers in flight
    (* Ghosts: what has happened to each booking's money. *)
    debits,             \* wallet payments committed
    charges,            \* card payments captured by Stripe
    refunds,            \* refunds and cancellation settlements credited
    payouts,            \* deliveries paid out
    (* Counters behind the bounds. *)
    deliveries, failures, edits

tables == <<booking, request>>
wallets == <<balance, earnings>>
ledger == <<debits, charges, refunds, payouts>>
bounds == <<deliveries, failures, edits>>
vars == <<booking, request, balance, earnings, hoursLeft, job,
          debits, charges, refunds, payouts, deliveries, failures, edits>>

-----------------------------------------------------------------------------
(* Types *)

Status == {"pending", "pick_up", "on_the_way", "delivered", "completed",
           "rejected", "cancel", "problem_with_the_package",
           "all_conditions_are_not_met", "declined", "expired", "in_progress"}

PaymentStatus == {"pending", "completed", "refunded"}

Booking == [status : Status, paid : BOOLEAN, payment_status : PaymentStatus,
            confirmed : BOOLEAN, otp : BOOLEAN]

(* `about` is the booking of the request's package and travel; `booking`   *)
(* is the nullable, unique foreign key booking_id.  A row that does not    *)
(* exist yet is about no booking.                                          *)
Request == [about : Bookings \cup {NoBooking},
            booking : Bookings \cup {NoBooking},
            is_accepted : BOOLEAN, is_refused : BOOLEAN,
            is_processed : BOOLEAN, overdue : BOOLEAN]

AllOps == {"payFromWallet", "webhook", "cancel", "accept", "refuse",
           "notAccept", "notAcceptRefuse", "notRefuse", "expire",
           "pickUp", "conditionsNotMet", "problem", "dropOff", "complete",
           "reject"}

Places == {"start", "checked", "announced", "flagged", "credited", "marked",
           "delivered", "next"}

Job == [op : AllOps \cup {"none"}, at : Places,
        booking : Bookings \cup {NoBooking},
        request : Requests \cup {NoRequest},
        user : Users \cup {NoUser}, todo : SUBSET Requests]

NoRow == [about |-> NoBooking, booking |-> NoBooking, is_accepted |-> FALSE,
          is_refused |-> FALSE, is_processed |-> FALSE, overdue |-> FALSE]

Idle == [op |-> "none", at |-> "start", booking |-> NoBooking,
         request |-> NoRequest, user |-> NoUser, todo |-> {}]

TypeOK ==
    /\ booking \in [Bookings -> Booking]
    /\ request \in [Requests -> Request]
    /\ balance \in [Users -> Int]
    /\ earnings \in Int
    /\ hoursLeft \in [Bookings -> HourSamples]
    /\ job \in [Procs -> Job]
    /\ debits \in [Bookings -> Nat]
    /\ charges \in [Bookings -> Nat]
    /\ refunds \in [Bookings -> Nat]
    /\ payouts \in [Bookings -> Nat]
    /\ deliveries \in [Bookings -> Nat]
    /\ failures \in Nat
    /\ edits \in Nat

Init ==
    /\ booking = [b \in Bookings |->
                    [status |-> "pending", paid |-> FALSE,
                     payment_status |-> "pending", confirmed |-> FALSE,
                     otp |-> FALSE]]
    /\ request = [r \in Requests |-> NoRow]
    /\ balance = InitialBalance
    /\ earnings = 0
    /\ hoursLeft \in [Bookings -> HourSamples]
    /\ job = [p \in Procs |-> Idle]
    /\ debits = [b \in Bookings |-> 0]
    /\ charges = [b \in Bookings |-> 0]
    /\ refunds = [b \in Bookings |-> 0]
    /\ payouts = [b \in Bookings |-> 0]
    /\ deliveries = [b \in Bookings |-> 0]
    /\ failures = 0
    /\ edits = 0

-----------------------------------------------------------------------------
(* Handlers in flight *)

Start(p, op, b, r, u) ==
    /\ op \in Ops
    /\ job[p] = Idle
    /\ job' = [job EXCEPT ![p] = [op |-> op, at |-> "checked", booking |-> b,
                                  request |-> r, user |-> u, todo |-> {}]]

At(p, ops, place) == job[p].op \in ops /\ job[p].at = place

MoveTo(p, place) == job' = [job EXCEPT ![p].at = place]

Return(p) == job' = [job EXCEPT ![p] = Idle]

(* The wallet payment has written its wallet row and its booking row and   *)
(* not committed: another writer of either row waits for it, a reader sees *)
(* the old row.                                                            *)
InPayment(p) == At(p, {"payFromWallet"}, "announced")

(* Mutant: writers do not wait for the row. *)
RowNeverLocked(b) == FALSE

BookingLocked(b) == \E p \in Procs : InPayment(p) /\ job[p].booking = b
WalletLocked(u) == \E p \in Procs : InPayment(p) /\ job[p].user = u

(* Mutant: only a refusal counts as an answer. *)
NotRefused(r) == request[r].about # NoBooking /\ ~request[r].is_refused

(* A request nobody has answered and the cron has not processed. *)
Unanswered(r) ==
    /\ request[r].about # NoBooking
    /\ ~request[r].is_accepted
    /\ ~request[r].is_refused
    /\ ~request[r].is_processed

Linked(b) == {r \in Requests : request[r].booking = b}

(* announcementRequest.create: a fresh row for the package and travel of b.*)
Announce(r, b, link) ==
    /\ request[r] = NoRow
    /\ request' = [request EXCEPT ![r].about = b, ![r].booking = link]

(* Mutant: the platform's part is forgotten. *)
CreditWalletsOnly(b, split) ==
    /\ split.sender > 0 => ~WalletLocked(OwnerOf[b])
    /\ split.traveller > 0 => ~WalletLocked(TravellerOf[b])
    /\ balance' = [u \in Users |->
                    balance[u]
                    + (IF u = OwnerOf[b] THEN split.sender ELSE 0)
                    + (IF u = TravellerOf[b] THEN split.traveller ELSE 0)]
    /\ UNCHANGED earnings

(* One $transaction that credits a split of b's amount. *)
Credit(b, split) ==
    /\ split.sender > 0 => ~WalletLocked(OwnerOf[b])
    /\ split.traveller > 0 => ~WalletLocked(TravellerOf[b])
    /\ balance' = [u \in Users |->
                    balance[u]
                    + (IF u = OwnerOf[b] THEN split.sender ELSE 0)
                    + (IF u = TravellerOf[b] THEN split.traveller ELSE 0)]
    /\ earnings' = earnings + split.platform

-----------------------------------------------------------------------------
(* Payment from the wallet, by any signed-in user u *)

(* Mutant: the balance is not checked. *)
PayUnchecked(p, b, u) ==
    /\ Start(p, "payFromWallet", b, NoRequest, u)
    /\ ~booking[b].paid
    /\ booking[b].status = "pending"
    /\ UNCHANGED <<tables, wallets, hoursLeft, ledger, bounds>>

(* completeBookingWithWallet up to the balance check. *)
PayCheck(p, b, u) ==
    /\ Start(p, "payFromWallet", b, NoRequest, u)
    /\ ~booking[b].paid
    /\ booking[b].status = "pending"
    /\ balance[u] >= Amount[b]
    /\ UNCHANGED <<tables, wallets, hoursLeft, ledger, bounds>>

(* The writes inside the transaction, invisible until it commits, and the  *)
(* announcement request, written through another connection and visible at *)
(* once.                                                                   *)
PayAnnounce(p) ==
    /\ At(p, {"payFromWallet"}, "checked")
    /\ ~BookingLocked(job[p].booking)
    /\ ~WalletLocked(job[p].user)
    /\ Linked(job[p].booking) = {}
    /\ \E r \in Requests : Announce(r, job[p].booking, job[p].booking)
    /\ MoveTo(p, "announced")
    /\ UNCHANGED <<booking, wallets, hoursLeft, ledger, bounds>>

(* Mutant: booking_id is not unique, and the payment goes on. *)
PayAgain(p) ==
    /\ At(p, {"payFromWallet"}, "checked")
    /\ ~BookingLocked(job[p].booking)
    /\ ~WalletLocked(job[p].user)
    /\ Linked(job[p].booking) # {}
    /\ MoveTo(p, "announced")
    /\ UNCHANGED <<tables, wallets, hoursLeft, ledger, bounds>>

(* booking_id is unique: a second announcement of the booking throws, and  *)
(* the transaction is rolled back.                                         *)
PayConflict(p) ==
    /\ At(p, {"payFromWallet"}, "checked")
    /\ ~BookingLocked(job[p].booking)
    /\ ~WalletLocked(job[p].user)
    /\ Linked(job[p].booking) # {}
    /\ Return(p)
    /\ UNCHANGED <<tables, wallets, hoursLeft, ledger, bounds>>

(* The transaction commits.  The decrement is of the balance as it is now. *)
PayCommit(p) ==
    /\ InPayment(p)
    /\ LET b == job[p].booking
           u == job[p].user
       IN  /\ balance' = [balance EXCEPT ![u] = @ - Amount[b]]
           /\ booking' = [booking EXCEPT ![b].paid = TRUE,
                                         ![b].payment_status = "completed",
                                         ![b].status = "pick_up"]
           /\ debits' = [debits EXCEPT ![b] = @ + 1]
    /\ Return(p)
    /\ UNCHANGED <<request, earnings, hoursLeft, charges, refunds, payouts,
                   bounds>>

-----------------------------------------------------------------------------
(* Payment by card *)

(* processPayment, which confirms at once, or getPaymentIntent and the     *)
(* charge Stripe makes on it later.  Both compare the column with a value  *)
(* it never holds.                                                         *)
ChargeCard(b) ==
    /\ "webhook" \in Ops
    /\ booking[b].payment_status # "complated"
    /\ charges[b] < MaxCharges
    /\ charges' = [charges EXCEPT ![b] = @ + 1]
    /\ UNCHANGED <<tables, wallets, hoursLeft, job, debits, refunds, payouts,
                   bounds>>

(* payment_intent.succeeded arrives, for the first time or again: the      *)
(* booking is updated without looking at what it was.                      *)
WebhookRecord(p, b) ==
    /\ Start(p, "webhook", b, NoRequest, NoUser)
    /\ charges[b] > 0
    /\ deliveries[b] < MaxDeliveries
    /\ ~BookingLocked(b)
    /\ booking' = [booking EXCEPT ![b].paid = TRUE,
                                  ![b].payment_status = "completed"]
    /\ deliveries' = [deliveries EXCEPT ![b] = @ + 1]
    /\ UNCHANGED <<request, wallets, hoursLeft, ledger, failures, edits>>

(* The request it creates: metadata.id is not in the metadata, so          *)
(* booking_id is NULL.                                                     *)
WebhookAnnounce(p) ==
    /\ At(p, {"webhook"}, "checked")
    /\ \E r \in Requests : Announce(r, job[p].booking, NoBooking)
    /\ Return(p)
    /\ UNCHANGED <<booking, wallets, hoursLeft, ledger, bounds>>

-----------------------------------------------------------------------------
(* Cancellation, by the traveller or by the sender *)

CancelCheck(p, b, u) ==
    /\ Start(p, "cancel", b, NoRequest, u)
    /\ u \in {OwnerOf[b], TravellerOf[b]}
    /\ booking[b].paid
    /\ booking[b].payment_status = "completed"
    /\ booking[b].status # "cancel"
    /\ UNCHANGED <<tables, wallets, hoursLeft, ledger, bounds>>

(* The wallet transaction, at the hours left when it runs. *)
CancelSettle(p) ==
    /\ At(p, {"cancel"}, "checked")
    /\ LET b == job[p].booking
           split == IF job[p].user = TravellerOf[b]
                       THEN FullRefund(Amount[b])
                       ELSE SenderCancelSplit(Amount[b], hoursLeft[b])
       IN  /\ Credit(b, split)
           /\ refunds' = [refunds EXCEPT ![b] = @ + 1]
    /\ MoveTo(p, "credited")
    /\ UNCHANGED <<tables, hoursLeft, debits, charges, payouts, bounds>>

(* Mutant: the booking is marked before the wallets are credited. *)
CancelMarkFirst(p) ==
    /\ At(p, {"cancel"}, "checked")
    /\ ~BookingLocked(job[p].booking)
    /\ booking' = [booking EXCEPT ![job[p].booking].status = "cancel",
                                  ![job[p].booking].payment_status = "refunded"]
    /\ Return(p)
    /\ UNCHANGED <<request, wallets, hoursLeft, ledger, bounds>>

(* Only then the booking row, whatever it says by now. *)
CancelMark(p) ==
    /\ At(p, {"cancel"}, "credited")
    /\ ~BookingLocked(job[p].booking)
    /\ booking' = [booking EXCEPT ![job[p].booking].status = "cancel",
                                  ![job[p].booking].payment_status = "refunded"]
    /\ Return(p)
    /\ UNCHANGED <<request, wallets, hoursLeft, ledger, bounds>>

-----------------------------------------------------------------------------
(* The traveller's answer to a request.  The body of the PATCH holds two   *)
(* optional booleans, which make five different answers:                   *)
(*   accept           is_accepted = true, whatever is_refused              *)
(*   refuse           is_refused = true alone                              *)
(*   notAccept        is_accepted = false without is_refused = true        *)
(*   notAcceptRefuse  is_accepted = false with is_refused = true           *)
(*   notRefuse        is_refused = false alone                             *)

Refusals == {"refuse", "notAcceptRefuse"}
Answers == {"accept", "notAccept", "notRefuse"} \cup Refusals

(* Mutant: the other flag is left as it was. *)
AnsweredBeside(row, op) ==
    [row EXCEPT !.is_processed = TRUE,
                !.is_accepted = @ \/ op = "accept",
                !.is_refused = @ \/ op \in Refusals]

(* The row after the answer.  is_accepted is written unless it was absent  *)
(* and is_refused was false; is_refused only by the answers named here.    *)
Answered(row, op) ==
    [row EXCEPT
        !.is_processed = TRUE,
        !.is_accepted = IF op = "notRefuse" THEN @ ELSE op = "accept",
        !.is_refused = IF op \in {"accept", "refuse", "notRefuse"}
                          THEN op = "refuse" ELSE @]

AnswerCheck(p, r, op) ==
    /\ op \in Answers
    /\ Start(p, op, request[r].booking, r, NoUser)
    /\ Unanswered(r)
    /\ UNCHANGED <<tables, wallets, hoursLeft, ledger, bounds>>

(* Mutant: the answer is recorded and nothing follows. *)
AnswerRecorded(p) ==
    /\ At(p, Answers, "checked")
    /\ LET r == job[p].request
       IN  request' = [request EXCEPT ![r] = Answered(@, job[p].op)]
    /\ Return(p)
    /\ UNCHANGED <<booking, wallets, hoursLeft, ledger, bounds>>

(* The request is marked processed first.  An answer that has more to do   *)
(* needs the linked booking: without one it throws here, and the catch     *)
(* reports 'Travel update failed'.                                         *)
AnswerFlag(p) ==
    /\ At(p, Answers, "checked")
    /\ LET r == job[p].request
       IN  request' = [request EXCEPT ![r] = Answered(@, job[p].op)]
    /\ IF job[p].op \in {"accept"} \cup Refusals /\ job[p].booking # NoBooking
          THEN MoveTo(p, "flagged")
          ELSE Return(p)
    /\ UNCHANGED <<booking, wallets, hoursLeft, ledger, bounds>>

AcceptConfirm(p) ==
    /\ At(p, {"accept"}, "flagged")
    /\ ~BookingLocked(job[p].booking)
    /\ booking' = [booking EXCEPT ![job[p].booking].status = "pick_up",
                                  ![job[p].booking].confirmed = TRUE]
    /\ Return(p)
    /\ UNCHANGED <<request, wallets, hoursLeft, ledger, bounds>>

RefuseCredit(p) ==
    /\ At(p, Refusals, "flagged")
    /\ Credit(job[p].booking, FullRefund(Amount[job[p].booking]))
    /\ refunds' = [refunds EXCEPT ![job[p].booking] = @ + 1]
    /\ MoveTo(p, "credited")
    /\ UNCHANGED <<tables, hoursLeft, debits, charges, payouts, bounds>>

RefuseMark(p) ==
    /\ At(p, Refusals, "credited")
    /\ ~BookingLocked(job[p].booking)
    /\ booking' = [booking EXCEPT ![job[p].booking].status = "declined",
                                  ![job[p].booking].payment_status = "refunded"]
    /\ Return(p)
    /\ UNCHANGED <<request, wallets, hoursLeft, ledger, bounds>>

-----------------------------------------------------------------------------
(* The 12-hour cron *)

(* The findMany: a NULL booking_id has no booking to match.                *)
Expirable == {r \in Requests :
                /\ Unanswered(r)
                /\ request[r].overdue
                /\ request[r].booking # NoBooking
                /\ booking[request[r].booking].payment_status = "completed"}

(* The loop of handleCron with these rows left. *)
Sweeping(rows) == [op |-> "expire", at |-> "next", booking |-> NoBooking,
                   request |-> NoRequest, user |-> NoUser, todo |-> rows]

(* Mutant: a run that fails leaves a flag behind that stops all others. *)
CronUntilFailure(p) ==
    /\ failures = 0
    /\ "expire" \in Ops
    /\ job[p] = Idle
    /\ Expirable # {}
    /\ job' = [job EXCEPT ![p] = Sweeping(Expirable)]
    /\ UNCHANGED <<tables, wallets, hoursLeft, ledger, bounds>>


CronSelect(p) ==
    /\ "expire" \in Ops
    /\ job[p] = Idle
    /\ Expirable # {}
    /\ job' = [job EXCEPT ![p] = Sweeping(Expirable)]
    /\ UNCHANGED <<tables, wallets, hoursLeft, ledger, bounds>>

(* The loop takes the rows as they were selected, and looks at none again. *)
CronCredit(p) ==
    /\ At(p, {"expire"}, "next")
    /\ \E r \in job[p].todo :
        LET b == request[r].booking
        IN  /\ Credit(b, FullRefund(Amount[b]))
            /\ refunds' = [refunds EXCEPT ![b] = @ + 1]
            /\ job' = [job EXCEPT ![p].at = "credited", ![p].request = r,
                                  ![p].booking = b]
    /\ UNCHANGED <<tables, hoursLeft, debits, charges, payouts, bounds>>

CronMark(p) ==
    /\ At(p, {"expire"}, "credited")
    /\ ~BookingLocked(job[p].booking)
    /\ booking' = [booking EXCEPT ![job[p].booking].status = "expired",
                                  ![job[p].booking].payment_status = "refunded"]
    /\ MoveTo(p, "marked")
    /\ UNCHANGED <<request, wallets, hoursLeft, ledger, bounds>>

CronProcessed(p) ==
    /\ At(p, {"expire"}, "marked")
    /\ LET r == job[p].request
           rest == job[p].todo \ {r}
       IN  /\ request' = [request EXCEPT ![r].is_processed = TRUE]
           /\ job' = [job EXCEPT ![p] =
                        IF rest = {} THEN Idle ELSE Sweeping(rest)]
    /\ UNCHANGED <<booking, wallets, hoursLeft, ledger, bounds>>

-----------------------------------------------------------------------------
(* Handover, delivery and what follows it: the handlers that read the      *)
(* status, refuse any other, and then write.                               *)

RequiredStatus == [pickUp |-> "pick_up", conditionsNotMet |-> "pick_up",
                   problem |-> "on_the_way", dropOff |-> "on_the_way",
                   complete |-> "delivered", reject |-> "delivered"]

(* dropOff also compares the code; NULL equals none a client sends. *)
StatusCheck(p, b, op) ==
    /\ op \in DOMAIN RequiredStatus
    /\ Start(p, op, b, NoRequest, NoUser)
    /\ booking[b].status = RequiredStatus[op]
    /\ op = "dropOff" => booking[b].otp
    /\ UNCHANGED <<tables, wallets, hoursLeft, ledger, bounds>>

(* booking.update of a handler that has nothing to do after it. *)
LastUpdate(p, op, row) ==
    /\ At(p, {op}, "checked")
    /\ ~BookingLocked(job[p].booking)
    /\ booking' = [booking EXCEPT ![job[p].booking] = row]
    /\ Return(p)
    /\ UNCHANGED <<request, wallets, hoursLeft, ledger, bounds>>

Row(p) == booking[job[p].booking]

(* Mutants: pick-up issues no code; it writes a status the enum lacks. *)
PickUpWithoutCode(p) ==
    LastUpdate(p, "pickUp", [Row(p) EXCEPT !.status = "on_the_way"])

PickUpMisspelt(p) ==
    LastUpdate(p, "pickUp",
               [Row(p) EXCEPT !.status = "on_way", !.otp = TRUE])


PickUp(p) ==
    LastUpdate(p, "pickUp",
               [Row(p) EXCEPT !.status = "on_the_way", !.otp = TRUE])

ConditionsNotMet(p) ==
    LastUpdate(p, "conditionsNotMet",
               [Row(p) EXCEPT !.status = "all_conditions_are_not_met"])

ProblemWithPackage(p) ==
    LastUpdate(p, "problem",
               [Row(p) EXCEPT !.status = "problem_with_the_package"])

Complete(p) ==
    LastUpdate(p, "complete",
               [Row(p) EXCEPT !.status = "completed", !.confirmed = TRUE])

Reject(p) ==
    LastUpdate(p, "reject",
               [Row(p) EXCEPT !.status = "rejected", !.confirmed = FALSE])

(* Mutant: nobody is paid. *)
DropOffUnpaid(p) ==
    LastUpdate(p, "dropOff", [Row(p) EXCEPT !.status = "delivered"])

(* dropOff marks the booking delivered first ... *)
DropOffMark(p) ==
    /\ At(p, {"dropOff"}, "checked")
    /\ ~BookingLocked(job[p].booking)
    /\ booking' = [booking EXCEPT ![job[p].booking].status = "delivered"]
    /\ MoveTo(p, "delivered")
    /\ UNCHANGED <<request, wallets, hoursLeft, ledger, bounds>>

(* ... and pays the traveller and the platform in a second step. *)
DropOffPay(p) ==
    /\ At(p, {"dropOff"}, "delivered")
    /\ \E split \in DeliverySplits(Amount[job[p].booking], PlatformPercentage) :
        Credit(job[p].booking, split)
    /\ payouts' = [payouts EXCEPT ![job[p].booking] = @ + 1]
    /\ Return(p)
    /\ UNCHANGED <<tables, hoursLeft, debits, charges, refunds, bounds>>

-----------------------------------------------------------------------------
(* The rest of the world *)

(* A handler stops where it is: an await rejects, its transaction times    *)
(* out, or the server goes down (all of them, one by one).  An open        *)
(* transaction is rolled back; what was written outside it stays.          *)
Fail(p) ==
    /\ job[p] # Idle
    /\ failures < MaxFailures
    /\ failures' = failures + 1
    /\ Return(p)
    /\ UNCHANGED <<tables, wallets, hoursLeft, ledger, deliveries, edits>>

(* The admin panel's updateStatus. *)
AdminSetStatus(b, s) ==
    /\ edits < MaxAdminEdits
    /\ ~BookingLocked(b)
    /\ booking' = [booking EXCEPT ![b].status = s]
    /\ edits' = edits + 1
    /\ UNCHANGED <<request, wallets, hoursLeft, job, ledger, deliveries,
                   failures>>

(* Twelve hours pass without an answer. *)
BecomeOverdue(r) ==
    /\ Unanswered(r)
    /\ ~request[r].overdue
    /\ request' = [request EXCEPT ![r].overdue = TRUE]
    /\ UNCHANGED <<booking, wallets, hoursLeft, job, ledger, bounds>>

(* The departure comes closer, or TravelService.update moves it. *)
DepartureMoves(b) ==
    /\ \E h \in HourSamples \ {hoursLeft[b]} :
        hoursLeft' = [hoursLeft EXCEPT ![b] = h]
    /\ UNCHANGED <<tables, wallets, job, ledger, bounds>>

-----------------------------------------------------------------------------
(* The next await of the handler in slot p. *)
Continue(p) ==
    \/ PayAnnounce(p) \/ PayConflict(p) \/ PayCommit(p)
    \/ WebhookAnnounce(p)
    \/ CancelSettle(p) \/ CancelMark(p)
    \/ AnswerFlag(p) \/ AcceptConfirm(p) \/ RefuseCredit(p) \/ RefuseMark(p)
    \/ CronCredit(p) \/ CronMark(p) \/ CronProcessed(p)
    \/ PickUp(p) \/ ConditionsNotMet(p) \/ ProblemWithPackage(p)
    \/ Complete(p) \/ Reject(p) \/ DropOffMark(p) \/ DropOffPay(p)

(* A request of a client, or a webhook, reaches the server. *)
Arrive(p) ==
    \/ \E b \in Bookings : \/ WebhookRecord(p, b)
                           \/ \E u \in Users : PayCheck(p, b, u)
                           \/ \E u \in Users : CancelCheck(p, b, u)
                           \/ \E op \in Ops : StatusCheck(p, b, op)
    \/ \E r \in Requests, op \in Ops : AnswerCheck(p, r, op)

Next ==
    \/ \E p \in Procs : Arrive(p)
    \/ \E p \in Procs : CronSelect(p)
    \/ \E p \in Procs : Continue(p)
    \/ \E p \in Procs : Fail(p)
    \/ \E b \in Bookings : ChargeCard(b)
    \/ \E b \in Bookings, s \in Status : AdminSetStatus(b, s)
    \/ \E r \in Requests : BecomeOverdue(r)
    \/ \E b \in Bookings : DepartureMoves(b)

Spec == Init /\ [][Next]_vars

(* A handler in flight goes on, time passes, and the scheduler starts the  *)
(* cron again and again: it waits for no slot, so a slot free from time to *)
(* time is enough.                                                         *)
Fairness ==
    /\ \A p \in Procs : WF_vars(Continue(p))
    /\ \A r \in Requests : WF_vars(BecomeOverdue(r))
    /\ SF_vars(\E p \in Procs : CronSelect(p))

FairSpec == Spec /\ Fairness

-----------------------------------------------------------------------------
(* What handlers in flight remember, for the proofs *)

(* Handlers that have read one booking by its id. *)
BookingOps == {"payFromWallet", "webhook", "cancel"} \cup DOMAIN RequiredStatus

(* The job j has the row ids its next steps use, and the requests it holds *)
(* are rows that exist, linked as it remembers.                            *)
Remembers(rows, j) ==
    /\ j.op \in BookingOps => j.booking \in Bookings
    /\ j.op = "payFromWallet" => j.user \in Users
    /\ j.at \in {"announced", "flagged", "credited", "marked"} =>
            j.booking \in Bookings
    /\ j.op \in Answers \/ (j.op = "expire" /\ j.at # "next") =>
            /\ j.request \in Requests
            /\ rows[j.request].about # NoBooking
            /\ rows[j.request].booking = j.booking
    /\ \A r \in j.todo : /\ rows[r].about # NoBooking
                         /\ rows[r].booking \in Bookings

JobsRemember == \A p \in Procs : Remembers(request, job[p])

(* Only a row that exists is linked, and booking_id is unique. *)
LinksSound ==
    /\ \A r \in Requests : request[r].booking \in Bookings =>
                                request[r].about = request[r].booking
    /\ \A r, s \in Requests :
        request[r].booking = request[s].booking
        /\ request[r].booking \in Bookings => r = s

-----------------------------------------------------------------------------
(* Safety *)

(* A booking is marked refunded only after a credit for it was committed:  *)
(* cancelBooking, updateRequest and handleCron all write the wallet before *)
(* the booking, so no crash between the two leaves a sender told of a      *)
(* refund that was never made.                                             *)
RefundBacked ==
    \A b \in Bookings :
        booking[b].payment_status = "refunded" => refunds[b] > 0

(* Two wallet payments of one booking, started together by one user or by  *)
(* two, take its amount once: the loser meets the unique booking_id of     *)
(* the announcement request inside its transaction and is rolled back.     *)
WalletDebitOnce == \A b \in Bookings : debits[b] <= 1

(* No request is both accepted and refused, even when two answers were     *)
(* checked against the same unanswered row.                                *)
AnswersExclusive ==
    \A r \in Requests : ~(request[r].is_accepted /\ request[r].is_refused)

(* A parcel is on its way, delivered or settled after delivery only with a *)
(* delivery code issued at pick-up, so dropOff always has a code to check. *)
HandedOver == {"on_the_way", "delivered", "completed", "rejected",
               "problem_with_the_package"}
CodeBeforeHandover ==
    edits = 0 =>
        \A b \in Bookings : booking[b].status \in HandedOver => booking[b].otp

(* Nothing is refunded, settled or paid out for a booking nobody paid, as  *)
(* long as no handler stopped half-way and no administrator interfered:    *)
(* the announcement is visible before the payment commits, but the row     *)
(* lock of the payment holds the answer's booking.update back.             *)
SettlementFunded ==
    failures = 0 /\ edits = 0 =>
        \A b \in Bookings :
            payouts[b] > 0 \/ (refunds[b] > 0 /\ ~BookingLocked(b)) =>
                debits[b] + charges[b] > 0

(* A delivered booking has been paid out, unless the handler that marked   *)
(* it delivered is still to do so.                                         *)
DeliveredIsPaid ==
    failures = 0 /\ edits = 0 =>
        \A b \in Bookings :
            booking[b].status \in {"delivered", "completed", "rejected"} =>
                \/ payouts[b] > 0
                \/ \E p \in Procs : /\ At(p, {"dropOff"}, "delivered")
                                    /\ job[p].booking = b

(* The cron does not expire a booking whose request the traveller          *)
(* accepted: 'did not confirm within 12h' is only said of who did not.     *)
AcceptedNotExpired ==
    failures = 0 /\ edits = 0 =>
        \A r \in Requests :
            request[r].is_accepted /\ request[r].booking # NoBooking =>
                booking[request[r].booking].status # "expired"

(* completeBookingWithWallet refuses a wallet that cannot pay, and nothing *)
(* else takes money from a wallet here: no balance becomes negative.  It   *)
(* holds of payments one after another, whatever comes between them; two   *)
(* payments at once both compare with the balance before either decrement. *)
NoOverdraft == \A u \in Users : balance[u] >= 0

(* What wallets and platform hold more than at first, and what they should *)
(* by the settlements and wallet payments of each booking.                 *)
Gained == SumFunction([u \in Users |-> balance[u] - InitialBalance[u]]) + earnings

Due == SumFunction([b \in Bookings |->
                        Amount[b] * (refunds[b] + payouts[b] - debits[b])])

(* The settlements that may have rounded: the shares of an amount of whole *)
(* 25 units come out exact.                                                *)
Rounded == SumFunction([b \in Bookings |->
                            IF Amount[b] % 25 = 0 THEN 0 ELSE refunds[b]])

(* Every unit that entered a wallet or the platform's earnings came from a *)
(* settlement of some booking, and every unit that left one paid for a     *)
(* booking: across all handlers the splits create and lose nothing but one *)
(* unit of rounding for a settlement whose shares are not exact.           *)
MoneyAccounted == Gained - Due \in -Rounded .. Rounded

-----------------------------------------------------------------------------
(* Action properties *)

(* Once a request is processed its answer stays as it is. *)
AnswerIsFinal ==
    [][\A r \in Requests :
        request[r].is_processed =>
            /\ request'[r].is_accepted = request[r].is_accepted
            /\ request'[r].is_refused = request[r].is_refused]_vars

(* cancelBooking divides the amount of a booking 'before pick-up' between  *)
(* sender, traveller and platform.  Once dropOff has paid it out nothing   *)
(* of it is left, and no cancellation divides it again.                    *)
NoSettlementAfterPayout ==
    [][\A b \in Bookings : refunds'[b] > refunds[b] => payouts[b] = 0]_vars

(* The handlers implement the ledger's promise: payment_status is its mark.*)
Ledger == INSTANCE EscrowLedger
            WITH mark <- [b \in Bookings |-> booking[b].payment_status]
ImplementsLedger == Ledger!Spec

-----------------------------------------------------------------------------
(* Liveness *)

(* A paid booking whose linked request nobody answers is closed: answered  *)
(* after all, cancelled, or expired and refunded by the cron, even if      *)
(* earlier runs of it were interrupted.                                    *)
UnansweredIsClosed ==
    \A r \in Requests, b \in Bookings :
        (r \in Expirable /\ request[r].booking = b) ~>
            \/ request[r].is_processed
            \/ booking[b].payment_status # "completed"

(* A refused request of a paid booking gives the sender the money back,    *)
(* unless the handler failed after it had marked the request.              *)
RefusedIsRefunded ==
    \A r \in Requests, b \in Bookings :
        (request[r].is_refused /\ request[r].booking = b) ~>
            failures > 0 \/ refunds[b] > 0

(* A card payment is answered like any other: a booking does not stay paid *)
(* and pending for ever.                                                   *)
CardPaymentIsAnswered ==
    \A b \in Bookings :
        (booking[b].paid /\ booking[b].status = "pending") ~>
            booking[b].status # "pending"

===============================================================================
