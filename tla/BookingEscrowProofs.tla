------------------------- MODULE BookingEscrowProofs -------------------------
(***************************************************************************)
(* What BookingEscrow keeps true, for any bookings, users, requests,       *)
(* slots, amounts and bounds, through every interleaving and every         *)
(* failure: the types; that a booking marked refunded has been credited;   *)
(* the other invariants of the runs, each strengthened by what the         *)
(* handlers in flight know until every step preserves it; the refinement   *)
(* of EscrowLedger; the accounts, in which all that was gained is what the *)
(* bookings settled; what holds while no handler stops half-way; and, on   *)
(* the condition that payments, or the steps about one request, do not     *)
(* overlap, that wallets are covered and that answers are final.           *)
(***************************************************************************)
EXTENDS BookingEscrow, MoneyProofs

-----------------------------------------------------------------------------
(* What the helpers return *)

(* A full refund is a split. *)
LEMMA RefundSplit ==
    ASSUME NEW a \in Nat
    PROVE  FullRefund(a) \in Split
  BY DEF FullRefund, Split

(* Whatever the hours, a cancellation by the sender is a split. *)
LEMMA CancelSplit ==
    ASSUME NEW a \in Nat, NEW h \in Int
    PROVE  SenderCancelSplit(a, h) \in Split
<1>1. \A percent \in {80, 20, 36, 28} : Share(a, percent) \in Nat
  BY DEF Share
<1>2. QED
  BY <1>1, RefundSplit DEF SenderCancelSplit, Split

(* Both parts of a delivery are whole numbers of units. *)
LEMMA DeliverySplit ==
    ASSUME NEW a \in Nat, NEW percent \in Int,
           NEW split \in DeliverySplits(a, percent)
    PROVE  /\ split.sender \in Int
           /\ split.traveller \in Int
           /\ split.platform \in Int
<1>1. Normalized(percent) \in Nat
  BY DEF Normalized
<1>2. a * Normalized(percent) \in Int
  BY <1>1
<1>3. \A c \in Commissions(a, percent) : c \in Int
  BY <1>2 DEF Commissions
<1>4. PICK c \in Commissions(a, percent) :
        split = [sender |-> 0, traveller |-> a - c, platform |-> c]
  BY DEF DeliverySplits
<1>5. QED
  BY <1>3, <1>4

(* A credit leaves whole balances. *)
LEMMA CreditType ==
    ASSUME balance \in [Users -> Int], earnings \in Int, NEW b,
           NEW split, split.sender \in Int, split.traveller \in Int,
           split.platform \in Int, Credit(b, split)
    PROVE  balance' \in [Users -> Int] /\ earnings' \in Int
<1>1. balance' = [u \in Users |->
                    balance[u]
                    + (IF u = OwnerOf[b] THEN split.sender ELSE 0)
                    + (IF u = TravellerOf[b] THEN split.traveller ELSE 0)]
  BY DEF Credit
<1>2. \A u \in Users :
        balance[u] + (IF u = OwnerOf[b] THEN split.sender ELSE 0)
                   + (IF u = TravellerOf[b] THEN split.traveller ELSE 0) \in Int
  OBVIOUS
<1>3. balance' \in [Users -> Int]
  BY <1>1, <1>2
<1>4. QED
  BY <1>3 DEF Credit

(* A free slot is a job. *)
LEMMA IdleType == Idle \in Job
  BY DEF Idle, Job, Places

(* A handler that returns frees its slot. *)
LEMMA ReturnType ==
    ASSUME job \in [Procs -> Job], NEW p \in Procs, Return(p)
    PROVE  job' \in [Procs -> Job]
  BY IdleType DEF Return

(* A handler that goes on keeps its type. *)
LEMMA MoveType ==
    ASSUME job \in [Procs -> Job], NEW p \in Procs, NEW place \in Places,
           MoveTo(p, place)
    PROVE  job' \in [Procs -> Job]
  BY DEF MoveTo, Job

-----------------------------------------------------------------------------
(* Types, and what jobs remember *)

TypeInv == TypeOK /\ JobsRemember /\ LinksSound

(* Requests that exist stay, and stay linked as they were. *)
Stable(rows, later) ==
    \A r \in Requests : rows[r].about # NoBooking =>
        /\ later[r].about = rows[r].about
        /\ later[r].booking = rows[r].booking

(* A job that does not move forgets nothing. *)
LEMMA StillRemembers ==
    ASSUME NEW rows, NEW later, NEW j \in Job,
           Stable(rows, later), Remembers(rows, j)
    PROVE  Remembers(later, j)
  BY DEF Stable, Remembers, Job

(* When only p moves and p remembers, all do. *)
LEMMA JobsStillRemember ==
    ASSUME job \in [Procs -> Job], JobsRemember, NEW p \in Procs,
           Stable(request, request'),
           \A q \in Procs \ {p} : job'[q] = job[q],
           Remembers(request', job'[p])
    PROVE  JobsRemember'
<1> SUFFICES ASSUME NEW q \in Procs
             PROVE  Remembers(request', job'[q])
  BY DEF JobsRemember
<1>1. CASE q = p
  BY <1>1
<1>2. CASE q # p
  <2>1. job'[q] = job[q] /\ job[q] \in Job /\ Remembers(request, job[q])
    BY <1>2 DEF JobsRemember
  <2>2. Remembers(request', job[q])
    BY <2>1, StillRemembers
  <2>3. QED
    BY <2>1, <2>2
<1>3. QED
  BY <1>1, <1>2

(* A free slot has nothing to remember. *)
LEMMA IdleRemembers ==
    ASSUME NEW rows
    PROVE  Remembers(rows, Idle)
  BY DEF Idle, Remembers, BookingOps, RequiredStatus, Answers, Refusals

(* What returning, or leaving the jobs alone, preserves. *)
LEMMA ReturnRemembers ==
    ASSUME job \in [Procs -> Job], JobsRemember, NEW p \in Procs, Return(p),
           Stable(request, request')
    PROVE  JobsRemember'
<1>1. job'[p] = Idle /\ \A q \in Procs \ {p} : job'[q] = job[q]
  BY DEF Return
<1>2. QED
  BY <1>1, IdleRemembers, JobsStillRemember

(* Jobs that stay remember, as long as rows stay linked. *)
LEMMA SameJobsRemember ==
    ASSUME job \in [Procs -> Job], JobsRemember, UNCHANGED job,
           Stable(request, request')
    PROVE  JobsRemember'
<1> SUFFICES ASSUME NEW q \in Procs
             PROVE  Remembers(request', job[q])
  BY DEF JobsRemember
<1> QED
  BY StillRemembers DEF JobsRemember

(* Requests left alone are stable. *)
LEMMA SameRowsStable ==
    ASSUME UNCHANGED request
    PROVE  Stable(request, request')
  BY DEF Stable

(* Announcing fills one free row and changes no other. *)
LEMMA AnnounceStable ==
    ASSUME request \in [Requests -> Request], BookingAssumption,
           NEW r \in Requests, NEW b \in Bookings,
           NEW link \in Bookings \cup {NoBooking}, Announce(r, b, link)
    PROVE  /\ Stable(request, request')
           /\ request' \in [Requests -> Request]
           /\ request'[r].about = b
           /\ request'[r].booking = link
           /\ \A s \in Requests \ {r} : request'[s] = request[s]
<1>1. /\ request[r] = NoRow
      /\ request' = [request EXCEPT ![r].about = b, ![r].booking = link]
  BY DEF Announce
<1>2. /\ request'[r] = [NoRow EXCEPT !.about = b, !.booking = link]
      /\ \A s \in Requests \ {r} : request'[s] = request[s]
  BY <1>1
<1>3. request'[r] = [about |-> b, booking |-> link, is_accepted |-> FALSE,
                    is_refused |-> FALSE, is_processed |-> FALSE,
                    overdue |-> FALSE]
  BY <1>2 DEF NoRow
<1>4. request'[r] \in Request
  BY <1>3 DEF Request
<1>5. request' \in [Requests -> Request]
  BY <1>1, <1>2, <1>4
<1>6. Stable(request, request')
  BY <1>1, <1>2 DEF Stable, NoRow
<1>7. QED
  BY <1>2, <1>3, <1>5, <1>6

(* Links are sound while every row keeps its link. *)
LEMMA SameLinksSound ==
    ASSUME LinksSound,
           \A r \in Requests : /\ request'[r].about = request[r].about
                               /\ request'[r].booking = request[r].booking
    PROVE  LinksSound'
  BY DEF LinksSound

(* A handler that has read its rows remembers them. *)
LEMMA StartRemembers ==
    ASSUME TypeInv, BookingAssumption, UNCHANGED request, NEW p \in Procs,
           NEW op \in AllOps, NEW b \in Bookings \cup {NoBooking},
           NEW r \in Requests \cup {NoRequest}, NEW u \in Users \cup {NoUser},
           Start(p, op, b, r, u),
           op \in BookingOps => b \in Bookings,
           op = "payFromWallet" => u \in Users,
           op \in Answers => /\ r \in Requests
                             /\ request[r].about # NoBooking
                             /\ request[r].booking = b,
           op # "expire"
    PROVE  job' \in [Procs -> Job] /\ JobsRemember'
<1> DEFINE j == [op |-> op, at |-> "checked", booking |-> b,
                 request |-> r, user |-> u, todo |-> {}]
<1>1. job'[p] = j /\ \A q \in Procs \ {p} : job'[q] = job[q]
  BY DEF Start, TypeInv, TypeOK
<1>2. Remembers(request, j)
  BY DEF Remembers
<1>3. job \in [Procs -> Job] /\ JobsRemember
  BY DEF TypeInv, TypeOK
<1>4. JobsRemember'
  BY <1>1, <1>2, <1>3, SameRowsStable, JobsStillRemember
<1>5. job' \in [Procs -> Job]
  BY <1>3 DEF Start, Job, Places
<1>6. QED
  BY <1>4, <1>5

(* A handler that goes on with what it needs, remembers. *)
LEMMA MoveRemembers ==
    ASSUME TypeInv, Stable(request, request'), NEW p \in Procs,
           NEW place \in Places, MoveTo(p, place),
           Remembers(request', [job[p] EXCEPT !.at = place])
    PROVE  job' \in [Procs -> Job] /\ JobsRemember'
<1>1. job \in [Procs -> Job] /\ JobsRemember
  BY DEF TypeInv, TypeOK
<1>2. /\ job'[p] = [job[p] EXCEPT !.at = place]
      /\ \A q \in Procs \ {p} : job'[q] = job[q]
  BY <1>1 DEF MoveTo
<1>3. QED
  BY <1>1, <1>2, MoveType, JobsStillRemember

-----------------------------------------------------------------------------
(* One lemma per handler: its steps keep TypeInv *)

LEMMA PayCheckType ==
    ASSUME TypeInv, BookingAssumption, NEW p \in Procs, NEW b \in Bookings,
           NEW u \in Users, PayCheck(p, b, u)
    PROVE  TypeInv'
<1>1. job' \in [Procs -> Job] /\ JobsRemember'
  BY StartRemembers DEF PayCheck, tables, AllOps, Answers, Refusals
<1>2. QED
  BY <1>1, SameLinksSound
     DEF PayCheck, TypeInv, TypeOK, tables, wallets, ledger, bounds

LEMMA PayAnnounceType ==
    ASSUME TypeInv, BookingAssumption, NEW p \in Procs, PayAnnounce(p)
    PROVE  TypeInv'
<1> DEFINE b == job[p].booking
<1>1. b \in Bookings /\ job[p] \in Job
  BY DEF PayAnnounce, At, TypeInv, TypeOK, JobsRemember, Remembers, BookingOps
<1>2. PICK r \in Requests : Announce(r, b, b)
  BY DEF PayAnnounce
<1>3. request \in [Requests -> Request]
  BY DEF TypeInv, TypeOK
<1>4. /\ Stable(request, request')
      /\ request' \in [Requests -> Request]
      /\ request'[r].about = b
      /\ request'[r].booking = b
      /\ \A s \in Requests \ {r} : request'[s] = request[s]
  BY <1>1, <1>2, <1>3, AnnounceStable
<1>5. Remembers(request, job[p]) /\ job[p].op = "payFromWallet"
  BY DEF PayAnnounce, At, TypeInv, JobsRemember
<1>6. Remembers(request', job[p])
  BY <1>1, <1>4, <1>5, StillRemembers
<1>7. Remembers(request', [job[p] EXCEPT !.at = "announced"])
  BY <1>1, <1>5, <1>6 DEF Remembers, Job, Answers, Refusals
<1>8. job' \in [Procs -> Job] /\ JobsRemember'
  BY <1>4, <1>7, MoveRemembers DEF PayAnnounce, Places
<1>9. \A s \in Requests : request[s].booking # b
  BY DEF PayAnnounce, Linked
<1>10. LinksSound'
  BY <1>4, <1>9 DEF LinksSound, TypeInv
<1>11. QED
  BY <1>4, <1>8, <1>10
     DEF PayAnnounce, TypeInv, TypeOK, wallets, ledger, bounds

(* A step that ends its handler and leaves the requests alone. *)
LEMMA ReturnKeeps ==
    ASSUME TypeInv, NEW p \in Procs, Return(p), UNCHANGED request
    PROVE  /\ job' \in [Procs -> Job]
           /\ request' \in [Requests -> Request]
           /\ JobsRemember'
           /\ LinksSound'
<1>1. job \in [Procs -> Job] /\ JobsRemember /\ LinksSound
      /\ request \in [Requests -> Request]
  BY DEF TypeInv, TypeOK
<1>2. JobsRemember'
  BY <1>1, SameRowsStable, ReturnRemembers
<1>3. QED
  BY <1>1, <1>2, ReturnType, SameLinksSound

(* A step that moves its handler on and leaves the requests alone. *)
LEMMA MoveKeeps ==
    ASSUME TypeInv, NEW p \in Procs, NEW place \in Places, MoveTo(p, place),
           job[p].booking \in Bookings,
           job[p].op = "expire" => job[p].at # "next",
           UNCHANGED request
    PROVE  /\ job' \in [Procs -> Job]
           /\ request' \in [Requests -> Request]
           /\ JobsRemember'
           /\ LinksSound'
<1>1. /\ job[p] \in Job
      /\ Remembers(request, job[p])
      /\ request \in [Requests -> Request]
      /\ LinksSound
  BY DEF TypeInv, TypeOK, JobsRemember
<1>2. Remembers(request', [job[p] EXCEPT !.at = place])
  BY <1>1 DEF Remembers, Job
<1>3. QED
  BY <1>1, <1>2, SameRowsStable, MoveRemembers, SameLinksSound

(* A step that leaves the jobs and the links of the requests alone. *)
LEMMA SameJobsKeep ==
    ASSUME TypeInv, UNCHANGED job,
           \A r \in Requests : /\ request'[r].about = request[r].about
                               /\ request'[r].booking = request[r].booking
    PROVE  JobsRemember' /\ LinksSound'
<1>1. Stable(request, request')
  BY DEF Stable
<1>2. QED
  BY <1>1, SameJobsRemember, SameLinksSound DEF TypeInv, TypeOK

(* Where a handler has read a booking, it is one. *)
LEMMA JobBooking ==
    ASSUME TypeInv, NEW p \in Procs,
           \/ job[p].op \in BookingOps
           \/ job[p].at \in {"announced", "flagged", "credited", "marked"}
    PROVE  job[p].booking \in Bookings /\ booking[job[p].booking] \in Booking
  BY DEF TypeInv, TypeOK, JobsRemember, Remembers

LEMMA PayConflictType ==
    ASSUME TypeInv, NEW p \in Procs, PayConflict(p)
    PROVE  TypeInv'
  BY ReturnKeeps
     DEF PayConflict, TypeInv, TypeOK, tables, wallets, ledger, bounds

LEMMA PayCommitType ==
    ASSUME TypeInv, BookingAssumption, NEW p \in Procs, PayCommit(p)
    PROVE  TypeInv'
<1> DEFINE b == job[p].booking
           u == job[p].user
<1>1. b \in Bookings /\ booking[b] \in Booking
  BY JobBooking DEF PayCommit, InPayment, At
<1>2. u \in Users /\ balance[u] \in Int /\ Amount[b] \in Int
  BY <1>1 DEF PayCommit, InPayment, At, TypeInv, TypeOK, JobsRemember,
              Remembers, BookingAssumption
<1>3. balance' \in [Users -> Int]
  BY <1>2 DEF PayCommit, TypeInv, TypeOK
<1>4. booking' \in [Bookings -> Booking]
  BY <1>1 DEF PayCommit, TypeInv, TypeOK, Booking, Status, PaymentStatus
<1>5. debits' \in [Bookings -> Nat]
  BY <1>1 DEF PayCommit, TypeInv, TypeOK
<1>6. /\ job' \in [Procs -> Job]
      /\ request' \in [Requests -> Request]
      /\ JobsRemember'
      /\ LinksSound'
  BY ReturnKeeps DEF PayCommit
<1>7. QED
  BY <1>3, <1>4, <1>5, <1>6 DEF PayCommit, TypeInv, TypeOK, bounds

LEMMA ChargeCardType ==
    ASSUME TypeInv, NEW b \in Bookings, ChargeCard(b)
    PROVE  TypeInv'
<1>1. charges' \in [Bookings -> Nat]
  BY DEF ChargeCard, TypeInv, TypeOK
<1>2. JobsRemember' /\ LinksSound'
  BY SameJobsKeep DEF ChargeCard, tables
<1>3. QED
  BY <1>1, <1>2 DEF ChargeCard, TypeInv, TypeOK, tables, wallets, bounds

LEMMA WebhookRecordType ==
    ASSUME TypeInv, BookingAssumption, NEW p \in Procs, NEW b \in Bookings,
           WebhookRecord(p, b)
    PROVE  TypeInv'
<1>1. job' \in [Procs -> Job] /\ JobsRemember'
  BY StartRemembers DEF WebhookRecord, AllOps, Answers, Refusals
<1>2. booking' \in [Bookings -> Booking]
  <2> DEFINE row == [booking[b] EXCEPT !.paid = TRUE,
                                       !.payment_status = "completed"]
  <2>1. booking \in [Bookings -> Booking]
    BY DEF TypeInv, TypeOK
  <2>2. row \in Booking
    BY <2>1 DEF Booking, PaymentStatus
  <2>3. booking' = [booking EXCEPT ![b] = row]
    BY <2>1 DEF WebhookRecord
  <2> HIDE DEF row
  <2> QED
    BY <2>1, <2>2, <2>3
<1>3. deliveries' \in [Bookings -> Nat]
  BY DEF WebhookRecord, TypeInv, TypeOK
<1>4. LinksSound'
  BY SameLinksSound DEF WebhookRecord, TypeInv
<1>5. QED
  BY <1>1, <1>2, <1>3, <1>4
     DEF WebhookRecord, TypeInv, TypeOK, wallets, ledger

LEMMA WebhookAnnounceType ==
    ASSUME TypeInv, BookingAssumption, NEW p \in Procs, WebhookAnnounce(p)
    PROVE  TypeInv'
<1> DEFINE b == job[p].booking
<1>1. b \in Bookings
  BY JobBooking DEF WebhookAnnounce, At, BookingOps
<1>2. PICK r \in Requests : Announce(r, b, NoBooking)
  BY DEF WebhookAnnounce
<1>3. request \in [Requests -> Request] /\ job \in [Procs -> Job]
      /\ JobsRemember /\ LinksSound
  BY DEF TypeInv, TypeOK
<1>4. /\ Stable(request, request')
      /\ request' \in [Requests -> Request]
      /\ request'[r].about = b
      /\ request'[r].booking = NoBooking
      /\ \A s \in Requests \ {r} : request'[s] = request[s]
  BY <1>1, <1>2, <1>3, AnnounceStable
<1>5. job' \in [Procs -> Job] /\ JobsRemember'
  BY <1>3, <1>4, ReturnType, ReturnRemembers DEF WebhookAnnounce
<1>6. LinksSound'
  BY <1>3, <1>4 DEF LinksSound, BookingAssumption
<1>7. QED
  BY <1>4, <1>5, <1>6 DEF WebhookAnnounce, TypeInv, TypeOK, wallets, ledger,
                         bounds

LEMMA CancelCheckType ==
    ASSUME TypeInv, BookingAssumption, NEW p \in Procs, NEW b \in Bookings,
           NEW u \in Users, CancelCheck(p, b, u)
    PROVE  TypeInv'
<1>1. job' \in [Procs -> Job] /\ JobsRemember'
  BY StartRemembers DEF CancelCheck, tables, AllOps, Answers, Refusals
<1>2. QED
  BY <1>1, SameLinksSound
     DEF CancelCheck, TypeInv, TypeOK, tables, wallets, ledger, bounds

LEMMA CancelSettleType ==
    ASSUME TypeInv, BookingAssumption, NEW p \in Procs, CancelSettle(p)
    PROVE  TypeInv'
<1> DEFINE b == job[p].booking
           split == IF job[p].user = TravellerOf[b]
                       THEN FullRefund(Amount[b])
                       ELSE SenderCancelSplit(Amount[b], hoursLeft[b])
<1>1. b \in Bookings
  BY JobBooking DEF CancelSettle, At, BookingOps
<1>2. Amount[b] \in Nat /\ hoursLeft[b] \in Int
  BY <1>1 DEF BookingAssumption, TypeInv, TypeOK
<1>3. split \in Split
  BY <1>2, RefundSplit, CancelSplit
<1>4. /\ split.sender \in Int
      /\ split.traveller \in Int
      /\ split.platform \in Int
  BY <1>3 DEF Split
<1>5. Credit(b, split) /\ refunds' = [refunds EXCEPT ![b] = @ + 1]
  BY DEF CancelSettle
<1>6. balance' \in [Users -> Int] /\ earnings' \in Int
  <2> HIDE DEF b, split
  <2> QED
    BY <1>4, <1>5, CreditType DEF TypeInv, TypeOK
<1>7. refunds' \in [Bookings -> Nat]
  BY <1>1, <1>5 DEF TypeInv, TypeOK
<1>8. /\ job' \in [Procs -> Job]
      /\ request' \in [Requests -> Request]
      /\ JobsRemember'
      /\ LinksSound'
  BY <1>1, MoveKeeps DEF CancelSettle, At, tables, Places
<1>9. QED
  BY <1>6, <1>7, <1>8 DEF CancelSettle, TypeInv, TypeOK, tables, bounds

LEMMA CancelMarkType ==
    ASSUME TypeInv, BookingAssumption, NEW p \in Procs, CancelMark(p)
    PROVE  TypeInv'
<1>1. job[p].booking \in Bookings /\ booking[job[p].booking] \in Booking
  BY JobBooking DEF CancelMark, At
<1>2. booking' \in [Bookings -> Booking]
  BY <1>1 DEF CancelMark, TypeInv, TypeOK, Booking, Status, PaymentStatus
<1>3. QED
  BY <1>2, ReturnKeeps
     DEF CancelMark, TypeInv, TypeOK, wallets, ledger, bounds

LEMMA AnswerCheckType ==
    ASSUME TypeInv, BookingAssumption, NEW p \in Procs, NEW r \in Requests,
           NEW op \in Ops, AnswerCheck(p, r, op)
    PROVE  TypeInv'
<1>1. request[r].booking \in Bookings \cup {NoBooking}
  BY DEF TypeInv, TypeOK, Request
<1>2. op \in Answers /\ request[r].about # NoBooking
  BY DEF AnswerCheck, Unanswered
<1>3. op \in AllOps /\ op \notin BookingOps /\ op # "expire"
      /\ op # "payFromWallet"
  BY <1>2 DEF Answers, Refusals, AllOps, BookingOps, RequiredStatus
<1>4. Start(p, op, request[r].booking, r, NoUser) /\ UNCHANGED request
  BY DEF AnswerCheck, tables
<1>5. job' \in [Procs -> Job] /\ JobsRemember'
  BY <1>1, <1>2, <1>3, <1>4, StartRemembers
<1>6. QED
  BY <1>5, SameLinksSound
     DEF AnswerCheck, TypeInv, TypeOK, tables, wallets, ledger, bounds

(* The answered row is a row, linked as before. *)
LEMMA AnsweredRow ==
    ASSUME NEW row \in Request, NEW op
    PROVE  /\ Answered(row, op) \in Request
           /\ Answered(row, op).about = row.about
           /\ Answered(row, op).booking = row.booking
  BY DEF Answered, Request

LEMMA AnswerFlagType ==
    ASSUME TypeInv, BookingAssumption, NEW p \in Procs, AnswerFlag(p)
    PROVE  TypeInv'
<1> DEFINE r == job[p].request
<1>1. /\ job[p] \in Job
      /\ job[p].op \in Answers
      /\ Remembers(request, job[p])
  BY DEF AnswerFlag, At, TypeInv, TypeOK, JobsRemember
<1>2. r \in Requests /\ request[r] \in Request
  BY <1>1 DEF Remembers, TypeInv, TypeOK
<1>3. request' = [request EXCEPT ![r] = Answered(request[r], job[p].op)]
  BY DEF AnswerFlag
<1>4. request' \in [Requests -> Request]
  BY <1>2, <1>3, AnsweredRow DEF TypeInv, TypeOK
<1>5. \A s \in Requests : /\ request'[s].about = request[s].about
                          /\ request'[s].booking = request[s].booking
  BY <1>2, <1>3, AnsweredRow DEF TypeInv, TypeOK
<1>6. Stable(request, request') /\ LinksSound'
  BY <1>5, SameLinksSound DEF Stable, TypeInv
<1>7. job' \in [Procs -> Job] /\ JobsRemember'
  <2>1. CASE Return(p)
    BY <2>1, <1>6, ReturnType, ReturnRemembers DEF TypeInv, TypeOK
  <2>2. CASE job[p].booking # NoBooking /\ MoveTo(p, "flagged")
    <3>1. job[p].booking \in Bookings
      BY <2>2, <1>1 DEF Job
    <3>2. Remembers(request', job[p])
      BY <1>1, <1>6, StillRemembers
    <3>3. Remembers(request', [job[p] EXCEPT !.at = "flagged"])
      BY <1>1, <3>1, <3>2 DEF Remembers, Job, Answers, Refusals
    <3>4. QED
      BY <2>2, <3>3, <1>6, MoveRemembers DEF Places
  <2>3. QED
    BY <2>1, <2>2 DEF AnswerFlag
<1>8. QED
  BY <1>4, <1>6, <1>7
     DEF AnswerFlag, TypeInv, TypeOK, wallets, ledger, bounds

LEMMA AcceptConfirmType ==
    ASSUME TypeInv, BookingAssumption, NEW p \in Procs, AcceptConfirm(p)
    PROVE  TypeInv'
<1>1. job[p].booking \in Bookings /\ booking[job[p].booking] \in Booking
  BY JobBooking DEF AcceptConfirm, At
<1>2. booking' \in [Bookings -> Booking]
  BY <1>1 DEF AcceptConfirm, TypeInv, TypeOK, Booking, Status, PaymentStatus
<1>3. QED
  BY <1>2, ReturnKeeps
     DEF AcceptConfirm, TypeInv, TypeOK, wallets, ledger, bounds

LEMMA RefuseCreditType ==
    ASSUME TypeInv, BookingAssumption, NEW p \in Procs, RefuseCredit(p)
    PROVE  TypeInv'
<1> DEFINE b == job[p].booking
           split == FullRefund(Amount[b])
<1>1. b \in Bookings /\ Amount[b] \in Nat
  BY JobBooking DEF RefuseCredit, At, BookingAssumption
<1>2. /\ split.sender \in Int
      /\ split.traveller \in Int
      /\ split.platform \in Int
  BY <1>1 DEF FullRefund
<1>3. Credit(b, split) /\ refunds' = [refunds EXCEPT ![b] = @ + 1]
  BY DEF RefuseCredit
<1>4. balance' \in [Users -> Int] /\ earnings' \in Int
  <2> HIDE DEF b, split
  <2> QED
    BY <1>2, <1>3, CreditType DEF TypeInv, TypeOK
<1>5. refunds' \in [Bookings -> Nat]
  BY <1>1, <1>3 DEF TypeInv, TypeOK
<1>6. /\ job' \in [Procs -> Job]
      /\ request' \in [Requests -> Request]
      /\ JobsRemember'
      /\ LinksSound'
  BY <1>1, MoveKeeps DEF RefuseCredit, At, tables, Places, Refusals
<1>7. QED
  BY <1>4, <1>5, <1>6 DEF RefuseCredit, TypeInv, TypeOK, tables, bounds

LEMMA RefuseMarkType ==
    ASSUME TypeInv, BookingAssumption, NEW p \in Procs, RefuseMark(p)
    PROVE  TypeInv'
<1>1. job[p].booking \in Bookings /\ booking[job[p].booking] \in Booking
  BY JobBooking DEF RefuseMark, At
<1>2. booking' \in [Bookings -> Booking]
  BY <1>1 DEF RefuseMark, TypeInv, TypeOK, Booking, Status, PaymentStatus
<1>3. QED
  BY <1>2, ReturnKeeps
     DEF RefuseMark, TypeInv, TypeOK, wallets, ledger, bounds

(* A job of the cron that is about to take its next row. *)
LEMMA CronTurn ==
    ASSUME NEW rows, NEW todo \in SUBSET Requests,
           \A r \in todo : /\ rows[r].about # NoBooking
                          /\ rows[r].booking \in Bookings
    PROVE  Sweeping(todo) \in Job /\ Remembers(rows, Sweeping(todo))
<1>1. Sweeping(todo) \in Job
  BY DEF Sweeping, Job, AllOps, Places
<1>2. Remembers(rows, Sweeping(todo))
  BY DEF Sweeping, Remembers, BookingOps, RequiredStatus, Answers, Refusals
<1>3. QED
  BY <1>1, <1>2

LEMMA CronSelectType ==
    ASSUME TypeInv, BookingAssumption, NEW p \in Procs, CronSelect(p)
    PROVE  TypeInv'
<1> DEFINE j == Sweeping(Expirable)
<1>1. \A r \in Expirable : /\ request[r].about # NoBooking
                           /\ request[r].booking \in Bookings
  BY DEF Expirable, Unanswered, TypeInv, TypeOK, Request
<1>2. Expirable \in SUBSET Requests
  BY DEF Expirable
<1>3. j \in Job /\ Remembers(request, j)
  <2> HIDE DEF j
  <2> QED
    BY <1>1, <1>2, CronTurn DEF j
<1>4. job \in [Procs -> Job] /\ JobsRemember /\ job' = [job EXCEPT ![p] = j]
      /\ UNCHANGED request
  BY DEF CronSelect, TypeInv, TypeOK, tables
<1>5. job' \in [Procs -> Job] /\ JobsRemember'
  <2> HIDE DEF j
  <2>1. job'[p] = j /\ \A q \in Procs \ {p} : job'[q] = job[q]
    BY <1>4
  <2>2. Remembers(request', job'[p])
    BY <1>3, <1>4, <2>1
  <2>3. QED
    BY <1>3, <1>4, <2>1, <2>2, SameRowsStable, JobsStillRemember
<1>6. LinksSound'
  BY <1>4, SameLinksSound DEF TypeInv
<1>7. QED
  BY <1>5, <1>6 DEF CronSelect, TypeInv, TypeOK, tables, wallets, ledger,
                    bounds

LEMMA CronCreditType ==
    ASSUME TypeInv, BookingAssumption, NEW p \in Procs, CronCredit(p)
    PROVE  TypeInv'
<1>1. PICK r \in job[p].todo :
        LET b == request[r].booking
        IN  /\ Credit(b, FullRefund(Amount[b]))
            /\ refunds' = [refunds EXCEPT ![b] = @ + 1]
            /\ job' = [job EXCEPT ![p].at = "credited", ![p].request = r,
                                  ![p].booking = b]
  BY DEF CronCredit
<1> DEFINE b == request[r].booking
           split == FullRefund(Amount[b])
           j == [job[p] EXCEPT !.at = "credited", !.request = r, !.booking = b]
<1>2. /\ job[p] \in Job
      /\ job[p].op = "expire"
      /\ Remembers(request, job[p])
      /\ UNCHANGED request
  BY DEF CronCredit, At, TypeInv, TypeOK, JobsRemember, tables
<1>3. r \in Requests /\ request[r].about # NoBooking /\ b \in Bookings
  BY <1>1, <1>2 DEF Remembers, Job
<1>4. split.sender \in Int /\ split.traveller \in Int /\ split.platform \in Int
  BY <1>3 DEF FullRefund, BookingAssumption
<1>5. balance' \in [Users -> Int] /\ earnings' \in Int
  <2>1. Credit(b, split)
    BY <1>1
  <2> HIDE DEF b, split
  <2> QED
    BY <1>4, <2>1, CreditType DEF TypeInv, TypeOK
<1>6. refunds' \in [Bookings -> Nat]
  BY <1>1, <1>3 DEF TypeInv, TypeOK
<1>7. j \in Job
  BY <1>2, <1>3 DEF Job, Places
<1>8. Remembers(request', j)
  BY <1>2, <1>3
     DEF Remembers, Job, BookingOps, RequiredStatus, Answers, Refusals
<1>9. job' \in [Procs -> Job] /\ JobsRemember'
  <2>1. job'[p] = j /\ \A q \in Procs \ {p} : job'[q] = job[q]
    BY <1>1 DEF TypeInv, TypeOK
  <2>2. job' \in [Procs -> Job]
    BY <1>1, <1>3, <1>7 DEF TypeInv, TypeOK
  <2> HIDE DEF j
  <2>3. QED
    BY <1>2, <1>8, <2>1, <2>2, SameRowsStable, JobsStillRemember
       DEF TypeInv, TypeOK
<1>10. LinksSound'
  BY <1>2, SameLinksSound DEF TypeInv
<1>11. QED
  BY <1>2, <1>5, <1>6, <1>9, <1>10
     DEF CronCredit, TypeInv, TypeOK, tables, bounds

LEMMA CronMarkType ==
    ASSUME TypeInv, BookingAssumption, NEW p \in Procs, CronMark(p)
    PROVE  TypeInv'
<1>1. job[p].booking \in Bookings /\ booking[job[p].booking] \in Booking
  BY JobBooking DEF CronMark, At
<1>2. booking' \in [Bookings -> Booking]
  BY <1>1 DEF CronMark, TypeInv, TypeOK, Booking, Status, PaymentStatus
<1>3. /\ job' \in [Procs -> Job]
      /\ request' \in [Requests -> Request]
      /\ JobsRemember'
      /\ LinksSound'
  BY <1>1, MoveKeeps DEF CronMark, At, Places
<1>4. QED
  BY <1>2, <1>3 DEF CronMark, TypeInv, TypeOK, wallets, ledger, bounds

LEMMA CronProcessedType ==
    ASSUME TypeInv, BookingAssumption, NEW p \in Procs, CronProcessed(p)
    PROVE  TypeInv'
<1> DEFINE r == job[p].request
           rest == job[p].todo \ {r}
           turn == Sweeping(rest)
<1>1. /\ job[p] \in Job
      /\ job[p].op = "expire"
      /\ job[p].at = "marked"
      /\ Remembers(request, job[p])
  BY DEF CronProcessed, At, TypeInv, TypeOK, JobsRemember
<1>2. r \in Requests /\ rest \in SUBSET Requests
  BY <1>1 DEF Remembers, Job
<1>3. /\ request' = [request EXCEPT ![r].is_processed = TRUE]
      /\ job' = [job EXCEPT ![p] = IF rest = {} THEN Idle ELSE turn]
  BY DEF CronProcessed
<1>4. request \in [Requests -> Request]
  BY DEF TypeInv, TypeOK
<1>5. /\ request' \in [Requests -> Request]
      /\ \A s \in Requests : /\ request'[s].about = request[s].about
                             /\ request'[s].booking = request[s].booking
  BY <1>2, <1>3, <1>4, ZenonT(60) DEF Request
<1>6. Stable(request, request') /\ LinksSound'
  BY <1>5, SameLinksSound DEF Stable, TypeInv
<1>7. \A s \in rest : /\ request'[s].about # NoBooking
                      /\ request'[s].booking \in Bookings
  BY <1>1, <1>2, <1>5 DEF Remembers
<1>8. turn \in Job /\ Remembers(request', turn)
  <2> HIDE DEF r, rest
  <2> QED
    BY <1>2, <1>7, CronTurn
<1>9. job'[p] \in Job /\ Remembers(request', job'[p])
  <2>1. job'[p] = IF rest = {} THEN Idle ELSE turn
    BY <1>3 DEF TypeInv, TypeOK
  <2> HIDE DEF turn, rest
  <2> QED
    BY <2>1, <1>8, IdleType, IdleRemembers
<1>10. job' \in [Procs -> Job] /\ JobsRemember'
  <2> HIDE DEF turn, rest
  <2>1. \A q \in Procs \ {p} : job'[q] = job[q]
    BY <1>3
  <2>2. job' \in [Procs -> Job]
    BY <1>3, <1>9, <2>1 DEF TypeInv, TypeOK
  <2>3. QED
    BY <1>6, <1>9, <2>1, <2>2, JobsStillRemember DEF TypeInv, TypeOK
<1>11. QED
  BY <1>5, <1>6, <1>10
     DEF CronProcessed, TypeInv, TypeOK, wallets, ledger, bounds

LEMMA StatusCheckType ==
    ASSUME TypeInv, BookingAssumption, NEW p \in Procs, NEW b \in Bookings,
           NEW op \in Ops, StatusCheck(p, b, op)
    PROVE  TypeInv'
<1>1. op \in DOMAIN RequiredStatus /\ Start(p, op, b, NoRequest, NoUser)
      /\ UNCHANGED request
  BY DEF StatusCheck, tables
<1>2. /\ op \in AllOps
      /\ op \in BookingOps
      /\ op \notin Answers
      /\ op # "expire"
      /\ op # "payFromWallet"
  BY <1>1 DEF RequiredStatus, AllOps, BookingOps, Answers, Refusals
<1>3. job' \in [Procs -> Job] /\ JobsRemember'
  BY <1>1, <1>2, StartRemembers
<1>4. QED
  BY <1>3, SameLinksSound
     DEF StatusCheck, TypeInv, TypeOK, tables, wallets, ledger, bounds

(* The handlers whose last write is one row of bookings. *)
LEMMA LastUpdateType ==
    ASSUME TypeInv, NEW p \in Procs, NEW op \in BookingOps,
           NEW row \in Booking, LastUpdate(p, op, row)
    PROVE  TypeInv'
<1>1. job[p].booking \in Bookings
  BY JobBooking DEF LastUpdate, At
<1>2. booking' \in [Bookings -> Booking]
  BY <1>1 DEF LastUpdate, TypeInv, TypeOK
<1>3. QED
  BY <1>2, ReturnKeeps
     DEF LastUpdate, TypeInv, TypeOK, wallets, ledger, bounds

LEMMA PickUpType ==
    ASSUME TypeInv, BookingAssumption, NEW p \in Procs, PickUp(p)
    PROVE  TypeInv'
<1>1. "pickUp" \in BookingOps
  BY DEF BookingOps, RequiredStatus
<1>2. Row(p) \in Booking
  BY <1>1, JobBooking DEF PickUp, LastUpdate, At, Row
<1>3. QED
  BY <1>1, <1>2, LastUpdateType DEF PickUp, Booking, Status

LEMMA ConditionsNotMetType ==
    ASSUME TypeInv, BookingAssumption, NEW p \in Procs, ConditionsNotMet(p)
    PROVE  TypeInv'
<1>1. "conditionsNotMet" \in BookingOps
  BY DEF BookingOps, RequiredStatus
<1>2. Row(p) \in Booking
  BY <1>1, JobBooking DEF ConditionsNotMet, LastUpdate, At, Row
<1>3. QED
  BY <1>1, <1>2, LastUpdateType DEF ConditionsNotMet, Booking, Status

LEMMA ProblemWithPackageType ==
    ASSUME TypeInv, BookingAssumption, NEW p \in Procs, ProblemWithPackage(p)
    PROVE  TypeInv'
<1>1. "problem" \in BookingOps
  BY DEF BookingOps, RequiredStatus
<1>2. Row(p) \in Booking
  BY <1>1, JobBooking DEF ProblemWithPackage, LastUpdate, At, Row
<1>3. QED
  BY <1>1, <1>2, LastUpdateType DEF ProblemWithPackage, Booking, Status

LEMMA CompleteType ==
    ASSUME TypeInv, BookingAssumption, NEW p \in Procs, Complete(p)
    PROVE  TypeInv'
<1>1. "complete" \in BookingOps
  BY DEF BookingOps, RequiredStatus
<1>2. Row(p) \in Booking
  BY <1>1, JobBooking DEF Complete, LastUpdate, At, Row
<1>3. QED
  BY <1>1, <1>2, LastUpdateType DEF Complete, Booking, Status

LEMMA RejectType ==
    ASSUME TypeInv, BookingAssumption, NEW p \in Procs, Reject(p)
    PROVE  TypeInv'
<1>1. "reject" \in BookingOps
  BY DEF BookingOps, RequiredStatus
<1>2. Row(p) \in Booking
  BY <1>1, JobBooking DEF Reject, LastUpdate, At, Row
<1>3. QED
  BY <1>1, <1>2, LastUpdateType DEF Reject, Booking, Status

LEMMA DropOffMarkType ==
    ASSUME TypeInv, BookingAssumption, NEW p \in Procs, DropOffMark(p)
    PROVE  TypeInv'
<1>1. job[p].booking \in Bookings /\ booking[job[p].booking] \in Booking
  BY JobBooking DEF DropOffMark, At, BookingOps, RequiredStatus
<1>2. booking' \in [Bookings -> Booking]
  BY <1>1 DEF DropOffMark, TypeInv, TypeOK, Booking, Status
<1>3. /\ job' \in [Procs -> Job]
      /\ request' \in [Requests -> Request]
      /\ JobsRemember'
      /\ LinksSound'
  BY <1>1, MoveKeeps DEF DropOffMark, At, Places
<1>4. QED
  BY <1>2, <1>3 DEF DropOffMark, TypeInv, TypeOK, wallets, ledger, bounds

LEMMA DropOffPayType ==
    ASSUME TypeInv, BookingAssumption, NEW p \in Procs, DropOffPay(p)
    PROVE  TypeInv'
<1> DEFINE b == job[p].booking
<1>1. b \in Bookings /\ Amount[b] \in Nat
  BY JobBooking
     DEF DropOffPay, At, BookingOps, RequiredStatus, BookingAssumption
<1>2. PICK split \in DeliverySplits(Amount[b], PlatformPercentage) :
        Credit(b, split)
  BY DEF DropOffPay
<1>3. split.sender \in Int /\ split.traveller \in Int /\ split.platform \in Int
  BY <1>1, DeliverySplit DEF BookingAssumption
<1>4. balance' \in [Users -> Int] /\ earnings' \in Int
  <2> HIDE DEF b
  <2> QED
    BY <1>2, <1>3, CreditType DEF TypeInv, TypeOK
<1>5. payouts' \in [Bookings -> Nat]
  BY <1>1 DEF DropOffPay, TypeInv, TypeOK
<1>6. QED
  BY <1>4, <1>5, ReturnKeeps
     DEF DropOffPay, TypeInv, TypeOK, tables, bounds

LEMMA FailType ==
    ASSUME TypeInv, BookingAssumption, NEW p \in Procs, Fail(p)
    PROVE  TypeInv'
  BY ReturnKeeps
     DEF Fail, TypeInv, TypeOK, tables, wallets, ledger

LEMMA AdminSetStatusType ==
    ASSUME TypeInv, BookingAssumption, NEW b \in Bookings, NEW s \in Status,
           AdminSetStatus(b, s)
    PROVE  TypeInv'
<1>1. booking' \in [Bookings -> Booking]
  BY ZenonT(60) DEF AdminSetStatus, TypeInv, TypeOK, Booking
<1>2. JobsRemember' /\ LinksSound'
  BY SameJobsKeep DEF AdminSetStatus
<1>3. QED
  BY <1>1, <1>2 DEF AdminSetStatus, TypeInv, TypeOK, wallets, ledger

LEMMA BecomeOverdueType ==
    ASSUME TypeInv, BookingAssumption, NEW r \in Requests, BecomeOverdue(r)
    PROVE  TypeInv'
<1>1. request' \in [Requests -> Request]
  BY ZenonT(60) DEF BecomeOverdue, TypeInv, TypeOK, Request
<1>2. \A s \in Requests : /\ request'[s].about = request[s].about
                          /\ request'[s].booking = request[s].booking
  BY DEF BecomeOverdue, TypeInv, TypeOK, Request
<1>3. JobsRemember' /\ LinksSound'
  BY <1>2, SameJobsKeep DEF BecomeOverdue
<1>4. QED
  BY <1>1, <1>3 DEF BecomeOverdue, TypeInv, TypeOK, wallets, ledger, bounds

LEMMA DepartureMovesType ==
    ASSUME TypeInv, BookingAssumption, NEW b \in Bookings, DepartureMoves(b)
    PROVE  TypeInv'
<1>1. hoursLeft' \in [Bookings -> HourSamples]
  BY DEF DepartureMoves, TypeInv, TypeOK
<1>2. JobsRemember' /\ LinksSound'
  BY SameJobsKeep DEF DepartureMoves, tables
<1>3. QED
  BY <1>1, <1>2 DEF DepartureMoves, TypeInv, TypeOK, tables, wallets, ledger,
                    bounds

-----------------------------------------------------------------------------
(* Type correctness *)

(* The invariant holds at first ... *)
LEMMA TypeInit == Init => TypeInv
<1> SUFFICES ASSUME Init
             PROVE  TypeInv
  OBVIOUS
<1>1. TypeOK
  BY BookingAssumption, IdleType
     DEF Init, TypeOK, Booking, Status, PaymentStatus, Request, NoRow
<1>2. JobsRemember
  BY IdleRemembers DEF Init, JobsRemember
<1>3. LinksSound
  BY BookingAssumption DEF Init, LinksSound, NoRow
<1>4. QED
  BY <1>1, <1>2, <1>3 DEF TypeInv

(* ... and every step keeps it. *)
LEMMA TypeStep == TypeInv /\ [Next]_vars => TypeInv'
<1> SUFFICES ASSUME TypeInv, [Next]_vars
             PROVE  TypeInv'
  OBVIOUS
<1>1. ASSUME NEW p \in Procs, NEW b \in Bookings, WebhookRecord(p, b)
      PROVE  TypeInv'
  BY <1>1, BookingAssumption, WebhookRecordType
<1>2. ASSUME NEW p \in Procs, NEW b \in Bookings, NEW u \in Users,
            PayCheck(p, b, u)
      PROVE  TypeInv'
  BY <1>2, BookingAssumption, PayCheckType
<1>3. ASSUME NEW p \in Procs, NEW b \in Bookings, NEW u \in Users,
            CancelCheck(p, b, u)
      PROVE  TypeInv'
  BY <1>3, BookingAssumption, CancelCheckType
<1>4. ASSUME NEW p \in Procs, NEW b \in Bookings, NEW op \in Ops,
            StatusCheck(p, b, op)
      PROVE  TypeInv'
  BY <1>4, BookingAssumption, StatusCheckType
<1>5. ASSUME NEW p \in Procs, NEW r \in Requests, NEW op \in Ops,
            AnswerCheck(p, r, op)
      PROVE  TypeInv'
  BY <1>5, BookingAssumption, AnswerCheckType
<1>6. ASSUME NEW p \in Procs, CronSelect(p) PROVE TypeInv'
  BY <1>6, BookingAssumption, CronSelectType
<1>7. ASSUME NEW p \in Procs, PayAnnounce(p) PROVE TypeInv'
  BY <1>7, BookingAssumption, PayAnnounceType
<1>8. ASSUME NEW p \in Procs, PayConflict(p) PROVE TypeInv'
  BY <1>8, PayConflictType
<1>9. ASSUME NEW p \in Procs, PayCommit(p) PROVE TypeInv'
  BY <1>9, BookingAssumption, PayCommitType
<1>10. ASSUME NEW p \in Procs, WebhookAnnounce(p) PROVE TypeInv'
  BY <1>10, BookingAssumption, WebhookAnnounceType
<1>11. ASSUME NEW p \in Procs, CancelSettle(p) PROVE TypeInv'
  BY <1>11, BookingAssumption, CancelSettleType
<1>12. ASSUME NEW p \in Procs, CancelMark(p) PROVE TypeInv'
  BY <1>12, BookingAssumption, CancelMarkType
<1>13. ASSUME NEW p \in Procs, AnswerFlag(p) PROVE TypeInv'
  BY <1>13, BookingAssumption, AnswerFlagType
<1>14. ASSUME NEW p \in Procs, AcceptConfirm(p) PROVE TypeInv'
  BY <1>14, BookingAssumption, AcceptConfirmType
<1>15. ASSUME NEW p \in Procs, RefuseCredit(p) PROVE TypeInv'
  BY <1>15, BookingAssumption, RefuseCreditType
<1>16. ASSUME NEW p \in Procs, RefuseMark(p) PROVE TypeInv'
  BY <1>16, BookingAssumption, RefuseMarkType
<1>17. ASSUME NEW p \in Procs, CronCredit(p) PROVE TypeInv'
  BY <1>17, BookingAssumption, CronCreditType
<1>18. ASSUME NEW p \in Procs, CronMark(p) PROVE TypeInv'
  BY <1>18, BookingAssumption, CronMarkType
<1>19. ASSUME NEW p \in Procs, CronProcessed(p) PROVE TypeInv'
  BY <1>19, BookingAssumption, CronProcessedType
<1>20. ASSUME NEW p \in Procs, PickUp(p) PROVE TypeInv'
  BY <1>20, BookingAssumption, PickUpType
<1>21. ASSUME NEW p \in Procs, ConditionsNotMet(p) PROVE TypeInv'
  BY <1>21, BookingAssumption, ConditionsNotMetType
<1>22. ASSUME NEW p \in Procs, ProblemWithPackage(p) PROVE TypeInv'
  BY <1>22, BookingAssumption, ProblemWithPackageType
<1>23. ASSUME NEW p \in Procs, Complete(p) PROVE TypeInv'
  BY <1>23, BookingAssumption, CompleteType
<1>24. ASSUME NEW p \in Procs, Reject(p) PROVE TypeInv'
  BY <1>24, BookingAssumption, RejectType
<1>25. ASSUME NEW p \in Procs, DropOffMark(p) PROVE TypeInv'
  BY <1>25, BookingAssumption, DropOffMarkType
<1>26. ASSUME NEW p \in Procs, DropOffPay(p) PROVE TypeInv'
  BY <1>26, BookingAssumption, DropOffPayType
<1>27. ASSUME NEW p \in Procs, Fail(p) PROVE TypeInv'
  BY <1>27, BookingAssumption, FailType
<1>28. ASSUME NEW b \in Bookings, ChargeCard(b) PROVE TypeInv'
  BY <1>28, ChargeCardType
<1>29. ASSUME NEW b \in Bookings, NEW s \in Status, AdminSetStatus(b, s)
      PROVE  TypeInv'
  BY <1>29, BookingAssumption, AdminSetStatusType
<1>30. ASSUME NEW r \in Requests, BecomeOverdue(r) PROVE TypeInv'
  BY <1>30, BookingAssumption, BecomeOverdueType
<1>31. ASSUME NEW b \in Bookings, DepartureMoves(b) PROVE TypeInv'
  BY <1>31, BookingAssumption, DepartureMovesType
<1>32. CASE UNCHANGED vars
  BY <1>32, SameJobsKeep
     DEF vars, TypeInv, TypeOK
<1>33. QED
  BY <1>1, <1>2, <1>3, <1>4, <1>5, <1>6, <1>7, <1>8, <1>9, <1>10, <1>11,
     <1>12, <1>13, <1>14, <1>15, <1>16, <1>17, <1>18, <1>19, <1>20, <1>21,
     <1>22, <1>23, <1>24, <1>25, <1>26, <1>27, <1>28, <1>29, <1>30, <1>31,
     <1>32
     DEF Next, Arrive, Continue

(* Hence it always holds. *)
LEMMA TypeAlways == Spec => []TypeInv
  BY TypeInit, TypeStep, PTL DEF Spec

(* The tables, the wallets and the handlers in flight keep their types     *)
(* through every interleaving, failure and retry.                          *)
THEOREM TypeCorrect == Spec => []TypeOK
<1>1. TypeInv => TypeOK
  BY DEF TypeInv
<1>2. QED
  BY <1>1, TypeAlways, PTL

-----------------------------------------------------------------------------
(* Refunds: a handler that is about to mark has credited. *)

RefundInv ==
    /\ RefundBacked
    /\ \A p \in Procs : job[p].at \in {"credited", "marked"} =>
                            refunds[job[p].booking] > 0

(* Every step keeps the refunds backed. *)
LEMMA RefundStep == TypeInv /\ RefundInv /\ [Next]_vars => RefundInv'
<1> SUFFICES ASSUME TypeInv, RefundInv, [Next]_vars
             PROVE  RefundInv'
  OBVIOUS
<1>0. /\ booking \in [Bookings -> Booking]
      /\ job \in [Procs -> Job]
      /\ refunds \in [Bookings -> Nat]
      /\ JobsRemember
  BY DEF TypeInv, TypeOK
<1> USE DEF RefundInv, RefundBacked
<1>1. ASSUME NEW p \in Procs, NEW b \in Bookings, WebhookRecord(p, b)
      PROVE  RefundInv'
  BY <1>0, <1>1
     DEF WebhookRecord, Start, At, MoveTo, Return, Idle, Booking, Job,
         tables, ledger
<1>2. ASSUME NEW p \in Procs, NEW b \in Bookings, NEW u \in Users,
            PayCheck(p, b, u)
      PROVE  RefundInv'
  BY <1>0, <1>2
     DEF PayCheck, Start, At, MoveTo, Return, Idle, Job, tables, ledger
<1>3. ASSUME NEW p \in Procs, NEW b \in Bookings, NEW u \in Users,
            CancelCheck(p, b, u)
      PROVE  RefundInv'
  BY <1>0, <1>3
     DEF CancelCheck, Start, At, MoveTo, Return, Idle, Job, tables, ledger
<1>4. ASSUME NEW p \in Procs, NEW b \in Bookings, NEW op \in Ops,
            StatusCheck(p, b, op)
      PROVE  RefundInv'
  BY <1>0, <1>4
     DEF StatusCheck, Start, At, MoveTo, Return, Idle, Job, tables, ledger
<1>5. ASSUME NEW p \in Procs, NEW r \in Requests, NEW op \in Ops,
            AnswerCheck(p, r, op)
      PROVE  RefundInv'
  BY <1>0, <1>5
     DEF AnswerCheck, Start, At, MoveTo, Return, Idle, Job, tables, ledger
<1>6. ASSUME NEW p \in Procs, CronSelect(p) PROVE RefundInv'
  BY <1>0, <1>6
     DEF CronSelect, At, MoveTo, Return, Idle, Job, tables, ledger, Sweeping
<1>7. ASSUME NEW p \in Procs, PayAnnounce(p) PROVE RefundInv'
  BY <1>0, <1>7
     DEF PayAnnounce, At, MoveTo, Return, Idle, Job, tables, ledger
<1>8. ASSUME NEW p \in Procs, PayConflict(p) PROVE RefundInv'
  BY <1>0, <1>8
     DEF PayConflict, At, MoveTo, Return, Idle, Job, tables, ledger
<1>9. ASSUME NEW p \in Procs, PayCommit(p) PROVE RefundInv'
  BY <1>0, <1>9
     DEF PayCommit, At, MoveTo, Return, Idle, Booking, InPayment, Job,
         tables, ledger
<1>10. ASSUME NEW p \in Procs, WebhookAnnounce(p) PROVE RefundInv'
  BY <1>0, <1>10
     DEF WebhookAnnounce, At, MoveTo, Return, Idle, Job, tables, ledger
<1>11. ASSUME NEW p \in Procs, CancelSettle(p) PROVE RefundInv'
  BY <1>0, <1>11
     DEF CancelSettle, At, MoveTo, Return, Idle, Job, tables, ledger,
         JobsRemember, Remembers, BookingOps
<1>12. ASSUME NEW p \in Procs, CancelMark(p) PROVE RefundInv'
  BY <1>0, <1>12
     DEF CancelMark, At, MoveTo, Return, Idle, Booking, Job, tables, ledger,
         JobsRemember, Remembers, BookingOps
<1>13. ASSUME NEW p \in Procs, AnswerFlag(p) PROVE RefundInv'
  BY <1>0, <1>13
     DEF AnswerFlag, At, MoveTo, Return, Idle, Job, tables, ledger
<1>14. ASSUME NEW p \in Procs, AcceptConfirm(p) PROVE RefundInv'
  BY <1>0, <1>14
     DEF AcceptConfirm, At, MoveTo, Return, Idle, Booking, Job, tables,
         ledger
<1>15. ASSUME NEW p \in Procs, RefuseCredit(p) PROVE RefundInv'
  BY <1>0, <1>15
     DEF RefuseCredit, At, MoveTo, Return, Idle, Job, tables, ledger,
         JobsRemember, Remembers, BookingOps
<1>16. ASSUME NEW p \in Procs, RefuseMark(p) PROVE RefundInv'
  BY <1>0, <1>16
     DEF RefuseMark, At, MoveTo, Return, Idle, Booking, Job, tables, ledger,
         JobsRemember, Remembers, BookingOps
<1>17. ASSUME NEW p \in Procs, CronCredit(p) PROVE RefundInv'
  BY <1>0, <1>17
     DEF CronCredit, At, MoveTo, Return, Idle, Job, tables, ledger,
         JobsRemember, Remembers, BookingOps
<1>18. ASSUME NEW p \in Procs, CronMark(p) PROVE RefundInv'
  BY <1>0, <1>18
     DEF CronMark, At, MoveTo, Return, Idle, Booking, Job, tables, ledger,
         JobsRemember, Remembers, BookingOps
<1>19. ASSUME NEW p \in Procs, CronProcessed(p) PROVE RefundInv'
  BY <1>0, <1>19
     DEF CronProcessed, At, MoveTo, Return, Idle, Job, tables, ledger,
         Sweeping
<1>20. ASSUME NEW p \in Procs, PickUp(p) PROVE RefundInv'
  BY <1>0, <1>20
     DEF PickUp, LastUpdate, Row, At, Return, Idle, Job, Booking, tables,
         ledger
<1>21. ASSUME NEW p \in Procs, ConditionsNotMet(p) PROVE RefundInv'
  BY <1>0, <1>21
     DEF ConditionsNotMet, LastUpdate, Row, At, Return, Idle, Job, Booking,
         tables, ledger
<1>22. ASSUME NEW p \in Procs, ProblemWithPackage(p) PROVE RefundInv'
  BY <1>0, <1>22
     DEF ProblemWithPackage, LastUpdate, Row, At, Return, Idle, Job, Booking,
         tables, ledger
<1>23. ASSUME NEW p \in Procs, Complete(p) PROVE RefundInv'
  BY <1>0, <1>23
     DEF Complete, LastUpdate, Row, At, Return, Idle, Job, Booking, tables,
         ledger
<1>24. ASSUME NEW p \in Procs, Reject(p) PROVE RefundInv'
  BY <1>0, <1>24
     DEF Reject, LastUpdate, Row, At, Return, Idle, Job, Booking, tables,
         ledger
<1>25. ASSUME NEW p \in Procs, DropOffMark(p) PROVE RefundInv'
  BY <1>0, <1>25
     DEF DropOffMark, At, MoveTo, Return, Idle, Booking, Job, tables, ledger
<1>26. ASSUME NEW p \in Procs, DropOffPay(p) PROVE RefundInv'
  BY <1>0, <1>26
     DEF DropOffPay, At, MoveTo, Return, Idle, Job, tables, ledger
<1>27. ASSUME NEW p \in Procs, Fail(p) PROVE RefundInv'
  BY <1>0, <1>27
     DEF Fail, At, MoveTo, Return, Idle, Job, tables, ledger
<1>28. ASSUME NEW b \in Bookings, ChargeCard(b) PROVE RefundInv'
  BY <1>0, <1>28
     DEF ChargeCard, At, MoveTo, Return, Idle, Job, tables, ledger
<1>29. ASSUME NEW b \in Bookings, NEW s \in Status, AdminSetStatus(b, s)
      PROVE  RefundInv'
  BY <1>0, <1>29
     DEF AdminSetStatus, At, MoveTo, Return, Idle, Booking, Job, tables,
         ledger
<1>30. ASSUME NEW r \in Requests, BecomeOverdue(r) PROVE RefundInv'
  BY <1>0, <1>30
     DEF BecomeOverdue, At, MoveTo, Return, Idle, Job, tables, ledger
<1>31. ASSUME NEW b \in Bookings, DepartureMoves(b) PROVE RefundInv'
  BY <1>0, <1>31
     DEF DepartureMoves, At, MoveTo, Return, Idle, Job, tables, ledger
<1>32. CASE UNCHANGED vars
  BY <1>32 DEF vars
<1>33. QED
  BY <1>1, <1>2, <1>3, <1>4, <1>5, <1>6, <1>7, <1>8, <1>9, <1>10, <1>11,
     <1>12, <1>13, <1>14, <1>15, <1>16, <1>17, <1>18, <1>19, <1>20, <1>21,
     <1>22, <1>23, <1>24, <1>25, <1>26, <1>27, <1>28, <1>29, <1>30, <1>31,
     <1>32
     DEF Next, Arrive, Continue

-----------------------------------------------------------------------------
(* What no step undoes *)

(* No step unlinks a booking. *)
LEMMA LinksStay ==
    ASSUME TypeInv, [Next]_vars
    PROVE  \A b \in Bookings, r \in Requests :
              request[r].booking = b => request'[r].booking = b
<1>0. /\ request \in [Requests -> Request]
      /\ job \in [Procs -> Job]
      /\ JobsRemember
      /\ BookingAssumption
  BY BookingAssumption DEF TypeInv, TypeOK
<1> DEFINE Kept == \A b \in Bookings, r \in Requests :
                      request[r].booking = b => request'[r].booking = b
<1>1. ASSUME NEW p \in Procs, NEW b \in Bookings, WebhookRecord(p, b)
      PROVE  Kept
  BY <1>0, <1>1
     DEF WebhookRecord, Start, tables
<1>2. ASSUME NEW p \in Procs, NEW b \in Bookings, NEW u \in Users,
            PayCheck(p, b, u)
      PROVE  Kept
  BY <1>0, <1>2
     DEF PayCheck, Start, tables
<1>3. ASSUME NEW p \in Procs, NEW b \in Bookings, NEW u \in Users,
            CancelCheck(p, b, u)
      PROVE  Kept
  BY <1>0, <1>3
     DEF CancelCheck, Start, tables
<1>4. ASSUME NEW p \in Procs, NEW b \in Bookings, NEW op \in Ops,
            StatusCheck(p, b, op)
      PROVE  Kept
  BY <1>0, <1>4
     DEF StatusCheck, Start, tables
<1>5. ASSUME NEW p \in Procs, NEW r \in Requests, NEW op \in Ops,
            AnswerCheck(p, r, op)
      PROVE  Kept
  BY <1>0, <1>5
     DEF AnswerCheck, Start, tables
<1>6. ASSUME NEW p \in Procs, CronSelect(p) PROVE Kept
  BY <1>0, <1>6
     DEF CronSelect, tables
<1>7. ASSUME NEW p \in Procs, PayAnnounce(p) PROVE Kept
  BY <1>0, <1>7
     DEF PayAnnounce, tables, Announce, NoRow, BookingAssumption
<1>8. ASSUME NEW p \in Procs, PayConflict(p) PROVE Kept
  BY <1>0, <1>8
     DEF PayConflict, tables
<1>9. ASSUME NEW p \in Procs, PayCommit(p) PROVE Kept
  BY <1>0, <1>9
     DEF PayCommit, tables
<1>10. ASSUME NEW p \in Procs, WebhookAnnounce(p) PROVE Kept
  BY <1>0, <1>10
     DEF WebhookAnnounce, tables, Announce, NoRow, BookingAssumption
<1>11. ASSUME NEW p \in Procs, CancelSettle(p) PROVE Kept
  BY <1>0, <1>11
     DEF CancelSettle, tables
<1>12. ASSUME NEW p \in Procs, CancelMark(p) PROVE Kept
  BY <1>0, <1>12
     DEF CancelMark, tables
<1>13. ASSUME NEW p \in Procs, AnswerFlag(p) PROVE Kept
  BY <1>0, <1>13
     DEF AnswerFlag, tables, Answered, Request
<1>14. ASSUME NEW p \in Procs, AcceptConfirm(p) PROVE Kept
  BY <1>0, <1>14
     DEF AcceptConfirm, tables
<1>15. ASSUME NEW p \in Procs, RefuseCredit(p) PROVE Kept
  BY <1>0, <1>15
     DEF RefuseCredit, tables
<1>16. ASSUME NEW p \in Procs, RefuseMark(p) PROVE Kept
  BY <1>0, <1>16
     DEF RefuseMark, tables
<1>17. ASSUME NEW p \in Procs, CronCredit(p) PROVE Kept
  BY <1>0, <1>17
     DEF CronCredit, tables
<1>18. ASSUME NEW p \in Procs, CronMark(p) PROVE Kept
  BY <1>0, <1>18
     DEF CronMark, tables
<1>19. ASSUME NEW p \in Procs, CronProcessed(p) PROVE Kept
  BY <1>0, <1>19
     DEF CronProcessed, tables, Request
<1>20. ASSUME NEW p \in Procs, PickUp(p) PROVE Kept
  BY <1>0, <1>20
     DEF PickUp, LastUpdate, Row, tables
<1>21. ASSUME NEW p \in Procs, ConditionsNotMet(p) PROVE Kept
  BY <1>0, <1>21
     DEF ConditionsNotMet, LastUpdate, Row, tables
<1>22. ASSUME NEW p \in Procs, ProblemWithPackage(p) PROVE Kept
  BY <1>0, <1>22
     DEF ProblemWithPackage, LastUpdate, Row, tables
<1>23. ASSUME NEW p \in Procs, Complete(p) PROVE Kept
  BY <1>0, <1>23
     DEF Complete, LastUpdate, Row, tables
<1>24. ASSUME NEW p \in Procs, Reject(p) PROVE Kept
  BY <1>0, <1>24
     DEF Reject, LastUpdate, Row, tables
<1>25. ASSUME NEW p \in Procs, DropOffMark(p) PROVE Kept
  BY <1>0, <1>25
     DEF DropOffMark, tables
<1>26. ASSUME NEW p \in Procs, DropOffPay(p) PROVE Kept
  BY <1>0, <1>26
     DEF DropOffPay, tables
<1>27. ASSUME NEW p \in Procs, Fail(p) PROVE Kept
  BY <1>0, <1>27
     DEF Fail, tables
<1>28. ASSUME NEW b \in Bookings, ChargeCard(b) PROVE Kept
  BY <1>0, <1>28
     DEF ChargeCard, tables
<1>29. ASSUME NEW b \in Bookings, NEW s \in Status, AdminSetStatus(b, s)
      PROVE  Kept
  BY <1>0, <1>29
     DEF AdminSetStatus, tables
<1>30. ASSUME NEW r \in Requests, BecomeOverdue(r) PROVE Kept
  BY <1>0, <1>30
     DEF BecomeOverdue, tables, Request
<1>31. ASSUME NEW b \in Bookings, DepartureMoves(b) PROVE Kept
  BY <1>0, <1>31
     DEF DepartureMoves, tables
<1>32. CASE UNCHANGED vars
  BY <1>0, <1>32
     DEF vars
<1>33. QED
  BY <1>1, <1>2, <1>3, <1>4, <1>5, <1>6, <1>7, <1>8, <1>9, <1>10, <1>11,
     <1>12, <1>13, <1>14, <1>15, <1>16, <1>17, <1>18, <1>19, <1>20, <1>21,
     <1>22, <1>23, <1>24, <1>25, <1>26, <1>27, <1>28, <1>29, <1>30, <1>31,
     <1>32
     DEF Next, Arrive, Continue

(* A wallet payment under way is started, committed and aborted only by    *)
(* its own steps.                                                          *)
PaymentsKept ==
    /\ UNCHANGED debits
    /\ \A q \in Procs :
        /\ InPayment(q)' <=> InPayment(q)
        /\ InPayment(q) => job'[q].booking = job[q].booking

PaymentStep(p) == PayAnnounce(p) \/ PayCommit(p) \/ Fail(p)

(* Steps of other handlers leave the payments under way alone. *)
LEMMA PaymentsStay ==
    ASSUME TypeInv, [Next]_vars, \A p \in Procs : ~PaymentStep(p)
    PROVE  PaymentsKept
<1>0. job \in [Procs -> Job] /\ \A p \in Procs : ~PaymentStep(p)
  BY DEF TypeInv, TypeOK
<1> USE DEF PaymentsKept, InPayment
<1>1. ASSUME NEW p \in Procs, NEW b \in Bookings, WebhookRecord(p, b)
      PROVE  PaymentsKept
  BY <1>0, <1>1
     DEF WebhookRecord, Start, At, MoveTo, Return, Idle, Job, tables, ledger
<1>2. ASSUME NEW p \in Procs, NEW b \in Bookings, NEW u \in Users,
            PayCheck(p, b, u)
      PROVE  PaymentsKept
  BY <1>0, <1>2
     DEF PayCheck, Start, At, MoveTo, Return, Idle, Job, tables, ledger
<1>3. ASSUME NEW p \in Procs, NEW b \in Bookings, NEW u \in Users,
            CancelCheck(p, b, u)
      PROVE  PaymentsKept
  BY <1>0, <1>3
     DEF CancelCheck, Start, At, MoveTo, Return, Idle, Job, tables, ledger
<1>4. ASSUME NEW p \in Procs, NEW b \in Bookings, NEW op \in Ops,
            StatusCheck(p, b, op)
      PROVE  PaymentsKept
  BY <1>0, <1>4
     DEF StatusCheck, Start, At, MoveTo, Return, Idle, Job, tables, ledger
<1>5. ASSUME NEW p \in Procs, NEW r \in Requests, NEW op \in Ops,
            AnswerCheck(p, r, op)
      PROVE  PaymentsKept
  BY <1>0, <1>5
     DEF AnswerCheck, Start, At, MoveTo, Return, Idle, Job, tables, ledger
<1>6. ASSUME NEW p \in Procs, CronSelect(p) PROVE PaymentsKept
  BY <1>0, <1>6
     DEF CronSelect, At, MoveTo, Return, Idle, Job, tables, ledger, Sweeping
<1>7. ASSUME NEW p \in Procs, PayAnnounce(p) PROVE PaymentsKept
  BY <1>0, <1>7
     DEF PayAnnounce, At, MoveTo, Return, Idle, Job, tables, ledger,
         PaymentStep
<1>8. ASSUME NEW p \in Procs, PayConflict(p) PROVE PaymentsKept
  BY <1>0, <1>8
     DEF PayConflict, At, MoveTo, Return, Idle, Job, tables, ledger
<1>9. ASSUME NEW p \in Procs, PayCommit(p) PROVE PaymentsKept
  BY <1>0, <1>9
     DEF PayCommit, At, MoveTo, Return, Idle, Job, tables, ledger,
         PaymentStep
<1>10. ASSUME NEW p \in Procs, WebhookAnnounce(p) PROVE PaymentsKept
  BY <1>0, <1>10
     DEF WebhookAnnounce, At, MoveTo, Return, Idle, Job, tables, ledger
<1>11. ASSUME NEW p \in Procs, CancelSettle(p) PROVE PaymentsKept
  BY <1>0, <1>11
     DEF CancelSettle, At, MoveTo, Return, Idle, Job, tables, ledger
<1>12. ASSUME NEW p \in Procs, CancelMark(p) PROVE PaymentsKept
  BY <1>0, <1>12
     DEF CancelMark, At, MoveTo, Return, Idle, Job, tables, ledger
<1>13. ASSUME NEW p \in Procs, AnswerFlag(p) PROVE PaymentsKept
  BY <1>0, <1>13
     DEF AnswerFlag, At, MoveTo, Return, Idle, Job, tables, ledger, Answers,
         Refusals
<1>14. ASSUME NEW p \in Procs, AcceptConfirm(p) PROVE PaymentsKept
  BY <1>0, <1>14
     DEF AcceptConfirm, At, MoveTo, Return, Idle, Job, tables, ledger
<1>15. ASSUME NEW p \in Procs, RefuseCredit(p) PROVE PaymentsKept
  BY <1>0, <1>15
     DEF RefuseCredit, At, MoveTo, Return, Idle, Job, tables, ledger,
         Answers, Refusals
<1>16. ASSUME NEW p \in Procs, RefuseMark(p) PROVE PaymentsKept
  BY <1>0, <1>16
     DEF RefuseMark, At, MoveTo, Return, Idle, Job, tables, ledger, Answers,
         Refusals
<1>17. ASSUME NEW p \in Procs, CronCredit(p) PROVE PaymentsKept
  BY <1>0, <1>17
     DEF CronCredit, At, MoveTo, Return, Idle, Job, tables, ledger
<1>18. ASSUME NEW p \in Procs, CronMark(p) PROVE PaymentsKept
  BY <1>0, <1>18
     DEF CronMark, At, MoveTo, Return, Idle, Job, tables, ledger
<1>19. ASSUME NEW p \in Procs, CronProcessed(p) PROVE PaymentsKept
  BY <1>0, <1>19
     DEF CronProcessed, At, MoveTo, Return, Idle, Job, tables, ledger,
         Sweeping
<1>20. ASSUME NEW p \in Procs, PickUp(p) PROVE PaymentsKept
  BY <1>0, <1>20
     DEF PickUp, LastUpdate, Row, At, MoveTo, Return, Idle, Job, tables,
         ledger
<1>21. ASSUME NEW p \in Procs, ConditionsNotMet(p) PROVE PaymentsKept
  BY <1>0, <1>21
     DEF ConditionsNotMet, LastUpdate, Row, At, MoveTo, Return, Idle, Job,
         tables, ledger
<1>22. ASSUME NEW p \in Procs, ProblemWithPackage(p) PROVE PaymentsKept
  BY <1>0, <1>22
     DEF ProblemWithPackage, LastUpdate, Row, At, MoveTo, Return, Idle, Job,
         tables, ledger
<1>23. ASSUME NEW p \in Procs, Complete(p) PROVE PaymentsKept
  BY <1>0, <1>23
     DEF Complete, LastUpdate, Row, At, MoveTo, Return, Idle, Job, tables,
         ledger
<1>24. ASSUME NEW p \in Procs, Reject(p) PROVE PaymentsKept
  BY <1>0, <1>24
     DEF Reject, LastUpdate, Row, At, MoveTo, Return, Idle, Job, tables,
         ledger
<1>25. ASSUME NEW p \in Procs, DropOffMark(p) PROVE PaymentsKept
  BY <1>0, <1>25
     DEF DropOffMark, At, MoveTo, Return, Idle, Job, tables, ledger
<1>26. ASSUME NEW p \in Procs, DropOffPay(p) PROVE PaymentsKept
  BY <1>0, <1>26
     DEF DropOffPay, At, MoveTo, Return, Idle, Job, tables, ledger
<1>27. ASSUME NEW p \in Procs, Fail(p) PROVE PaymentsKept
  BY <1>0, <1>27
     DEF Fail, At, MoveTo, Return, Idle, Job, tables, ledger, PaymentStep
<1>28. ASSUME NEW b \in Bookings, ChargeCard(b) PROVE PaymentsKept
  BY <1>0, <1>28
     DEF ChargeCard, At, MoveTo, Return, Idle, Job, tables, ledger
<1>29. ASSUME NEW b \in Bookings, NEW s \in Status, AdminSetStatus(b, s)
      PROVE  PaymentsKept
  BY <1>0, <1>29
     DEF AdminSetStatus, At, MoveTo, Return, Idle, Job, tables, ledger
<1>30. ASSUME NEW r \in Requests, BecomeOverdue(r) PROVE PaymentsKept
  BY <1>0, <1>30
     DEF BecomeOverdue, At, MoveTo, Return, Idle, Job, tables, ledger
<1>31. ASSUME NEW b \in Bookings, DepartureMoves(b) PROVE PaymentsKept
  BY <1>0, <1>31
     DEF DepartureMoves, At, MoveTo, Return, Idle, Job, tables, ledger
<1>32. CASE UNCHANGED vars
  BY <1>0, <1>32
     DEF vars, At
<1>33. QED
  BY <1>1, <1>2, <1>3, <1>4, <1>5, <1>6, <1>7, <1>8, <1>9, <1>10, <1>11,
     <1>12, <1>13, <1>14, <1>15, <1>16, <1>17, <1>18, <1>19, <1>20, <1>21,
     <1>22, <1>23, <1>24, <1>25, <1>26, <1>27, <1>28, <1>29, <1>30, <1>31,
     <1>32
     DEF Next, Arrive, Continue

-----------------------------------------------------------------------------
(* Wallet payments: a payment that is about to commit holds the only link  *)
(* of its booking, and a committed one left it behind.                     *)

IsLinked(b) == \E r \in Requests : request[r].booking = b

WalletInv ==
    /\ WalletDebitOnce
    /\ \A b \in Bookings : debits[b] > 0 => IsLinked(b)
    /\ \A p \in Procs : InPayment(p) => /\ debits[job[p].booking] = 0
                                        /\ IsLinked(job[p].booking)
    /\ \A p, q \in Procs :
        InPayment(p) /\ InPayment(q) /\ job[p].booking = job[q].booking
            => p = q

(* Every step keeps wallet payments single. *)
LEMMA WalletStep == TypeInv /\ WalletInv /\ [Next]_vars => WalletInv'
<1> SUFFICES ASSUME TypeInv, WalletInv, [Next]_vars
             PROVE  WalletInv'
  OBVIOUS
<1>1. /\ debits \in [Bookings -> Nat]
      /\ job \in [Procs -> Job]
      /\ \A p \in Procs : InPayment(p) => job[p].booking \in Bookings
  BY JobBooking DEF TypeInv, TypeOK, InPayment, At
<1>2. \A b \in Bookings : IsLinked(b) => IsLinked(b)'
  BY LinksStay DEF IsLinked
<1>3. ASSUME NEW p \in Procs, PayAnnounce(p) PROVE WalletInv'
  <2> DEFINE b == job[p].booking
  <2>1. /\ UNCHANGED debits
        /\ job' = [job EXCEPT ![p].at = "announced"]
        /\ job[p].op = "payFromWallet"
        /\ ~BookingLocked(b)
        /\ ~IsLinked(b)
    BY <1>3 DEF PayAnnounce, MoveTo, At, Linked, IsLinked, ledger
  <2>2. b \in Bookings
    BY <2>1, JobBooking DEF BookingOps
  <2>3. debits[b] = 0
    BY <1>1, <2>1, <2>2 DEF WalletInv
  <2>4. IsLinked(b)'
    <3>1. PICK r \in Requests : Announce(r, b, b)
      BY <1>3 DEF PayAnnounce
    <3>2. request'[r].booking = b
      BY <2>2, <3>1, AnnounceStable, BookingAssumption DEF TypeInv, TypeOK
    <3>3. UNCHANGED b
      BY <1>1, <2>1 DEF Job
    <3>4. QED
      BY <3>2, <3>3 DEF IsLinked
  <2>5. \A q \in Procs \ {p} : job'[q] = job[q]
    BY <1>1, <2>1
  <2>6. job'[p].booking = b
    BY <1>1, <2>1 DEF Job
  <2>7. QED
    BY <1>1, <1>2, <2>1, <2>2, <2>3, <2>4, <2>5, <2>6
       DEF WalletInv, WalletDebitOnce, InPayment, At, BookingLocked, IsLinked
<1>4. ASSUME NEW p \in Procs, PayCommit(p) PROVE WalletInv'
  <2> DEFINE b == job[p].booking
  <2>1. InPayment(p) /\ debits' = [debits EXCEPT ![b] = debits[b] + 1]
        /\ job' = [job EXCEPT ![p] = Idle]
    BY <1>4 DEF PayCommit, Return
  <2>2. b \in Bookings /\ debits[b] = 0 /\ IsLinked(b)
    BY <1>1, <2>1 DEF WalletInv
  <2>3. debits'[b] = 1 /\ \A c \in Bookings \ {b} : debits'[c] = debits[c]
    BY <1>1, <2>1, <2>2
  <2>4. \A q \in Procs : InPayment(q)' => /\ InPayment(q)
                                         /\ q # p
                                         /\ job'[q] = job[q]
                                         /\ job[q].booking # b
    BY <1>1, <2>1 DEF InPayment, At, Idle, WalletInv
  <2>5. QED
    BY <1>1, <1>2, <2>2, <2>3, <2>4
       DEF WalletInv, WalletDebitOnce, IsLinked
<1>5. ASSUME NEW p \in Procs, Fail(p) PROVE WalletInv'
  <2>1. UNCHANGED debits
    BY <1>5 DEF Fail, ledger
  <2>2. \A q \in Procs : InPayment(q)' => InPayment(q) /\ job'[q] = job[q]
    BY <1>1, <1>5 DEF Fail, Return, InPayment, At, Idle
  <2>3. QED
    BY <1>1, <1>2, <2>1, <2>2 DEF WalletInv, WalletDebitOnce, IsLinked
<1>6. CASE \A p \in Procs : ~PaymentStep(p)
  <2>1. PaymentsKept
    BY <1>6, PaymentsStay
  <2>2. QED
    BY <1>1, <1>2, <2>1
       DEF PaymentsKept, WalletInv, WalletDebitOnce, IsLinked
<1>7. QED
  BY <1>3, <1>4, <1>5, <1>6 DEF PaymentStep

(* The payment of b was rolled back after its request was written: b is    *)
(* linked, was never debited, and no payment of it is about to commit.     *)
RolledBack(b) ==
    /\ IsLinked(b)
    /\ debits[b] = 0
    /\ \A p \in Procs : InPayment(p) => job[p].booking # b

(* No step lets such a booking be paid from a wallet after all. *)
LEMMA RolledBackStep ==
    ASSUME TypeInv, [Next]_vars, NEW b \in Bookings, RolledBack(b)
    PROVE  RolledBack(b)'
<1>1. /\ debits \in [Bookings -> Nat]
      /\ job \in [Procs -> Job]
  BY DEF TypeInv, TypeOK
<1>2. IsLinked(b)'
  BY LinksStay DEF IsLinked, RolledBack
<1>3. ASSUME NEW p \in Procs, PayAnnounce(p) PROVE RolledBack(b)'
  <2>1. /\ UNCHANGED debits
        /\ job' = [job EXCEPT ![p].at = "announced"]
        /\ ~IsLinked(job[p].booking)
    BY <1>3 DEF PayAnnounce, MoveTo, Linked, IsLinked, ledger
  <2>2. /\ job'[p].booking = job[p].booking
        /\ \A q \in Procs \ {p} : job'[q] = job[q]
    BY <1>1, <2>1 DEF Job
  <2> QED
    BY <1>2, <2>1, <2>2 DEF RolledBack, InPayment, At
<1>4. ASSUME NEW p \in Procs, PayCommit(p) PROVE RolledBack(b)'
  <2>1. /\ InPayment(p)
        /\ debits' = [debits EXCEPT ![job[p].booking] = @ + 1]
        /\ job' = [job EXCEPT ![p] = Idle]
    BY <1>4 DEF PayCommit, Return
  <2>2. debits'[b] = 0
    BY <1>1, <2>1 DEF RolledBack
  <2> QED
    BY <1>1, <1>2, <2>1, <2>2 DEF RolledBack, InPayment, At, Idle
<1>5. ASSUME NEW p \in Procs, Fail(p) PROVE RolledBack(b)'
  BY <1>1, <1>2, <1>5
     DEF Fail, Return, RolledBack, InPayment, At, Idle, ledger
<1>6. CASE \A p \in Procs : ~PaymentStep(p)
  <2>1. PaymentsKept
    BY <1>6, PaymentsStay
  <2> QED
    BY <1>2, <2>1 DEF PaymentsKept, RolledBack
<1> QED
  BY <1>3, <1>4, <1>5, <1>6 DEF PaymentStep

-----------------------------------------------------------------------------
(* Answers: whatever row an answer finds, it leaves at most one flag set   *)
(* that was not set with the other.                                        *)

(* Every step keeps the answers exclusive. *)
LEMMA AnswersStep ==
    TypeInv /\ AnswersExclusive /\ [Next]_vars => AnswersExclusive'
<1> SUFFICES ASSUME TypeInv, AnswersExclusive, [Next]_vars
             PROVE  AnswersExclusive'
  OBVIOUS
<1>0. request \in [Requests -> Request] /\ AnswersExclusive
  BY DEF TypeInv, TypeOK
<1> USE DEF AnswersExclusive
<1>1. ASSUME NEW p \in Procs, NEW b \in Bookings, WebhookRecord(p, b)
      PROVE  AnswersExclusive'
  BY <1>0, <1>1
     DEF WebhookRecord, Start, tables
<1>2. ASSUME NEW p \in Procs, NEW b \in Bookings, NEW u \in Users,
            PayCheck(p, b, u)
      PROVE  AnswersExclusive'
  BY <1>0, <1>2
     DEF PayCheck, Start, tables
<1>3. ASSUME NEW p \in Procs, NEW b \in Bookings, NEW u \in Users,
            CancelCheck(p, b, u)
      PROVE  AnswersExclusive'
  BY <1>0, <1>3
     DEF CancelCheck, Start, tables
<1>4. ASSUME NEW p \in Procs, NEW b \in Bookings, NEW op \in Ops,
            StatusCheck(p, b, op)
      PROVE  AnswersExclusive'
  BY <1>0, <1>4
     DEF StatusCheck, Start, tables
<1>5. ASSUME NEW p \in Procs, NEW r \in Requests, NEW op \in Ops,
            AnswerCheck(p, r, op)
      PROVE  AnswersExclusive'
  BY <1>0, <1>5
     DEF AnswerCheck, Start, tables
<1>6. ASSUME NEW p \in Procs, CronSelect(p) PROVE AnswersExclusive'
  BY <1>0, <1>6
     DEF CronSelect, tables
<1>7. ASSUME NEW p \in Procs, PayAnnounce(p) PROVE AnswersExclusive'
  BY <1>0, <1>7
     DEF PayAnnounce, tables, Announce, NoRow
<1>8. ASSUME NEW p \in Procs, PayConflict(p) PROVE AnswersExclusive'
  BY <1>0, <1>8
     DEF PayConflict, tables
<1>9. ASSUME NEW p \in Procs, PayCommit(p) PROVE AnswersExclusive'
  BY <1>0, <1>9
     DEF PayCommit, tables
<1>10. ASSUME NEW p \in Procs, WebhookAnnounce(p) PROVE AnswersExclusive'
  BY <1>0, <1>10
     DEF WebhookAnnounce, tables, Announce, NoRow
<1>11. ASSUME NEW p \in Procs, CancelSettle(p) PROVE AnswersExclusive'
  BY <1>0, <1>11
     DEF CancelSettle, tables
<1>12. ASSUME NEW p \in Procs, CancelMark(p) PROVE AnswersExclusive'
  BY <1>0, <1>12
     DEF CancelMark, tables
<1>13. ASSUME NEW p \in Procs, AnswerFlag(p) PROVE AnswersExclusive'
  BY <1>0, <1>13
     DEF AnswerFlag, tables, Answered, At, Answers, Refusals, Request
<1>14. ASSUME NEW p \in Procs, AcceptConfirm(p) PROVE AnswersExclusive'
  BY <1>0, <1>14
     DEF AcceptConfirm, tables
<1>15. ASSUME NEW p \in Procs, RefuseCredit(p) PROVE AnswersExclusive'
  BY <1>0, <1>15
     DEF RefuseCredit, tables
<1>16. ASSUME NEW p \in Procs, RefuseMark(p) PROVE AnswersExclusive'
  BY <1>0, <1>16
     DEF RefuseMark, tables
<1>17. ASSUME NEW p \in Procs, CronCredit(p) PROVE AnswersExclusive'
  BY <1>0, <1>17
     DEF CronCredit, tables
<1>18. ASSUME NEW p \in Procs, CronMark(p) PROVE AnswersExclusive'
  BY <1>0, <1>18
     DEF CronMark, tables
<1>19. ASSUME NEW p \in Procs, CronProcessed(p) PROVE AnswersExclusive'
  BY <1>0, <1>19
     DEF CronProcessed, tables, Request
<1>20. ASSUME NEW p \in Procs, PickUp(p) PROVE AnswersExclusive'
  BY <1>0, <1>20
     DEF PickUp, LastUpdate, Row, tables
<1>21. ASSUME NEW p \in Procs, ConditionsNotMet(p) PROVE AnswersExclusive'
  BY <1>0, <1>21
     DEF ConditionsNotMet, LastUpdate, Row, tables
<1>22. ASSUME NEW p \in Procs, ProblemWithPackage(p) PROVE AnswersExclusive'
  BY <1>0, <1>22
     DEF ProblemWithPackage, LastUpdate, Row, tables
<1>23. ASSUME NEW p \in Procs, Complete(p) PROVE AnswersExclusive'
  BY <1>0, <1>23
     DEF Complete, LastUpdate, Row, tables
<1>24. ASSUME NEW p \in Procs, Reject(p) PROVE AnswersExclusive'
  BY <1>0, <1>24
     DEF Reject, LastUpdate, Row, tables
<1>25. ASSUME NEW p \in Procs, DropOffMark(p) PROVE AnswersExclusive'
  BY <1>0, <1>25
     DEF DropOffMark, tables
<1>26. ASSUME NEW p \in Procs, DropOffPay(p) PROVE AnswersExclusive'
  BY <1>0, <1>26
     DEF DropOffPay, tables
<1>27. ASSUME NEW p \in Procs, Fail(p) PROVE AnswersExclusive'
  BY <1>0, <1>27
     DEF Fail, tables
<1>28. ASSUME NEW b \in Bookings, ChargeCard(b) PROVE AnswersExclusive'
  BY <1>0, <1>28
     DEF ChargeCard, tables
<1>29. ASSUME NEW b \in Bookings, NEW s \in Status, AdminSetStatus(b, s)
      PROVE  AnswersExclusive'
  BY <1>0, <1>29
     DEF AdminSetStatus, tables
<1>30. ASSUME NEW r \in Requests, BecomeOverdue(r) PROVE AnswersExclusive'
  BY <1>0, <1>30
     DEF BecomeOverdue, tables, Request
<1>31. ASSUME NEW b \in Bookings, DepartureMoves(b) PROVE AnswersExclusive'
  BY <1>0, <1>31
     DEF DepartureMoves, tables
<1>32. CASE UNCHANGED vars
  BY <1>0, <1>32
     DEF vars
<1>33. QED
  BY <1>1, <1>2, <1>3, <1>4, <1>5, <1>6, <1>7, <1>8, <1>9, <1>10, <1>11,
     <1>12, <1>13, <1>14, <1>15, <1>16, <1>17, <1>18, <1>19, <1>20, <1>21,
     <1>22, <1>23, <1>24, <1>25, <1>26, <1>27, <1>28, <1>29, <1>30, <1>31,
     <1>32
     DEF Next, Arrive, Continue

-----------------------------------------------------------------------------
(* The ledger *)

(* The initial states are the ledger's. *)
LEMMA LedgerInit == Init => Ledger!Init
  BY DEF Init, Ledger!Init

(* Every step is one of the ledger's or leaves it alone. *)
LEMMA LedgerStep ==
    TypeInv /\ RefundInv /\ WalletInv /\ [Next]_vars
        => [Ledger!Next]_(Ledger!ledgerVars)
<1> SUFFICES ASSUME TypeInv, RefundInv, WalletInv, [Next]_vars
             PROVE  [Ledger!Next]_(Ledger!ledgerVars)
  OBVIOUS
<1>0. /\ booking \in [Bookings -> Booking]
      /\ job \in [Procs -> Job]
      /\ debits \in [Bookings -> Nat]
  BY DEF TypeInv, TypeOK
<1> DEFINE mark == [b \in Bookings |-> booking[b].payment_status]
           Stutter == UNCHANGED Ledger!ledgerVars
           Step(b) == \/ Ledger!PayFromWallet(b) \/ Ledger!PayByCard(b)
                      \/ Ledger!RecordCardPayment(b) \/ Ledger!GiveBack(b)
                      \/ Ledger!RecordRefund(b) \/ Ledger!PayOut(b)
           Kept == Stutter \/ \E b \in Bookings : Step(b)
<1>1. ASSUME NEW p \in Procs, NEW b \in Bookings, WebhookRecord(p, b)
      PROVE  Kept
  BY <1>0, <1>1
     DEF WebhookRecord, Start, ledger, tables, Ledger!RecordCardPayment,
         Booking
<1>2. ASSUME NEW p \in Procs, NEW b \in Bookings, NEW u \in Users,
            PayCheck(p, b, u)
      PROVE  Kept
  BY <1>0, <1>2
     DEF PayCheck, Start, ledger, tables, Ledger!ledgerVars
<1>3. ASSUME NEW p \in Procs, NEW b \in Bookings, NEW u \in Users,
            CancelCheck(p, b, u)
      PROVE  Kept
  BY <1>0, <1>3
     DEF CancelCheck, Start, ledger, tables, Ledger!ledgerVars
<1>4. ASSUME NEW p \in Procs, NEW b \in Bookings, NEW op \in Ops,
            StatusCheck(p, b, op)
      PROVE  Kept
  BY <1>0, <1>4
     DEF StatusCheck, Start, ledger, tables, Ledger!ledgerVars
<1>5. ASSUME NEW p \in Procs, NEW r \in Requests, NEW op \in Ops,
            AnswerCheck(p, r, op)
      PROVE  Kept
  BY <1>0, <1>5
     DEF AnswerCheck, Start, ledger, tables, Ledger!ledgerVars
<1>6. ASSUME NEW p \in Procs, CronSelect(p) PROVE Kept
  BY <1>0, <1>6
     DEF CronSelect, ledger, tables, Ledger!ledgerVars
<1>7. ASSUME NEW p \in Procs, PayAnnounce(p) PROVE Kept
  BY <1>0, <1>7
     DEF PayAnnounce, ledger, tables, Ledger!ledgerVars
<1>8. ASSUME NEW p \in Procs, PayConflict(p) PROVE Kept
  BY <1>0, <1>8
     DEF PayConflict, ledger, tables, Ledger!ledgerVars
<1>9. ASSUME NEW p \in Procs, PayCommit(p) PROVE Kept
  <2>1. PICK b \in Bookings : job[p].booking = b
    BY <1>9, JobBooking DEF PayCommit, At, InPayment
  <2>2. Ledger!PayFromWallet(b)
    <3>1. InPayment(p) /\ debits[b] = 0
      BY <1>9, <2>1 DEF PayCommit, WalletInv
    <3>2. debits' = [debits EXCEPT ![b] = 1]
      BY <1>0, <1>9, <2>1, <3>1 DEF PayCommit
    <3>3. booking' = [booking EXCEPT ![b].paid = TRUE,
                                     ![b].payment_status = "completed",
                                     ![b].status = "pick_up"]
      BY <1>9, <2>1 DEF PayCommit
    <3>4. mark' = [mark EXCEPT ![b] = "completed"]
      BY <1>0, <3>3 DEF Booking
    <3>5. QED
      BY <1>9, <3>1, <3>2, <3>4 DEF PayCommit, Ledger!PayFromWallet
  <2>3. QED
    BY <2>1, <2>2
<1>10. ASSUME NEW p \in Procs, WebhookAnnounce(p) PROVE Kept
  BY <1>0, <1>10
     DEF WebhookAnnounce, ledger, tables, Ledger!ledgerVars
<1>11. ASSUME NEW p \in Procs, CancelSettle(p) PROVE Kept
  <2>1. PICK b \in Bookings : job[p].booking = b
    BY <1>11, JobBooking DEF CancelSettle, At, BookingOps
  <2>2. Ledger!GiveBack(b)
    BY <1>0, <1>11, <2>1
       DEF CancelSettle, ledger, tables, Ledger!GiveBack
  <2>3. QED
    BY <2>1, <2>2
<1>12. ASSUME NEW p \in Procs, CancelMark(p) PROVE Kept
  <2>1. PICK b \in Bookings : job[p].booking = b
    BY <1>12, JobBooking DEF CancelMark, At
  <2>2. Ledger!RecordRefund(b)
    BY <1>0, <1>12, <2>1
       DEF CancelMark, ledger, tables, Ledger!RecordRefund, At, Booking,
           RefundInv
  <2>3. QED
    BY <2>1, <2>2
<1>13. ASSUME NEW p \in Procs, AnswerFlag(p) PROVE Kept
  BY <1>0, <1>13
     DEF AnswerFlag, ledger, tables, Ledger!ledgerVars
<1>14. ASSUME NEW p \in Procs, AcceptConfirm(p) PROVE Kept
  BY <1>0, <1>14
     DEF AcceptConfirm, ledger, tables, Ledger!ledgerVars, Booking, At,
         BookingOps, RequiredStatus
<1>15. ASSUME NEW p \in Procs, RefuseCredit(p) PROVE Kept
  <2>1. PICK b \in Bookings : job[p].booking = b
    BY <1>15, JobBooking DEF RefuseCredit, At
  <2>2. Ledger!GiveBack(b)
    BY <1>0, <1>15, <2>1
       DEF RefuseCredit, ledger, tables, Ledger!GiveBack
  <2>3. QED
    BY <2>1, <2>2
<1>16. ASSUME NEW p \in Procs, RefuseMark(p) PROVE Kept
  <2>1. PICK b \in Bookings : job[p].booking = b
    BY <1>16, JobBooking DEF RefuseMark, At
  <2>2. Ledger!RecordRefund(b)
    BY <1>0, <1>16, <2>1
       DEF RefuseMark, ledger, tables, Ledger!RecordRefund, At, Booking,
           RefundInv
  <2>3. QED
    BY <2>1, <2>2
<1>17. ASSUME NEW p \in Procs, CronCredit(p) PROVE Kept
  BY <1>0, <1>17
     DEF CronCredit, ledger, tables, Ledger!GiveBack, At, TypeInv,
         JobsRemember, Remembers, Job
<1>18. ASSUME NEW p \in Procs, CronMark(p) PROVE Kept
  <2>1. PICK b \in Bookings : job[p].booking = b
    BY <1>18, JobBooking DEF CronMark, At
  <2>2. Ledger!RecordRefund(b)
    BY <1>0, <1>18, <2>1
       DEF CronMark, ledger, tables, Ledger!RecordRefund, At, Booking,
           RefundInv
  <2>3. QED
    BY <2>1, <2>2
<1>19. ASSUME NEW p \in Procs, CronProcessed(p) PROVE Kept
  BY <1>0, <1>19
     DEF CronProcessed, ledger, tables, Ledger!ledgerVars
<1>20. ASSUME NEW p \in Procs, PickUp(p) PROVE Kept
  BY <1>0, <1>20
     DEF PickUp, LastUpdate, Row, ledger, tables, Ledger!ledgerVars, Booking,
         At, BookingOps, RequiredStatus
<1>21. ASSUME NEW p \in Procs, ConditionsNotMet(p) PROVE Kept
  BY <1>0, <1>21
     DEF ConditionsNotMet, LastUpdate, Row, ledger, tables,
         Ledger!ledgerVars, Booking, At, BookingOps, RequiredStatus
<1>22. ASSUME NEW p \in Procs, ProblemWithPackage(p) PROVE Kept
  BY <1>0, <1>22
     DEF ProblemWithPackage, LastUpdate, Row, ledger, tables,
         Ledger!ledgerVars, Booking, At, BookingOps, RequiredStatus
<1>23. ASSUME NEW p \in Procs, Complete(p) PROVE Kept
  BY <1>0, <1>23
     DEF Complete, LastUpdate, Row, ledger, tables, Ledger!ledgerVars,
         Booking, At, BookingOps, RequiredStatus
<1>24. ASSUME NEW p \in Procs, Reject(p) PROVE Kept
  BY <1>0, <1>24
     DEF Reject, LastUpdate, Row, ledger, tables, Ledger!ledgerVars, Booking,
         At, BookingOps, RequiredStatus
<1>25. ASSUME NEW p \in Procs, DropOffMark(p) PROVE Kept
  BY <1>0, <1>25
     DEF DropOffMark, ledger, tables, Ledger!ledgerVars, Booking, At,
         BookingOps, RequiredStatus
<1>26. ASSUME NEW p \in Procs, DropOffPay(p) PROVE Kept
  <2>1. PICK b \in Bookings : job[p].booking = b
    BY <1>26, JobBooking DEF DropOffPay, At, BookingOps, RequiredStatus
  <2>2. Ledger!PayOut(b)
    BY <1>0, <1>26, <2>1
       DEF DropOffPay, ledger, tables, Ledger!PayOut
  <2>3. QED
    BY <2>1, <2>2
<1>27. ASSUME NEW p \in Procs, Fail(p) PROVE Kept
  BY <1>0, <1>27
     DEF Fail, ledger, tables, Ledger!ledgerVars
<1>28. ASSUME NEW b \in Bookings, ChargeCard(b) PROVE Kept
  BY <1>0, <1>28
     DEF ChargeCard, ledger, tables, Ledger!PayByCard
<1>29. ASSUME NEW b \in Bookings, NEW s \in Status, AdminSetStatus(b, s)
      PROVE  Kept
  BY <1>0, <1>29
     DEF AdminSetStatus, ledger, tables, Ledger!ledgerVars, Booking, At,
         BookingOps, RequiredStatus
<1>30. ASSUME NEW r \in Requests, BecomeOverdue(r) PROVE Kept
  BY <1>0, <1>30
     DEF BecomeOverdue, ledger, tables, Ledger!ledgerVars
<1>31. ASSUME NEW b \in Bookings, DepartureMoves(b) PROVE Kept
  BY <1>0, <1>31
     DEF DepartureMoves, ledger, tables, Ledger!ledgerVars
<1>32. CASE UNCHANGED vars
  BY <1>0, <1>32
     DEF vars, Ledger!ledgerVars
<1>33. QED
  BY <1>1, <1>2, <1>3, <1>4, <1>5, <1>6, <1>7, <1>8, <1>9, <1>10, <1>11,
     <1>12, <1>13, <1>14, <1>15, <1>16, <1>17, <1>18, <1>19, <1>20, <1>21,
     <1>22, <1>23, <1>24, <1>25, <1>26, <1>27, <1>28, <1>29, <1>30, <1>31,
     <1>32
     DEF Next, Arrive, Continue, Ledger!Next


-----------------------------------------------------------------------------
(* The theorems *)

SafeInv == TypeInv /\ RefundInv /\ WalletInv /\ AnswersExclusive

(* The strengthened invariant holds at first ... *)
LEMMA SafeInit == Init => SafeInv
<1> SUFFICES ASSUME Init
             PROVE  SafeInv
  OBVIOUS
<1>1. RefundInv
  BY DEF Init, RefundInv, RefundBacked, Idle
<1>2. WalletInv
  BY DEF Init, WalletInv, WalletDebitOnce, InPayment, At, Idle
<1>3. AnswersExclusive
  BY DEF Init, AnswersExclusive, NoRow
<1>4. QED
  BY <1>1, <1>2, <1>3, TypeInit DEF SafeInv

(* ... and every step keeps it. *)
LEMMA SafeStep == SafeInv /\ [Next]_vars => SafeInv'
  BY TypeStep, RefundStep, WalletStep, AnswersStep DEF SafeInv

(* Hence it always holds. *)
LEMMA SafeAlways == Spec => []SafeInv
  BY SafeInit, SafeStep, PTL DEF Spec

(* A booking is marked refunded only after a credit for it was committed,  *)
(* whatever crashes between the wallet write and the booking write of      *)
(* cancelBooking, updateRequest and handleCron.                            *)
THEOREM RefundsAreBacked == Spec => []RefundBacked
<1>1. SafeInv => RefundBacked
  BY DEF SafeInv, RefundInv
<1>2. QED
  BY <1>1, SafeAlways, PTL

(* completeBookingWithWallet takes a booking's amount once, however many   *)
(* users and requests start it and whichever of them fail.                 *)
THEOREM WalletDebitsOnce == Spec => []WalletDebitOnce
<1>1. SafeInv => WalletDebitOnce
  BY DEF SafeInv, WalletInv
<1>2. QED
  BY <1>1, SafeAlways, PTL

(* And where completeBookingWithWallet was rolled back after it wrote the  *)
(* announcement request, never: the row it left behind outside its         *)
(* transaction makes every later payment from a wallet fail.               *)
THEOREM RolledBackForGood ==
    Spec => [][\A b \in Bookings : RolledBack(b) => RolledBack(b)']_vars
<1>1. TypeInv /\ [Next]_vars =>
        [\A b \in Bookings : RolledBack(b) => RolledBack(b)']_vars
  BY RolledBackStep
<1> QED
  BY <1>1, TypeAlways, PTL DEF Spec

(* updateRequest never leaves a request both accepted and refused, however *)
(* its answers interleave.                                                 *)
THEOREM AnswersAreExclusive == Spec => []AnswersExclusive
<1>1. SafeInv => AnswersExclusive
  BY DEF SafeInv
<1>2. QED
  BY <1>1, SafeAlways, PTL

(* The handlers implement the ledger: every step of theirs takes money     *)
(* once, records what was taken or given back, or leaves the ledger alone. *)
THEOREM LedgerImplemented == Spec => ImplementsLedger
<1>1. SafeInv /\ [Next]_vars => [Ledger!Next]_(Ledger!ledgerVars)
  BY LedgerStep DEF SafeInv
<1>2. Spec => Ledger!Init /\ [][Ledger!Next]_(Ledger!ledgerVars)
  BY <1>1, LedgerInit, SafeAlways, PTL DEF Spec
<1>3. QED
  BY <1>2 DEF ImplementsLedger, Ledger!Spec

-----------------------------------------------------------------------------
(* While no handler stops half-way and no administrator edits a status:    *)
(* every settlement is funded, and every delivery is paid.  And, with      *)
(* failures, that a parcel never travels without its code.                 *)

Quiet == failures = 0 /\ edits = 0

(* A step that ends in a quiet state began in one, and did not fail.       *)
LEMMA QuietBefore ==
    ASSUME TypeInv, [Next]_vars, Quiet'
    PROVE  /\ Quiet
           /\ \A p \in Procs : ~Fail(p)
           /\ \A b \in Bookings, s \in Status : ~AdminSetStatus(b, s)
<1>0. failures \in Nat /\ edits \in Nat /\ Quiet'
  BY DEF TypeInv, TypeOK
<1> DEFINE Before == /\ Quiet
                     /\ \A p \in Procs : ~Fail(p)
                     /\ \A b \in Bookings, s \in Status :
                            ~AdminSetStatus(b, s)
<1>1. failures <= failures' /\ edits <= edits'
<2>1. ASSUME NEW p \in Procs, NEW b \in Bookings, WebhookRecord(p, b)
      PROVE  failures <= failures' /\ edits <= edits'
  BY <1>0, <2>1
     DEF WebhookRecord, Start, bounds
<2>2. ASSUME NEW p \in Procs, NEW b \in Bookings, NEW u \in Users,
            PayCheck(p, b, u)
      PROVE  failures <= failures' /\ edits <= edits'
  BY <1>0, <2>2
     DEF PayCheck, Start, bounds
<2>3. ASSUME NEW p \in Procs, NEW b \in Bookings, NEW u \in Users,
            CancelCheck(p, b, u)
      PROVE  failures <= failures' /\ edits <= edits'
  BY <1>0, <2>3
     DEF CancelCheck, Start, bounds
<2>4. ASSUME NEW p \in Procs, NEW b \in Bookings, NEW op \in Ops,
            StatusCheck(p, b, op)
      PROVE  failures <= failures' /\ edits <= edits'
  BY <1>0, <2>4
     DEF StatusCheck, Start, bounds
<2>5. ASSUME NEW p \in Procs, NEW r \in Requests, NEW op \in Ops,
            AnswerCheck(p, r, op)
      PROVE  failures <= failures' /\ edits <= edits'
  BY <1>0, <2>5
     DEF AnswerCheck, Start, bounds
<2>6. ASSUME NEW p \in Procs, CronSelect(p)
      PROVE  failures <= failures' /\ edits <= edits'
  BY <1>0, <2>6
     DEF CronSelect, bounds
<2>7. ASSUME NEW p \in Procs, PayAnnounce(p)
      PROVE  failures <= failures' /\ edits <= edits'
  BY <1>0, <2>7
     DEF PayAnnounce, bounds
<2>8. ASSUME NEW p \in Procs, PayConflict(p)
      PROVE  failures <= failures' /\ edits <= edits'
  BY <1>0, <2>8
     DEF PayConflict, bounds
<2>9. ASSUME NEW p \in Procs, PayCommit(p)
      PROVE  failures <= failures' /\ edits <= edits'
  BY <1>0, <2>9
     DEF PayCommit, bounds
<2>10. ASSUME NEW p \in Procs, WebhookAnnounce(p)
      PROVE  failures <= failures' /\ edits <= edits'
  BY <1>0, <2>10
     DEF WebhookAnnounce, bounds
<2>11. ASSUME NEW p \in Procs, CancelSettle(p)
      PROVE  failures <= failures' /\ edits <= edits'
  BY <1>0, <2>11
     DEF CancelSettle, bounds
<2>12. ASSUME NEW p \in Procs, CancelMark(p)
      PROVE  failures <= failures' /\ edits <= edits'
  BY <1>0, <2>12
     DEF CancelMark, bounds
<2>13. ASSUME NEW p \in Procs, AnswerFlag(p)
      PROVE  failures <= failures' /\ edits <= edits'
  BY <1>0, <2>13
     DEF AnswerFlag, bounds
<2>14. ASSUME NEW p \in Procs, AcceptConfirm(p)
      PROVE  failures <= failures' /\ edits <= edits'
  BY <1>0, <2>14
     DEF AcceptConfirm, bounds
<2>15. ASSUME NEW p \in Procs, RefuseCredit(p)
      PROVE  failures <= failures' /\ edits <= edits'
  BY <1>0, <2>15
     DEF RefuseCredit, bounds
<2>16. ASSUME NEW p \in Procs, RefuseMark(p)
      PROVE  failures <= failures' /\ edits <= edits'
  BY <1>0, <2>16
     DEF RefuseMark, bounds
<2>17. ASSUME NEW p \in Procs, CronCredit(p)
      PROVE  failures <= failures' /\ edits <= edits'
  BY <1>0, <2>17
     DEF CronCredit, bounds
<2>18. ASSUME NEW p \in Procs, CronMark(p)
      PROVE  failures <= failures' /\ edits <= edits'
  BY <1>0, <2>18
     DEF CronMark, bounds
<2>19. ASSUME NEW p \in Procs, CronProcessed(p)
      PROVE  failures <= failures' /\ edits <= edits'
  BY <1>0, <2>19
     DEF CronProcessed, bounds
<2>20. ASSUME NEW p \in Procs, PickUp(p)
      PROVE  failures <= failures' /\ edits <= edits'
  BY <1>0, <2>20
     DEF PickUp, LastUpdate, Row, bounds
<2>21. ASSUME NEW p \in Procs, ConditionsNotMet(p)
      PROVE  failures <= failures' /\ edits <= edits'
  BY <1>0, <2>21
     DEF ConditionsNotMet, LastUpdate, Row, bounds
<2>22. ASSUME NEW p \in Procs, ProblemWithPackage(p)
      PROVE  failures <= failures' /\ edits <= edits'
  BY <1>0, <2>22
     DEF ProblemWithPackage, LastUpdate, Row, bounds
<2>23. ASSUME NEW p \in Procs, Complete(p)
      PROVE  failures <= failures' /\ edits <= edits'
  BY <1>0, <2>23
     DEF Complete, LastUpdate, Row, bounds
<2>24. ASSUME NEW p \in Procs, Reject(p)
      PROVE  failures <= failures' /\ edits <= edits'
  BY <1>0, <2>24
     DEF Reject, LastUpdate, Row, bounds
<2>25. ASSUME NEW p \in Procs, DropOffMark(p)
      PROVE  failures <= failures' /\ edits <= edits'
  BY <1>0, <2>25
     DEF DropOffMark, bounds
<2>26. ASSUME NEW p \in Procs, DropOffPay(p)
      PROVE  failures <= failures' /\ edits <= edits'
  BY <1>0, <2>26
     DEF DropOffPay, bounds
<2>27. ASSUME NEW p \in Procs, Fail(p)
      PROVE  failures <= failures' /\ edits <= edits'
  BY <1>0, <2>27
     DEF Fail, bounds
<2>28. ASSUME NEW b \in Bookings, ChargeCard(b)
      PROVE  failures <= failures' /\ edits <= edits'
  BY <1>0, <2>28
     DEF ChargeCard, bounds
<2>29. ASSUME NEW b \in Bookings, NEW s \in Status, AdminSetStatus(b, s)
      PROVE  failures <= failures' /\ edits <= edits'
  BY <1>0, <2>29
     DEF AdminSetStatus, bounds
<2>30. ASSUME NEW r \in Requests, BecomeOverdue(r)
      PROVE  failures <= failures' /\ edits <= edits'
  BY <1>0, <2>30
     DEF BecomeOverdue, bounds
<2>31. ASSUME NEW b \in Bookings, DepartureMoves(b)
      PROVE  failures <= failures' /\ edits <= edits'
  BY <1>0, <2>31
     DEF DepartureMoves, bounds
<2>32. CASE UNCHANGED vars
  BY <1>0, <2>32
     DEF vars
<2>33. QED
  BY <2>1, <2>2, <2>3, <2>4, <2>5, <2>6, <2>7, <2>8, <2>9, <2>10, <2>11,
     <2>12, <2>13, <2>14, <2>15, <2>16, <2>17, <2>18, <2>19, <2>20, <2>21,
     <2>22, <2>23, <2>24, <2>25, <2>26, <2>27, <2>28, <2>29, <2>30, <2>31,
     <2>32
     DEF Next, Arrive, Continue
<1>2. \A p \in Procs : ~Fail(p)
  BY <1>0 DEF Fail, Quiet
<1>3. \A b \in Bookings, s \in Status : ~AdminSetStatus(b, s)
  BY <1>0 DEF AdminSetStatus, Quiet
<1>4. QED
  BY <1>0, <1>1, <1>2, <1>3 DEF Quiet

-----------------------------------------------------------------------------
(* The delivery code: a handler that has seen a booking on its way knows   *)
(* that it has one.                                                        *)

AfterHandover == {"problem", "dropOff", "complete", "reject"}

CodeInv ==
    /\ CodeBeforeHandover
    /\ edits = 0 =>
        \A p \in Procs : job[p].op \in AfterHandover =>
                            booking[job[p].booking].otp

(* Every step keeps the codes issued. *)
LEMMA CodeStep == TypeInv /\ CodeInv /\ [Next]_vars => CodeInv'
<1> SUFFICES ASSUME TypeInv, CodeInv, [Next]_vars
             PROVE  CodeInv'
  OBVIOUS
<1>0. /\ booking \in [Bookings -> Booking]
      /\ job \in [Procs -> Job]
      /\ edits \in Nat
      /\ \A p \in Procs : job[p].op \in AfterHandover =>
                            job[p].booking \in Bookings
  BY JobBooking
     DEF TypeInv, TypeOK, AfterHandover, BookingOps, RequiredStatus
<1> USE DEF CodeInv, CodeBeforeHandover, HandedOver, AfterHandover
<1>1. ASSUME NEW p \in Procs, NEW b \in Bookings, WebhookRecord(p, b)
      PROVE  CodeInv'
  BY <1>0, <1>1
     DEF WebhookRecord, Start, At, MoveTo, Return, Idle, Job, tables, bounds,
         Booking
<1>2. ASSUME NEW p \in Procs, NEW b \in Bookings, NEW u \in Users,
            PayCheck(p, b, u)
      PROVE  CodeInv'
  BY <1>0, <1>2
     DEF PayCheck, Start, At, MoveTo, Return, Idle, Job, tables, bounds
<1>3. ASSUME NEW p \in Procs, NEW b \in Bookings, NEW u \in Users,
            CancelCheck(p, b, u)
      PROVE  CodeInv'
  BY <1>0, <1>3
     DEF CancelCheck, Start, At, MoveTo, Return, Idle, Job, tables, bounds
<1>4. ASSUME NEW p \in Procs, NEW b \in Bookings, NEW op \in Ops,
            StatusCheck(p, b, op)
      PROVE  CodeInv'
  BY <1>0, <1>4
     DEF StatusCheck, Start, At, MoveTo, Return, Idle, Job, tables, bounds,
         RequiredStatus
<1>5. ASSUME NEW p \in Procs, NEW r \in Requests, NEW op \in Ops,
            AnswerCheck(p, r, op)
      PROVE  CodeInv'
  BY <1>0, <1>5
     DEF AnswerCheck, Start, At, MoveTo, Return, Idle, Job, tables, bounds,
         Answers, Refusals
<1>6. ASSUME NEW p \in Procs, CronSelect(p) PROVE CodeInv'
  BY <1>0, <1>6
     DEF CronSelect, At, MoveTo, Return, Idle, Job, tables, bounds, Sweeping
<1>7. ASSUME NEW p \in Procs, PayAnnounce(p) PROVE CodeInv'
  BY <1>0, <1>7
     DEF PayAnnounce, At, MoveTo, Return, Idle, Job, tables, bounds
<1>8. ASSUME NEW p \in Procs, PayConflict(p) PROVE CodeInv'
  BY <1>0, <1>8
     DEF PayConflict, At, MoveTo, Return, Idle, Job, tables, bounds
<1>9. ASSUME NEW p \in Procs, PayCommit(p) PROVE CodeInv'
  <2>1. /\ \A b \in Bookings :
             /\ booking'[b].otp = booking[b].otp
             /\ booking'[b].status \in {booking[b].status, "pick_up"}
        /\ edits' = edits
    BY <1>0, <1>9 DEF PayCommit, bounds, Booking
  <2>2. \A q \in Procs : job'[q] = job[q] \/ job'[q].op = "none"
    BY <1>0, <1>9 DEF PayCommit, Return, Idle, Job
  <2> QED
    BY <1>0, <2>1, <2>2
<1>10. ASSUME NEW p \in Procs, WebhookAnnounce(p) PROVE CodeInv'
  BY <1>0, <1>10
     DEF WebhookAnnounce, At, MoveTo, Return, Idle, Job, tables, bounds
<1>11. ASSUME NEW p \in Procs, CancelSettle(p) PROVE CodeInv'
  BY <1>0, <1>11
     DEF CancelSettle, At, MoveTo, Return, Idle, Job, tables, bounds
<1>12. ASSUME NEW p \in Procs, CancelMark(p) PROVE CodeInv'
  BY <1>0, <1>12
     DEF CancelMark, At, MoveTo, Return, Idle, Job, tables, bounds, Booking
<1>13. ASSUME NEW p \in Procs, AnswerFlag(p) PROVE CodeInv'
  BY <1>0, <1>13
     DEF AnswerFlag, At, MoveTo, Return, Idle, Job, tables, bounds
<1>14. ASSUME NEW p \in Procs, AcceptConfirm(p) PROVE CodeInv'
  BY <1>0, <1>14
     DEF AcceptConfirm, At, MoveTo, Return, Idle, Job, tables, bounds,
         Booking
<1>15. ASSUME NEW p \in Procs, RefuseCredit(p) PROVE CodeInv'
  BY <1>0, <1>15
     DEF RefuseCredit, At, MoveTo, Return, Idle, Job, tables, bounds
<1>16. ASSUME NEW p \in Procs, RefuseMark(p) PROVE CodeInv'
  BY <1>0, <1>16
     DEF RefuseMark, At, MoveTo, Return, Idle, Job, tables, bounds, Booking
<1>17. ASSUME NEW p \in Procs, CronCredit(p) PROVE CodeInv'
  BY <1>0, <1>17
     DEF CronCredit, At, MoveTo, Return, Idle, Job, tables, bounds
<1>18. ASSUME NEW p \in Procs, CronMark(p) PROVE CodeInv'
  BY <1>0, <1>18
     DEF CronMark, At, MoveTo, Return, Idle, Job, tables, bounds, Booking
<1>19. ASSUME NEW p \in Procs, CronProcessed(p) PROVE CodeInv'
  BY <1>0, <1>19
     DEF CronProcessed, At, MoveTo, Return, Idle, Job, tables, bounds,
         Sweeping
<1>20. ASSUME NEW p \in Procs, PickUp(p) PROVE CodeInv'
  BY <1>0, <1>20
     DEF PickUp, LastUpdate, Row, At, MoveTo, Return, Idle, Job, tables,
         bounds, Booking
<1>21. ASSUME NEW p \in Procs, ConditionsNotMet(p) PROVE CodeInv'
  BY <1>0, <1>21
     DEF ConditionsNotMet, LastUpdate, Row, At, MoveTo, Return, Idle, Job,
         tables, bounds, Booking
<1>22. ASSUME NEW p \in Procs, ProblemWithPackage(p) PROVE CodeInv'
  BY <1>0, <1>22
     DEF ProblemWithPackage, LastUpdate, Row, At, MoveTo, Return, Idle, Job,
         tables, bounds, Booking
<1>23. ASSUME NEW p \in Procs, Complete(p) PROVE CodeInv'
  BY <1>0, <1>23
     DEF Complete, LastUpdate, Row, At, MoveTo, Return, Idle, Job, tables,
         bounds, Booking
<1>24. ASSUME NEW p \in Procs, Reject(p) PROVE CodeInv'
  BY <1>0, <1>24
     DEF Reject, LastUpdate, Row, At, MoveTo, Return, Idle, Job, tables,
         bounds, Booking
<1>25. ASSUME NEW p \in Procs, DropOffMark(p) PROVE CodeInv'
  BY <1>0, <1>25
     DEF DropOffMark, At, MoveTo, Return, Idle, Job, tables, bounds, Booking
<1>26. ASSUME NEW p \in Procs, DropOffPay(p) PROVE CodeInv'
  BY <1>0, <1>26
     DEF DropOffPay, At, MoveTo, Return, Idle, Job, tables, bounds
<1>27. ASSUME NEW p \in Procs, Fail(p) PROVE CodeInv'
  BY <1>0, <1>27
     DEF Fail, At, MoveTo, Return, Idle, Job, tables, bounds
<1>28. ASSUME NEW b \in Bookings, ChargeCard(b) PROVE CodeInv'
  BY <1>0, <1>28
     DEF ChargeCard, At, MoveTo, Return, Idle, Job, tables, bounds
<1>29. ASSUME NEW b \in Bookings, NEW s \in Status, AdminSetStatus(b, s)
      PROVE  CodeInv'
  BY <1>0, <1>29
     DEF AdminSetStatus, At, MoveTo, Return, Idle, Job, tables, bounds,
         Booking
<1>30. ASSUME NEW r \in Requests, BecomeOverdue(r) PROVE CodeInv'
  BY <1>0, <1>30
     DEF BecomeOverdue, At, MoveTo, Return, Idle, Job, tables, bounds
<1>31. ASSUME NEW b \in Bookings, DepartureMoves(b) PROVE CodeInv'
  BY <1>0, <1>31
     DEF DepartureMoves, At, MoveTo, Return, Idle, Job, tables, bounds
<1>32. CASE UNCHANGED vars
  BY <1>0, <1>32
     DEF vars
<1>33. QED
  BY <1>1, <1>2, <1>3, <1>4, <1>5, <1>6, <1>7, <1>8, <1>9, <1>10, <1>11,
     <1>12, <1>13, <1>14, <1>15, <1>16, <1>17, <1>18, <1>19, <1>20, <1>21,
     <1>22, <1>23, <1>24, <1>25, <1>26, <1>27, <1>28, <1>29, <1>30, <1>31,
     <1>32
     DEF Next, Arrive, Continue

-----------------------------------------------------------------------------
(* Funding: an announced booking is paid, or its payment is about to       *)
(* commit and holds its row.                                               *)

Funded(b) == debits[b] + charges[b] > 0

(* Handlers that have found the booking paid, or past "pending". *)
PaidOps == {"cancel"} \cup DOMAIN RequiredStatus

FundedInv ==
    Quiet =>
        /\ \A b \in Bookings :
            /\ IsLinked(b) => Funded(b) \/ BookingLocked(b)
            /\ booking[b].paid \/ booking[b].status # "pending" => Funded(b)
            /\ refunds[b] > 0 => Funded(b) \/ BookingLocked(b)
            /\ payouts[b] > 0 => Funded(b)
        /\ \A p \in Procs : job[p].op \in PaidOps => Funded(job[p].booking)

(* Money once taken stays taken. *)
LEMMA FundsStay ==
    ASSUME TypeInv, [Next]_vars
    PROVE  \A b \in Bookings : Funded(b) => Funded(b)'
<1>0. /\ debits \in [Bookings -> Nat]
      /\ charges \in [Bookings -> Nat]
      /\ \A p \in Procs : InPayment(p) => job[p].booking \in Bookings
  BY JobBooking DEF TypeInv, TypeOK, InPayment, At
<1> DEFINE Stay == \A b \in Bookings : Funded(b) => Funded(b)'
<1> USE DEF Funded
<1>1. ASSUME NEW p \in Procs, NEW b \in Bookings, WebhookRecord(p, b)
      PROVE  Stay
  BY <1>0, <1>1
     DEF WebhookRecord, Start, ledger
<1>2. ASSUME NEW p \in Procs, NEW b \in Bookings, NEW u \in Users,
            PayCheck(p, b, u)
      PROVE  Stay
  BY <1>0, <1>2
     DEF PayCheck, Start, ledger
<1>3. ASSUME NEW p \in Procs, NEW b \in Bookings, NEW u \in Users,
            CancelCheck(p, b, u)
      PROVE  Stay
  BY <1>0, <1>3
     DEF CancelCheck, Start, ledger
<1>4. ASSUME NEW p \in Procs, NEW b \in Bookings, NEW op \in Ops,
            StatusCheck(p, b, op)
      PROVE  Stay
  BY <1>0, <1>4
     DEF StatusCheck, Start, ledger
<1>5. ASSUME NEW p \in Procs, NEW r \in Requests, NEW op \in Ops,
            AnswerCheck(p, r, op)
      PROVE  Stay
  BY <1>0, <1>5
     DEF AnswerCheck, Start, ledger
<1>6. ASSUME NEW p \in Procs, CronSelect(p) PROVE Stay
  BY <1>0, <1>6
     DEF CronSelect, ledger
<1>7. ASSUME NEW p \in Procs, PayAnnounce(p) PROVE Stay
  BY <1>0, <1>7
     DEF PayAnnounce, ledger
<1>8. ASSUME NEW p \in Procs, PayConflict(p) PROVE Stay
  BY <1>0, <1>8
     DEF PayConflict, ledger
<1>9. ASSUME NEW p \in Procs, PayCommit(p) PROVE Stay
  BY <1>0, <1>9
     DEF PayCommit, ledger
<1>10. ASSUME NEW p \in Procs, WebhookAnnounce(p) PROVE Stay
  BY <1>0, <1>10
     DEF WebhookAnnounce, ledger
<1>11. ASSUME NEW p \in Procs, CancelSettle(p) PROVE Stay
  BY <1>0, <1>11
     DEF CancelSettle, ledger
<1>12. ASSUME NEW p \in Procs, CancelMark(p) PROVE Stay
  BY <1>0, <1>12
     DEF CancelMark, ledger
<1>13. ASSUME NEW p \in Procs, AnswerFlag(p) PROVE Stay
  BY <1>0, <1>13
     DEF AnswerFlag, ledger
<1>14. ASSUME NEW p \in Procs, AcceptConfirm(p) PROVE Stay
  BY <1>0, <1>14
     DEF AcceptConfirm, ledger
<1>15. ASSUME NEW p \in Procs, RefuseCredit(p) PROVE Stay
  BY <1>0, <1>15
     DEF RefuseCredit, ledger
<1>16. ASSUME NEW p \in Procs, RefuseMark(p) PROVE Stay
  BY <1>0, <1>16
     DEF RefuseMark, ledger
<1>17. ASSUME NEW p \in Procs, CronCredit(p) PROVE Stay
  BY <1>0, <1>17
     DEF CronCredit, ledger
<1>18. ASSUME NEW p \in Procs, CronMark(p) PROVE Stay
  BY <1>0, <1>18
     DEF CronMark, ledger
<1>19. ASSUME NEW p \in Procs, CronProcessed(p) PROVE Stay
  BY <1>0, <1>19
     DEF CronProcessed, ledger
<1>20. ASSUME NEW p \in Procs, PickUp(p) PROVE Stay
  BY <1>0, <1>20
     DEF PickUp, LastUpdate, Row, ledger
<1>21. ASSUME NEW p \in Procs, ConditionsNotMet(p) PROVE Stay
  BY <1>0, <1>21
     DEF ConditionsNotMet, LastUpdate, Row, ledger
<1>22. ASSUME NEW p \in Procs, ProblemWithPackage(p) PROVE Stay
  BY <1>0, <1>22
     DEF ProblemWithPackage, LastUpdate, Row, ledger
<1>23. ASSUME NEW p \in Procs, Complete(p) PROVE Stay
  BY <1>0, <1>23
     DEF Complete, LastUpdate, Row, ledger
<1>24. ASSUME NEW p \in Procs, Reject(p) PROVE Stay
  BY <1>0, <1>24
     DEF Reject, LastUpdate, Row, ledger
<1>25. ASSUME NEW p \in Procs, DropOffMark(p) PROVE Stay
  BY <1>0, <1>25
     DEF DropOffMark, ledger
<1>26. ASSUME NEW p \in Procs, DropOffPay(p) PROVE Stay
  BY <1>0, <1>26
     DEF DropOffPay, ledger
<1>27. ASSUME NEW p \in Procs, Fail(p) PROVE Stay
  BY <1>0, <1>27
     DEF Fail, ledger
<1>28. ASSUME NEW b \in Bookings, ChargeCard(b) PROVE Stay
  BY <1>0, <1>28
     DEF ChargeCard, ledger
<1>29. ASSUME NEW b \in Bookings, NEW s \in Status, AdminSetStatus(b, s)
      PROVE  Stay
  BY <1>0, <1>29
     DEF AdminSetStatus, ledger
<1>30. ASSUME NEW r \in Requests, BecomeOverdue(r) PROVE Stay
  BY <1>0, <1>30
     DEF BecomeOverdue, ledger
<1>31. ASSUME NEW b \in Bookings, DepartureMoves(b) PROVE Stay
  BY <1>0, <1>31
     DEF DepartureMoves, ledger
<1>32. CASE UNCHANGED vars
  BY <1>0, <1>32
     DEF vars
<1>33. QED
  BY <1>1, <1>2, <1>3, <1>4, <1>5, <1>6, <1>7, <1>8, <1>9, <1>10, <1>11,
     <1>12, <1>13, <1>14, <1>15, <1>16, <1>17, <1>18, <1>19, <1>20, <1>21,
     <1>22, <1>23, <1>24, <1>25, <1>26, <1>27, <1>28, <1>29, <1>30, <1>31,
     <1>32
     DEF Next, Arrive, Continue

(* Without a failure, a lock is held until its booking is funded. *)
LEMMA LockHeld ==
    ASSUME TypeInv, [Next]_vars, \A p \in Procs : ~Fail(p)
    PROVE  \A b \in Bookings : BookingLocked(b) =>
                                BookingLocked(b)' \/ Funded(b)'
<1> SUFFICES ASSUME NEW b \in Bookings, NEW q \in Procs,
                    InPayment(q), job[q].booking = b
             PROVE  \/ InPayment(q)' /\ job'[q].booking = b
                    \/ Funded(b)'
  BY DEF BookingLocked
<1>1. /\ job \in [Procs -> Job]
      /\ debits \in [Bookings -> Nat]
      /\ charges \in [Bookings -> Nat]
      /\ job[q].op = "payFromWallet"
      /\ job[q].at = "announced"
  BY DEF TypeInv, TypeOK, InPayment, At
<1>2. ASSUME NEW p \in Procs, PayAnnounce(p)
      PROVE  InPayment(q)' /\ job'[q].booking = b
  BY <1>1, <1>2 DEF PayAnnounce, MoveTo, At, InPayment, Job
<1>3. ASSUME NEW p \in Procs, PayCommit(p)
      PROVE  \/ InPayment(q)' /\ job'[q].booking = b
             \/ Funded(b)'
  <2>1. CASE p = q
    BY <1>1, <1>3, <2>1 DEF PayCommit, Funded
  <2>2. CASE p # q
    BY <1>1, <1>3, <2>2 DEF PayCommit, Return, InPayment, At
  <2>3. QED
    BY <2>1, <2>2
<1>4. CASE \A p \in Procs : ~PaymentStep(p)
  BY <1>4, PaymentsStay DEF PaymentsKept
<1>5. QED
  BY <1>2, <1>3, <1>4 DEF PaymentStep

(* A booking gets its link from its own payment, which then holds it. *)
LEMMA LinkIsLocked ==
    ASSUME TypeInv, [Next]_vars
    PROVE  \A b \in Bookings : IsLinked(b)' => IsLinked(b) \/ BookingLocked(b)'
<1>0. /\ request \in [Requests -> Request]
      /\ job \in [Procs -> Job]
      /\ JobsRemember
      /\ BookingAssumption
  BY BookingAssumption DEF TypeInv, TypeOK
<1> DEFINE Fresh == \A b \in Bookings :
                        IsLinked(b)' => IsLinked(b) \/ BookingLocked(b)'
<1> USE DEF IsLinked
<1>1. ASSUME NEW p \in Procs, NEW b \in Bookings, WebhookRecord(p, b)
      PROVE  Fresh
  BY <1>0, <1>1
     DEF WebhookRecord, Start, tables
<1>2. ASSUME NEW p \in Procs, NEW b \in Bookings, NEW u \in Users,
            PayCheck(p, b, u)
      PROVE  Fresh
  BY <1>0, <1>2
     DEF PayCheck, Start, tables
<1>3. ASSUME NEW p \in Procs, NEW b \in Bookings, NEW u \in Users,
            CancelCheck(p, b, u)
      PROVE  Fresh
  BY <1>0, <1>3
     DEF CancelCheck, Start, tables
<1>4. ASSUME NEW p \in Procs, NEW b \in Bookings, NEW op \in Ops,
            StatusCheck(p, b, op)
      PROVE  Fresh
  BY <1>0, <1>4
     DEF StatusCheck, Start, tables
<1>5. ASSUME NEW p \in Procs, NEW r \in Requests, NEW op \in Ops,
            AnswerCheck(p, r, op)
      PROVE  Fresh
  BY <1>0, <1>5
     DEF AnswerCheck, Start, tables
<1>6. ASSUME NEW p \in Procs, CronSelect(p) PROVE Fresh
  BY <1>0, <1>6
     DEF CronSelect, tables
<1>7. ASSUME NEW p \in Procs, PayAnnounce(p) PROVE Fresh
  BY <1>0, <1>7
     DEF PayAnnounce, tables, Announce, NoRow, BookingAssumption,
         BookingLocked, InPayment, At, MoveTo, Job, JobsRemember, Remembers,
         BookingOps
<1>8. ASSUME NEW p \in Procs, PayConflict(p) PROVE Fresh
  BY <1>0, <1>8
     DEF PayConflict, tables
<1>9. ASSUME NEW p \in Procs, PayCommit(p) PROVE Fresh
  BY <1>0, <1>9
     DEF PayCommit, tables
<1>10. ASSUME NEW p \in Procs, WebhookAnnounce(p) PROVE Fresh
  BY <1>0, <1>10
     DEF WebhookAnnounce, tables, Announce, NoRow, BookingAssumption
<1>11. ASSUME NEW p \in Procs, CancelSettle(p) PROVE Fresh
  BY <1>0, <1>11
     DEF CancelSettle, tables
<1>12. ASSUME NEW p \in Procs, CancelMark(p) PROVE Fresh
  BY <1>0, <1>12
     DEF CancelMark, tables
<1>13. ASSUME NEW p \in Procs, AnswerFlag(p) PROVE Fresh
  BY <1>0, <1>13
     DEF AnswerFlag, tables, Answered, Request
<1>14. ASSUME NEW p \in Procs, AcceptConfirm(p) PROVE Fresh
  BY <1>0, <1>14
     DEF AcceptConfirm, tables
<1>15. ASSUME NEW p \in Procs, RefuseCredit(p) PROVE Fresh
  BY <1>0, <1>15
     DEF RefuseCredit, tables
<1>16. ASSUME NEW p \in Procs, RefuseMark(p) PROVE Fresh
  BY <1>0, <1>16
     DEF RefuseMark, tables
<1>17. ASSUME NEW p \in Procs, CronCredit(p) PROVE Fresh
  BY <1>0, <1>17
     DEF CronCredit, tables
<1>18. ASSUME NEW p \in Procs, CronMark(p) PROVE Fresh
  BY <1>0, <1>18
     DEF CronMark, tables
<1>19. ASSUME NEW p \in Procs, CronProcessed(p) PROVE Fresh
  BY <1>0, <1>19
     DEF CronProcessed, tables, Request
<1>20. ASSUME NEW p \in Procs, PickUp(p) PROVE Fresh
  BY <1>0, <1>20
     DEF PickUp, LastUpdate, Row, tables
<1>21. ASSUME NEW p \in Procs, ConditionsNotMet(p) PROVE Fresh
  BY <1>0, <1>21
     DEF ConditionsNotMet, LastUpdate, Row, tables
<1>22. ASSUME NEW p \in Procs, ProblemWithPackage(p) PROVE Fresh
  BY <1>0, <1>22
     DEF ProblemWithPackage, LastUpdate, Row, tables
<1>23. ASSUME NEW p \in Procs, Complete(p) PROVE Fresh
  BY <1>0, <1>23
     DEF Complete, LastUpdate, Row, tables
<1>24. ASSUME NEW p \in Procs, Reject(p) PROVE Fresh
  BY <1>0, <1>24
     DEF Reject, LastUpdate, Row, tables
<1>25. ASSUME NEW p \in Procs, DropOffMark(p) PROVE Fresh
  BY <1>0, <1>25
     DEF DropOffMark, tables
<1>26. ASSUME NEW p \in Procs, DropOffPay(p) PROVE Fresh
  BY <1>0, <1>26
     DEF DropOffPay, tables
<1>27. ASSUME NEW p \in Procs, Fail(p) PROVE Fresh
  BY <1>0, <1>27
     DEF Fail, tables
<1>28. ASSUME NEW b \in Bookings, ChargeCard(b) PROVE Fresh
  BY <1>0, <1>28
     DEF ChargeCard, tables
<1>29. ASSUME NEW b \in Bookings, NEW s \in Status, AdminSetStatus(b, s)
      PROVE  Fresh
  BY <1>0, <1>29
     DEF AdminSetStatus, tables
<1>30. ASSUME NEW r \in Requests, BecomeOverdue(r) PROVE Fresh
  BY <1>0, <1>30
     DEF BecomeOverdue, tables, Request
<1>31. ASSUME NEW b \in Bookings, DepartureMoves(b) PROVE Fresh
  BY <1>0, <1>31
     DEF DepartureMoves, tables
<1>32. CASE UNCHANGED vars
  BY <1>0, <1>32
     DEF vars
<1>33. QED
  BY <1>1, <1>2, <1>3, <1>4, <1>5, <1>6, <1>7, <1>8, <1>9, <1>10, <1>11,
     <1>12, <1>13, <1>14, <1>15, <1>16, <1>17, <1>18, <1>19, <1>20, <1>21,
     <1>22, <1>23, <1>24, <1>25, <1>26, <1>27, <1>28, <1>29, <1>30, <1>31,
     <1>32
     DEF Next, Arrive, Continue

(* What a quiet step writes, it writes of a funded booking. *)
FundedWrites ==
    /\ \A b \in Bookings :
        /\ booking'[b].paid \/ booking'[b].status # "pending" => Funded(b)'
        /\ refunds'[b] > 0 => refunds[b] > 0 \/ Funded(b)' \/ BookingLocked(b)
        /\ payouts'[b] > 0 => Funded(b)'
    /\ \A p \in Procs : job'[p].op \in PaidOps =>
            \E b \in Bookings : job'[p].booking = b /\ Funded(b)'

(* A quiet step keeps what it writes funded. *)
LEMMA WritesFunded ==
    ASSUME TypeInv, FundedInv, [Next]_vars, Quiet'
    PROVE  FundedWrites
<1>0. /\ booking \in [Bookings -> Booking]
      /\ job \in [Procs -> Job]
      /\ debits \in [Bookings -> Nat]
      /\ charges \in [Bookings -> Nat]
      /\ refunds \in [Bookings -> Nat]
      /\ payouts \in [Bookings -> Nat]
  BY DEF TypeInv, TypeOK
<1>a. /\ \A b \in Bookings : Funded(b) => Funded(b)'
      /\ \A p \in Procs : ~Fail(p)
      /\ \A b \in Bookings, s \in Status : ~AdminSetStatus(b, s)
  BY FundsStay, QuietBefore
<1>b. /\ \A b \in Bookings :
            /\ IsLinked(b) => Funded(b) \/ BookingLocked(b)
            /\ booking[b].paid \/ booking[b].status # "pending" => Funded(b)
            /\ refunds[b] > 0 => Funded(b) \/ BookingLocked(b)
            /\ payouts[b] > 0 => Funded(b)
      /\ \A p \in Procs : job[p].op \in PaidOps => Funded(job[p].booking)
  BY QuietBefore DEF FundedInv
<1>c. \A p \in Procs : job[p].op \in PaidOps => job[p].booking \in Bookings
  BY JobBooking DEF PaidOps, BookingOps
<1>d. \A p \in Procs :
        /\ \/ job[p].op \in Answers
           \/ job[p].op = "expire" /\ job[p].at # "next"
        /\ job[p].booking \in Bookings
        => IsLinked(job[p].booking)
  BY DEF TypeInv, JobsRemember, Remembers, IsLinked
<1> USE DEF FundedWrites, PaidOps
<1>1. ASSUME NEW p \in Procs, NEW b \in Bookings, WebhookRecord(p, b)
      PROVE  FundedWrites
  BY <1>0, <1>a, <1>b, <1>c, <1>d, <1>1
     DEF WebhookRecord, Start, At, MoveTo, Return, Idle, Job, tables, ledger,
         RequiredStatus, Booking, Funded
<1>2. ASSUME NEW p \in Procs, NEW b \in Bookings, NEW u \in Users,
            PayCheck(p, b, u)
      PROVE  FundedWrites
  BY <1>0, <1>a, <1>b, <1>c, <1>d, <1>2
     DEF PayCheck, Start, At, MoveTo, Return, Idle, Job, tables, ledger,
         RequiredStatus
<1>3. ASSUME NEW p \in Procs, NEW b \in Bookings, NEW u \in Users,
            CancelCheck(p, b, u)
      PROVE  FundedWrites
  BY <1>0, <1>a, <1>b, <1>c, <1>d, <1>3
     DEF CancelCheck, Start, At, MoveTo, Return, Idle, Job, tables, ledger,
         RequiredStatus
<1>4. ASSUME NEW p \in Procs, NEW b \in Bookings, NEW op \in Ops,
            StatusCheck(p, b, op)
      PROVE  FundedWrites
  BY <1>0, <1>a, <1>b, <1>c, <1>d, <1>4
     DEF StatusCheck, Start, At, MoveTo, Return, Idle, Job, tables, ledger,
         RequiredStatus
<1>5. ASSUME NEW p \in Procs, NEW r \in Requests, NEW op \in Ops,
            AnswerCheck(p, r, op)
      PROVE  FundedWrites
  BY <1>0, <1>a, <1>b, <1>c, <1>d, <1>5
     DEF AnswerCheck, Start, At, MoveTo, Return, Idle, Job, tables, ledger,
         Answers, Refusals, RequiredStatus
<1>6. ASSUME NEW p \in Procs, CronSelect(p) PROVE FundedWrites
  BY <1>0, <1>a, <1>b, <1>c, <1>d, <1>6
     DEF CronSelect, At, MoveTo, Return, Idle, Job, tables, ledger, Sweeping,
         RequiredStatus
<1>7. ASSUME NEW p \in Procs, PayAnnounce(p) PROVE FundedWrites
  BY <1>0, <1>a, <1>b, <1>c, <1>d, <1>7
     DEF PayAnnounce, At, MoveTo, Return, Idle, Job, tables, ledger
<1>8. ASSUME NEW p \in Procs, PayConflict(p) PROVE FundedWrites
  BY <1>0, <1>a, <1>b, <1>c, <1>d, <1>8
     DEF PayConflict, At, MoveTo, Return, Idle, Job, tables, ledger,
         RequiredStatus
<1>9. ASSUME NEW p \in Procs, PayCommit(p) PROVE FundedWrites
  BY <1>0, <1>a, <1>b, <1>c, <1>d, <1>9
     DEF PayCommit, At, MoveTo, Return, Idle, Job, tables, ledger, Booking,
         RequiredStatus, InPayment, Funded
<1>10. ASSUME NEW p \in Procs, WebhookAnnounce(p) PROVE FundedWrites
  BY <1>0, <1>a, <1>b, <1>c, <1>d, <1>10
     DEF WebhookAnnounce, At, MoveTo, Return, Idle, Job, tables, ledger,
         RequiredStatus
<1>11. ASSUME NEW p \in Procs, CancelSettle(p) PROVE FundedWrites
  BY <1>0, <1>a, <1>b, <1>c, <1>d, <1>11
     DEF CancelSettle, At, MoveTo, Return, Idle, Job, tables, ledger,
         Booking, RequiredStatus
<1>12. ASSUME NEW p \in Procs, CancelMark(p) PROVE FundedWrites
  BY <1>0, <1>a, <1>b, <1>c, <1>d, <1>12
     DEF CancelMark, At, MoveTo, Return, Idle, Job, tables, ledger, Booking,
         RequiredStatus
<1>13. ASSUME NEW p \in Procs, AnswerFlag(p) PROVE FundedWrites
  BY <1>0, <1>a, <1>b, <1>c, <1>d, <1>13, SMTT(30)
     DEF AnswerFlag, At, MoveTo, Return, Idle, Job, tables, ledger,
         RequiredStatus
<1>14. ASSUME NEW p \in Procs, AcceptConfirm(p) PROVE FundedWrites
  BY <1>0, <1>a, <1>b, <1>c, <1>d, <1>14
     DEF AcceptConfirm, At, MoveTo, Return, Idle, Job, tables, ledger,
         Booking, RequiredStatus, Answers, Refusals
<1>15. ASSUME NEW p \in Procs, RefuseCredit(p) PROVE FundedWrites
  BY <1>0, <1>a, <1>b, <1>c, <1>d, <1>15
     DEF RefuseCredit, At, MoveTo, Return, Idle, Job, tables, ledger,
         Booking, RequiredStatus, Answers, Refusals
<1>16. ASSUME NEW p \in Procs, RefuseMark(p) PROVE FundedWrites
  BY <1>0, <1>a, <1>b, <1>c, <1>d, <1>16
     DEF RefuseMark, At, MoveTo, Return, Idle, Job, tables, ledger, Booking,
         RequiredStatus, Answers, Refusals
<1>17. ASSUME NEW p \in Procs, CronCredit(p) PROVE FundedWrites
  BY <1>0, <1>a, <1>b, <1>c, <1>d, <1>17
     DEF CronCredit, At, MoveTo, Return, Idle, Job, tables, ledger,
         RequiredStatus, TypeInv, JobsRemember, Remembers, IsLinked
<1>18. ASSUME NEW p \in Procs, CronMark(p) PROVE FundedWrites
  BY <1>0, <1>a, <1>b, <1>c, <1>d, <1>18
     DEF CronMark, At, MoveTo, Return, Idle, Job, tables, ledger, Booking,
         RequiredStatus
<1>19. ASSUME NEW p \in Procs, CronProcessed(p) PROVE FundedWrites
  BY <1>0, <1>a, <1>b, <1>c, <1>d, <1>19
     DEF CronProcessed, At, MoveTo, Return, Idle, Job, tables, ledger,
         Sweeping, RequiredStatus
<1>20. ASSUME NEW p \in Procs, PickUp(p) PROVE FundedWrites
  BY <1>0, <1>a, <1>b, <1>c, <1>d, <1>20
     DEF PickUp, LastUpdate, Row, At, MoveTo, Return, Idle, Job, tables,
         ledger, Booking, RequiredStatus
<1>21. ASSUME NEW p \in Procs, ConditionsNotMet(p) PROVE FundedWrites
  BY <1>0, <1>a, <1>b, <1>c, <1>d, <1>21
     DEF ConditionsNotMet, LastUpdate, Row, At, MoveTo, Return, Idle, Job,
         tables, ledger, Booking, RequiredStatus
<1>22. ASSUME NEW p \in Procs, ProblemWithPackage(p) PROVE FundedWrites
  BY <1>0, <1>a, <1>b, <1>c, <1>d, <1>22
     DEF ProblemWithPackage, LastUpdate, Row, At, MoveTo, Return, Idle, Job,
         tables, ledger, Booking, RequiredStatus
<1>23. ASSUME NEW p \in Procs, Complete(p) PROVE FundedWrites
  BY <1>0, <1>a, <1>b, <1>c, <1>d, <1>23
     DEF Complete, LastUpdate, Row, At, MoveTo, Return, Idle, Job, tables,
         ledger, Booking, RequiredStatus
<1>24. ASSUME NEW p \in Procs, Reject(p) PROVE FundedWrites
  BY <1>0, <1>a, <1>b, <1>c, <1>d, <1>24
     DEF Reject, LastUpdate, Row, At, MoveTo, Return, Idle, Job, tables,
         ledger, Booking, RequiredStatus
<1>25. ASSUME NEW p \in Procs, DropOffMark(p) PROVE FundedWrites
  BY <1>0, <1>a, <1>b, <1>c, <1>d, <1>25
     DEF DropOffMark, At, MoveTo, Return, Idle, Job, tables, ledger, Booking,
         RequiredStatus
<1>26. ASSUME NEW p \in Procs, DropOffPay(p) PROVE FundedWrites
  BY <1>0, <1>a, <1>b, <1>c, <1>d, <1>26
     DEF DropOffPay, At, MoveTo, Return, Idle, Job, tables, ledger, Booking,
         RequiredStatus
<1>27. ASSUME NEW p \in Procs, Fail(p) PROVE FundedWrites
  BY <1>0, <1>a, <1>b, <1>c, <1>d, <1>27
     DEF Fail, At, MoveTo, Return, Idle, Job, tables, ledger
<1>28. ASSUME NEW b \in Bookings, ChargeCard(b) PROVE FundedWrites
  BY <1>0, <1>a, <1>b, <1>c, <1>d, <1>28
     DEF ChargeCard, At, MoveTo, Return, Idle, Job, tables, ledger, Funded
<1>29. ASSUME NEW b \in Bookings, NEW s \in Status, AdminSetStatus(b, s)
      PROVE  FundedWrites
  BY <1>0, <1>a, <1>b, <1>c, <1>d, <1>29
     DEF AdminSetStatus, At, MoveTo, Return, Idle, Job, tables, ledger
<1>30. ASSUME NEW r \in Requests, BecomeOverdue(r) PROVE FundedWrites
  BY <1>0, <1>a, <1>b, <1>c, <1>d, <1>30
     DEF BecomeOverdue, At, MoveTo, Return, Idle, Job, tables, ledger
<1>31. ASSUME NEW b \in Bookings, DepartureMoves(b) PROVE FundedWrites
  BY <1>0, <1>a, <1>b, <1>c, <1>d, <1>31
     DEF DepartureMoves, At, MoveTo, Return, Idle, Job, tables, ledger
<1>32. CASE UNCHANGED vars
  BY <1>0, <1>a, <1>b, <1>c, <1>d, <1>32
     DEF vars
<1>33. QED
  BY <1>1, <1>2, <1>3, <1>4, <1>5, <1>6, <1>7, <1>8, <1>9, <1>10, <1>11,
     <1>12, <1>13, <1>14, <1>15, <1>16, <1>17, <1>18, <1>19, <1>20, <1>21,
     <1>22, <1>23, <1>24, <1>25, <1>26, <1>27, <1>28, <1>29, <1>30, <1>31,
     <1>32
     DEF Next, Arrive, Continue

(* Every step keeps the settlements funded. *)
LEMMA FundedStep == TypeInv /\ FundedInv /\ [Next]_vars => FundedInv'
<1> SUFFICES ASSUME TypeInv, FundedInv, [Next]_vars, Quiet'
             PROVE  /\ \A b \in Bookings :
                        /\ IsLinked(b)' => Funded(b)' \/ BookingLocked(b)'
                        /\ booking'[b].paid \/ booking'[b].status # "pending"
                                => Funded(b)'
                        /\ refunds'[b] > 0 => Funded(b)' \/ BookingLocked(b)'
                        /\ payouts'[b] > 0 => Funded(b)'
                    /\ \A p \in Procs : job'[p].op \in PaidOps =>
                                        Funded(job[p].booking)'
  BY DEF FundedInv
<1>1. FundedWrites
  BY WritesFunded
<1>2. /\ Quiet
      /\ \A b \in Bookings : Funded(b) => Funded(b)'
      /\ \A b \in Bookings : BookingLocked(b) =>
                                BookingLocked(b)' \/ Funded(b)'
      /\ \A b \in Bookings : IsLinked(b)' => IsLinked(b) \/ BookingLocked(b)'
  BY QuietBefore, FundsStay, LockHeld, LinkIsLocked
<1>3. \A b \in Bookings :
        /\ IsLinked(b) => Funded(b) \/ BookingLocked(b)
        /\ refunds[b] > 0 => Funded(b) \/ BookingLocked(b)
  BY <1>2 DEF FundedInv
<1>4. \A p \in Procs : job'[p].op \in PaidOps => Funded(job[p].booking)'
  BY <1>1 DEF FundedWrites, Funded
<1>5. QED
  BY <1>1, <1>2, <1>3, <1>4 DEF FundedWrites

-----------------------------------------------------------------------------
(* Deliveries: what is marked delivered is paid out, or the handler that   *)
(* marked it is about to pay.                                              *)

Settled(b) ==
    \/ payouts[b] > 0
    \/ \E p \in Procs : /\ job[p].op = "dropOff"
                        /\ job[p].at = "delivered"
                        /\ job[p].booking = b

AfterDelivery == {"delivered", "completed", "rejected"}

DeliveredInv ==
    Quiet =>
        /\ \A b \in Bookings : booking[b].status \in AfterDelivery => Settled(b)
        /\ \A p \in Procs : job[p].op \in {"complete", "reject"} =>
                            Settled(job[p].booking)

(* Without a failure, a settled delivery stays settled. *)
LEMMA SettledStays ==
    ASSUME TypeInv, [Next]_vars, \A p \in Procs : ~Fail(p)
    PROVE  \A b \in Bookings : Settled(b) => Settled(b)'
<1> SUFFICES ASSUME NEW b \in Bookings, Settled(b)
             PROVE  Settled(b)'
  OBVIOUS
<1>0. /\ job \in [Procs -> Job]
      /\ payouts \in [Bookings -> Nat]
      /\ \A p \in Procs : ~Fail(p)
      /\ Settled(b)
  BY DEF TypeInv, TypeOK
<1> USE DEF Settled
<1>1. ASSUME NEW p \in Procs, NEW c \in Bookings, WebhookRecord(p, c)
      PROVE  Settled(b)'
  BY <1>0, <1>1
     DEF WebhookRecord, Start, At, MoveTo, Return, Idle, Job, tables, ledger
<1>2. ASSUME NEW p \in Procs, NEW c \in Bookings, NEW u \in Users,
            PayCheck(p, c, u)
      PROVE  Settled(b)'
  BY <1>0, <1>2
     DEF PayCheck, Start, At, MoveTo, Return, Idle, Job, tables, ledger
<1>3. ASSUME NEW p \in Procs, NEW c \in Bookings, NEW u \in Users,
            CancelCheck(p, c, u)
      PROVE  Settled(b)'
  BY <1>0, <1>3
     DEF CancelCheck, Start, At, MoveTo, Return, Idle, Job, tables, ledger
<1>4. ASSUME NEW p \in Procs, NEW c \in Bookings, NEW op \in Ops,
            StatusCheck(p, c, op)
      PROVE  Settled(b)'
  BY <1>0, <1>4
     DEF StatusCheck, Start, At, MoveTo, Return, Idle, Job, tables, ledger
<1>5. ASSUME NEW p \in Procs, NEW r \in Requests, NEW op \in Ops,
            AnswerCheck(p, r, op)
      PROVE  Settled(b)'
  BY <1>0, <1>5
     DEF AnswerCheck, Start, At, MoveTo, Return, Idle, Job, tables, ledger
<1>6. ASSUME NEW p \in Procs, CronSelect(p) PROVE Settled(b)'
  BY <1>0, <1>6
     DEF CronSelect, At, MoveTo, Return, Idle, Job, tables, ledger, Sweeping
<1>7. ASSUME NEW p \in Procs, PayAnnounce(p) PROVE Settled(b)'
  BY <1>0, <1>7
     DEF PayAnnounce, At, MoveTo, Return, Idle, Job, tables, ledger
<1>8. ASSUME NEW p \in Procs, PayConflict(p) PROVE Settled(b)'
  BY <1>0, <1>8
     DEF PayConflict, At, MoveTo, Return, Idle, Job, tables, ledger
<1>9. ASSUME NEW p \in Procs, PayCommit(p) PROVE Settled(b)'
  BY <1>0, <1>9
     DEF PayCommit, At, MoveTo, Return, Idle, Job, tables, ledger, InPayment
<1>10. ASSUME NEW p \in Procs, WebhookAnnounce(p) PROVE Settled(b)'
  BY <1>0, <1>10
     DEF WebhookAnnounce, At, MoveTo, Return, Idle, Job, tables, ledger
<1>11. ASSUME NEW p \in Procs, CancelSettle(p) PROVE Settled(b)'
  BY <1>0, <1>11
     DEF CancelSettle, At, MoveTo, Return, Idle, Job, tables, ledger
<1>12. ASSUME NEW p \in Procs, CancelMark(p) PROVE Settled(b)'
  BY <1>0, <1>12
     DEF CancelMark, At, MoveTo, Return, Idle, Job, tables, ledger
<1>13. ASSUME NEW p \in Procs, AnswerFlag(p) PROVE Settled(b)'
  BY <1>0, <1>13
     DEF AnswerFlag, At, MoveTo, Return, Idle, Job, tables, ledger, Answers,
         Refusals
<1>14. ASSUME NEW p \in Procs, AcceptConfirm(p) PROVE Settled(b)'
  BY <1>0, <1>14
     DEF AcceptConfirm, At, MoveTo, Return, Idle, Job, tables, ledger,
         Answers, Refusals
<1>15. ASSUME NEW p \in Procs, RefuseCredit(p) PROVE Settled(b)'
  BY <1>0, <1>15
     DEF RefuseCredit, At, MoveTo, Return, Idle, Job, tables, ledger,
         Answers, Refusals
<1>16. ASSUME NEW p \in Procs, RefuseMark(p) PROVE Settled(b)'
  BY <1>0, <1>16
     DEF RefuseMark, At, MoveTo, Return, Idle, Job, tables, ledger, Answers,
         Refusals
<1>17. ASSUME NEW p \in Procs, CronCredit(p) PROVE Settled(b)'
  BY <1>0, <1>17
     DEF CronCredit, At, MoveTo, Return, Idle, Job, tables, ledger
<1>18. ASSUME NEW p \in Procs, CronMark(p) PROVE Settled(b)'
  BY <1>0, <1>18
     DEF CronMark, At, MoveTo, Return, Idle, Job, tables, ledger
<1>19. ASSUME NEW p \in Procs, CronProcessed(p) PROVE Settled(b)'
  BY <1>0, <1>19
     DEF CronProcessed, At, MoveTo, Return, Idle, Job, tables, ledger,
         Sweeping
<1>20. ASSUME NEW p \in Procs, PickUp(p) PROVE Settled(b)'
  BY <1>0, <1>20
     DEF PickUp, LastUpdate, Row, At, MoveTo, Return, Idle, Job, tables,
         ledger
<1>21. ASSUME NEW p \in Procs, ConditionsNotMet(p) PROVE Settled(b)'
  BY <1>0, <1>21
     DEF ConditionsNotMet, LastUpdate, Row, At, MoveTo, Return, Idle, Job,
         tables, ledger
<1>22. ASSUME NEW p \in Procs, ProblemWithPackage(p) PROVE Settled(b)'
  BY <1>0, <1>22
     DEF ProblemWithPackage, LastUpdate, Row, At, MoveTo, Return, Idle, Job,
         tables, ledger
<1>23. ASSUME NEW p \in Procs, Complete(p) PROVE Settled(b)'
  BY <1>0, <1>23
     DEF Complete, LastUpdate, Row, At, MoveTo, Return, Idle, Job, tables,
         ledger
<1>24. ASSUME NEW p \in Procs, Reject(p) PROVE Settled(b)'
  BY <1>0, <1>24
     DEF Reject, LastUpdate, Row, At, MoveTo, Return, Idle, Job, tables,
         ledger
<1>25. ASSUME NEW p \in Procs, DropOffMark(p) PROVE Settled(b)'
  BY <1>0, <1>25
     DEF DropOffMark, At, MoveTo, Return, Idle, Job, tables, ledger
<1>26. ASSUME NEW p \in Procs, DropOffPay(p) PROVE Settled(b)'
  BY <1>0, <1>26
     DEF DropOffPay, At, MoveTo, Return, Idle, Job, tables, ledger
<1>27. ASSUME NEW p \in Procs, Fail(p) PROVE Settled(b)'
  BY <1>0, <1>27
     DEF Fail, At, MoveTo, Return, Idle, Job, tables, ledger
<1>28. ASSUME NEW c \in Bookings, ChargeCard(c) PROVE Settled(b)'
  BY <1>0, <1>28
     DEF ChargeCard, At, MoveTo, Return, Idle, Job, tables, ledger
<1>29. ASSUME NEW c \in Bookings, NEW s \in Status, AdminSetStatus(c, s)
      PROVE  Settled(b)'
  BY <1>0, <1>29
     DEF AdminSetStatus, At, MoveTo, Return, Idle, Job, tables, ledger
<1>30. ASSUME NEW r \in Requests, BecomeOverdue(r) PROVE Settled(b)'
  BY <1>0, <1>30
     DEF BecomeOverdue, At, MoveTo, Return, Idle, Job, tables, ledger
<1>31. ASSUME NEW c \in Bookings, DepartureMoves(c) PROVE Settled(b)'
  BY <1>0, <1>31
     DEF DepartureMoves, At, MoveTo, Return, Idle, Job, tables, ledger
<1>32. CASE UNCHANGED vars
  BY <1>0, <1>32
     DEF vars
<1>33. QED
  BY <1>1, <1>2, <1>3, <1>4, <1>5, <1>6, <1>7, <1>8, <1>9, <1>10, <1>11,
     <1>12, <1>13, <1>14, <1>15, <1>16, <1>17, <1>18, <1>19, <1>20, <1>21,
     <1>22, <1>23, <1>24, <1>25, <1>26, <1>27, <1>28, <1>29, <1>30, <1>31,
     <1>32
     DEF Next, Arrive, Continue

(* Every step keeps deliveries settled. *)
LEMMA DeliveredStep == TypeInv /\ DeliveredInv /\ [Next]_vars => DeliveredInv'
<1> DEFINE Goal == /\ \A b \in Bookings :
                        booking'[b].status \in AfterDelivery => Settled(b)'
                   /\ \A p \in Procs : job'[p].op \in {"complete", "reject"} =>
                        \E b \in Bookings : job'[p].booking = b /\ Settled(b)'
<1> SUFFICES ASSUME TypeInv, DeliveredInv, [Next]_vars, Quiet'
             PROVE  Goal
  <2>1. Goal => /\ \A b \in Bookings :
                      booking'[b].status \in AfterDelivery => Settled(b)'
                /\ \A p \in Procs : job'[p].op \in {"complete", "reject"} =>
                      Settled(job[p].booking)'
    BY DEF Settled
  <2>2. QED
    BY <2>1 DEF DeliveredInv
<1>0. /\ booking \in [Bookings -> Booking]
      /\ job \in [Procs -> Job]
  BY DEF TypeInv, TypeOK
<1>a. /\ Quiet
      /\ \A p \in Procs : ~Fail(p)
      /\ \A b \in Bookings, s \in Status : ~AdminSetStatus(b, s)
      /\ \A b \in Bookings : Settled(b) => Settled(b)'
  BY QuietBefore, SettledStays
<1>b. /\ \A b \in Bookings : booking[b].status \in AfterDelivery => Settled(b)
      /\ \A p \in Procs : job[p].op \in {"complete", "reject"} =>
                /\ job[p].booking \in Bookings
                /\ Settled(job[p].booking)
  BY <1>a, JobBooking DEF DeliveredInv, BookingOps, RequiredStatus
<1> USE DEF AfterDelivery
<1>1. ASSUME NEW p \in Procs, NEW b \in Bookings, WebhookRecord(p, b)
      PROVE  Goal
  BY <1>0, <1>a, <1>b, <1>1
     DEF WebhookRecord, Start, At, MoveTo, Return, Idle, Job, tables, ledger,
         Booking
<1>2. ASSUME NEW p \in Procs, NEW b \in Bookings, NEW u \in Users,
            PayCheck(p, b, u)
      PROVE  Goal
  BY <1>0, <1>a, <1>b, <1>2
     DEF PayCheck, Start, At, MoveTo, Return, Idle, Job, tables, ledger
<1>3. ASSUME NEW p \in Procs, NEW b \in Bookings, NEW u \in Users,
            CancelCheck(p, b, u)
      PROVE  Goal
  BY <1>0, <1>a, <1>b, <1>3
     DEF CancelCheck, Start, At, MoveTo, Return, Idle, Job, tables, ledger
<1>4. ASSUME NEW p \in Procs, NEW b \in Bookings, NEW op \in Ops,
            StatusCheck(p, b, op)
      PROVE  Goal
  BY <1>0, <1>a, <1>b, <1>4
     DEF StatusCheck, Start, At, MoveTo, Return, Idle, Job, tables, ledger,
         RequiredStatus
<1>5. ASSUME NEW p \in Procs, NEW r \in Requests, NEW op \in Ops,
            AnswerCheck(p, r, op)
      PROVE  Goal
  BY <1>0, <1>a, <1>b, <1>5
     DEF AnswerCheck, Start, At, MoveTo, Return, Idle, Job, tables, ledger,
         Answers, Refusals
<1>6. ASSUME NEW p \in Procs, CronSelect(p) PROVE Goal
  BY <1>0, <1>a, <1>b, <1>6
     DEF CronSelect, At, MoveTo, Return, Idle, Job, tables, ledger, Sweeping
<1>7. ASSUME NEW p \in Procs, PayAnnounce(p) PROVE Goal
  BY <1>0, <1>a, <1>b, <1>7
     DEF PayAnnounce, At, MoveTo, Return, Idle, Job, tables, ledger
<1>8. ASSUME NEW p \in Procs, PayConflict(p) PROVE Goal
  BY <1>0, <1>a, <1>b, <1>8
     DEF PayConflict, At, MoveTo, Return, Idle, Job, tables, ledger
<1>9. ASSUME NEW p \in Procs, PayCommit(p) PROVE Goal
  BY <1>0, <1>a, <1>b, <1>9
     DEF PayCommit, At, MoveTo, Return, Idle, Job, tables, ledger, Booking,
         InPayment
<1>10. ASSUME NEW p \in Procs, WebhookAnnounce(p) PROVE Goal
  BY <1>0, <1>a, <1>b, <1>10
     DEF WebhookAnnounce, At, MoveTo, Return, Idle, Job, tables, ledger
<1>11. ASSUME NEW p \in Procs, CancelSettle(p) PROVE Goal
  BY <1>0, <1>a, <1>b, <1>11
     DEF CancelSettle, At, MoveTo, Return, Idle, Job, tables, ledger
<1>12. ASSUME NEW p \in Procs, CancelMark(p) PROVE Goal
  BY <1>0, <1>a, <1>b, <1>12
     DEF CancelMark, At, MoveTo, Return, Idle, Job, tables, ledger, Booking
<1>13. ASSUME NEW p \in Procs, AnswerFlag(p) PROVE Goal
  BY <1>0, <1>a, <1>b, <1>13
     DEF AnswerFlag, At, MoveTo, Return, Idle, Job, tables, ledger
<1>14. ASSUME NEW p \in Procs, AcceptConfirm(p) PROVE Goal
  BY <1>0, <1>a, <1>b, <1>14
     DEF AcceptConfirm, At, MoveTo, Return, Idle, Job, tables, ledger,
         Booking
<1>15. ASSUME NEW p \in Procs, RefuseCredit(p) PROVE Goal
  BY <1>0, <1>a, <1>b, <1>15
     DEF RefuseCredit, At, MoveTo, Return, Idle, Job, tables, ledger
<1>16. ASSUME NEW p \in Procs, RefuseMark(p) PROVE Goal
  BY <1>0, <1>a, <1>b, <1>16
     DEF RefuseMark, At, MoveTo, Return, Idle, Job, tables, ledger, Booking
<1>17. ASSUME NEW p \in Procs, CronCredit(p) PROVE Goal
  BY <1>0, <1>a, <1>b, <1>17
     DEF CronCredit, At, MoveTo, Return, Idle, Job, tables, ledger
<1>18. ASSUME NEW p \in Procs, CronMark(p) PROVE Goal
  BY <1>0, <1>a, <1>b, <1>18
     DEF CronMark, At, MoveTo, Return, Idle, Job, tables, ledger, Booking
<1>19. ASSUME NEW p \in Procs, CronProcessed(p) PROVE Goal
  BY <1>0, <1>a, <1>b, <1>19
     DEF CronProcessed, At, MoveTo, Return, Idle, Job, tables, ledger,
         Sweeping
<1>20. ASSUME NEW p \in Procs, PickUp(p) PROVE Goal
  BY <1>0, <1>a, <1>b, <1>20
     DEF PickUp, LastUpdate, Row, At, MoveTo, Return, Idle, Job, tables,
         ledger, Booking
<1>21. ASSUME NEW p \in Procs, ConditionsNotMet(p) PROVE Goal
  BY <1>0, <1>a, <1>b, <1>21
     DEF ConditionsNotMet, LastUpdate, Row, At, MoveTo, Return, Idle, Job,
         tables, ledger, Booking
<1>22. ASSUME NEW p \in Procs, ProblemWithPackage(p) PROVE Goal
  BY <1>0, <1>a, <1>b, <1>22
     DEF ProblemWithPackage, LastUpdate, Row, At, MoveTo, Return, Idle, Job,
         tables, ledger, Booking
<1>23. ASSUME NEW p \in Procs, Complete(p) PROVE Goal
  BY <1>0, <1>a, <1>b, <1>23
     DEF Complete, LastUpdate, Row, At, MoveTo, Return, Idle, Job, tables,
         ledger, Booking
<1>24. ASSUME NEW p \in Procs, Reject(p) PROVE Goal
  BY <1>0, <1>a, <1>b, <1>24
     DEF Reject, LastUpdate, Row, At, MoveTo, Return, Idle, Job, tables,
         ledger, Booking
<1>25. ASSUME NEW p \in Procs, DropOffMark(p) PROVE Goal
  BY <1>0, <1>a, <1>b, <1>25
     DEF DropOffMark, At, MoveTo, Return, Idle, Job, tables, ledger, Settled,
         Booking
<1>26. ASSUME NEW p \in Procs, DropOffPay(p) PROVE Goal
  BY <1>0, <1>a, <1>b, <1>26
     DEF DropOffPay, At, MoveTo, Return, Idle, Job, tables, ledger
<1>27. ASSUME NEW p \in Procs, Fail(p) PROVE Goal
  BY <1>0, <1>a, <1>b, <1>27
     DEF Fail, At, MoveTo, Return, Idle, Job, tables, ledger
<1>28. ASSUME NEW b \in Bookings, ChargeCard(b) PROVE Goal
  BY <1>0, <1>a, <1>b, <1>28
     DEF ChargeCard, At, MoveTo, Return, Idle, Job, tables, ledger
<1>29. ASSUME NEW b \in Bookings, NEW s \in Status, AdminSetStatus(b, s)
      PROVE  Goal
  BY <1>0, <1>a, <1>b, <1>29
     DEF AdminSetStatus, At, MoveTo, Return, Idle, Job, tables, ledger
<1>30. ASSUME NEW r \in Requests, BecomeOverdue(r) PROVE Goal
  BY <1>0, <1>a, <1>b, <1>30
     DEF BecomeOverdue, At, MoveTo, Return, Idle, Job, tables, ledger
<1>31. ASSUME NEW b \in Bookings, DepartureMoves(b) PROVE Goal
  BY <1>0, <1>a, <1>b, <1>31
     DEF DepartureMoves, At, MoveTo, Return, Idle, Job, tables, ledger
<1>32. CASE UNCHANGED vars
  BY <1>0, <1>a, <1>b, <1>32
     DEF vars
<1>33. QED
  BY <1>1, <1>2, <1>3, <1>4, <1>5, <1>6, <1>7, <1>8, <1>9, <1>10, <1>11,
     <1>12, <1>13, <1>14, <1>15, <1>16, <1>17, <1>18, <1>19, <1>20, <1>21,
     <1>22, <1>23, <1>24, <1>25, <1>26, <1>27, <1>28, <1>29, <1>30, <1>31,
     <1>32
     DEF Next, Arrive, Continue

-----------------------------------------------------------------------------
(* The theorems *)

(* The three invariants hold at first ... *)
LEMMA DeliveryInit == Init => CodeInv /\ FundedInv /\ DeliveredInv
<1> SUFFICES ASSUME Init
             PROVE  CodeInv /\ FundedInv /\ DeliveredInv
  OBVIOUS
<1>1. CodeInv
  BY DEF Init, CodeInv, CodeBeforeHandover, HandedOver, AfterHandover, Idle
<1>2. FundedInv
  BY BookingAssumption
     DEF Init, FundedInv, IsLinked, NoRow, PaidOps, RequiredStatus, Idle
<1>3. DeliveredInv
  BY DEF Init, DeliveredInv, AfterDelivery, Idle
<1>4. QED
  BY <1>1, <1>2, <1>3

(* ... and always: the codes, *)
LEMMA CodeAlways == Spec => []CodeInv
  BY DeliveryInit, CodeStep, TypeAlways, PTL DEF Spec

(* the funds, *)
LEMMA FundedAlways == Spec => []FundedInv
  BY DeliveryInit, FundedStep, TypeAlways, PTL DEF Spec

(* and the payouts. *)
LEMMA DeliveredAlways == Spec => []DeliveredInv
  BY DeliveryInit, DeliveredStep, TypeAlways, PTL DEF Spec

(* Without an administrator's edits, no parcel is on its way, delivered or *)
(* settled after delivery without the code pickUp issued, whatever fails.  *)
THEOREM CodeIsIssued == Spec => []CodeBeforeHandover
<1>1. CodeInv => CodeBeforeHandover
  BY DEF CodeInv
<1>2. QED
  BY <1>1, CodeAlways, PTL

(* Without failures and edits, cancelBooking, updateRequest, handleCron    *)
(* and dropOff credit only bookings that somebody paid.                    *)
THEOREM SettlementsAreFunded == Spec => []SettlementFunded
<1>1. FundedInv => SettlementFunded
  BY DEF FundedInv, SettlementFunded, Quiet, Funded
<1>2. QED
  BY <1>1, FundedAlways, PTL

(* Without failures and edits, a delivered booking is paid out, or the     *)
(* dropOff that marked it is still to pay it.                              *)
THEOREM DeliveriesArePaid == Spec => []DeliveredIsPaid
<1>1. DeliveredInv => DeliveredIsPaid
  BY DEF DeliveredInv, DeliveredIsPaid, Quiet, Settled, AfterDelivery, At
<1>2. QED
  BY <1>1, DeliveredAlways, PTL

-----------------------------------------------------------------------------
(* The accounts: what wallets and platform gained is what was due. *)

(* The accounts, value by value. *)
Gain == [u \in Users |-> balance[u] - InitialBalance[u]]
DueFor(b) == Amount[b] * (refunds[b] + payouts[b] - debits[b])
Dues == [b \in Bookings |-> DueFor(b)]
Slack(b) == IF Amount[b] % 25 = 0 THEN 0 ELSE refunds[b]
Slacks == [b \in Bookings |-> Slack(b)]

AccountsTyped ==
    /\ Gain \in [Users -> Int]
    /\ Dues \in [Bookings -> Int]
    /\ Slacks \in [Bookings -> Int]
    /\ SumFunction(Gain) \in Int
    /\ SumFunction(Dues) \in Int
    /\ SumFunction(Slacks) \in Int
    /\ earnings \in Int
    /\ Gained = SumFunction(Gain) + earnings
    /\ Due = SumFunction(Dues)
    /\ Rounded = SumFunction(Slacks)

(* They are sums of whole numbers, and stay so. *)
LEMMA AccountsType == TypeInv => AccountsTyped
<1> SUFFICES ASSUME TypeInv
             PROVE  AccountsTyped
  OBVIOUS
<1>1. Gain \in [Users -> Int]
  BY BookingAssumption DEF Gain, BookingAssumption, TypeInv, TypeOK
<1>2. Dues \in [Bookings -> Int] /\ Slacks \in [Bookings -> Int]
  <2> SUFFICES ASSUME NEW b \in Bookings
               PROVE  DueFor(b) \in Int /\ Slack(b) \in Int
    BY DEF Dues, Slacks
  <2>1. /\ Amount[b] \in Int
        /\ refunds[b] + payouts[b] - debits[b] \in Int
        /\ refunds[b] \in Int
    BY BookingAssumption DEF BookingAssumption, TypeInv, TypeOK
  <2> QED
    BY <2>1 DEF DueFor, Slack
<1>3. /\ SumFunction(Gain) \in Int
      /\ SumFunction(Dues) \in Int
      /\ SumFunction(Slacks) \in Int
  BY <1>1, <1>2, FiniteAssumption, SumType DEF FiniteAssumption
<1> QED
  BY <1>1, <1>2, <1>3
     DEF AccountsTyped, Gained, Due, Rounded, Gain, Dues, Slacks, DueFor,
         Slack, TypeInv, TypeOK

LEMMA AccountsTypeLater == TypeInv' => AccountsTyped'
  BY AccountsType, PTL

(* One settlement or payment of a booking: what is due for it changes by   *)
(* its amount, and the slack by one at most.                               *)
LEMMA DueChanges ==
    ASSUME TypeInv, TypeInv', NEW b \in Bookings, NEW m \in Int, NEW n \in Int,
           refunds'[b] = refunds[b] + n,
           refunds'[b] + payouts'[b] - debits'[b]
                = refunds[b] + payouts[b] - debits[b] + m,
           \A c \in Bookings \ {b} : /\ refunds'[c] = refunds[c]
                                     /\ payouts'[c] = payouts[c]
                                     /\ debits'[c] = debits[c]
    PROVE  /\ Due' = Due + Amount[b] * m
           /\ Rounded' = Rounded + (IF Amount[b] % 25 = 0 THEN 0 ELSE n)
<1>1. \A c \in Bookings \ {b} : Dues'[c] = Dues[c] /\ Slacks'[c] = Slacks[c]
  BY DEF Dues, DueFor, Slacks, Slack
<1>2. Dues'[b] - Dues[b] = Amount[b] * m
  <2> DEFINE a == Amount[b]
             k == refunds[b] + payouts[b] - debits[b]
  <2>1. a \in Int /\ k \in Int
    BY BookingAssumption DEF BookingAssumption, TypeInv, TypeOK
  <2>2. Dues[b] = a * k /\ Dues'[b] = a * (k + m)
    BY DEF Dues, DueFor
  <2>3. a * (k + m) = a * k + a * m
    <3> HIDE DEF a, k
    <3> QED
      BY <2>1
  <2>4. a * k \in Int /\ a * m \in Int
    BY <2>1
  <2> QED
    BY <2>2, <2>3, <2>4
<1>3. Slacks'[b] - Slacks[b] = IF Amount[b] % 25 = 0 THEN 0 ELSE n
  BY DEF Slacks, Slack, TypeInv, TypeOK
<1>4. /\ Dues \in [Bookings -> Int] /\ Dues' \in [Bookings -> Int]
      /\ Slacks \in [Bookings -> Int] /\ Slacks' \in [Bookings -> Int]
      /\ Due = SumFunction(Dues) /\ Due' = SumFunction(Dues')
      /\ Rounded = SumFunction(Slacks) /\ Rounded' = SumFunction(Slacks')
      /\ Due \in Int /\ Rounded \in Int
  BY AccountsType, AccountsTypeLater DEF AccountsTyped
<1>5. IsFiniteSet(Bookings)
  BY FiniteAssumption DEF FiniteAssumption
<1>6. SumFunction(Dues') = SumFunction(Dues) + Dues'[b] - Dues[b]
  BY <1>1, <1>4, <1>5, SumUpdate
<1>7. SumFunction(Slacks') = SumFunction(Slacks) + Slacks'[b] - Slacks[b]
  BY <1>1, <1>4, <1>5, SumUpdate
<1>8. /\ Dues[b] \in Int /\ Dues'[b] \in Int
      /\ Slacks[b] \in Int /\ Slacks'[b] \in Int
  BY <1>4
<1> QED
  BY <1>2, <1>3, <1>4, <1>6, <1>7, <1>8

(* A credit brings wallets and platform what the split pays. *)
LEMMA CreditGains ==
    ASSUME TypeInv, TypeInv', NEW b \in Bookings, NEW split,
           split.sender \in Int, split.traveller \in Int,
           split.platform \in Int, Credit(b, split)
    PROVE  Gained' = Gained + Paid(split)
<1>1. /\ balance' = [u \in Users |->
                       balance[u]
                       + (IF u = OwnerOf[b] THEN split.sender ELSE 0)
                       + (IF u = TravellerOf[b] THEN split.traveller ELSE 0)]
      /\ earnings' = earnings + split.platform
  BY DEF Credit
<1>2. \A u \in Users : balance[u] \in Int /\ InitialBalance[u] \in Int
  BY BookingAssumption DEF BookingAssumption, TypeInv, TypeOK
<1>3. \A u \in Users :
        Gain'[u] = Gain[u]
                     + (IF u = OwnerOf[b] THEN split.sender ELSE 0)
                     + (IF u = TravellerOf[b] THEN split.traveller ELSE 0)
  BY <1>1, <1>2 DEF Gain
<1>4. /\ OwnerOf[b] \in Users /\ TravellerOf[b] \in Users
      /\ IsFiniteSet(Users)
  BY BookingAssumption, FiniteAssumption
     DEF BookingAssumption, FiniteAssumption
<1>5. /\ Gain \in [Users -> Int]
      /\ Gain' \in [Users -> Int]
  BY AccountsType, AccountsTypeLater DEF AccountsTyped
<1>6. SumFunction(Gain') = SumFunction(Gain) + split.sender + split.traveller
  <2>1. PICK x \in Users, y \in Users, m \in Int, n \in Int :
            /\ x = OwnerOf[b] /\ y = TravellerOf[b]
            /\ m = split.sender /\ n = split.traveller
    BY <1>4
  <2>2. \A u \in Users : Gain'[u] = Gain[u] + (IF u = x THEN m ELSE 0)
                                         + (IF u = y THEN n ELSE 0)
    BY <1>3, <2>1
  <2>3. /\ IsFiniteSet(Users)
        /\ x \in Users /\ y \in Users /\ m \in Int /\ n \in Int
    BY <1>4, <2>1
  <2>4. PICK f \in [Users -> Int], g \in [Users -> Int] :
            f = Gain /\ g = Gain'
    BY <1>5
  <2>5. \A u \in Users : g[u] = f[u] + (IF u = x THEN m ELSE 0)
                                   + (IF u = y THEN n ELSE 0)
    BY <2>2, <2>4
  <2>6. PICK h \in [Users -> Int] :
            \A u \in Users : h[u] = f[u] + (IF u = x THEN m ELSE 0)
    <3> DEFINE some == [u \in Users |-> f[u] + (IF u = x THEN m ELSE 0)]
    <3>1. some \in [Users -> Int]
      BY <2>3, <2>4
    <3> QED
      BY <3>1
  <2>7. SumFunction(h) = SumFunction(f) + h[x] - f[x]
    <3>1. \A u \in Users \ {x} : h[u] = f[u]
      BY <2>4, <2>6
    <3> QED
      BY <2>3, <3>1, SumUpdate
  <2>8. SumFunction(g) = SumFunction(h) + g[y] - h[y]
    <3>1. \A u \in Users \ {y} : g[u] = h[u]
      BY <2>3, <2>4, <2>5, <2>6
    <3> QED
      BY <2>3, <3>1, SumUpdate
  <2>9. /\ h[x] = f[x] + m /\ g[y] = h[y] + n
        /\ f[x] \in Int /\ h[y] \in Int
        /\ SumFunction(f) \in Int
    <3>1. SumFunction(f) \in Int
      BY <2>3, <2>4, SumType
    <3> QED
      BY <2>3, <2>4, <2>5, <2>6, <3>1
  <2>10. SumFunction(g) = SumFunction(f) + m + n
    BY <2>3, <2>7, <2>8, <2>9
  <2> QED
    BY <2>1, <2>4, <2>10
<1>7. /\ SumFunction(Gain) \in Int
      /\ earnings \in Int
      /\ Gained = SumFunction(Gain) + earnings
      /\ Gained' = SumFunction(Gain') + earnings'
  BY AccountsType, AccountsTypeLater DEF AccountsTyped
<1> QED
  BY <1>1, <1>6, <1>7 DEF Paid

(* A settlement that pays a booking's amount, but for its rounding, keeps  *)
(* the accounts.                                                           *)
LEMMA SettlementAccounted ==
    ASSUME TypeInv, TypeInv', MoneyAccounted, NEW b \in Bookings, NEW split,
           split.sender \in Int, split.traveller \in Int,
           split.platform \in Int, Credit(b, split),
           Paid(split) \in Amount[b] - 1 .. Amount[b] + 1,
           Amount[b] % 25 = 0 => Paid(split) = Amount[b],
           refunds' = [refunds EXCEPT ![b] = @ + 1],
           UNCHANGED <<payouts, debits>>
    PROVE  MoneyAccounted'
<1>1. Gained' = Gained + Paid(split)
  BY CreditGains
<1>2. /\ Due' = Due + Amount[b] * 1
      /\ Rounded' = Rounded + (IF Amount[b] % 25 = 0 THEN 0 ELSE 1)
  <2>1. /\ refunds'[b] = refunds[b] + 1
        /\ refunds'[b] + payouts'[b] - debits'[b]
                = refunds[b] + payouts[b] - debits[b] + 1
        /\ \A c \in Bookings \ {b} : /\ refunds'[c] = refunds[c]
                                     /\ payouts'[c] = payouts[c]
                                     /\ debits'[c] = debits[c]
    BY DEF TypeInv, TypeOK
  <2> QED
    BY <2>1, DueChanges
<1>3. Gained \in Int /\ Due \in Int /\ Rounded \in Int /\ Amount[b] \in Int
  BY AccountsType, BookingAssumption DEF AccountsTyped, BookingAssumption
<1> QED
  BY <1>1, <1>2, <1>3 DEF MoneyAccounted

(* A full refund pays the amount. *)
LEMMA RefundAccounted ==
    ASSUME TypeInv, TypeInv', MoneyAccounted, NEW b \in Bookings,
           Credit(b, FullRefund(Amount[b])),
           refunds' = [refunds EXCEPT ![b] = @ + 1],
           UNCHANGED <<payouts, debits>>
    PROVE  MoneyAccounted'
<1> DEFINE split == FullRefund(Amount[b])
<1>1. Amount[b] \in Nat
  BY BookingAssumption DEF BookingAssumption
<1>2. /\ split.sender \in Int
      /\ split.traveller \in Int
      /\ split.platform \in Int
      /\ Paid(split) = Amount[b]
  BY <1>1 DEF FullRefund, Paid
<1>3. Paid(split) \in Amount[b] - 1 .. Amount[b] + 1
  BY <1>1, <1>2
<1> HIDE DEF split
<1> QED
  BY <1>2, <1>3, SettlementAccounted DEF split

LEMMA MoneyStep ==
    TypeInv /\ MoneyAccounted /\ [Next]_vars => MoneyAccounted'
<1> SUFFICES ASSUME TypeInv, MoneyAccounted, [Next]_vars
             PROVE  MoneyAccounted'
  OBVIOUS
<1>0. TypeInv'
  BY TypeStep
<1>a. ASSUME UNCHANGED <<balance, earnings, refunds, payouts, debits>>
      PROVE  MoneyAccounted'
  BY <1>a DEF MoneyAccounted, Gained, Due, Rounded
<1>1. ASSUME NEW p \in Procs, NEW b \in Bookings, WebhookRecord(p, b)
      PROVE  MoneyAccounted'
  BY <1>a, <1>1 DEF WebhookRecord, wallets, ledger
<1>2. ASSUME NEW p \in Procs, NEW b \in Bookings, NEW u \in Users,
            PayCheck(p, b, u)
      PROVE  MoneyAccounted'
  BY <1>a, <1>2 DEF PayCheck, wallets, ledger
<1>3. ASSUME NEW p \in Procs, NEW b \in Bookings, NEW u \in Users,
            CancelCheck(p, b, u)
      PROVE  MoneyAccounted'
  BY <1>a, <1>3 DEF CancelCheck, wallets, ledger
<1>4. ASSUME NEW p \in Procs, NEW b \in Bookings, NEW op \in Ops,
            StatusCheck(p, b, op)
      PROVE  MoneyAccounted'
  BY <1>a, <1>4 DEF StatusCheck, wallets, ledger
<1>5. ASSUME NEW p \in Procs, NEW r \in Requests, NEW op \in Ops,
            AnswerCheck(p, r, op)
      PROVE  MoneyAccounted'
  BY <1>a, <1>5 DEF AnswerCheck, wallets, ledger
<1>6. ASSUME NEW p \in Procs, CronSelect(p) PROVE MoneyAccounted'
  BY <1>a, <1>6 DEF CronSelect, wallets, ledger
<1>7. ASSUME NEW p \in Procs, PayAnnounce(p) PROVE MoneyAccounted'
  BY <1>a, <1>7 DEF PayAnnounce, wallets, ledger
<1>8. ASSUME NEW p \in Procs, PayConflict(p) PROVE MoneyAccounted'
  BY <1>a, <1>8 DEF PayConflict, wallets, ledger
<1>9. ASSUME NEW p \in Procs, PayCommit(p) PROVE MoneyAccounted'
  <2> DEFINE b == job[p].booking
  <2>1. PICK u \in Users : u = job[p].user
    BY <1>9
       DEF PayCommit, InPayment, At, TypeInv, JobsRemember, Remembers
  <2>2. /\ b \in Bookings
        /\ Amount[b] \in Int
        /\ UNCHANGED <<earnings, refunds, payouts>>
        /\ balance' = [balance EXCEPT ![u] = @ - Amount[b]]
        /\ debits' = [debits EXCEPT ![b] = @ + 1]
    BY <1>9, <2>1, JobBooking, BookingAssumption
       DEF PayCommit, InPayment, At, BookingAssumption
  <2>3. /\ Gain'[u] = Gain[u] - Amount[b]
        /\ \A v \in Users \ {u} : Gain'[v] = Gain[v]
    <3>1. /\ \A v \in Users : balance[v] \in Int /\ InitialBalance[v] \in Int
          /\ balance'[u] = balance[u] - Amount[b]
          /\ \A v \in Users \ {u} : balance'[v] = balance[v]
      <4>1. balance \in [Users -> Int] /\ InitialBalance \in [Users -> Nat]
        BY BookingAssumption DEF TypeInv, TypeOK, BookingAssumption
      <4> HIDE DEF b
      <4> QED
        BY <2>2, <4>1
    <3>2. \A v \in Users : /\ Gain[v] = balance[v] - InitialBalance[v]
                            /\ Gain'[v] = balance'[v] - InitialBalance[v]
      BY DEF Gain
    <3> HIDE DEF b
    <3> QED
      BY <2>2, <3>1, <3>2
  <2>4. /\ Gain \in [Users -> Int]
        /\ Gain' \in [Users -> Int]
        /\ IsFiniteSet(Users)
    BY <1>0, AccountsType, AccountsTypeLater, FiniteAssumption
       DEF AccountsTyped, FiniteAssumption
  <2>5. SumFunction(Gain') = SumFunction(Gain) + Gain'[u] - Gain[u]
    BY <2>3, <2>4, SumUpdate
  <2>6. Gained' = Gained - Amount[b]
    <3>1. /\ Gained = SumFunction(Gain) + earnings
          /\ Gained' = SumFunction(Gain') + earnings'
          /\ SumFunction(Gain) \in Int
          /\ earnings \in Int
      BY <1>0, AccountsType, AccountsTypeLater DEF AccountsTyped
    <3>2. Gain[u] \in Int
      BY <2>4
    <3> QED
      BY <2>2, <2>3, <2>5, <3>1, <3>2
  <2>7. Due' = Due - Amount[b] /\ Rounded' = Rounded
    <3>1. PICK m \in Int, n \in Int : m = -1 /\ n = 0
      OBVIOUS
    <3>2. /\ refunds'[b] = refunds[b] + n
          /\ refunds'[b] + payouts'[b] - debits'[b]
                  = refunds[b] + payouts[b] - debits[b] + m
          /\ \A c \in Bookings \ {b} : /\ refunds'[c] = refunds[c]
                                       /\ payouts'[c] = payouts[c]
                                       /\ debits'[c] = debits[c]
      BY <2>2, <3>1 DEF TypeInv, TypeOK
    <3> HIDE DEF b
    <3>3. /\ Due' = Due + Amount[b] * m
          /\ Rounded' = Rounded + (IF Amount[b] % 25 = 0 THEN 0 ELSE n)
      BY <1>0, <2>2, <3>2, DueChanges
    <3>4. Due \in Int /\ Rounded \in Int
      BY AccountsType DEF AccountsTyped
    <3> QED
      BY <2>2, <3>1, <3>3, <3>4
  <2>8. Gained \in Int /\ Due \in Int /\ Rounded \in Int
    BY AccountsType DEF AccountsTyped
  <2> QED
    BY <2>2, <2>6, <2>7, <2>8 DEF MoneyAccounted
<1>10. ASSUME NEW p \in Procs, WebhookAnnounce(p) PROVE MoneyAccounted'
  BY <1>a, <1>10 DEF WebhookAnnounce, wallets, ledger
<1>11. ASSUME NEW p \in Procs, CancelSettle(p) PROVE MoneyAccounted'
  <2> DEFINE b == job[p].booking
             split == IF job[p].user = TravellerOf[b]
                         THEN FullRefund(Amount[b])
                         ELSE SenderCancelSplit(Amount[b], hoursLeft[b])
  <2>1. b \in Bookings
    BY <1>11, JobBooking DEF CancelSettle, At, BookingOps
  <2>2. Amount[b] \in Nat /\ hoursLeft[b] \in Int
    BY <2>1, BookingAssumption DEF BookingAssumption, TypeInv, TypeOK
  <2>3. /\ Credit(b, split)
        /\ refunds' = [refunds EXCEPT ![b] = @ + 1]
        /\ UNCHANGED <<payouts, debits>>
    BY <1>11 DEF CancelSettle
  <2>4. CASE job[p].user = TravellerOf[b]
    <3>1. Credit(b, FullRefund(Amount[b]))
      BY <2>3, <2>4
    <3> HIDE DEF b
    <3> QED
      BY <1>0, <2>1, <2>3, <3>1, RefundAccounted
  <2>5. CASE job[p].user # TravellerOf[b]
    <3>1. split = SenderCancelSplit(Amount[b], hoursLeft[b])
      BY <2>5
    <3>2. split \in Split
      BY <2>2, <3>1, CancelSplit
    <3>3. /\ Paid(split) \in Amount[b] - 1 .. Amount[b] + 1
          /\ Amount[b] % 25 = 0 => Paid(split) = Amount[b]
      BY <2>2, <3>1, CancelConserved, CancelExact DEF CancelConserves
    <3>4. /\ split.sender \in Int
          /\ split.traveller \in Int
          /\ split.platform \in Int
      BY <3>2 DEF Split
    <3> HIDE DEF b, split
    <3> QED
      BY <1>0, <2>1, <2>3, <3>3, <3>4, SettlementAccounted
  <2> QED
    BY <2>4, <2>5
<1>12. ASSUME NEW p \in Procs, CancelMark(p) PROVE MoneyAccounted'
  BY <1>a, <1>12 DEF CancelMark, wallets, ledger
<1>13. ASSUME NEW p \in Procs, AnswerFlag(p) PROVE MoneyAccounted'
  BY <1>a, <1>13 DEF AnswerFlag, wallets, ledger
<1>14. ASSUME NEW p \in Procs, AcceptConfirm(p) PROVE MoneyAccounted'
  BY <1>a, <1>14 DEF AcceptConfirm, wallets, ledger
<1>15. ASSUME NEW p \in Procs, RefuseCredit(p) PROVE MoneyAccounted'
  <2>1. job[p].booking \in Bookings
    BY <1>15, JobBooking DEF RefuseCredit, At
  <2> QED
    BY <1>0, <1>15, <2>1, RefundAccounted DEF RefuseCredit
<1>16. ASSUME NEW p \in Procs, RefuseMark(p) PROVE MoneyAccounted'
  BY <1>a, <1>16 DEF RefuseMark, wallets, ledger
<1>17. ASSUME NEW p \in Procs, CronCredit(p) PROVE MoneyAccounted'
  <2>1. PICK r \in job[p].todo :
            /\ Credit(request[r].booking,
                      FullRefund(Amount[request[r].booking]))
            /\ refunds' = [refunds EXCEPT ![request[r].booking] = @ + 1]
    BY <1>17 DEF CronCredit
  <2>2. request[r].booking \in Bookings
    BY <2>1 DEF TypeInv, JobsRemember, Remembers
  <2>3. UNCHANGED <<payouts, debits>>
    BY <1>17 DEF CronCredit
  <2> QED
    BY <1>0, <2>1, <2>2, <2>3, RefundAccounted
<1>18. ASSUME NEW p \in Procs, CronMark(p) PROVE MoneyAccounted'
  BY <1>a, <1>18 DEF CronMark, wallets, ledger
<1>19. ASSUME NEW p \in Procs, CronProcessed(p) PROVE MoneyAccounted'
  BY <1>a, <1>19 DEF CronProcessed, wallets, ledger
<1>20. ASSUME NEW p \in Procs, PickUp(p) PROVE MoneyAccounted'
  BY <1>a, <1>20 DEF PickUp, LastUpdate, wallets, ledger
<1>21. ASSUME NEW p \in Procs, ConditionsNotMet(p) PROVE MoneyAccounted'
  BY <1>a, <1>21 DEF ConditionsNotMet, LastUpdate, wallets, ledger
<1>22. ASSUME NEW p \in Procs, ProblemWithPackage(p) PROVE MoneyAccounted'
  BY <1>a, <1>22 DEF ProblemWithPackage, LastUpdate, wallets, ledger
<1>23. ASSUME NEW p \in Procs, Complete(p) PROVE MoneyAccounted'
  BY <1>a, <1>23 DEF Complete, LastUpdate, wallets, ledger
<1>24. ASSUME NEW p \in Procs, Reject(p) PROVE MoneyAccounted'
  BY <1>a, <1>24 DEF Reject, LastUpdate, wallets, ledger
<1>25. ASSUME NEW p \in Procs, DropOffMark(p) PROVE MoneyAccounted'
  BY <1>a, <1>25 DEF DropOffMark, wallets, ledger
<1>26. ASSUME NEW p \in Procs, DropOffPay(p) PROVE MoneyAccounted'
  <2> DEFINE b == job[p].booking
  <2>1. /\ b \in Bookings
        /\ Amount[b] \in Nat
        /\ PlatformPercentage \in Int
    BY <1>26, JobBooking, BookingAssumption
       DEF DropOffPay, At, BookingOps, RequiredStatus, BookingAssumption
  <2>2. PICK split \in DeliverySplits(Amount[b], PlatformPercentage) :
            Credit(b, split)
    BY <1>26 DEF DropOffPay
  <2>3. Paid(split) = Amount[b]
    BY <2>1, <2>2, DeliveryConserved DEF DeliveryConserves
  <2>4. /\ split.sender \in Int
        /\ split.traveller \in Int
        /\ split.platform \in Int
    BY <2>1, <2>2, DeliverySplit
  <2>5. /\ payouts' = [payouts EXCEPT ![b] = @ + 1]
        /\ UNCHANGED <<refunds, debits>>
    BY <1>26 DEF DropOffPay
  <2>6. Gained' = Gained + Amount[b]
    <3> HIDE DEF b
    <3> QED
      BY <1>0, <2>1, <2>2, <2>3, <2>4, CreditGains
  <2>7. /\ Due' = Due + Amount[b] * 1
        /\ Rounded' = Rounded + (IF Amount[b] % 25 = 0 THEN 0 ELSE 0)
    <3>1. /\ refunds'[b] = refunds[b] + 0
          /\ refunds'[b] + payouts'[b] - debits'[b]
                  = refunds[b] + payouts[b] - debits[b] + 1
          /\ \A c \in Bookings \ {b} : /\ refunds'[c] = refunds[c]
                                       /\ payouts'[c] = payouts[c]
                                       /\ debits'[c] = debits[c]
      BY <2>1, <2>5 DEF TypeInv, TypeOK
    <3> HIDE DEF b
    <3> QED
      BY <1>0, <2>1, <3>1, DueChanges
  <2>8. Gained \in Int /\ Due \in Int /\ Rounded \in Int
    BY AccountsType DEF AccountsTyped
  <2> QED
    BY <2>1, <2>6, <2>7, <2>8 DEF MoneyAccounted
<1>27. ASSUME NEW p \in Procs, Fail(p) PROVE MoneyAccounted'
  BY <1>a, <1>27 DEF Fail, wallets, ledger
<1>28. ASSUME NEW b \in Bookings, ChargeCard(b) PROVE MoneyAccounted'
  BY <1>a, <1>28 DEF ChargeCard, wallets
<1>29. ASSUME NEW b \in Bookings, NEW s \in Status, AdminSetStatus(b, s)
      PROVE  MoneyAccounted'
  BY <1>a, <1>29 DEF AdminSetStatus, wallets, ledger
<1>30. ASSUME NEW r \in Requests, BecomeOverdue(r) PROVE MoneyAccounted'
  BY <1>a, <1>30 DEF BecomeOverdue, wallets, ledger
<1>31. ASSUME NEW b \in Bookings, DepartureMoves(b) PROVE MoneyAccounted'
  BY <1>a, <1>31 DEF DepartureMoves, wallets, ledger
<1>32. CASE UNCHANGED vars
  BY <1>a, <1>32 DEF vars
<1>33. QED
  BY <1>1, <1>2, <1>3, <1>4, <1>5, <1>6, <1>7, <1>8, <1>9, <1>10, <1>11, <1>12,
     <1>13, <1>14, <1>15, <1>16, <1>17, <1>18, <1>19, <1>20, <1>21, <1>22,
     <1>23, <1>24, <1>25, <1>26, <1>27, <1>28, <1>29, <1>30, <1>31, <1>32
     DEF Next, Arrive, Continue

(* Across every handler, and whatever interleaves or fails, the money that *)
(* entered wallets and earnings is what settlements divided and the money  *)
(* that left is what payments took: exactly, when every amount divides     *)
(* into whole shares, and otherwise to within one unit a settlement.       *)
THEOREM MoneyIsAccounted == Spec => []MoneyAccounted
<1>1. Init => MoneyAccounted
  <2> SUFFICES ASSUME Init
               PROVE  MoneyAccounted
    OBVIOUS
  <2>1. TypeInv
    BY TypeInit
  <2>2. \A u \in Users : Gain[u] = 0
    BY BookingAssumption DEF Init, Gain, BookingAssumption
  <2>3. \A b \in Bookings : Dues[b] = 0 /\ Slacks[b] = 0
    BY BookingAssumption
       DEF Init, Dues, DueFor, Slacks, Slack, BookingAssumption
  <2>4. /\ SumFunction(Gain) = 0
        /\ SumFunction(Dues) = 0
        /\ SumFunction(Slacks) = 0
    BY <2>1, <2>2, <2>3, AccountsType, SumOfZeros, FiniteAssumption
       DEF AccountsTyped, FiniteAssumption
  <2>5. Gained = 0 /\ Due = 0 /\ Rounded = 0
    BY <2>1, <2>4, AccountsType DEF AccountsTyped, Init
  <2> QED
    BY <2>5 DEF MoneyAccounted
<1> QED
  BY <1>1, MoneyStep, TypeAlways, PTL DEF Spec

-----------------------------------------------------------------------------
(* One at a time.  Some promises are kept only while two handlers that     *)
(* concern each other are not in flight together.                          *)

(* No user has two wallet payments under way. *)
PaymentsAlone ==
    \A p, q \in Procs :
        /\ job[p].op = "payFromWallet" /\ job[q].op = "payFromWallet"
        /\ job[p].user = job[q].user
        => p = q

(* Only a commit takes from a wallet; nothing but PayCheck starts a        *)
(* payment, and none changes hands.                                        *)
NothingTaken == \A u \in Users : balance'[u] >= balance[u]

PaymentsCarriedOn ==
    \A q \in Procs : job'[q].op = "payFromWallet" =>
        /\ job[q].op = "payFromWallet"
        /\ job'[q].user = job[q].user
        /\ job'[q].booking = job[q].booking

WalletsRest == NothingTaken /\ PaymentsCarriedOn

(* A credit takes from nobody. *)
LEMMA CreditTakesNothing ==
    ASSUME balance \in [Users -> Int], NEW b, NEW split,
           split.sender \in Nat, split.traveller \in Nat, Credit(b, split)
    PROVE  NothingTaken
<1> SUFFICES ASSUME NEW u \in Users PROVE balance'[u] >= balance[u]
  BY DEF NothingTaken
<1> DEFINE mine == IF u = OwnerOf[b] THEN split.sender ELSE 0
           other == IF u = TravellerOf[b] THEN split.traveller ELSE 0
<1>1. balance'[u] = balance[u] + mine + other
  BY DEF Credit
<1>2. mine \in Nat /\ other \in Nat /\ balance[u] \in Int
  OBVIOUS
<1> HIDE DEF mine, other
<1> QED
  BY <1>1, <1>2

(* A delivery takes from nobody either: the commission is at most the      *)
(* amount.                                                                 *)
LEMMA DeliveryTakesNothing ==
    ASSUME NEW a \in Nat, NEW percent \in Int,
           NEW split \in DeliverySplits(a, percent)
    PROVE  split.sender \in Nat /\ split.traveller \in Nat
<1>0. PICK c \in Commissions(a, percent) :
        split = [sender |-> 0, traveller |-> a - c, platform |-> c]
  BY DEF DeliverySplits
<1>1. c \in 0 .. a
  BY CommissionBounds
<1> QED
  BY <1>0, <1>1

(* A step that neither starts a payment nor commits one leaves wallets and *)
(* payments at rest.                                                       *)
LEMMA WalletsAtRest ==
    ASSUME TypeInv, [Next]_vars, \A p \in Procs : ~PayCommit(p),
           \A p \in Procs, b \in Bookings, u \in Users : ~PayCheck(p, b, u)
    PROVE  WalletsRest
<1>0. /\ job \in [Procs -> Job]
      /\ balance \in [Users -> Int]
      /\ \A p \in Procs : ~PayCommit(p)
      /\ \A p \in Procs, b \in Bookings, u \in Users : ~PayCheck(p, b, u)
  BY DEF TypeInv, TypeOK
<1> USE DEF WalletsRest
<1>1. ASSUME NEW p \in Procs, NEW b \in Bookings, WebhookRecord(p, b)
      PROVE  WalletsRest
  BY <1>0, <1>1
     DEF WebhookRecord, Start, At, Idle, Job, tables, wallets, ledger,
         NothingTaken, PaymentsCarriedOn
<1>2. ASSUME NEW p \in Procs, NEW b \in Bookings, NEW u \in Users,
            PayCheck(p, b, u)
      PROVE  WalletsRest
  BY <1>0, <1>2
<1>3. ASSUME NEW p \in Procs, NEW b \in Bookings, NEW u \in Users,
            CancelCheck(p, b, u)
      PROVE  WalletsRest
  BY <1>0, <1>3
     DEF CancelCheck, Start, At, Idle, Job, tables, wallets, ledger,
         NothingTaken, PaymentsCarriedOn
<1>4. ASSUME NEW p \in Procs, NEW b \in Bookings, NEW op \in Ops,
            StatusCheck(p, b, op)
      PROVE  WalletsRest
  BY <1>0, <1>4
     DEF StatusCheck, Start, RequiredStatus, At, Idle, Job, tables, wallets,
         ledger, NothingTaken, PaymentsCarriedOn
<1>5. ASSUME NEW p \in Procs, NEW r \in Requests, NEW op \in Ops,
            AnswerCheck(p, r, op)
      PROVE  WalletsRest
  BY <1>0, <1>5
     DEF AnswerCheck, Start, Answers, Refusals, At, Idle, Job, tables, wallets,
         ledger, NothingTaken, PaymentsCarriedOn
<1>6. ASSUME NEW p \in Procs, CronSelect(p) PROVE WalletsRest
  BY <1>0, <1>6
     DEF CronSelect, Sweeping, Idle, wallets, NothingTaken, PaymentsCarriedOn
<1>7. ASSUME NEW p \in Procs, PayAnnounce(p) PROVE WalletsRest
  BY <1>0, <1>7
     DEF PayAnnounce, MoveTo, At, Idle, Job, tables, wallets, ledger,
         NothingTaken, PaymentsCarriedOn
<1>8. ASSUME NEW p \in Procs, PayConflict(p) PROVE WalletsRest
  BY <1>0, <1>8
     DEF PayConflict, Return, At, Idle, Job, tables, wallets, ledger,
         NothingTaken, PaymentsCarriedOn
<1>9. ASSUME NEW p \in Procs, PayCommit(p) PROVE WalletsRest
  BY <1>0, <1>9
<1>10. ASSUME NEW p \in Procs, WebhookAnnounce(p) PROVE WalletsRest
  BY <1>0, <1>10
     DEF WebhookAnnounce, Return, At, Idle, Job, tables, wallets, ledger,
         NothingTaken, PaymentsCarriedOn
<1>11. ASSUME NEW p \in Procs, CancelSettle(p) PROVE WalletsRest
  <2> DEFINE b == job[p].booking
             split == IF job[p].user = TravellerOf[b]
                         THEN FullRefund(Amount[b])
                         ELSE SenderCancelSplit(Amount[b], hoursLeft[b])
  <2>1. b \in Bookings
    BY <1>11, JobBooking DEF CancelSettle, At, BookingOps
  <2>2. Amount[b] \in Nat /\ hoursLeft[b] \in Int
    BY <2>1, BookingAssumption DEF BookingAssumption, TypeInv, TypeOK
  <2>3. split \in Split
    BY <2>2, RefundSplit, CancelSplit
  <2>4. Credit(b, split)
    BY <1>11 DEF CancelSettle
  <2>5. split.sender \in Nat /\ split.traveller \in Nat
    BY <2>3 DEF Split
  <2>6. NothingTaken
    <3> HIDE DEF b, split
    <3> QED
      BY <1>0, <2>4, <2>5, CreditTakesNothing
  <2>7. PaymentsCarriedOn
    BY <1>0, <1>11 DEF CancelSettle, MoveTo, At, Job, PaymentsCarriedOn
  <2> QED
    BY <2>6, <2>7
<1>12. ASSUME NEW p \in Procs, CancelMark(p) PROVE WalletsRest
  BY <1>0, <1>12
     DEF CancelMark, Return, At, Idle, Job, tables, wallets, ledger,
         NothingTaken, PaymentsCarriedOn
<1>13. ASSUME NEW p \in Procs, AnswerFlag(p) PROVE WalletsRest
  BY <1>0, <1>13
     DEF AnswerFlag, MoveTo, Return, At, Idle, Job, tables, wallets, ledger,
         NothingTaken, PaymentsCarriedOn
<1>14. ASSUME NEW p \in Procs, AcceptConfirm(p) PROVE WalletsRest
  BY <1>0, <1>14
     DEF AcceptConfirm, Return, At, Idle, Job, tables, wallets, ledger,
         NothingTaken, PaymentsCarriedOn
<1>15. ASSUME NEW p \in Procs, RefuseCredit(p) PROVE WalletsRest
  <2> DEFINE b == job[p].booking
             split == FullRefund(Amount[b])
  <2>1. b \in Bookings
    BY <1>15, JobBooking DEF RefuseCredit, At
  <2>2. split.sender \in Nat /\ split.traveller \in Nat
    BY <2>1, BookingAssumption DEF BookingAssumption, FullRefund
  <2>3. Credit(b, split)
    BY <1>15 DEF RefuseCredit
  <2>4. NothingTaken
    <3> HIDE DEF b, split
    <3> QED
      BY <1>0, <2>2, <2>3, CreditTakesNothing
  <2>5. PaymentsCarriedOn
    BY <1>0, <1>15 DEF RefuseCredit, MoveTo, At, Job, PaymentsCarriedOn
  <2> QED
    BY <2>4, <2>5
<1>16. ASSUME NEW p \in Procs, RefuseMark(p) PROVE WalletsRest
  BY <1>0, <1>16
     DEF RefuseMark, Return, At, Idle, Job, tables, wallets, ledger,
         NothingTaken, PaymentsCarriedOn
<1>17. ASSUME NEW p \in Procs, CronCredit(p) PROVE WalletsRest
  <2>1. PICK r \in job[p].todo :
            /\ Credit(request[r].booking,
                      FullRefund(Amount[request[r].booking]))
            /\ job' = [job EXCEPT ![p].at = "credited", ![p].request = r,
                                  ![p].booking = request[r].booking]
    BY <1>17 DEF CronCredit
  <2> DEFINE b == request[r].booking
             split == FullRefund(Amount[b])
  <2>2. b \in Bookings /\ job[p].op = "expire"
    BY <1>17, <2>1 DEF CronCredit, At, TypeInv, JobsRemember, Remembers
  <2>3. split.sender \in Nat /\ split.traveller \in Nat
    BY <2>2, BookingAssumption DEF BookingAssumption, FullRefund
  <2>4. NothingTaken
    <3>1. Credit(b, split)
      BY <2>1
    <3> HIDE DEF b, split
    <3> QED
      BY <1>0, <2>3, <3>1, CreditTakesNothing
  <2>5. PaymentsCarriedOn
    BY <1>0, <2>1, <2>2 DEF Job, PaymentsCarriedOn
  <2> QED
    BY <2>4, <2>5
<1>18. ASSUME NEW p \in Procs, CronMark(p) PROVE WalletsRest
  BY <1>0, <1>18
     DEF CronMark, MoveTo, At, Idle, Job, tables, wallets, ledger,
         NothingTaken, PaymentsCarriedOn
<1>19. ASSUME NEW p \in Procs, CronProcessed(p) PROVE WalletsRest
  BY <1>0, <1>19
     DEF CronProcessed, Sweeping, At, Idle, Job, tables, wallets, ledger,
         NothingTaken, PaymentsCarriedOn
<1>20. ASSUME NEW p \in Procs, PickUp(p) PROVE WalletsRest
  BY <1>0, <1>20
     DEF PickUp, LastUpdate, Row, Return, At, Idle, Job, tables, wallets,
         ledger, NothingTaken, PaymentsCarriedOn
<1>21. ASSUME NEW p \in Procs, ConditionsNotMet(p) PROVE WalletsRest
  BY <1>0, <1>21
     DEF ConditionsNotMet, LastUpdate, Row, Return, At, Idle, Job, tables,
         wallets, ledger, NothingTaken, PaymentsCarriedOn
<1>22. ASSUME NEW p \in Procs, ProblemWithPackage(p) PROVE WalletsRest
  BY <1>0, <1>22
     DEF ProblemWithPackage, LastUpdate, Row, Return, At, Idle, Job, tables,
         wallets, ledger, NothingTaken, PaymentsCarriedOn
<1>23. ASSUME NEW p \in Procs, Complete(p) PROVE WalletsRest
  BY <1>0, <1>23
     DEF Complete, LastUpdate, Row, Return, At, Idle, Job, tables, wallets,
         ledger, NothingTaken, PaymentsCarriedOn
<1>24. ASSUME NEW p \in Procs, Reject(p) PROVE WalletsRest
  BY <1>0, <1>24
     DEF Reject, LastUpdate, Row, Return, At, Idle, Job, tables, wallets,
         ledger, NothingTaken, PaymentsCarriedOn
<1>25. ASSUME NEW p \in Procs, DropOffMark(p) PROVE WalletsRest
  BY <1>0, <1>25
     DEF DropOffMark, MoveTo, At, Idle, Job, tables, wallets, ledger,
         NothingTaken, PaymentsCarriedOn
<1>26. ASSUME NEW p \in Procs, DropOffPay(p) PROVE WalletsRest
  <2> DEFINE b == job[p].booking
  <2>1. b \in Bookings
    BY <1>26, JobBooking DEF DropOffPay, At, BookingOps, RequiredStatus
  <2>2. PICK split \in DeliverySplits(Amount[b], PlatformPercentage) :
            Credit(b, split)
    BY <1>26 DEF DropOffPay
  <2>3. split.sender \in Nat /\ split.traveller \in Nat
    BY <2>1, <2>2, BookingAssumption, DeliveryTakesNothing
       DEF BookingAssumption
  <2>4. NothingTaken
    BY <1>0, <2>2, <2>3, CreditTakesNothing
  <2>5. PaymentsCarriedOn
    BY <1>0, <1>26 DEF DropOffPay, Return, Idle, Job, PaymentsCarriedOn
  <2> QED
    BY <2>4, <2>5
<1>27. ASSUME NEW p \in Procs, Fail(p) PROVE WalletsRest
  BY <1>0, <1>27
     DEF Fail, Return, At, Idle, Job, tables, wallets, ledger, NothingTaken,
         PaymentsCarriedOn
<1>28. ASSUME NEW b \in Bookings, ChargeCard(b) PROVE WalletsRest
  BY <1>0, <1>28
     DEF ChargeCard, At, Idle, Job, tables, wallets, ledger, NothingTaken,
         PaymentsCarriedOn
<1>29. ASSUME NEW b \in Bookings, NEW s \in Status, AdminSetStatus(b, s)
      PROVE  WalletsRest
  BY <1>0, <1>29
     DEF AdminSetStatus, At, Idle, Job, tables, wallets, ledger, NothingTaken,
         PaymentsCarriedOn
<1>30. ASSUME NEW r \in Requests, BecomeOverdue(r) PROVE WalletsRest
  BY <1>0, <1>30
     DEF BecomeOverdue, At, Idle, Job, tables, wallets, ledger, NothingTaken,
         PaymentsCarriedOn
<1>31. ASSUME NEW b \in Bookings, DepartureMoves(b) PROVE WalletsRest
  BY <1>0, <1>31
     DEF DepartureMoves, At, Idle, Job, tables, wallets, ledger, NothingTaken,
         PaymentsCarriedOn
<1>32. CASE UNCHANGED vars
  BY <1>0, <1>32
     DEF vars, At, Idle, Job, NothingTaken, PaymentsCarriedOn
<1>33. QED
  BY <1>1, <1>2, <1>3, <1>4, <1>5, <1>6, <1>7, <1>8, <1>9, <1>10, <1>11, <1>12,
     <1>13, <1>14, <1>15, <1>16, <1>17, <1>18, <1>19, <1>20, <1>21, <1>22,
     <1>23, <1>24, <1>25, <1>26, <1>27, <1>28, <1>29, <1>30, <1>31, <1>32
     DEF Next, Arrive, Continue

(* While payments are alone, a payment that has been checked is covered.   *)
CoveredInv ==
    /\ NoOverdraft
    /\ \A p \in Procs : job[p].op = "payFromWallet" =>
            balance[job[p].user] >= Amount[job[p].booking]

(* Every step between states where payments are alone keeps them covered.  *)
LEMMA CoveredStep ==
    TypeInv /\ CoveredInv /\ PaymentsAlone /\ [Next]_vars => CoveredInv'
<1> SUFFICES ASSUME TypeInv, CoveredInv, PaymentsAlone, [Next]_vars
             PROVE  CoveredInv'
  OBVIOUS
<1>0. /\ job \in [Procs -> Job]
      /\ balance \in [Users -> Int]
      /\ \A b \in Bookings : Amount[b] \in Nat
      /\ \A p \in Procs : job[p].op = "payFromWallet" =>
            job[p].user \in Users /\ job[p].booking \in Bookings
  BY BookingAssumption
     DEF BookingAssumption, TypeInv, TypeOK, JobsRemember, Remembers,
         BookingOps
<1>1. ASSUME NEW p \in Procs, NEW b \in Bookings, NEW u \in Users,
            PayCheck(p, b, u)
      PROVE  CoveredInv'
  <2>1. /\ balance[u] >= Amount[b]
        /\ UNCHANGED balance
        /\ job'[p].user = u
        /\ job'[p].booking = b
        /\ \A q \in Procs \ {p} : job'[q] = job[q]
    BY <1>0, <1>1 DEF PayCheck, Start, wallets
  <2> QED
    BY <2>1 DEF CoveredInv, NoOverdraft
<1>2. ASSUME NEW p \in Procs, PayCommit(p) PROVE CoveredInv'
  <2> DEFINE b == job[p].booking
  <2>1. PICK u \in Users : u = job[p].user
    BY <1>0, <1>2 DEF PayCommit, InPayment, At
  <2>2. job[p].op = "payFromWallet"
    BY <1>2 DEF PayCommit, InPayment, At
  <2>3. /\ b \in Bookings
        /\ Amount[b] \in Nat
        /\ balance[u] >= Amount[b]
    BY <1>0, <2>1, <2>2 DEF CoveredInv
  <2>4. /\ balance'[u] = balance[u] - Amount[b]
        /\ \A v \in Users \ {u} : balance'[v] = balance[v]
    BY <1>0, <1>2, <2>1 DEF PayCommit
  <2>5. /\ job'[p] = Idle
        /\ \A q \in Procs \ {p} : job'[q] = job[q]
    BY <1>0, <1>2 DEF PayCommit, Return
  <2>6. NoOverdraft'
    BY <1>0, <2>1, <2>3, <2>4 DEF CoveredInv, NoOverdraft
  <2>7. \A q \in Procs : job'[q].op = "payFromWallet" =>
            /\ job'[q] = job[q]
            /\ job[q].user \in Users \ {u}
    BY <1>0, <2>1, <2>2, <2>5 DEF PaymentsAlone, Idle
  <2> QED
    BY <2>4, <2>6, <2>7 DEF CoveredInv
<1>3. CASE /\ \A p \in Procs : ~PayCommit(p)
           /\ \A p \in Procs, b \in Bookings, u \in Users : ~PayCheck(p, b, u)
  <2>1. NothingTaken /\ PaymentsCarriedOn
    BY <1>3, WalletsAtRest DEF WalletsRest
  <2>2. balance' \in [Users -> Int]
    BY TypeStep DEF TypeInv, TypeOK
  <2>3. NoOverdraft'
    BY <1>0, <2>1, <2>2 DEF NothingTaken, CoveredInv, NoOverdraft
  <2>4. ASSUME NEW q \in Procs, job'[q].op = "payFromWallet"
        PROVE  balance'[job'[q].user] >= Amount[job'[q].booking]
    <3>1. /\ job[q].op = "payFromWallet"
          /\ job'[q].user = job[q].user
          /\ job'[q].booking = job[q].booking
      BY <2>1, <2>4 DEF PaymentsCarriedOn
    <3>2. /\ balance[job[q].user] >= Amount[job[q].booking]
          /\ balance'[job[q].user] >= balance[job[q].user]
      BY <1>0, <2>1, <3>1 DEF CoveredInv, NothingTaken
    <3> QED
      BY <1>0, <2>2, <3>1, <3>2
  <2> QED
    BY <2>3, <2>4 DEF CoveredInv
<1> QED
  BY <1>1, <1>2, <1>3

(* As long as no user has two wallet payments under way, and whatever else *)
(* is in flight or fails, completeBookingWithWallet overdraws no wallet.   *)
THEOREM WalletsAreCovered == Spec /\ []PaymentsAlone => []NoOverdraft
<1>1. Init => CoveredInv
  BY BookingAssumption
     DEF Init, CoveredInv, NoOverdraft, Idle, BookingAssumption
<1>2. TypeInv /\ CoveredInv /\ PaymentsAlone /\ [Next]_vars => CoveredInv'
  BY CoveredStep
<1>3. CoveredInv => NoOverdraft
  BY DEF CoveredInv
<1> QED
  BY <1>1, <1>2, <1>3, TypeAlways, PTL DEF Spec

-----------------------------------------------------------------------------
(* Requests alone *)

(* The job is an answer that has found its request unanswered and is about *)
(* to write it.                                                            *)
Answering(j) == j.op \in Answers /\ j.at = "checked"

(* No request is about to be answered while another handler is about to    *)
(* answer it too, or the cron has it selected.                             *)
RequestsAlone ==
    \A p, q \in Procs : Answering(job[p]) /\ p # q =>
        /\ Answering(job[q]) => job[q].request # job[p].request
        /\ job[p].request \notin job[q].todo

(* The row is a request without an answer. *)
Open(row) ==
    /\ row.about # NoBooking
    /\ ~row.is_accepted
    /\ ~row.is_refused
    /\ ~row.is_processed

(* What the job has read about requests still holds: the one it is about   *)
(* to answer is open, and none the cron has selected is accepted.          *)
Held(rows, j) ==
    /\ Answering(j) => Open(rows[j.request])
    /\ j.todo # {} => j.op = "expire"
    /\ j.op = "expire" /\ j.at # "next" => j.request \in j.todo
    /\ \A r \in j.todo : ~rows[r].is_accepted

HeldInv == \A p \in Procs : Held(request, job[p])

(* Nothing the job holds has been answered. *)
Untouched(rows, later, j) ==
    /\ Answering(j) /\ Open(rows[j.request]) => Open(later[j.request])
    /\ \A r \in j.todo : ~rows[r].is_accepted => ~later[r].is_accepted

(* When only p moves, and what the others hold is untouched, all is held.  *)
LEMMA JobsStillHeld ==
    ASSUME HeldInv, NEW p \in Procs,
           \A q \in Procs \ {p} : /\ job'[q] = job[q]
                                  /\ Untouched(request, request', job[q]),
           Held(request', job'[p])
    PROVE  HeldInv'
<1> SUFFICES ASSUME NEW q \in Procs
             PROVE  Held(request', job'[q])
  BY DEF HeldInv
<1>1. CASE q = p
  BY <1>1
<1>2. CASE q # p
  BY <1>2 DEF HeldInv, Held, Untouched
<1> QED
  BY <1>1, <1>2

(* When the rows stay, it is enough to look at p. *)
LEMMA SameRowsHeld ==
    ASSUME HeldInv, NEW p \in Procs, UNCHANGED request,
           \A q \in Procs \ {p} : job'[q] = job[q],
           Held(request, job'[p])
    PROVE  HeldInv'
  BY JobsStillHeld DEF Untouched

(* A handler that goes on, past the answer it gave or with no answer to    *)
(* give, holds no more than before.                                        *)
LEMMA MoveHolds ==
    ASSUME NEW rows, NEW j \in Job, Held(rows, j), NEW place,
           place # "checked", j.op = "expire" => j.at # "next"
    PROVE  Held(rows, [j EXCEPT !.at = place])
  BY DEF Held, Answering, Job

LEMMA IdleHolds ==
    ASSUME NEW rows
    PROVE  Held(rows, Idle)
  BY DEF Held, Answering, Idle, Answers, Refusals

(* Announcing touches no request that exists. *)
LEMMA AnnounceUntouched ==
    ASSUME TypeInv, NEW r \in Requests, NEW b \in Bookings,
           NEW link \in Bookings \cup {NoBooking}, Announce(r, b, link),
           NEW q \in Procs
    PROVE  Untouched(request, request', job[q])
<1>1. /\ request \in [Requests -> Request]
      /\ job[q].todo \in SUBSET Requests
      /\ Answering(job[q]) => job[q].request \in Requests
  BY DEF TypeInv, TypeOK, JobsRemember, Remembers, Answering, Job
<1>2. /\ \A s \in Requests \ {r} : request'[s] = request[s]
      /\ request[r].about = NoBooking
      /\ ~request'[r].is_accepted
  BY <1>1 DEF Announce, NoRow, Request
<1> QED
  BY <1>1, <1>2 DEF Untouched, Open

(* Every step between states where requests are alone keeps what is held.  *)
LEMMA HeldStep ==
    ASSUME TypeInv, HeldInv, RequestsAlone, [Next]_vars
    PROVE  HeldInv'
<1>0. /\ job \in [Procs -> Job]
      /\ request \in [Requests -> Request]
      /\ HeldInv
      /\ \A q \in Procs : /\ Answering(job[q]) => job[q].request \in Requests
                          /\ job[q].todo \in SUBSET Requests
                          /\ Held(request, job[q])
  BY DEF TypeInv, TypeOK, JobsRemember, Remembers, Answering, Job, HeldInv
<1>1. ASSUME NEW p \in Procs, NEW b \in Bookings, WebhookRecord(p, b)
      PROVE  HeldInv'
  <2>1. /\ UNCHANGED request
        /\ \A q \in Procs \ {p} : job'[q] = job[q]
        /\ job'[p].todo = {}
        /\ job'[p].op = "webhook"
    BY <1>0, <1>1 DEF WebhookRecord, Start, tables
  <2>2. Held(request, job'[p])
    BY <1>1, <2>1 DEF Held, Answering, Answers, Refusals
  <2> QED
    BY <1>0, <2>1, <2>2, SameRowsHeld
<1>2. ASSUME NEW p \in Procs, NEW b \in Bookings, NEW u \in Users,
            PayCheck(p, b, u)
      PROVE  HeldInv'
  <2>1. /\ UNCHANGED request
        /\ \A q \in Procs \ {p} : job'[q] = job[q]
        /\ job'[p].todo = {}
        /\ job'[p].op = "payFromWallet"
    BY <1>0, <1>2 DEF PayCheck, Start, tables
  <2>2. Held(request, job'[p])
    BY <1>2, <2>1 DEF Held, Answering, Answers, Refusals
  <2> QED
    BY <1>0, <2>1, <2>2, SameRowsHeld
<1>3. ASSUME NEW p \in Procs, NEW b \in Bookings, NEW u \in Users,
            CancelCheck(p, b, u)
      PROVE  HeldInv'
  <2>1. /\ UNCHANGED request
        /\ \A q \in Procs \ {p} : job'[q] = job[q]
        /\ job'[p].todo = {}
        /\ job'[p].op = "cancel"
    BY <1>0, <1>3 DEF CancelCheck, Start, tables
  <2>2. Held(request, job'[p])
    BY <1>3, <2>1 DEF Held, Answering, Answers, Refusals
  <2> QED
    BY <1>0, <2>1, <2>2, SameRowsHeld
<1>4. ASSUME NEW p \in Procs, NEW b \in Bookings, NEW op \in Ops,
            StatusCheck(p, b, op)
      PROVE  HeldInv'
  <2>1. /\ UNCHANGED request
        /\ \A q \in Procs \ {p} : job'[q] = job[q]
        /\ job'[p].todo = {}
        /\ job'[p].op = op
        /\ op \in DOMAIN RequiredStatus
    BY <1>0, <1>4 DEF StatusCheck, Start, tables
  <2>2. Held(request, job'[p])
    BY <2>1 DEF Held, Answering, Answers, Refusals, RequiredStatus
  <2> QED
    BY <1>0, <2>1, <2>2, SameRowsHeld
<1>5. ASSUME NEW p \in Procs, NEW r \in Requests, NEW op \in Ops,
            AnswerCheck(p, r, op)
      PROVE  HeldInv'
  <2>1. /\ UNCHANGED request
        /\ \A q \in Procs \ {p} : job'[q] = job[q]
        /\ job'[p].todo = {}
        /\ job'[p].op = op
        /\ job'[p].request = r
        /\ op \in Answers
        /\ Open(request[r])
    BY <1>0, <1>5 DEF AnswerCheck, Start, tables, Unanswered, Open
  <2>2. Held(request, job'[p])
    BY <2>1 DEF Held, Answering, Answers, Refusals
  <2> QED
    BY <1>0, <2>1, <2>2, SameRowsHeld
<1>6. ASSUME NEW p \in Procs, CronSelect(p) PROVE HeldInv'
  <2>1. /\ UNCHANGED request
        /\ job'[p] = Sweeping(Expirable)
        /\ \A q \in Procs \ {p} : job'[q] = job[q]
    BY <1>0, <1>6 DEF CronSelect, tables
  <2>2. \A r \in Expirable : ~request[r].is_accepted
    BY DEF Expirable, Unanswered
  <2>3. Held(request, Sweeping(Expirable))
    BY <2>2 DEF Held, Answering, Sweeping, Answers, Refusals
  <2> QED
    BY <1>0, <2>1, <2>3, SameRowsHeld
<1>7. ASSUME NEW p \in Procs, PayAnnounce(p) PROVE HeldInv'
  <2>1. PICK r \in Requests : Announce(r, job[p].booking, job[p].booking)
    BY <1>7 DEF PayAnnounce
  <2>2. job[p].booking \in Bookings /\ job[p].op = "payFromWallet"
    BY <1>7, JobBooking DEF PayAnnounce, At, BookingOps
  <2>3. \A q \in Procs : Untouched(request, request', job[q])
    BY <2>1, <2>2, AnnounceUntouched
  <2>4. \A q \in Procs \ {p} : job'[q] = job[q]
    BY <1>0, <1>7 DEF PayAnnounce, MoveTo
  <2>5. Held(request', job'[p])
    <3>1. job'[p] = [job[p] EXCEPT !.at = "announced"]
      BY <1>0, <1>7 DEF PayAnnounce, MoveTo
    <3>2. job[p].todo = {}
      BY <1>0, <2>2 DEF Held
    <3> QED
      BY <1>0, <2>2, <3>1, <3>2 DEF Held, Answering, Answers, Refusals, Job
  <2> QED
    BY <1>0, <2>3, <2>4, <2>5, JobsStillHeld
<1>8. ASSUME NEW p \in Procs, PayConflict(p) PROVE HeldInv'
  <2>1. UNCHANGED request /\ Return(p)
    BY <1>8 DEF PayConflict, tables
  <2> QED
    BY <1>0, <2>1, IdleHolds, SameRowsHeld DEF Return
<1>9. ASSUME NEW p \in Procs, PayCommit(p) PROVE HeldInv'
  <2>1. UNCHANGED request /\ Return(p)
    BY <1>9 DEF PayCommit
  <2> QED
    BY <1>0, <2>1, IdleHolds, SameRowsHeld DEF Return
<1>10. ASSUME NEW p \in Procs, WebhookAnnounce(p) PROVE HeldInv'
  <2>1. PICK r \in Requests : Announce(r, job[p].booking, NoBooking)
    BY <1>10 DEF WebhookAnnounce
  <2>2. job[p].booking \in Bookings /\ job[p].op = "webhook"
    BY <1>10, JobBooking DEF WebhookAnnounce, At, BookingOps
  <2>3. \A q \in Procs : Untouched(request, request', job[q])
    BY <2>1, <2>2, AnnounceUntouched
  <2>4. \A q \in Procs \ {p} : job'[q] = job[q]
    BY <1>0, <1>10 DEF WebhookAnnounce, Return
  <2>5. Held(request', job'[p])
    BY <1>0, <1>10, IdleHolds DEF WebhookAnnounce, Return
  <2> QED
    BY <1>0, <2>3, <2>4, <2>5, JobsStillHeld
<1>11. ASSUME NEW p \in Procs, CancelSettle(p) PROVE HeldInv'
  <2>1. /\ UNCHANGED request
        /\ \A q \in Procs \ {p} : job'[q] = job[q]
        /\ job'[p] = [job[p] EXCEPT !.at = "credited"]
        /\ job[p].op = "expire" => job[p].at # "next"
    BY <1>0, <1>11 DEF CancelSettle, At, MoveTo, tables
  <2>2. Held(request, [job[p] EXCEPT !.at = "credited"])
    BY <1>0, <2>1, MoveHolds
  <2> QED
    BY <1>0, <2>1, <2>2, SameRowsHeld
<1>12. ASSUME NEW p \in Procs, CancelMark(p) PROVE HeldInv'
  <2>1. UNCHANGED request /\ Return(p)
    BY <1>12 DEF CancelMark
  <2> QED
    BY <1>0, <2>1, IdleHolds, SameRowsHeld DEF Return
<1>13. ASSUME NEW p \in Procs, AnswerFlag(p) PROVE HeldInv'
  <2> DEFINE r == job[p].request
  <2>1. Answering(job[p]) /\ r \in Requests
    BY <1>0, <1>13 DEF AnswerFlag, At, Answering
  <2>2. /\ \A s \in Requests \ {r} : request'[s] = request[s]
        /\ \A q \in Procs \ {p} : job'[q] = job[q]
        /\ \/ job'[p] = Idle
           \/ job'[p] = [job[p] EXCEPT !.at = "flagged"]
    BY <1>0, <1>13, <2>1 DEF AnswerFlag, MoveTo, Return
  <2>3. \A q \in Procs \ {p} : Untouched(request, request', job[q])
    BY <1>0, <2>1, <2>2 DEF RequestsAlone, Untouched
  <2>4. job[p].todo = {}
    BY <1>0, <2>1 DEF Held, Answering, Answers, Refusals
  <2>5. Held(request', [job[p] EXCEPT !.at = "flagged"])
    BY <1>0, <2>1, <2>4 DEF Held, Answering, Answers, Refusals, Job
  <2>6. Held(request', job'[p])
    BY <2>2, <2>5, IdleHolds
  <2> QED
    BY <1>0, <2>2, <2>3, <2>6, JobsStillHeld
<1>14. ASSUME NEW p \in Procs, AcceptConfirm(p) PROVE HeldInv'
  <2>1. UNCHANGED request /\ Return(p)
    BY <1>14 DEF AcceptConfirm
  <2> QED
    BY <1>0, <2>1, IdleHolds, SameRowsHeld DEF Return
<1>15. ASSUME NEW p \in Procs, RefuseCredit(p) PROVE HeldInv'
  <2>1. /\ UNCHANGED request
        /\ \A q \in Procs \ {p} : job'[q] = job[q]
        /\ job'[p] = [job[p] EXCEPT !.at = "credited"]
        /\ job[p].op = "expire" => job[p].at # "next"
    BY <1>0, <1>15 DEF RefuseCredit, At, MoveTo, tables, Refusals
  <2>2. Held(request, [job[p] EXCEPT !.at = "credited"])
    BY <1>0, <2>1, MoveHolds
  <2> QED
    BY <1>0, <2>1, <2>2, SameRowsHeld
<1>16. ASSUME NEW p \in Procs, RefuseMark(p) PROVE HeldInv'
  <2>1. UNCHANGED request /\ Return(p)
    BY <1>16 DEF RefuseMark
  <2> QED
    BY <1>0, <2>1, IdleHolds, SameRowsHeld DEF Return
<1>17. ASSUME NEW p \in Procs, CronCredit(p) PROVE HeldInv'
  <2>1. PICK r \in job[p].todo :
            job' = [job EXCEPT ![p].at = "credited", ![p].request = r,
                               ![p].booking = request[r].booking]
    BY <1>17 DEF CronCredit
  <2>2. /\ UNCHANGED request
        /\ job[p].op = "expire"
        /\ \A q \in Procs \ {p} : job'[q] = job[q]
    BY <1>0, <1>17, <2>1 DEF CronCredit, At, tables
  <2>3. /\ job'[p].op = job[p].op
        /\ job'[p].todo = job[p].todo
        /\ job'[p].request = r
    BY <1>0, <2>1 DEF Job
  <2>4. Held(request, job'[p])
    BY <1>0, <2>2, <2>3 DEF Held, Answering, Answers, Refusals
  <2> QED
    BY <1>0, <2>2, <2>4, SameRowsHeld
<1>18. ASSUME NEW p \in Procs, CronMark(p) PROVE HeldInv'
  <2>1. /\ UNCHANGED request
        /\ \A q \in Procs \ {p} : job'[q] = job[q]
        /\ job'[p] = [job[p] EXCEPT !.at = "marked"]
        /\ job[p].op = "expire" => job[p].at # "next"
    BY <1>0, <1>18 DEF CronMark, At, MoveTo, tables
  <2>2. Held(request, [job[p] EXCEPT !.at = "marked"])
    BY <1>0, <2>1, MoveHolds
  <2> QED
    BY <1>0, <2>1, <2>2, SameRowsHeld
<1>19. ASSUME NEW p \in Procs, CronProcessed(p) PROVE HeldInv'
  <2> DEFINE r == job[p].request
             rest == job[p].todo \ {r}
  <2>1. /\ job[p].op = "expire"
        /\ r \in job[p].todo
        /\ r \in Requests
    BY <1>0, <1>19 DEF CronProcessed, At, Held
  <2>2. /\ request' = [request EXCEPT ![r].is_processed = TRUE]
        /\ job'[p] = IF rest = {} THEN Idle ELSE Sweeping(rest)
        /\ \A q \in Procs \ {p} : job'[q] = job[q]
    BY <1>0, <1>19 DEF CronProcessed
  <2>3. \A s \in Requests :
            /\ request'[s].is_accepted = request[s].is_accepted
            /\ s # r => request'[s] = request[s]
    BY <1>0, <2>1, <2>2 DEF Request
  <2>4. \A q \in Procs \ {p} :
            Answering(job[q]) => job[q].request # r
    BY <2>1 DEF RequestsAlone
  <2>5. \A q \in Procs \ {p} : Untouched(request, request', job[q])
    BY <1>0, <2>3, <2>4 DEF Untouched
  <2>6. Held(request', Sweeping(rest))
    BY <1>0, <2>1, <2>3
       DEF Held, Answering, Sweeping, Answers, Refusals
  <2>7. Held(request', job'[p])
    BY <2>2, <2>6, IdleHolds
  <2> QED
    BY <1>0, <2>2, <2>5, <2>7, JobsStillHeld
<1>20. ASSUME NEW p \in Procs, PickUp(p) PROVE HeldInv'
  <2>1. UNCHANGED request /\ Return(p)
    BY <1>20 DEF PickUp, LastUpdate
  <2> QED
    BY <1>0, <2>1, IdleHolds, SameRowsHeld DEF Return
<1>21. ASSUME NEW p \in Procs, ConditionsNotMet(p) PROVE HeldInv'
  <2>1. UNCHANGED request /\ Return(p)
    BY <1>21 DEF ConditionsNotMet, LastUpdate
  <2> QED
    BY <1>0, <2>1, IdleHolds, SameRowsHeld DEF Return
<1>22. ASSUME NEW p \in Procs, ProblemWithPackage(p) PROVE HeldInv'
  <2>1. UNCHANGED request /\ Return(p)
    BY <1>22 DEF ProblemWithPackage, LastUpdate
  <2> QED
    BY <1>0, <2>1, IdleHolds, SameRowsHeld DEF Return
<1>23. ASSUME NEW p \in Procs, Complete(p) PROVE HeldInv'
  <2>1. UNCHANGED request /\ Return(p)
    BY <1>23 DEF Complete, LastUpdate
  <2> QED
    BY <1>0, <2>1, IdleHolds, SameRowsHeld DEF Return
<1>24. ASSUME NEW p \in Procs, Reject(p) PROVE HeldInv'
  <2>1. UNCHANGED request /\ Return(p)
    BY <1>24 DEF Reject, LastUpdate
  <2> QED
    BY <1>0, <2>1, IdleHolds, SameRowsHeld DEF Return
<1>25. ASSUME NEW p \in Procs, DropOffMark(p) PROVE HeldInv'
  <2>1. /\ UNCHANGED request
        /\ \A q \in Procs \ {p} : job'[q] = job[q]
        /\ job'[p] = [job[p] EXCEPT !.at = "delivered"]
        /\ job[p].op = "expire" => job[p].at # "next"
    BY <1>0, <1>25 DEF DropOffMark, At, MoveTo, tables
  <2>2. Held(request, [job[p] EXCEPT !.at = "delivered"])
    BY <1>0, <2>1, MoveHolds
  <2> QED
    BY <1>0, <2>1, <2>2, SameRowsHeld
<1>26. ASSUME NEW p \in Procs, DropOffPay(p) PROVE HeldInv'
  <2>1. UNCHANGED request /\ Return(p)
    BY <1>26 DEF DropOffPay, tables
  <2> QED
    BY <1>0, <2>1, IdleHolds, SameRowsHeld DEF Return
<1>27. ASSUME NEW p \in Procs, Fail(p) PROVE HeldInv'
  <2>1. UNCHANGED request /\ Return(p)
    BY <1>27 DEF Fail, tables
  <2> QED
    BY <1>0, <2>1, IdleHolds, SameRowsHeld DEF Return
<1>28. ASSUME NEW b \in Bookings, ChargeCard(b) PROVE HeldInv'
  BY <1>0, <1>28 DEF ChargeCard, tables, HeldInv
<1>29. ASSUME NEW b \in Bookings, NEW s \in Status, AdminSetStatus(b, s)
      PROVE  HeldInv'
  BY <1>0, <1>29 DEF AdminSetStatus, tables, HeldInv
<1>30. ASSUME NEW r \in Requests, BecomeOverdue(r) PROVE HeldInv'
  <2>1. /\ UNCHANGED job
        /\ \A s \in Requests :
            /\ Open(request[s]) => Open(request'[s])
            /\ request'[s].is_accepted = request[s].is_accepted
    BY <1>0, <1>30 DEF BecomeOverdue, Open, Request
  <2> QED
    BY <1>0, <2>1 DEF HeldInv, Held
<1>31. ASSUME NEW b \in Bookings, DepartureMoves(b) PROVE HeldInv'
  BY <1>0, <1>31 DEF DepartureMoves, tables, HeldInv
<1>32. CASE UNCHANGED vars
  BY <1>0, <1>32 DEF vars, HeldInv
<1>33. QED
  BY <1>1, <1>2, <1>3, <1>4, <1>5, <1>6, <1>7, <1>8, <1>9, <1>10, <1>11, <1>12,
     <1>13, <1>14, <1>15, <1>16, <1>17, <1>18, <1>19, <1>20, <1>21, <1>22,
     <1>23, <1>24, <1>25, <1>26, <1>27, <1>28, <1>29, <1>30, <1>31, <1>32
     DEF Next, Arrive, Continue

(* An answer, once given, is not changed: only a request that is open is   *)
(* answered.                                                               *)
LEMMA AnswersStay ==
    ASSUME TypeInv, HeldInv, [Next]_vars, NEW r \in Requests,
           request[r].is_processed
    PROVE  /\ request'[r].is_accepted = request[r].is_accepted
           /\ request'[r].is_refused = request[r].is_refused
<1> DEFINE Same == /\ request'[r].is_accepted = request[r].is_accepted
                   /\ request'[r].is_refused = request[r].is_refused
<1>0. /\ request \in [Requests -> Request]
      /\ request[r].is_processed
  BY DEF TypeInv, TypeOK
<1>1. ASSUME NEW p \in Procs, NEW b \in Bookings, WebhookRecord(p, b)
      PROVE  Same
  BY <1>0, <1>1 DEF WebhookRecord
<1>2. ASSUME NEW p \in Procs, NEW b \in Bookings, NEW u \in Users,
            PayCheck(p, b, u)
      PROVE  Same
  BY <1>0, <1>2 DEF PayCheck, tables
<1>3. ASSUME NEW p \in Procs, NEW b \in Bookings, NEW u \in Users,
            CancelCheck(p, b, u)
      PROVE  Same
  BY <1>0, <1>3 DEF CancelCheck, tables
<1>4. ASSUME NEW p \in Procs, NEW b \in Bookings, NEW op \in Ops,
            StatusCheck(p, b, op)
      PROVE  Same
  BY <1>0, <1>4 DEF StatusCheck, tables
<1>5. ASSUME NEW p \in Procs, NEW s \in Requests, NEW op \in Ops,
            AnswerCheck(p, s, op)
      PROVE  Same
  BY <1>0, <1>5 DEF AnswerCheck, tables
<1>6. ASSUME NEW p \in Procs, CronSelect(p) PROVE Same
  BY <1>0, <1>6 DEF CronSelect, tables
<1>7. ASSUME NEW p \in Procs, PayAnnounce(p) PROVE Same
  <2>1. PICK s \in Requests : Announce(s, job[p].booking, job[p].booking)
    BY <1>7 DEF PayAnnounce
  <2>2. s # r
    BY <1>0, <2>1 DEF Announce, NoRow
  <2> QED
    BY <1>0, <2>1, <2>2 DEF Announce
<1>8. ASSUME NEW p \in Procs, PayConflict(p) PROVE Same
  BY <1>0, <1>8 DEF PayConflict, tables
<1>9. ASSUME NEW p \in Procs, PayCommit(p) PROVE Same
  BY <1>0, <1>9 DEF PayCommit
<1>10. ASSUME NEW p \in Procs, WebhookAnnounce(p) PROVE Same
  <2>1. PICK s \in Requests : Announce(s, job[p].booking, NoBooking)
    BY <1>10 DEF WebhookAnnounce
  <2>2. s # r
    BY <1>0, <2>1 DEF Announce, NoRow
  <2> QED
    BY <1>0, <2>1, <2>2 DEF Announce
<1>11. ASSUME NEW p \in Procs, CancelSettle(p) PROVE Same
  BY <1>0, <1>11 DEF CancelSettle, tables
<1>12. ASSUME NEW p \in Procs, CancelMark(p) PROVE Same
  BY <1>0, <1>12 DEF CancelMark
<1>13. ASSUME NEW p \in Procs, AnswerFlag(p) PROVE Same
  <2>1. /\ Answering(job[p])
        /\ job[p].request \in Requests
    BY <1>13 DEF AnswerFlag, At, Answering, TypeInv, JobsRemember, Remembers
  <2>2. job[p].request # r
    BY <1>0, <1>13, <2>1 DEF HeldInv, Held, Open
  <2> QED
    BY <1>0, <1>13, <2>1, <2>2 DEF AnswerFlag
<1>14. ASSUME NEW p \in Procs, AcceptConfirm(p) PROVE Same
  BY <1>0, <1>14 DEF AcceptConfirm
<1>15. ASSUME NEW p \in Procs, RefuseCredit(p) PROVE Same
  BY <1>0, <1>15 DEF RefuseCredit, tables
<1>16. ASSUME NEW p \in Procs, RefuseMark(p) PROVE Same
  BY <1>0, <1>16 DEF RefuseMark
<1>17. ASSUME NEW p \in Procs, CronCredit(p) PROVE Same
  BY <1>0, <1>17 DEF CronCredit, tables
<1>18. ASSUME NEW p \in Procs, CronMark(p) PROVE Same
  BY <1>0, <1>18 DEF CronMark
<1>19. ASSUME NEW p \in Procs, CronProcessed(p) PROVE Same
  BY <1>0, <1>19 DEF CronProcessed, Request
<1>20. ASSUME NEW p \in Procs, PickUp(p) PROVE Same
  BY <1>0, <1>20 DEF PickUp, LastUpdate
<1>21. ASSUME NEW p \in Procs, ConditionsNotMet(p) PROVE Same
  BY <1>0, <1>21 DEF ConditionsNotMet, LastUpdate
<1>22. ASSUME NEW p \in Procs, ProblemWithPackage(p) PROVE Same
  BY <1>0, <1>22 DEF ProblemWithPackage, LastUpdate
<1>23. ASSUME NEW p \in Procs, Complete(p) PROVE Same
  BY <1>0, <1>23 DEF Complete, LastUpdate
<1>24. ASSUME NEW p \in Procs, Reject(p) PROVE Same
  BY <1>0, <1>24 DEF Reject, LastUpdate
<1>25. ASSUME NEW p \in Procs, DropOffMark(p) PROVE Same
  BY <1>0, <1>25 DEF DropOffMark
<1>26. ASSUME NEW p \in Procs, DropOffPay(p) PROVE Same
  BY <1>0, <1>26 DEF DropOffPay, tables
<1>27. ASSUME NEW p \in Procs, Fail(p) PROVE Same
  BY <1>0, <1>27 DEF Fail, tables
<1>28. ASSUME NEW b \in Bookings, ChargeCard(b) PROVE Same
  BY <1>0, <1>28 DEF ChargeCard, tables
<1>29. ASSUME NEW b \in Bookings, NEW s \in Status, AdminSetStatus(b, s)
      PROVE  Same
  BY <1>0, <1>29 DEF AdminSetStatus
<1>30. ASSUME NEW s \in Requests, BecomeOverdue(s) PROVE Same
  BY <1>0, <1>30 DEF BecomeOverdue, Request
<1>31. ASSUME NEW b \in Bookings, DepartureMoves(b) PROVE Same
  BY <1>0, <1>31 DEF DepartureMoves, tables
<1>32. CASE UNCHANGED vars
  BY <1>0, <1>32 DEF vars
<1>33. QED
  BY <1>1, <1>2, <1>3, <1>4, <1>5, <1>6, <1>7, <1>8, <1>9, <1>10, <1>11, <1>12,
     <1>13, <1>14, <1>15, <1>16, <1>17, <1>18, <1>19, <1>20, <1>21, <1>22,
     <1>23, <1>24, <1>25, <1>26, <1>27, <1>28, <1>29, <1>30, <1>31, <1>32
     DEF Next, Arrive, Continue

(* The cron in slot p has expired the booking of the request r and is      *)
(* about to mark the request.                                              *)
Closing(p, r) == At(p, {"expire"}, "marked") /\ job[p].request = r

(* The booking b was expired on a request that nobody accepted, and that   *)
(* is closed or being closed.                                              *)
LeftOut(b, r) ==
    /\ request[r].booking = b
    /\ ~request[r].is_accepted
    /\ request[r].is_processed \/ \E p \in Procs : Closing(p, r)

ExpiredInv ==
    Quiet => \A b \in Bookings : booking[b].status = "expired" =>
                \E r \in Requests : LeftOut(b, r)

(* Steps that neither answer, expire nor close leave expiry alone. *)
ExpiryRests ==
    /\ \A b \in Bookings :
        booking'[b].status = "expired" => booking[b].status = "expired"
    /\ \A r \in Requests : request[r].booking \in Bookings =>
        /\ request'[r].booking = request[r].booking
        /\ request'[r].is_accepted = request[r].is_accepted
        /\ request'[r].is_processed = request[r].is_processed
    /\ \A p \in Procs, r \in Requests : Closing(p, r) => Closing(p, r)'

ExpiryStep(p) ==
    AnswerFlag(p) \/ CronMark(p) \/ CronProcessed(p) \/ Fail(p)

LEMMA ExpiryAtRest ==
    ASSUME TypeInv, [Next]_vars, \A p \in Procs : ~ExpiryStep(p),
           \A b \in Bookings, s \in Status : ~AdminSetStatus(b, s)
    PROVE  ExpiryRests
<1>0. /\ booking \in [Bookings -> Booking]
      /\ request \in [Requests -> Request]
      /\ job \in [Procs -> Job]
      /\ NoBooking \notin Bookings
  BY BookingAssumption DEF BookingAssumption, TypeInv, TypeOK
<1>a. /\ \A p \in Procs : ~ExpiryStep(p)
      /\ \A b \in Bookings, s \in Status : ~AdminSetStatus(b, s)
  OBVIOUS
<1> USE DEF ExpiryRests
<1>1. ASSUME NEW p \in Procs, NEW b \in Bookings, WebhookRecord(p, b)
      PROVE  ExpiryRests
  BY <1>0, <1>1
     DEF WebhookRecord, Start, Closing, At, Idle, Job, Booking, tables
<1>2. ASSUME NEW p \in Procs, NEW b \in Bookings, NEW u \in Users,
            PayCheck(p, b, u)
      PROVE  ExpiryRests
  BY <1>0, <1>2
     DEF PayCheck, Start, Closing, At, Idle, Job, Booking, tables
<1>3. ASSUME NEW p \in Procs, NEW b \in Bookings, NEW u \in Users,
            CancelCheck(p, b, u)
      PROVE  ExpiryRests
  BY <1>0, <1>3
     DEF CancelCheck, Start, Closing, At, Idle, Job, Booking, tables
<1>4. ASSUME NEW p \in Procs, NEW b \in Bookings, NEW op \in Ops,
            StatusCheck(p, b, op)
      PROVE  ExpiryRests
  BY <1>0, <1>4
     DEF StatusCheck, Start, Closing, At, Idle, Job, Booking, tables
<1>5. ASSUME NEW p \in Procs, NEW r \in Requests, NEW op \in Ops,
            AnswerCheck(p, r, op)
      PROVE  ExpiryRests
  BY <1>0, <1>5
     DEF AnswerCheck, Start, Closing, At, Idle, Job, Booking, tables
<1>6. ASSUME NEW p \in Procs, CronSelect(p) PROVE ExpiryRests
  BY <1>0, <1>6
     DEF CronSelect, Sweeping, Closing, At, Idle, Job, Booking, tables
<1>7. ASSUME NEW p \in Procs, PayAnnounce(p) PROVE ExpiryRests
  <2>1. PICK s \in Requests : Announce(s, job[p].booking, job[p].booking)
    BY <1>7 DEF PayAnnounce
  <2>2. /\ request[s].booking \notin Bookings
        /\ \A r \in Requests \ {s} : request'[r] = request[r]
    BY <1>0, <2>1 DEF Announce, NoRow
  <2>3. UNCHANGED booking
    BY <1>7 DEF PayAnnounce
  <2>4. \A q \in Procs, r \in Requests : Closing(q, r) => Closing(q, r)'
    BY <1>0, <1>7 DEF PayAnnounce, MoveTo, Closing, At
  <2> QED
    BY <2>2, <2>3, <2>4
<1>8. ASSUME NEW p \in Procs, PayConflict(p) PROVE ExpiryRests
  BY <1>0, <1>8
     DEF PayConflict, Return, Closing, At, Idle, Job, Booking, tables
<1>9. ASSUME NEW p \in Procs, PayCommit(p) PROVE ExpiryRests
  <2>1. job[p].booking \in Bookings
    BY <1>9, JobBooking DEF PayCommit, InPayment, At
  <2>2. \A b \in Bookings :
            booking'[b].status \in {booking[b].status, "pick_up"}
    BY <1>0, <1>9, <2>1 DEF PayCommit, Booking
  <2>3. \A q \in Procs, r \in Requests : Closing(q, r) => Closing(q, r)'
    BY <1>0, <1>9 DEF PayCommit, InPayment, Return, Closing, At
  <2>4. UNCHANGED request
    BY <1>9 DEF PayCommit
  <2> QED
    BY <2>2, <2>3, <2>4
<1>10. ASSUME NEW p \in Procs, WebhookAnnounce(p) PROVE ExpiryRests
  <2>1. PICK s \in Requests : Announce(s, job[p].booking, NoBooking)
    BY <1>10 DEF WebhookAnnounce
  <2>2. /\ request[s].booking \notin Bookings
        /\ \A r \in Requests \ {s} : request'[r] = request[r]
    BY <1>0, <2>1 DEF Announce, NoRow
  <2>3. UNCHANGED booking
    BY <1>10 DEF WebhookAnnounce
  <2>4. \A q \in Procs, r \in Requests : Closing(q, r) => Closing(q, r)'
    BY <1>0, <1>10 DEF WebhookAnnounce, Return, Closing, At
  <2> QED
    BY <2>2, <2>3, <2>4
<1>11. ASSUME NEW p \in Procs, CancelSettle(p) PROVE ExpiryRests
  BY <1>0, <1>11
     DEF CancelSettle, MoveTo, Closing, At, Idle, Job, Booking, tables
<1>12. ASSUME NEW p \in Procs, CancelMark(p) PROVE ExpiryRests
  BY <1>0, <1>12
     DEF CancelMark, Return, Closing, At, Idle, Job, Booking, tables
<1>13. ASSUME NEW p \in Procs, AnswerFlag(p) PROVE ExpiryRests
  BY <1>a, <1>13 DEF ExpiryStep
<1>14. ASSUME NEW p \in Procs, AcceptConfirm(p) PROVE ExpiryRests
  BY <1>0, <1>14
     DEF AcceptConfirm, Return, Closing, At, Idle, Job, Booking, tables
<1>15. ASSUME NEW p \in Procs, RefuseCredit(p) PROVE ExpiryRests
  BY <1>0, <1>15
     DEF RefuseCredit, MoveTo, Closing, At, Idle, Job, Booking, tables
<1>16. ASSUME NEW p \in Procs, RefuseMark(p) PROVE ExpiryRests
  BY <1>0, <1>16
     DEF RefuseMark, Return, Closing, At, Idle, Job, Booking, tables
<1>17. ASSUME NEW p \in Procs, CronCredit(p) PROVE ExpiryRests
  BY <1>0, <1>17
     DEF CronCredit, Closing, At, Idle, Job, Booking, tables
<1>18. ASSUME NEW p \in Procs, CronMark(p) PROVE ExpiryRests
  BY <1>a, <1>18 DEF ExpiryStep
<1>19. ASSUME NEW p \in Procs, CronProcessed(p) PROVE ExpiryRests
  BY <1>a, <1>19 DEF ExpiryStep
<1>20. ASSUME NEW p \in Procs, PickUp(p) PROVE ExpiryRests
  BY <1>0, <1>20
     DEF PickUp, LastUpdate, Row, Return, Closing, At, Idle, Job, Booking,
         tables
<1>21. ASSUME NEW p \in Procs, ConditionsNotMet(p) PROVE ExpiryRests
  BY <1>0, <1>21
     DEF ConditionsNotMet, LastUpdate, Row, Return, Closing, At, Idle, Job,
         Booking, tables
<1>22. ASSUME NEW p \in Procs, ProblemWithPackage(p) PROVE ExpiryRests
  BY <1>0, <1>22
     DEF ProblemWithPackage, LastUpdate, Row, Return, Closing, At, Idle, Job,
         Booking, tables
<1>23. ASSUME NEW p \in Procs, Complete(p) PROVE ExpiryRests
  BY <1>0, <1>23
     DEF Complete, LastUpdate, Row, Return, Closing, At, Idle, Job, Booking,
         tables
<1>24. ASSUME NEW p \in Procs, Reject(p) PROVE ExpiryRests
  BY <1>0, <1>24
     DEF Reject, LastUpdate, Row, Return, Closing, At, Idle, Job, Booking,
         tables
<1>25. ASSUME NEW p \in Procs, DropOffMark(p) PROVE ExpiryRests
  BY <1>0, <1>25
     DEF DropOffMark, MoveTo, Closing, At, Idle, Job, Booking, tables
<1>26. ASSUME NEW p \in Procs, DropOffPay(p) PROVE ExpiryRests
  BY <1>0, <1>26
     DEF DropOffPay, Return, Closing, At, Idle, Job, Booking, tables
<1>27. ASSUME NEW p \in Procs, Fail(p) PROVE ExpiryRests
  BY <1>a, <1>27 DEF ExpiryStep
<1>28. ASSUME NEW b \in Bookings, ChargeCard(b) PROVE ExpiryRests
  BY <1>0, <1>28
     DEF ChargeCard, Closing, At, Idle, Job, Booking, tables
<1>29. ASSUME NEW b \in Bookings, NEW s \in Status, AdminSetStatus(b, s)
      PROVE  ExpiryRests
  BY <1>a, <1>29
<1>30. ASSUME NEW r \in Requests, BecomeOverdue(r) PROVE ExpiryRests
  BY <1>0, <1>30
     DEF BecomeOverdue, Unanswered, Request, Closing, At, Idle, Job, Booking,
         tables
<1>31. ASSUME NEW b \in Bookings, DepartureMoves(b) PROVE ExpiryRests
  BY <1>0, <1>31
     DEF DepartureMoves, Closing, At, Idle, Job, Booking, tables
<1>32. CASE UNCHANGED vars
  BY <1>0, <1>32
     DEF vars, Closing, At, Idle, Job, Booking
<1>33. QED
  BY <1>1, <1>2, <1>3, <1>4, <1>5, <1>6, <1>7, <1>8, <1>9, <1>10, <1>11, <1>12,
     <1>13, <1>14, <1>15, <1>16, <1>17, <1>18, <1>19, <1>20, <1>21, <1>22,
     <1>23, <1>24, <1>25, <1>26, <1>27, <1>28, <1>29, <1>30, <1>31, <1>32
     DEF Next, Arrive, Continue

(* While requests are alone, every step keeps expiry right. *)
LEMMA ExpiredStep ==
    ASSUME TypeInv, HeldInv, RequestsAlone, ExpiredInv, [Next]_vars
    PROVE  ExpiredInv'
<1> SUFFICES ASSUME Quiet', NEW b \in Bookings, booking'[b].status = "expired"
             PROVE  \E r \in Requests : LeftOut(b, r)'
  BY DEF ExpiredInv
<1>0. /\ booking \in [Bookings -> Booking]
      /\ request \in [Requests -> Request]
      /\ job \in [Procs -> Job]
      /\ NoBooking \notin Bookings
  BY BookingAssumption DEF BookingAssumption, TypeInv, TypeOK
<1>1. /\ Quiet
      /\ \A p \in Procs : ~Fail(p)
      /\ \A c \in Bookings, s \in Status : ~AdminSetStatus(c, s)
  BY QuietBefore
<1>2. ASSUME booking[b].status = "expired"
      PROVE  \E r \in Requests : LeftOut(b, r)
  BY <1>1, <1>2 DEF ExpiredInv
<1>3. ASSUME NEW p \in Procs, AnswerFlag(p)
      PROVE  \E r \in Requests : LeftOut(b, r)'
  <2>1. booking[b].status = "expired"
    BY <1>3 DEF AnswerFlag
  <2>2. PICK r \in Requests : LeftOut(b, r)
    BY <1>2, <2>1
  <2>3. Answering(job[p]) /\ job[p].request \in Requests
    BY <1>3 DEF AnswerFlag, At, Answering, TypeInv, JobsRemember, Remembers
  <2>4. job[p].request # r
    <3> SUFFICES ASSUME job[p].request = r PROVE FALSE
      OBVIOUS
    <3>1. ~request[r].is_processed
      BY <2>3 DEF HeldInv, Held, Open
    <3>2. PICK q \in Procs : Closing(q, r)
      BY <2>2, <3>1 DEF LeftOut
    <3>3. q # p /\ r \in job[q].todo
      BY <2>3, <3>2
         DEF Closing, At, Answering, Answers, Refusals, HeldInv, Held
    <3> QED
      BY <2>3, <3>3 DEF RequestsAlone
  <2>5. request'[r] = request[r]
    BY <1>0, <1>3, <2>3, <2>4 DEF AnswerFlag
  <2>6. \A q \in Procs : Closing(q, r) => Closing(q, r)'
    BY <1>0, <1>3, <2>3
       DEF AnswerFlag, Return, MoveTo, Closing, At, Answering, Answers,
           Refusals
  <2> QED
    BY <2>2, <2>5, <2>6 DEF LeftOut
<1>4. ASSUME NEW p \in Procs, CronMark(p)
      PROVE  \E r \in Requests : LeftOut(b, r)'
  <2>1. /\ UNCHANGED request
        /\ job' = [job EXCEPT ![p].at = "marked"]
        /\ job[p].op = "expire"
        /\ job[p].at = "credited"
    BY <1>4 DEF CronMark, At, MoveTo
  <2>2. CASE b = job[p].booking
    <3> DEFINE r == job[p].request
    <3>1. r \in Requests /\ request[r].booking = b
      BY <2>1, <2>2 DEF TypeInv, JobsRemember, Remembers
    <3>2. ~request[r].is_accepted
      BY <2>1 DEF HeldInv, Held
    <3>3. /\ job'[p].op = "expire"
          /\ job'[p].at = "marked"
          /\ job'[p].request = r
      BY <1>0, <2>1 DEF Job
    <3>4. PICK s \in Requests : s = r
      BY <3>1
    <3>5. Closing(p, s)'
      BY <3>3, <3>4 DEF Closing, At
    <3>6. LeftOut(b, s)'
      BY <2>1, <3>1, <3>2, <3>4, <3>5 DEF LeftOut
    <3> QED
      BY <3>6
  <2>3. CASE b # job[p].booking
    <3>1. booking[b].status = "expired"
      BY <1>0, <1>4, <2>3 DEF CronMark
    <3>2. PICK r \in Requests : LeftOut(b, r)
      BY <1>2, <3>1
    <3>3. \A q \in Procs : Closing(q, r) => Closing(q, r)'
      BY <1>0, <2>1 DEF Closing, At
    <3> QED
      BY <2>1, <3>2, <3>3 DEF LeftOut
  <2> QED
    BY <2>2, <2>3
<1>5. ASSUME NEW p \in Procs, CronProcessed(p)
      PROVE  \E r \in Requests : LeftOut(b, r)'
  <2>1. booking[b].status = "expired"
    BY <1>5 DEF CronProcessed
  <2>2. PICK r \in Requests : LeftOut(b, r)
    BY <1>2, <2>1
  <2>3. /\ request' = [request EXCEPT ![job[p].request].is_processed = TRUE]
        /\ \A q \in Procs \ {p} : job'[q] = job[q]
    BY <1>0, <1>5 DEF CronProcessed
  <2>4. /\ request'[r].booking = request[r].booking
        /\ request'[r].is_accepted = request[r].is_accepted
        /\ request[r].is_processed => request'[r].is_processed
        /\ r = job[p].request => request'[r].is_processed
    BY <1>0, <2>3 DEF Request
  <2>5. \A q \in Procs : Closing(q, r) =>
            r = job[p].request \/ Closing(q, r)'
    BY <2>3 DEF Closing, At
  <2> QED
    BY <2>2, <2>4, <2>5 DEF LeftOut
<1>6. CASE \A p \in Procs : ~ExpiryStep(p)
  <2>1. ExpiryRests
    BY <1>1, <1>6, ExpiryAtRest
  <2>2. PICK r \in Requests : LeftOut(b, r)
    BY <1>2, <2>1 DEF ExpiryRests
  <2> QED
    BY <2>1, <2>2 DEF ExpiryRests, LeftOut
<1> QED
  BY <1>1, <1>3, <1>4, <1>5, <1>6 DEF ExpiryStep

AloneInv == TypeInv /\ HeldInv /\ ExpiredInv

LEMMA AloneInit == Init => AloneInv
<1> SUFFICES ASSUME Init
             PROVE  AloneInv
  OBVIOUS
<1>1. HeldInv
  BY IdleHolds DEF Init, HeldInv
<1>2. ExpiredInv
  BY DEF Init, ExpiredInv
<1> QED
  BY <1>1, <1>2, TypeInit DEF AloneInv

LEMMA AloneStep == AloneInv /\ RequestsAlone /\ [Next]_vars => AloneInv'
  BY TypeStep, HeldStep, ExpiredStep DEF AloneInv

LEMMA AloneAlways == Spec /\ []RequestsAlone => []AloneInv
  BY AloneInit, AloneStep, PTL DEF Spec

(* As long as no two handlers hold one request, and whatever else is in    *)
(* flight or fails, updateRequest gives each request one answer.           *)
THEOREM AnswersAreFinal == Spec /\ []RequestsAlone => AnswerIsFinal
<1>1. AloneInv /\ [Next]_vars =>
        [\A r \in Requests :
            request[r].is_processed =>
                /\ request'[r].is_accepted = request[r].is_accepted
                /\ request'[r].is_refused = request[r].is_refused]_vars
  BY AnswersStay DEF AloneInv
<1> QED
  BY <1>1, AloneAlways, PTL DEF Spec, AnswerIsFinal

(* Under the same condition handleCron expires no booking whose request    *)
(* the traveller accepted.                                                 *)
THEOREM AcceptedAreNotExpired ==
    Spec /\ []RequestsAlone => []AcceptedNotExpired
<1>1. AloneInv => AcceptedNotExpired
  <2> SUFFICES ASSUME AloneInv, Quiet, NEW r \in Requests,
                      request[r].is_accepted, request[r].booking # NoBooking,
                      booking[request[r].booking].status = "expired"
               PROVE  FALSE
    BY DEF AcceptedNotExpired, Quiet
  <2>1. request[r].booking \in Bookings
    BY DEF AloneInv, TypeInv, TypeOK, Request
  <2>2. PICK s \in Requests : LeftOut(request[r].booking, s)
    BY <2>1 DEF AloneInv, ExpiredInv
  <2>3. s = r
    BY <2>1, <2>2 DEF LeftOut, AloneInv, TypeInv, LinksSound
  <2> QED
    BY <2>2, <2>3 DEF LeftOut
<1> QED
  BY <1>1, AloneAlways, PTL

(* With handlers one after another, as in the run escrow_serial, payments  *)
(* and requests are always alone: no sequence of calls, failed ones and    *)
(* crons among them, overdraws a wallet, expires a booking that was        *)
(* accepted or changes an answer.                                          *)
THEOREM OneAfterAnother ==
    ASSUME \A p, q \in Procs : p = q
    PROVE  Spec => []NoOverdraft /\ []AcceptedNotExpired /\ AnswerIsFinal
<1>1. PaymentsAlone /\ RequestsAlone
  BY DEF PaymentsAlone, RequestsAlone
<1>2. Spec => []PaymentsAlone /\ []RequestsAlone
  BY <1>1, PTL
<1> QED
  BY <1>2, WalletsAreCovered, AnswersAreFinal, AcceptedAreNotExpired

===============================================================================
