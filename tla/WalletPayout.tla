------------------------------ MODULE WalletPayout ------------------------------
(***************************************************************************)
(* Money leaves the system: StripeService.createConnectedAccount,          *)
(* deactivateAccount, processPayout and platformPayout.                    *)
(*                                                                         *)
(* A payout reads the wallet, asks Stripe to move the money, and debits    *)
(* the wallet afterwards.  The calls to Stripe between the check and the   *)
(* transfer are one step: they read only Stripe's own state, and Stripe    *)
(* refuses a transfer its available funds do not cover.                    *)
(*                                                                         *)
(* Bookings write the same wallets and earnings: a payment from the wallet *)
(* checks and debits one, refunds and settlements credit them, and a card  *)
(* payment reaches Stripe and no wallet.  Which booking may do so, how     *)
(* often and for how much is BookingEscrow's: here each write comes alone. *)
(***************************************************************************)
EXTENDS Integers, FiniteSets, Functions, Settlement

CONSTANTS
    Users,
    Accounts,           \* ids Stripe may give a connected account
    NoAccount,
    NoUser,
    Procs,              \* slots for handlers in flight
    Amounts,            \* what is paid out, in units
    Shares,             \* what bookings cost and credit
    InitialBalance,     \* of every wallet
    InitialEarnings,    \* of the platform
    InitialFunds,       \* available at Stripe
    MaxIncomes,         \* bound: card payments and credits that arrive
    MaxFailures         \* bound: handlers that stop half-way

ASSUME PayoutAssumption ==
    /\ NoAccount \notin Accounts
    /\ NoUser \notin Users
    /\ Amounts \subseteq Nat \ {0}
    /\ Shares \subseteq Nat \ {0}
    /\ InitialBalance \in Nat
    /\ InitialEarnings \in Nat
    /\ InitialFunds \in Nat
    /\ MaxIncomes \in Nat
    /\ MaxFailures \in Nat

(* Sums over users and over handlers mean something. *)
ASSUME FiniteAssumption == IsFiniteSet(Users) /\ IsFiniteSet(Procs)

VARIABLES
    account,            \* the stripe_accounts table, by user
    issued,             \* accounts created at Stripe
    ready,              \* those with payouts_enabled
    funds,              \* available at Stripe for transfers
    received,           \* transferred to each account
    balance,            \* wallets.balance
    earnings,           \* platform_wallet.total_earnings
    job,                \* the handlers in flight
    (* Ghosts. *)
    raced,              \* users, or NoUser, whose money was taken twice at once
    rounded,            \* withdrawals that were sent in whole cents
    charged,            \* what card payments added to the funds
    booked,             \* what bookings added to wallets and earnings, less
                        \* what they were paid from wallets
    (* Counters behind the bounds. *)
    incomes, failures

stripe == <<issued, ready, funds, received>>
wallets == <<balance, earnings>>
bookings == <<charged, booked>>
vars == <<account, issued, ready, funds, received, balance, earnings, job,
          raced, rounded, charged, booked, incomes, failures>>

Job == [op : {"none", "connect", "withdraw", "pay", "platform"},
        at : {"start", "checked", "issued", "sent"},
        user : Users \cup {NoUser},
        account : Accounts \cup {NoAccount},
        amount : Nat]

Idle == [op |-> "none", at |-> "start", user |-> NoUser,
         account |-> NoAccount, amount |-> 0]

TypeOK ==
    /\ account \in [Users -> [id : Accounts \cup {NoAccount},
                              is_active : BOOLEAN]]
    /\ issued \subseteq Accounts
    /\ ready \subseteq issued
    /\ funds \in Int
    /\ received \in [Accounts -> Int]
    /\ balance \in [Users -> Int]
    /\ earnings \in Int
    /\ job \in [Procs -> Job]
    /\ raced \subseteq Users \cup {NoUser}
    /\ rounded \in Nat
    /\ charged \in Int
    /\ booked \in Int
    /\ incomes \in Nat
    /\ failures \in Nat

Init ==
    /\ account = [u \in Users |-> [id |-> NoAccount, is_active |-> FALSE]]
    /\ issued = {}
    /\ ready = {}
    /\ funds = InitialFunds
    /\ received = [a \in Accounts |-> 0]
    /\ balance = [u \in Users |-> InitialBalance]
    /\ earnings = InitialEarnings
    /\ job = [p \in Procs |-> Idle]
    /\ raced = {}
    /\ rounded = 0
    /\ charged = 0
    /\ booked = 0
    /\ incomes = 0
    /\ failures = 0

Start(p, op, u, a, amount) ==
    /\ job[p] = Idle
    /\ job' = [job EXCEPT ![p] = [op |-> op, at |-> "checked", user |-> u,
                                  account |-> a, amount |-> amount]]

At(p, op, place) == job[p].op = op /\ job[p].at = place

Return(p) == job' = [job EXCEPT ![p] = Idle]

(* The handlers that check u's wallet, NoUser for the earnings, and take   *)
(* from it in a later step.                                                *)
Takers(u) ==
    {p \in Procs : /\ job[p].op \in {"withdraw", "pay", "platform"}
                   /\ job[p].user = u}

(* One of them starts, perhaps with another in flight. *)
NoteRace(u) == raced' = IF Takers(u) = {} THEN raced ELSE raced \cup {u}

-----------------------------------------------------------------------------
(* The connected account *)

(* createConnectedAccount finds a row, and makes it active again.          *)
Reactivate(u) ==
    /\ account[u].id # NoAccount
    /\ ~account[u].is_active
    /\ account' = [account EXCEPT ![u].is_active = TRUE]
    /\ UNCHANGED <<stripe, wallets, job, raced, rounded, bookings, incomes,
                   failures>>

(* It finds none ... *)
ConnectCheck(p, u) ==
    /\ account[u].id = NoAccount
    /\ Start(p, "connect", u, NoAccount, 0)
    /\ UNCHANGED <<account, stripe, wallets, raced, rounded, bookings,
                   incomes, failures>>

(* ... and has Stripe create an account ... *)
ConnectIssue(p) ==
    /\ At(p, "connect", "checked")
    /\ \E a \in Accounts \ issued :
        /\ issued' = issued \cup {a}
        /\ job' = [job EXCEPT ![p].at = "issued", ![p].account = a]
    /\ UNCHANGED <<account, ready, funds, received, wallets, raced, rounded,
                   bookings, incomes, failures>>

(* Mutant: the row is written whether or not there is one. *)
ConnectOverwrite(p) ==
    /\ At(p, "connect", "issued")
    /\ account' = [account EXCEPT ![job[p].user] =
                        [id |-> job[p].account, is_active |-> TRUE]]
    /\ Return(p)
    /\ UNCHANGED <<stripe, wallets, raced, rounded, bookings, incomes,
                   failures>>

(* ... and stores it: user_id is unique, so a second row throws and the    *)
(* account just created at Stripe belongs to nobody.                       *)
ConnectStore(p) ==
    /\ At(p, "connect", "issued")
    /\ account' = IF account[job[p].user].id = NoAccount
                     THEN [account EXCEPT ![job[p].user] =
                            [id |-> job[p].account, is_active |-> TRUE]]
                     ELSE account
    /\ Return(p)
    /\ UNCHANGED <<stripe, wallets, raced, rounded, bookings, incomes,
                   failures>>

(* deactivateAccount. *)
Deactivate(u) ==
    /\ account[u].is_active
    /\ account' = [account EXCEPT ![u].is_active = FALSE]
    /\ UNCHANGED <<stripe, wallets, job, raced, rounded, bookings, incomes,
                   failures>>

(* The user completes the onboarding at Stripe. *)
Onboard(a) ==
    /\ a \in issued \ ready
    /\ ready' = ready \cup {a}
    /\ UNCHANGED <<account, issued, funds, received, wallets, job, raced,
                   rounded, bookings, incomes, failures>>

-----------------------------------------------------------------------------
(* A user's payout *)

(* Mutant: the balance is not checked. *)
WithdrawUnchecked(p, u, amount) ==
    /\ account[u].is_active
    /\ amount >= Euro
    /\ Start(p, "withdraw", u, account[u].id, amount)
    /\ NoteRace(u)
    /\ UNCHANGED <<account, stripe, wallets, rounded, bookings, incomes,
                   failures>>

(* The active account and its wallet are read together. *)
WithdrawCheck(p, u, amount) ==
    /\ account[u].is_active
    /\ balance[u] >= amount
    /\ amount >= Euro
    /\ Start(p, "withdraw", u, account[u].id, amount)
    /\ NoteRace(u)
    /\ UNCHANGED <<account, stripe, wallets, rounded, bookings, incomes,
                   failures>>

(* Math.round(amount * 100) cents, in units.  On an exact half the binary  *)
(* product decides, so both neighbours are possible.                       *)
InCents(amount) ==
    {s \in {100 * (amount \div 100), 100 * (amount \div 100) + 100} :
        s - amount <= 50 /\ amount - s <= 50}

WithdrawTransfer(p) ==
    /\ At(p, "withdraw", "checked")
    /\ job[p].account \in ready
    /\ \E sent \in InCents(job[p].amount) :
        /\ funds >= sent
        /\ funds' = funds - sent
        /\ received' = [received EXCEPT ![job[p].account] = @ + sent]
    /\ job' = [job EXCEPT ![p].at = "sent"]
    /\ rounded' = rounded + 1
    /\ UNCHANGED <<account, issued, ready, wallets, raced, bookings, incomes,
                   failures>>

(* Payouts are not enabled, or the platform's funds do not suffice. *)
WithdrawRefused(p) ==
    /\ At(p, "withdraw", "checked")
    /\ \/ job[p].account \notin ready
       \/ \E sent \in InCents(job[p].amount) : funds < sent
    /\ Return(p)
    /\ UNCHANGED <<account, stripe, wallets, raced, rounded, bookings,
                   incomes, failures>>

(* Mutant: the transfer is not taken from the wallet. *)
WithdrawForgotten(p) ==
    /\ At(p, "withdraw", "sent")
    /\ Return(p)
    /\ UNCHANGED <<account, stripe, wallets, raced, rounded, bookings,
                   incomes, failures>>

WithdrawDebit(p) ==
    /\ At(p, "withdraw", "sent")
    /\ balance' = [balance EXCEPT ![job[p].user] = @ - job[p].amount]
    /\ Return(p)
    /\ UNCHANGED <<account, stripe, earnings, raced, rounded, bookings,
                   incomes, failures>>

-----------------------------------------------------------------------------
(* The platform's payout *)

PlatformCheck(p, amount) ==
    /\ earnings >= amount
    /\ Start(p, "platform", NoUser, NoAccount, amount)
    /\ NoteRace(NoUser)
    /\ UNCHANGED <<account, stripe, wallets, rounded, bookings, incomes,
                   failures>>

(* Stripe pays out whole cents, amount * 100.  The code compares the funds *)
(* in cents with euros; Stripe itself refuses what the funds do not cover. *)
PlatformSend(p) ==
    /\ At(p, "platform", "checked")
    /\ job[p].amount % 100 = 0
    /\ funds >= job[p].amount
    /\ funds' = funds - job[p].amount
    /\ job' = [job EXCEPT ![p].at = "sent"]
    /\ UNCHANGED <<account, issued, ready, received, wallets, raced, rounded,
                   bookings, incomes, failures>>

(* The binary product of cents and 100 need not be whole either. *)
PlatformRefused(p) ==
    /\ At(p, "platform", "checked")
    /\ job[p].amount % Euro # 0 \/ funds < job[p].amount
    /\ Return(p)
    /\ UNCHANGED <<account, stripe, wallets, raced, rounded, bookings,
                   incomes, failures>>

PlatformDebit(p) ==
    /\ At(p, "platform", "sent")
    /\ earnings' = earnings - job[p].amount
    /\ Return(p)
    /\ UNCHANGED <<account, stripe, balance, raced, rounded, bookings,
                   incomes, failures>>

-----------------------------------------------------------------------------
(* Bookings *)

(* completeBookingWithWallet: its transaction reads u's wallet ... *)
PayCheck(p, u, amount) ==
    /\ balance[u] >= amount
    /\ Start(p, "pay", u, NoAccount, amount)
    /\ NoteRace(u)
    /\ UNCHANGED <<account, stripe, wallets, rounded, bookings, incomes,
                   failures>>

(* ... and takes the amount from what is there when it commits, ... *)
PayCommit(p) ==
    /\ At(p, "pay", "checked")
    /\ balance' = [balance EXCEPT ![job[p].user] = @ - job[p].amount]
    /\ booked' = booked - job[p].amount
    /\ Return(p)
    /\ UNCHANGED <<account, stripe, earnings, raced, rounded, charged, incomes,
                   failures>>

(* ... or is rolled back: the booking was announced by another payment.    *)
PayRolledBack(p) ==
    /\ At(p, "pay", "checked")
    /\ Return(p)
    /\ UNCHANGED <<account, stripe, wallets, raced, rounded, bookings, incomes,
                   failures>>

(* A booking is paid by card.  Stripe charges whole cents, and what it     *)
(* makes available, less its fees, is no user's wallet yet.                *)
ChargeCard(amount) ==
    /\ incomes < MaxIncomes
    /\ incomes' = incomes + 1
    /\ amount % 100 = 0
    /\ funds' = funds + amount
    /\ charged' = charged + amount
    /\ UNCHANGED <<account, issued, ready, received, wallets, job, raced,
                   rounded, booked, failures>>

(* A booking credits u's wallet: a cancellation or a delivery divides its  *)
(* amount, a refusal or the cron refunds it.  Stripe takes no part in it,  *)
(* whether a card or a wallet had paid, and however often it is divided.   *)
CreditWallet(u, amount) ==
    /\ incomes < MaxIncomes
    /\ incomes' = incomes + 1
    /\ balance' = [balance EXCEPT ![u] = @ + amount]
    /\ booked' = booked + amount
    /\ UNCHANGED <<account, stripe, earnings, job, raced, rounded, charged,
                   failures>>

(* It credits the platform: its share of a cancellation or a delivery. *)
CreditEarnings(amount) ==
    /\ incomes < MaxIncomes
    /\ incomes' = incomes + 1
    /\ earnings' = earnings + amount
    /\ booked' = booked + amount
    /\ UNCHANGED <<account, stripe, balance, job, raced, rounded, charged,
                   failures>>

-----------------------------------------------------------------------------
(* A handler stops where it is. *)
Fail(p) ==
    /\ job[p] # Idle
    /\ failures < MaxFailures
    /\ failures' = failures + 1
    /\ Return(p)
    /\ UNCHANGED <<account, stripe, wallets, raced, rounded, bookings,
                   incomes>>

Next ==
    \/ \E u \in Users : Reactivate(u) \/ Deactivate(u)
    \/ \E a \in Accounts : Onboard(a)
    \/ \E amount \in Shares :
        \/ \E u \in Users : CreditWallet(u, amount)
        \/ CreditEarnings(amount) \/ ChargeCard(amount)
    \/ \E p \in Procs :
        \/ \E u \in Users : ConnectCheck(p, u)
        \/ ConnectIssue(p) \/ ConnectStore(p)
        \/ \E u \in Users, amount \in Amounts : WithdrawCheck(p, u, amount)
        \/ WithdrawTransfer(p) \/ WithdrawRefused(p) \/ WithdrawDebit(p)
        \/ \E amount \in Amounts : PlatformCheck(p, amount)
        \/ PlatformSend(p) \/ PlatformRefused(p) \/ PlatformDebit(p)
        \/ \E u \in Users, amount \in Shares : PayCheck(p, u, amount)
        \/ PayCommit(p) \/ PayRolledBack(p)
        \/ Fail(p)

Spec == Init /\ [][Next]_vars

-----------------------------------------------------------------------------
(* Safety *)

(* Money is only sent to an account that is some user's row: an account    *)
(* that two calls of createConnectedAccount created beside the stored one  *)
(* never receives a transfer.                                              *)
TransfersReachOwners ==
    \A a \in Accounts :
        received[a] > 0 => \E u \in Users : account[u].id = a

(* A wallet ends below zero only if two handlers that take from it, be it  *)
(* withdrawals or payments of bookings, were in flight at once, and the    *)
(* earnings only if two payouts of the platform were: each checks in one   *)
(* step and debits in a later one, and the credits in between only add.    *)
OverdraftTakesTwo ==
    /\ \A u \in Users : u \notin raced => balance[u] >= 0
    /\ NoUser \notin raced => earnings >= 0

(* What is still to be debited for the payouts that were sent. *)
Sent == [p \in Procs |-> IF job[p].at = "sent" THEN job[p].amount ELSE 0]
InFlight == SumFunction(Sent)

(* What payouts took out of Stripe: what was there and what cards paid,    *)
(* less what is there now.                                                 *)
PaidOut == (InitialFunds + charged) - funds

(* What payouts took from wallets and earnings: what they held and what    *)
(* bookings added, less what they hold now.                                *)
Debited ==
    LET initial == SumFunction([u \in Users |-> InitialBalance])
                        + InitialEarnings
    IN  (initial + booked) - (SumFunction(balance) + earnings)

(* What payouts owe the wallets: sent, and neither debited nor about to be.*)
Undebited == PaidOut - Debited - InFlight

(* Every cent that a payout takes out of Stripe it takes from a wallet or  *)
(* the earnings, once, whatever bookings do to them in the meantime, but   *)
(* for half a cent for every withdrawal sent in whole cents.  A handler    *)
(* that stops between its transfer and its debit leaves what it sent       *)
(* undebited; none ever debits what it did not send.                       *)
PayoutsAreDebited ==
    /\ Undebited >= -50 * rounded
    /\ failures = 0 => Undebited <= 50 * rounded

-----------------------------------------------------------------------------
(* Action properties *)

(* A user's stored account is never exchanged for another, so every payout *)
(* of a user goes to the same account.                                     *)
AccountIsStable ==
    [][\A u \in Users :
        account[u].id # NoAccount => account'[u].id = account[u].id]_vars

===============================================================================
