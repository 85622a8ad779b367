# A verification of the BoxBuddy backend

BoxBuddy is a NestJS server over Postgres (Prisma) and Stripe. A sender books
room for a package on a traveller's trip, pays, and the money is held until
the traveller has answered, carried and delivered the package. This directory
holds TLA+ modules of that server, the TLC configurations that check them on
small instances, and theorems about them checked by TLAPS.

Paths below are relative to the repository; `APP` is
`src/modules/application`.

## 1. Inventory

| Component | State | Operations | Talks to |
|---|---|---|---|
| Money of a booking (`APP/booking/booking.service.ts`, `src/config/app.config.ts`) | none: price list, percentage | price, cancellation split, commission | every handler below |
| Booking life cycle (`APP/booking`, `APP/wallet`, `src/modules/payment/stripe`, admin) | `bookings`, `wallets`, `platform_wallet` | create, pay from wallet, pay by card and its webhook, cancel, pickUp, dropOff, complete, reject, problemWithPackage, allConditonsAreNotMet, admin updateStatus | announcement requests (rows), Stripe (calls, webhooks), conversations and notifications (rows) |
| Announcement requests (`APP/travel/travel.service.ts`, `APP/booking/announcement-cron.service.ts`) | `announcement_requests` | created by either payment, answered by the traveller, expired by a cron | bookings, wallets |
| Wallet payouts (`src/modules/payment/stripe`) | `stripe_accounts`, `wallets`, `platform_wallet` | createConnectedAccount, deactivateAccount, processPayout, platformPayout | Stripe (transfers, payouts), bookings (which pay from and credit the same wallets) |
| Wallet rows and deposits (`APP/wallet`) | `wallets`, pending transactions | createUserWallet, createCustomer, depositFunds | accounts |
| Cards and billing (`src/modules/billing`, `saveCard` of `src/modules/payment/stripe`) | `users.billing_id`, `users.stripeCustomerId`, `payment_methods` | ensureCustomer, setup intents, save, default card, detach, card and customer webhooks | Stripe |
| Accounts and codes (`src/modules/auth`, `src/common/repository`, `src/modules/admin/user`) | `users`, `ucodes` | register, Google, Facebook, log in, forgot and reset, verify, change of address and password, phone codes, second factor, block | mail, Stripe, wallets |
| The cron that deletes unverified users (`APP/booking/announcement-cron.service.ts`) | none | selects users and conversations, deletes each with all that hangs on it | every table below, accounts |
| Chat (`src/modules/chat/conversation`, `.../message`) | `conversations`, `messages` | open, remove, send, list, read, count unread | sockets |
| Presence and calls (`src/modules/chat/message/message.gateway.ts`, `src/common/repository/chat`) | the gateway's two maps of sockets, `users.availability` | connect, disconnect, join, call, type, status of a message | sockets |
| Packages, travels, reviews (`APP/package`, `APP/travel`, `APP/reviews`, part of `APP/booking`) | `packages`, `travels`, `bookings`, `reviews`, `reports` | create, edit, remove, book, describe, list, review, report | accounts, the life cycle |
| Notifications, admin panel, mail, storage, guards | rows no handler reads back, or none | lists, edits of one row, I/O | |

### What is hard here

* **Interleaving.** Every handler reads with one `await`, checks, and writes
  with later ones. Nothing is locked except inside a Prisma `$transaction`, and
  then only the rows it writes. Postgres runs it at READ COMMITTED.
* **One handler, several writes.** Cancelling, refusing, expiring and
  delivering each move money in one write and change the booking in another.
  The server may stop in between.
* **A transaction that writes outside itself.** The wallet payment creates the
  announcement request with `this.prisma`, not with its `tx`: the row is visible
  before the payment commits and stays when it is rolled back.
* **Two crons** that select a batch and work it off without looking again; one
  of them deletes rows of seven tables around what users are still doing.
* **Rows found by an address** that is looked up again in a later call, when it
  may be somebody else's.
* **State kept twice**: cards at Stripe and in `payment_methods`, connections in
  memory and in `users.availability`, the newest message and `last_message_id`.
* **Webhooks** that Stripe delivers late, again, or in another order, and
  handlers that swallow an error and answer as if nothing had failed.
* **Rounding.** Shares are computed in floating point and stored with four
  decimals.

### What makes each component correct

* *Money:* a division hands out the amount, takes from nobody, and waiting
  before cancelling never pays.
* *Life cycle:* money is taken once, is given back or paid out only if it was
  taken, is never marked refunded unless it was; a parcel travels only with a
  delivery code; a delivery is paid; a settled booking is not settled again.
* *Requests:* one answer, final, carried out; no answer within 12 hours closes
  the booking and refunds it.
* *Payouts:* what leaves Stripe is taken from the wallet, once; money goes to
  one account per user; no balance below zero.
* *Cards:* no customer is lost; the table and Stripe agree on cards and default.
* *Accounts:* a verified address was proven; codes and passwords go to the
  account they were asked for; a code is good once; a sign-up leaves an account
  that can be used.
* *The deleting cron:* it takes no verified account, all of an account or
  nothing, and in the end everyone nothing holds.
* *Chat:* one conversation per trip and package; the last message is the
  latest; what counts as unread is new.
* *Presence:* a connected user is shown online; events reach open sockets.
* *Catalogue:* one active booking per package, one review per side, one summary;
  each booking is in one list.

`PROJECT.json` lists the hazards behind these, each at its line.
Some of them the code does not avert: two reviews sent at once are two. There
a property excepts exactly what overlapped, by a ghost, and says that nothing
else goes wrong; the hazard's note names the exception.

## 2. The modules

| Module | What it is |
|---|---|
| `Settlement` | The arithmetic: prices, splits, rounding. Pure operators. |
| `BookingEscrow` | The booking life cycle and the announcement requests: 25 actions over the shared tables. |
| `EscrowLedger` | The abstract specification: four counts per booking and the `payment_status` column. |
| `WalletPayout` | Connected accounts, withdrawals, the platform's payout. |
| `Accounts` | Who is a member: sign-up, codes, addresses, passwords, and whom the cron takes. |
| `Chat` | The gateway's maps and availability, conversations, messages. |
| `Catalog` | Trips, packages, bookings as rows, reviews, reports, and the cron's transaction over them. |
| `Cards` | Saved cards and customers, at Stripe and in the database. |
| `MCSettlement`, `MCBookingEscrow`, `MCWalletPayout`, `MCAccounts`, `MCChat`, `MCCatalog`, `MCCards` | Instances for TLC: small constants, symmetry; `MCSettlement` has the booking whose hours pass. |
| `MoneyProofs` | The divisions of `Settlement` for every amount, hour and percentage, and what a sum over a finite set does when a term of it changes. |
| `SettlementProofs` | The properties of `MCSettlement`, from those. |
| `BookingEscrowProofs` | Types, every safety property, the accounts, and the refinement of `EscrowLedger`. |
| `WalletPayoutProofs` | Types and every property of `WalletPayout`. |
| `CardsProofs` | Types and every property of `Cards`. |
| `AccountsProofs` | Types and every safety property of `Accounts`. |
| `ChatProofs` | Types and every property of `Chat`. |
| `CatalogProofs` | Types and every safety property of `Catalog`. |

The modules meet in the database. `Catalog` and `BookingEscrow` share the
bookings: `Catalog` makes them and moves their status by the edges
`BookingEscrow` has, `BookingEscrow` has the money and the races of a booking
that exists. `Accounts`, `Catalog` and `Chat` share the cron: whom it selects and
what happens to the account meanwhile (`Accounts`), what its transaction does to
everything that refers to the account (`Catalog`), what it does to conversations
(`Chat`). To `Accounts`, a card or a review is a row that holds the user
(`pinned`); to `Catalog`, whether a user verifies in time is settled from the
start. `Cards` starts from the `billing_id` that `Accounts` gives. The wallets of
`BookingEscrow` are those of `WalletPayout`: there each payment from a wallet,
each card charge and each credit is an action by itself, without the booking
that decides whether and how often it comes.

### Settlement

Money is an integer number of 0.0001 euro, the unit of the `Decimal(15, 4)`
columns; weights are grams. `Share` is what the database keeps of a percentage
of an amount. `Commissions` is a set: `toFixed(4)` of a binary fraction that
stands exactly between two units may go either way. The hours left are whole
numbers: the code compares fractions, and a fraction of an hour falls into the
band of `> 48`, `>= 24` or the rest that a neighbouring whole hour stands for,
except that 48.5 hours belong with 49. A configured percentage is an integer;
one with decimals is not modelled.

### BookingEscrow

The tables are `booking` (the columns `status`, `paid`, `payment_status`,
`confirmed`, and whether a delivery code is set), `request`, `balance` and
`earnings`. A handler in flight occupies a slot of `Procs`: `job[p]` holds the
`await` it has reached and its local variables. An action is the code from one
`await` that matters to the next:

| Code | Actions |
|---|---|
| `completeBookingWithWallet` | `PayCheck`, then `PayAnnounce` and `PayCommit`, or `PayConflict` |
| `getPaymentIntent`, `processPayment`, Stripe | `ChargeCard` |
| `handlePaymentSuccess` | `WebhookRecord`, `WebhookAnnounce` |
| `cancelBooking` | `CancelCheck`, `CancelSettle`, `CancelMark` |
| `TravelService.updateRequest` | `AnswerCheck`, `AnswerFlag`, then `AcceptConfirm`, or `RefuseCredit` and `RefuseMark` |
| `AnnouncementCronService.handleCron` | `CronSelect`, and for each row `CronCredit`, `CronMark`, `CronProcessed` |
| `pickUp`, `dropOff`, `complete`, ... | `StatusCheck`, then `PickUp`, `Complete`, `Reject`, `ProblemWithPackage`, `ConditionsNotMet`, or `DropOffMark` and `DropOffPay` |
| admin `updateStatus` | `AdminSetStatus` |
| time, crashes | `BecomeOverdue`, `DepartureMoves`, `Fail` |

Three points decide what the model shows.

* *The row locks of the wallet payment.* Between `PayAnnounce` and `PayCommit`
  the transaction has updated its wallet and its booking and not committed.
  A reader sees the old rows; a writer of either waits (`BookingLocked`,
  `WalletLocked`). That lock is why an answer that arrives too early does no
  harm, and the mutant that drops it breaks `SettlementFunded`.
* *The unique column.* `booking_id` of a request is unique, and this alone stops
  a second wallet payment (`PayConflict`).
* *The missing link.* The webhook takes `booking_id` from `metadata.id`, which no
  intent carries. Its requests have `booking = NoBooking`; `about` keeps which
  package and trip they belong to.

`Fail(p)` stops one handler anywhere: a rejected `await`, the timeout of a
Prisma transaction, or, one after another, all that a restart stops. A handler
whose wallet row is missing fails the same way. `Fail` rolls back what an
open transaction wrote and leaves what was written outside it.

The `debits`, `charges`, `refunds`, `payouts` are ghosts: they count what happened to a
booking's money and no action reads them, except `ChargeCard` and
`WebhookRecord` for their bounds and for what Stripe has to deliver.

*Abstractions.* Left out because no handler reads them back: notifications,
conversation labels, `Transaction` rows, cancellation counters, photos, reasons,
texts. A booking's amount is constant: the webhook rewrites it with the charged
amount, the same up to a cent. Bookings exist from the start; `Catalog` has
`create`. A wallet payment waiting for its second row does not hold its first.

### EscrowLedger

What a reader may rely on whatever interleaves, fails or is delivered again: a
booking is debited once; `payment_status` says `completed` only of money that was
taken and `refunded` only of money given back; no count ever goes down. It does
not promise that money is given back once, or not after a delivery, because the
code does not.

### WalletPayout

`account` is the table `stripe_accounts` by user; `issued`, `ready`, `funds` and
`received` are what Stripe knows: the accounts it created, those that may be paid,
what the platform has available, and what each account was sent.

| Code | Actions |
|---|---|
| `createConnectedAccount` | `Reactivate`; or `ConnectCheck`, `ConnectIssue`, `ConnectStore` |
| `deactivateAccount` | `Deactivate` |
| `processPayout` | `WithdrawCheck`, then `WithdrawTransfer` and `WithdrawDebit`, or `WithdrawRefused` |
| `platformPayout` | `PlatformCheck`, then `PlatformSend` and `PlatformDebit`, or `PlatformRefused` |
| `completeBookingWithWallet` | `PayCheck`, then `PayCommit` or `PayRolledBack` |
| `getPaymentIntent`, `processPayment`, Stripe | `ChargeCard` |
| refunds and settlements of bookings | `CreditWallet`, `CreditEarnings` |
| Stripe, crashes | `Onboard`, `Fail` |

The row of a user is unique, and the call that comes second fails after Stripe
has created its account; `ConnectStore` then changes nothing and the account
stays in `issued`. `InCents` is `Math.round(amount * 100)`: on an exact half cent
the binary product decides, so it is a set of one or two amounts.

*Whose money.* A withdrawal and a payment of a booking check and debit the same
balance, so either may overtake the other. A card charge adds to Stripe's funds
and to no wallet; a credit adds to a wallet or the earnings and not to the
funds, whether the booking was paid by card or from a wallet, and however often
it is settled. The module therefore does *not* claim that Stripe holds what
wallets may claim: refunds of bookings paid from a wallet, a booking divided
twice (`cancel_after_delivery`) and Stripe's fees all stand against it, and only
the whole of `BookingEscrow` says when money is owed. It claims what the payouts
themselves must keep: `PaidOut`, what they took out of Stripe, is `Debited`, what
they took from wallets and earnings, but for what is `InFlight`. The ghosts
`charged` and `booked` take out of both what bookings did; `rounded` counts the
withdrawals that were sent in whole cents, and `raced` names whose money two
handlers were about to take at once.

A handler that stops between `WithdrawTransfer` and `WithdrawDebit` has sent money
no wallet pays for. `PayoutsAreDebited` bounds that side only without failures;
the other, that nothing is debited which was not sent, always.

*Abstractions.* The calls to Stripe between a check and a transfer read only
Stripe's state and are one step with it. What a booking credits in one
transaction to several wallets comes here as several credits. `ready` only
grows. Wallets have one currency; `Transaction` rows are left out.

### Accounts

`user` is the `users` table, `code` the `ucodes`, `wallet` the users a wallet row
belongs to, `token` those a JWT was signed for (it does not expire), `batch` what
the cron has selected and not yet taken.

| Code | Actions |
|---|---|
| `register` | `Register`, `Insert`, `Bill`, `SendLink`, `MakeWallet` |
| `googleLogin`, `facebookLogin` | `LetIn`, or `GoogleLogin` / `FacebookLogin`, `Insert`, `Bill`, `MakeWallet` |
| admin `create` | `AdminCreate`, `Insert` |
| `WalletService.createCustomer` | `CustomerCheck`, `Bill`, `MakeWallet` |
| `validateUser`, `login` | `Login` |
| `forgotPassword`, `resendVerificationEmail`, `requestEmailChange` | `AskByAddress` or `AskMove`, then `SendCode` |
| `resetPassword`, `verifyEmail` | `PresentCode`, then `WritePassword` and `DeleteCode`, or `WriteVerified` |
| `changeEmail` | `PresentMove`, `WriteAddress`, `DeleteCode` |
| `changePassword` | `ChangePassword`, `WritePassword` |
| phone number | `PhoneClear`, `PhoneIssue`; `PhoneFind`, `PhoneClaim`, `PhoneStore` |
| second factor; admin `updateBlockedStatus`, `update` | `SetTwoFactor`; `UpdateBlockedStatus`, `AdminUpdate` |
| `handleDeleteUnverifiedUsers` | `SweepSelect`, `SweepDelete`; `SweepFails` |
| time, other modules, crashes | `GrowOld`, `Pin`, `Fail` |

Three points decide what the model shows.

* *A code carries no purpose.* It belongs to a user and an address; whichever of
  `resetPassword`, `verifyEmail` and `changeEmail` is called with it takes it.
  `verifyEmail` leaves it in the table, the other two delete it last.
* *Rows are found twice.* `createToken` reads the user again and stores the
  address it finds then; `resetPassword` writes by address. If addresses change
  hands in between, a code or a password goes astray; `moved` remembers that one
  did under a running handler, and the properties say `~moved` where they need it.
* *What is left when a sign-up stops.* `bare` names the accounts whose sign-up
  stopped half-way, and those of the administrator's `create`, which has no
  customer and no wallet to begin with.

*Abstractions.* An expired code is one nobody presents. Passwords are a flag; the
comparison with the old one is the client's choice. The profile at Facebook is
named by its address. Names, avatars, dates, roles and JWT contents are left out.

### Chat

`socket` are the connections there ever were; `clients` and `activeUsers` are the
gateway's maps, which change in one turn of the event loop; `writes` are the
updates of `users.availability` on their way, which arrive in any order.

| Code | Actions |
|---|---|
| `handleConnection`, `handleDisconnect`, `join` | `HandleConnection`, `HandleDisconnect` (`Found`, `Leave`), `HandleJoin` |
| `ChatRepository.updateUserStatus` | `UpdateUserStatus`, or `StatusRejected` |
| `sendMessage`, `typing`, `call`, ... | `MessageRoute`, `CallRoute`: where the event goes |
| `ConversationService.create`, `remove` | `CreateCheck`, `CreateInsert`; `Remove` |
| `MessageService.create` | `SendCheck`, `SendInsert`, `SendFile` |
| `MessageService.findAll` | `ListMark`, `ListShow` |
| `markMessagesAsRead`, `markAsRead`, `updateMessageStatus` | `MarkMessagesAsRead`, `MarkAsRead`, `UpdateMessageStatus` |
| `unreadMessageCount`, `ConversationService.findAll` | `Unread`, `Inbox` |
| the cron, foreign keys, a restart | `SweepSelect`, `SweepDelete`, `LosesTopic`, `LosesUser`, `Restart` |

`handleDisconnect` looks for the closed socket among the values of the map: a
socket that a later one of the same user has replaced is not found, so nothing
happens, its names for calls included; when the later one closes, the user goes
offline although the first may still be open. A rejected write of `online` is
caught and closes the socket (`StatusRejected` does what `HandleDisconnect` does);
a rejected write of `offline` is not repeated by anybody.

`disturbed` remembers whose availability such a case may leave wrong: two opposite
writes on their way at once, a newest socket that closes before an older one,
a last write of `offline` that is rejected, a restart. It forgets the user when
a socket next opens or closes without any of that. A second socket alone is no
excuse. `left` remembers the sockets that may leave a name behind.

*Abstractions.* A topic is the pair of a package and a trip, which the database
keeps unique in `conversations`. Texts, attachments and pages of a list are left
out; `is_read` is kept because `markAsRead` sets it and nothing that counts
unread messages reads it. The clients map of the notification gateway, and the
recordings of calls, are left out: no other handler reads them.

### Catalog

| Code | Actions |
|---|---|
| `TravelService.create`, `update`, `remove` | `TravelCreate`, `TravelUpdate`, `TravelRemove` |
| `PackageService.create`, `update`, `remove` | `PackageCreate`, `PackageUpdate`, `PackageRemove` |
| `BookingService.create`, `updateSummary` | `BookCheck`, `BookInsert`; `SummaryCheck`, `SummaryWrite` |
| `updateRequest`, the life cycle, admin `updateStatus` | `Accept`, `LifeCycle`, `AllConditionsAreNotMet`, `UpdateStatus` |
| the four lists of bookings | `BookingsAsTraveller`, `BookingsAsPackageOwner`, `BookingHistoryAs...` |
| `ReviewsService.create` | `ReviewCheck`, `ReviewInsert` |
| the cron | `SweepSelect`, `SweepRead`, `SweepCommit`, `SweepRollback` |
| time, a saved card | `Departs`, `SaveCard` |

The cron opens one transaction per user. It reads the trips, the packages and
their bookings, deletes what it has read in an order the foreign keys allow, and
the user last; a row that was added since, a card, or a report about somebody
else's package makes the database refuse, and then all is as it was
(`Refused`). The reads and the deletions are two actions, so that whatever a
handler writes in between is there.

*Abstractions.* `pending` stands for the two statuses before a pick-up,
`pick_up` for the two on the way, `over` for the eight a booking ends in.
Weights are a flag: whether `parseWeight` makes a number of it. Places, dates,
prices, photos and the search are left out.

### Cards

Stripe keeps `made`, `attached`, `intents` and `default`, and reports changes by
`events`; the database keeps two customer ids and `row`, `is_default`.

| Code | Actions |
|---|---|
| `ensureCustomer`, `createSetupIntent` | `CustomerCheck`, `CustomerCreate`, `CustomerKeep` |
| `saveCard` | `SaveAttach`, `SaveKeep`, `SaveStore` |
| `setDefaultCard` | `DefaultCheck`, `DefaultReset`, `DefaultFlag` |
| `detachCard` | `DetachRow`, `DetachAtStripe` |
| `setup_intent.succeeded`, `payment_method.attached` | `HandleAttached`, `Upsert` |
| `payment_method.detached` | `HandleDetached`, or `DetachedRejected` |
| `customer.updated` | `HandleUpdated`, then `UpdatedFlag` or `UpdatedFlagRejected` |
| the client, Stripe's dashboard, crashes | `ConfirmSetupIntent`, `DashboardDetach`, `DashboardDefault`, `Crash` |

An event is delivered in any order, and up to `MaxRepeats` times once more; one
whose handler was cut short is delivered again. Two errors cut nothing short:
the webhook swallows a rejected deletion of a detached card and a rejected update
of the new default, and answers the event, which then does not come again
(`DetachedRejected`, `UpdatedFlagRejected`). The ghosts remember what makes the two
sides part for good: customers made at once (`rushed`) or by a handler that was
cut (`stranded`), a card detached while it was being added (`crossed`), a handler
cut between table and Stripe or a deletion lost that way (`halved`), flags
overtaken by an older event or cleared by an update lost that way (`muddled`).

*Abstractions.* Brand, last digits and expiry of a card are left out, and
attaching a card twice, which Stripe refuses.

## 3. The runs

Passing:

| Run | States | What it shows |
|---|---|---|
| `settlement` | 8 109 | The divisions conserve the amount to one unit (cancellation) or exactly (delivery), and an hour's wait never brings the sender more. |
| `escrow_concurrent` | 723 978 | One booking; two handlers of any kind except webhooks and the negative answers, interleaved at every await; one of them may stop half-way. Money stays accounted for, answers exclusive, codes issued, deliveries paid, and the ledger is implemented. |
| `escrow_serial` | 1 776 144 | Two bookings and one wallet that pays for one and a half; handlers one after another; all five answers; two cancellation bands; an administrator's edit. Long sequences overdraw nothing, expire nothing accepted, and change no answer. |
| `escrow_fair` | 85 649 | Card and wallet payments, a redelivery bound, two handlers, one failure, under fairness: an unanswered request is closed, a refused one refunded; the ledger holds with cards too. |
| `wallet_payout` | 1 877 450 | Two users and the platform, any two of onboarding, withdrawals, platform payouts and payments from wallets, one failure, one credit or charge: transfers reach the account of their user and no orphan of a second onboarding; a wallet is overdrawn only when two that take from it overlap, be they withdrawals or payments; payouts take from wallets and earnings what they take out of Stripe, but for rounding and a handler that stopped in between. |
| `accounts` | 706 195 | Two accounts that may exchange two addresses, two codes, any four requests interleaved at every await, one handler or sweep stopped: marks of verification are deserved, codes and passwords go where they should, codes act once, members are equipped, the cron takes only the unverified. |
| `chat` | 967 357 | Two users with three sockets, two conversations that want one topic, two messages, two handlers, a restart or a rejected write, the cron and the foreign keys: presence, routes, last and unread messages are right but for the exceptions each property names. |
| `catalog` | 1 193 290 | A trip, a package, two bookings, two users of whom any are unverified, three requests, one failing transaction: what is looked for first and inserted later stays single but for real races, every booking is in its lists, the cron deletes all or nothing and in the end everyone nothing holds. |
| `cards` | 1 497 993 | A user with up to two customers and two cards, two handlers one of which may be cut or have a write rejected, events late, in any order and once more: the table and Stripe agree when nothing is under way, but for the exceptions each property names. |

Violations, each a disagreement between the code and what it says:

| Run | Property | What TLC finds |
|---|---|---|
| `card_unanswered` | `CardPaymentIsAnswered` | Paid by card, the booking stays paid and pending for ever: no answer and no cron run reaches it. |
| `cancel_after_delivery` | `NoSettlementAfterPayout` | A delivered and paid booking is cancelled by its sender and its amount divided again. |
| `accept_meets_cron` | `AcceptedNotExpired` | The cron has selected the request, the traveller accepts it, the cron refunds and expires the booking. |

Met while reading, without a run:

* *Bookings and money.* The guard against a second card payment compares with
  `complated` (`stripe.service.ts:110`), so a paid booking is charged again. The
  balance is checked before it is decremented (`wallet.service.ts:882`): two
  bookings paid at once, or one paid during a withdrawal, overdraw a wallet that
  covers one. A parcel under one
  kilogram is priced by the gram, 22.99 euros for half a kilogram, where the comment
  (`booking.service.ts:74`) says as much as a kilogram, 26. A wallet payment that
  is rolled back after it wrote the announcement request leaves the unique
  `booking_id` taken: the booking can never be paid from a wallet again (theorem
  `RolledBackForGood`).
* *Catalogue.* A booking whose traveller has not confirmed is in neither of his
  lists, and a trip between departure and arrival in neither list of trips. No
  code writes the status `completed` of a package, so the history of packages is
  empty. `update` of a package accepts a weight that `create` of a booking then
  cannot read, and the dates of a booked trip can be changed. The summary of a
  user's reviews counts only the page that is shown.
* *Accounts.* An account made through Facebook has no `email_verified_at`, and the
  cron deletes it after ten minutes; the administrator's `create` the same, and
  gives neither customer nor wallet. `LocalStrategy` passes no second factor on,
  so who has enabled it cannot log in with a password. The administrator's
  `update` without a type sets the type to `user`.
  `createCustomer` returns early for an account that has a customer and no
  wallet.
* *The deleting cron.* Its comment says every 10 minutes and 24 hours; it runs every
  minute and deletes after 10 minutes. Who has saved a card or reported somebody
  else's package is never deleted. Deleting one of the two of a paid booking
  deletes the booking. The wallet row stays, without a user.
* *Chat.* `markAsRead` sets `is_read`, which the count of unread messages does not
  read. The unique pair of package and trip lets the first two users block every
  other pair. The chunks of a recorded call are lost on a restart.
* *Cards and wallets.* `billing_id` and `stripeCustomerId` are two customers of one
  user, and the webhook knows the second only. `setDefaultCard` cut between its
  two updates leaves no default, and so does `customer.updated` when its second
  update is rejected: the webhook swallows that error, and the one of deleting a
  detached card, and answers 200. `payWithSavedCard` makes a payment that names no
  booking. `depositFunds` leaves a pending transaction that nothing credits.
  `ensureCentralWalletExists` makes another central wallet at every start.

### Bounds, and why they are enough

* `Procs`: two handlers show every race of two; each of the properties speaks of
  one booking or one row, and no handler waits on more than one other. The
  theorems cover any number.
* `Bookings`, `Requests`: one and one where handlers race (both payments meet on
  the same booking); two and two where a wallet or a cron batch is shared.
  The amounts are 107, whose shares are not whole units, so that settlements
  round; the wallet holds 150, so one payment succeeds and a second must be
  refused or must follow a refund.
* `HourSamples`: the hours on either side of the 24-hour limit where splits
  matter, one value where they do not; `settlement` goes through all hours.
* `MaxCharges`, `MaxDeliveries`: 1.
* `MaxFailures`, `MaxCrashes`, `MaxFaults`, `MaxRepeats`: 1. One interruption or
  rejected write reaches every half-done state; a second adds an independent
  one.
* `MaxAdminEdits`: 1, in `escrow_serial` only. The properties that an edit would
  void by definition say `edits = 0`.
* `wallet_payout`: wallets of 1.60 euros, payouts of 1 and of 1.5050, bookings of
  1, so that any of them fits and two do not, and one payout ends in half a
  cent; the earnings cover one payout and the funds 2 euros; one credit or
  charge (`MaxIncomes`) comes between any two steps and makes a second payout
  possible; two accounts, so that a second onboarding of one user has one to
  leave behind.
* `accounts`: `MaxCalls` 4, with two users and two addresses. Asking for a code,
  presenting it, and another account taking the address in between take three;
  a code that is redeemed twice takes three as well.
* `chat`: `MaxCalls` 4, `MaxMsgs` 2, three sockets. Two sockets of one user and one
  more after both are closed show every order of the maps; two messages are what
  a newer and an older one take; two conversations meet on one topic.
* `catalog`: `MaxCalls` 3, from states that have a trip and a package, and may have a
  booking. Two requests race, and a third changes what they looked at; the cron
  needs no request.
* `cards`: `MaxCalls` 6 (a customer, two cards, a change of the default, a detachment
  and one more), three customers so that one can be left behind.
* `Symmetric` permutes `Requests` in `escrow_serial`, users, accounts and slots in
  `wallet_payout`, users, sockets, conversations and slots in `chat`, and the
  unordered sets of `accounts` and `cards`: all check safety only. `catalog` checks a liveness property and has none.
* `CHECK_DEADLOCK FALSE`: with the bounds used up and every handler returned,
  nothing is left to do.

### Fairness

* `WF(Continue(p))`: a handler in flight goes on. Node resolves a pending await,
  and Postgres answers or ends the transaction.
* `WF(BecomeOverdue(r))`: time passes.
* `SF(CronSelect)` for some slot: the scheduler starts the cron every ten minutes
  whatever else runs. Slots are the model's bound and the cron needs none, so
  that one is free again and again has to be enough; weak fairness would
  let requests fill them at the wrong moments.
* `WF(SweepStep)` in `Catalog`: the other cron starts every minute, and a run goes
  through the users it found, one transaction after another. It is weak: the cron
  has no slot, and a step of it stays possible until it is taken.
* Nothing is assumed of clients, of Stripe, or of failures.

### Mutants

Each property of a passing run has a mutant: an operator beside the definition it
replaces, with a plausible slip, that makes TLC find the property violated.
They are marked `Mutant` in the modules and used by nothing else.

## 4. The proofs

For every value of the constants that satisfies the assumptions their module
declares:

| Theorem | States |
|---|---|
| `TypeCorrect` | `Spec => []TypeOK` of `BookingEscrow` |
| `RefundsAreBacked` | `Spec => []RefundBacked` |
| `WalletDebitsOnce` | `Spec => []WalletDebitOnce` |
| `RolledBackForGood` | `Spec => [][\A b \in Bookings : RolledBack(b) => RolledBack(b)']_vars` |
| `AnswersAreExclusive` | `Spec => []AnswersExclusive` |
| `LedgerImplemented` | `Spec => ImplementsLedger` |
| `CodeIsIssued` | `Spec => []CodeBeforeHandover` |
| `SettlementsAreFunded` | `Spec => []SettlementFunded` |
| `DeliveriesArePaid` | `Spec => []DeliveredIsPaid` |
| `MoneyIsAccounted` | `Spec => []MoneyAccounted` |
| `WalletsAreCovered` | `Spec /\ []PaymentsAlone => []NoOverdraft` |
| `AnswersAreFinal` | `Spec /\ []RequestsAlone => AnswerIsFinal` |
| `AcceptedAreNotExpired` | `Spec /\ []RequestsAlone => []AcceptedNotExpired` |
| `OneAfterAnother` | the three, of handlers that run one after another |
| `PayoutTypeCorrect` | `Spec => []TypeOK` of `WalletPayout` |
| `TransfersFindOwners` | `Spec => []TransfersReachOwners` |
| `OverdraftNeedsTwo` | `Spec => []OverdraftTakesTwo` |
| `AccountsStayPut` | `Spec => AccountIsStable` |
| `PayoutsMeetDebits` | `Spec => []PayoutsAreDebited` |
| `CancelConserved`, `WaitingCosts`, `DeliveryConserved` | the division, for every amount, hours and percentage |
| `SumUpdate` | a sum over any finite set changes by what one of its terms does |
| `DivisionIsConserved`, `WaitingIsNoUse` | `DivisionConserves` and `WaitingNeverPays`, the properties of `settlement`, which follow from them |
| `TypesHold` in `AccountsProofs`, `ChatProofs`, `CatalogProofs`, `CardsProofs` | `Spec => []TypeInv` (`TypeOK` of `Cards`) |
| `SweptHold`, `EquippedHold`, `CodesHold`, `AddressesHold`, `MarksHold` | the five properties of `accounts` |
| `TopicsHold`, `RoutesHold`, `PresenceHolds`, `LastHolds`, `UnreadHolds` | the five properties of `chat` |
| `BookingsHold`, `ReviewsHold`, `SummariesHold`, `ListsHold`, `StaysHold` | the five safety properties of `catalog` |
| `CustomersKept`, `CardsAgree`, `DefaultsAgree` | the three properties of `cards` |

The assumptions on the constants are the modules' named `ASSUME`s, which TLC
evaluates in every run: the values that stand for nothing (`NoBooking`, `NoUser`,
...) are not values of their kind, amounts and bounds are natural numbers, owner
and traveller of a booking are users. `FiniteAssumption`, in the two modules that
add up money, says that users and bookings, or users and handlers, are finitely
many; a sum over an infinite set means nothing.

*The argument.* Types are not inductive alone: a step of a handler writes
rows named by what the handler remembers, so `TypeInv` adds what a handler past
its check must know (`JobsRemember` and `LinksSound` in `BookingEscrowProofs`,
`Knows` and `JobsSound` in the younger modules). `TypeInv` is proved action by
action and every other invariant stands on it.

*Sums.* `SumFunction` of the community modules folds a function over its domain in
an order nobody knows. `MoneyProofs` proves what the accounts need of it by
induction over the subsets of the domain. The library's induction theorems
cannot be used, since they take the formula as a parameter; instead the
induction speaks of the *set* of subsets for which a claim holds
(`SubsetsByInduction`), which rests on a least number in every set of numbers
(`LeastNumber`, from `NatLessThanWellFounded`).

Of `BookingEscrow` and `WalletPayout`:

* *Refunds* (`RefundInv`): a handler that has reached `credited` or `marked` has
  `refunds[b] > 0`; only such a handler writes `refunded`.
* *Debits* (`WalletInv`): while a payment is `announced` the booking is linked,
  not debited, and no other payment of it is announced; a booking that is
  debited is linked. A second payment then meets `PayConflict`.
  No step unlinks a booking (`LinksStay`), so one that is linked without a debit
  or a payment in flight stays so (`RolledBackForGood`).
* *Answers*: `Answered` clears one flag when it sets the other, except when a
  negative answer leaves `is_refused` as it was, which cannot leave
  `is_accepted` set.
* *Ledger*: each action is one ledger action or a stutter under the map
  `mark <- payment_status`; `PayCommit` needs `WalletInv`, `CancelMark`,
  `RefuseMark` and `CronMark` need `RefundInv`.
* *Codes* (`CodeInv`): a status after pick-up is only written over one that
  has a code, or by a handler that remembers having seen one.
* *Funding* (`FundedInv`), under no failures and no edits: a linked row belongs to a
  booking that is debited or in payment, and whatever needs the booking row
  waits for the commit.
* *Deliveries* (`DeliveredInv`): `delivered` is written by `dropOff`, which stays
  in flight until it has paid.
* *Money* (`MoneyStep`): `MoneyAccounted` is inductive as it stands, given the types.
  A step that moves money changes one wallet, two, or the earnings (`CreditGains`)
  and one count of one booking (`DueChanges`); `CancelConserved`, `CancelExact` and
  `DeliveryConserved` say that what is handed out is the amount, but for one unit
  that `Rounded` counts.
* *Covered wallets* (`CoveredInv`): the check and the decrement of a wallet payment
  are apart, and two payments of one user at once do overdraw it. `PaymentsAlone`
  says that there never are two; then the wallet still covers the payment that
  is in flight, since every other step only adds to wallets.
* *Final answers* (`HeldInv`): `RequestsAlone` says that no two handlers are about
  to answer one request, and none one that the cron has selected. What a handler
  has read of its request then still holds when it writes. `accept_meets_cron`
  shows what happens otherwise, so the condition is no convenience.
* *Expiry* (`ExpiredInv`), under the same condition and, as the property says, without
  failures and edits: an expired booking has a request that nobody accepted and
  that is processed, or that a cron run is closing; rows are linked one to one
  (`LinksSound`), so this is the only one.
* *Accounts* (`AccountInv`): a withdrawal in flight remembers the stored account of
  its user, and a stored id never changes, so what it sends goes to a row.
* *Overdrafts* (`RaceInv`): as long as no two handlers that take from a user's wallet
  overlapped, the one in flight, a withdrawal or a payment, is alone (`Covered`)
  and the wallet covers it; credits only add, so the debit leaves it at zero or
  above. The platform's earnings likewise.
* *Payouts and debits* (`BooksStep`): what is sent is counted in `InFlight` until it is
  debited, so that neither the debit nor the platform's transfer moves
  `Undebited`; a user's transfer moves it by at most half a cent and is counted in
  `rounded`. What bookings do moves a balance and `booked`, or the funds and
  `charged`, by the same amount; stopping a handler only raises `Undebited`.

Of `Accounts`, `Chat`, `Catalog` and `Cards`:

* *Who the cron takes* (`SweepInv` of `AccountsProofs`): what is in `batch` is there,
  and unverified unless it is in `late`; nothing brings a row of `batch` back.
* *Sign-ups* (`EquipInv`): a sign-up that has inserted a row is the only one for it,
  the row is billed before the wallet is made, and whoever stops says so in `bare`.
* *Codes* (`CodeInv`): for each code, `redeemed` and the handlers that hold it
  together are at most one (`MailedOnce`), or `reusable` says why not; a code for
  a number is claimed by its deletion before it is used (`TextedOnce`).
* *Addresses* (`AddrInv`): no two members have one address, and, as long as `moved`
  is false, what a handler has looked up still holds (`Relies`). Every step that
  changes an address either finds no handler that relies on it or sets `moved`.
* *Conversations*: the insertion asks for a live conversation of the topic in the
  same step, as the unique pair of columns does; a topic is only ever lost.
* *Routes* (`RouteInv`): an entry of `clients` is an open socket of that user; a name
  is an open socket's, or one in `left`.
* *Presence* (`PresenceInv`): every write on its way of an undisturbed user says what
  is so, whether a socket is open (`Shown`), and when there is none `availability`
  says it (`SettledFor`). `LeaveSettles` shows it of a socket that closes, on its own
  or because its write was rejected.
* *Messages* (`MessageInv`): a message is in a live conversation and for one of its
  two; a handler that is still filing one is the only one that holds it, and
  every newer message was created beside it; what has been listed was marked
  read first, or slipped in. With it an older message can overwrite
  `last_message_id` only when the newer one was created beside it. The steps
  that neither create nor file a message share one lemma, `MessageFrame`.
* *Bookings* (`BookingInv`): the bookings a handler knew when it looked are not under
  way, unless revived; the rest of the package's came beside its own.
* *Reviews* (`ReviewInv`): as long as a review is under way there is none of that
  user, unless the pair is in `again`. *Lists* (`ListedInv`): a booking on its way was
  confirmed or put there by the administrator.
* *What the cron deletes* (`SweepInv` of `CatalogProofs`): the selected users are
  unverified, and the bookings read for one of them are his, as sender or as
  traveller; `Refused` does the rest.

* *Customers* (`KeptInv`): a handler that is making a customer of one kind is alone
  with it and finds none stored, unless the user is in `rushed`; what it has made
  is in no column yet and no other handler has it.
* *Cards* (`OwnerInv`, `SettleInv`): all that speaks of a card, its row, events and
  handlers, is of one user. A detached card that was not `crossed` is being
  stored by nobody, and its row, unless it was `halved`, goes with an event; an
  attached one that was not `halved` has a row, or a handler or an event that
  will write it.
* *Defaults* (`OrderInv`): unless the user is in `muddled` or `rushed`, every event and
  handler about the default names the present one, and the flag is right or one
  of them is on its way.

*Only model-checked:* the liveness properties, `UnansweredIsClosed` and
`RefusedIsRefunded` of `BookingEscrow` and `SweptInTheEnd` of `Catalog`: liveness
under fairness and `ENABLED` are out of the prover's reach. So are induction
theorems with an operator as a parameter, which *Sums* goes around. What the
violating runs show is shown by their counterexamples. Every other property of
a run is a theorem. No module declares a `RECURSIVE` operator.

## 5. Not modelled

* *Notifications.* Rows and socket messages; no handler reads them back. Its gateway
  keeps a map of clients of its own, which only decides whether an event is
  published.
* *Recordings of calls.* Chunks gathered in memory and written to a file at the end.
* *Mail, storage, guards, commands.* I/O and framework glue without state.
* *The rest of the administrator's panel, searches, lists of cards and payouts.*
  Queries, and edits of one row that no other handler checks.
* *Deposits.* `depositFunds` makes a payment intent, but the webhook of its success
  credits no wallet (that part is commented out): there is no state to model.
  `holdFunds` and `releaseFunds` have no caller. `payWithSavedCard` charges a card
  for no booking.
* *Payout and identity webhooks.* The former look for a `metadata.transactionId` no
  payout carries; the latter writes a status that is only shown.
* *Numbers.* Amounts rewritten to whole cents by the webhook, percentages with
  decimals.
