---------------------------------- MODULE Cards ----------------------------------
(***************************************************************************)
(* Saved cards and the customers they are attached to: BillingService,     *)
(* StripeService.saveCard, and the events about cards and customers that   *)
(* WalletWebhookController takes.                                          *)
(*                                                                         *)
(* Two copies of the same things are kept, one at Stripe and one in the    *)
(* table payment_methods.  Calls change Stripe first or the table first,   *)
(* and Stripe reports every change by an event that arrives later, in any  *)
(* order, at least once.  A user has two customer ids: billing_id, made    *)
(* when the account is (see Accounts) or by saveCard, and                  *)
(* stripeCustomerId, made by BillingService; the webhook knows the second. *)
(***************************************************************************)
EXTENDS Naturals

CONSTANTS
    Users, NoUser,
    CardIds, NoCard,            \* payment methods, never attached twice
    Customers, NoCustomer,      \* ids of customers, never used twice
    Procs,                      \* slots for handlers in flight
    MaxCalls,                   \* bound: requests, and steps taken at Stripe
    MaxRepeats,                 \* bound: events delivered once more
    MaxCrashes                  \* bound: handlers cut short, writes rejected

ASSUME CardsAssumption ==
    /\ NoUser \notin Users
    /\ NoCard \notin CardIds
    /\ NoCustomer \notin Customers
    /\ MaxCalls \in Nat
    /\ MaxRepeats \in Nat
    /\ MaxCrashes \in Nat

VARIABLES
    (* Stripe. *)
    made,               \* customers there are, by the user they were made for
    attached,           \* payment method -> its customer
    detached,           \* payment methods that have been detached
    intents,            \* customers a SetupIntent has been made for
    default,            \* customer -> invoice_settings.default_payment_method
    events,             \* events not delivered, or to be delivered again
    (* The database. *)
    billing_id, stripeCustomerId,
    row,                \* payment_methods: whose each card is
    is_default,         \* payment_methods: cards flagged as default
    job,                \* the handlers in flight
    (* Ghosts. *)
    rushed,             \* users two of whose customers were made at once
    stranded,           \* customers made by a handler cut short
    crossed,            \* cards detached while they were still being added
    halved,             \* cards changed on one side whose other change was lost
    muddled,            \* users whose flags may have fallen behind
    (* Counters behind the bounds. *)
    calls, repeats, crashes

stripe == <<made, attached, detached, intents, default>>
table == <<row, is_default>>
ids == <<billing_id, stripeCustomerId>>
ghosts == <<rushed, stranded, crossed, halved, muddled>>
vars == <<stripe, events, ids, table, job, ghosts, calls, repeats, crashes>>

Event == [type : {"attached", "detached", "updated"},
          customer : Customers,
          card : CardIds \cup {NoCard}]

Job == [op : {"none", "customer", "save", "default", "detach", "upsert",
              "updated"},
        at : {"start", "made", "stored", "reset"},
        user : Users \cup {NoUser},
        card : CardIds \cup {NoCard},
        customer : Customers \cup {NoCustomer}]
Idle == [op |-> "none", at |-> "start", user |-> NoUser, card |-> NoCard,
         customer |-> NoCustomer]

TypeOK ==
    /\ made \in [Customers -> Users \cup {NoUser}]
    /\ attached \in [CardIds -> Customers \cup {NoCustomer}]
    /\ detached \subseteq CardIds
    /\ intents \subseteq Customers
    /\ default \in [Customers -> CardIds \cup {NoCard}]
    /\ events \subseteq Event
    /\ billing_id \in [Users -> Customers \cup {NoCustomer}]
    /\ stripeCustomerId \in [Users -> Customers \cup {NoCustomer}]
    /\ row \in [CardIds -> Users \cup {NoUser}]
    /\ is_default \subseteq CardIds
    /\ job \in [Procs -> Job]
    /\ rushed \subseteq Users
    /\ stranded \subseteq Customers
    /\ crossed \subseteq CardIds
    /\ halved \subseteq CardIds
    /\ muddled \subseteq Users
    /\ calls \in Nat
    /\ repeats \in Nat
    /\ crashes \in Nat

(* Users there are, some with the billing_id their registration gave them, *)
(* some with the other customer; no card is saved.                         *)
Init ==
    /\ made \in [Customers -> Users \cup {NoUser}]
    /\ billing_id \in [Users -> Customers \cup {NoCustomer}]
    /\ stripeCustomerId \in [Users -> Customers \cup {NoCustomer}]
    /\ \A cus \in Customers, u \in Users :
            made[cus] = u <=> cus \in {billing_id[u], stripeCustomerId[u]}
    /\ \A u, v \in Users :
            billing_id[u] = stripeCustomerId[v] => billing_id[u] = NoCustomer
    /\ attached = [c \in CardIds |-> NoCustomer]
    /\ detached = {}
    /\ intents = {stripeCustomerId[u] : u \in Users} \ {NoCustomer}
    /\ default = [c \in Customers |-> NoCard]
    /\ events = {}
    /\ row = [c \in CardIds |-> NoUser]
    /\ is_default = {}
    /\ job = [p \in Procs |-> Idle]
    /\ rushed = {}
    /\ stranded = {}
    /\ crossed = {}
    /\ halved = {}
    /\ muddled = {}
    /\ calls = 0
    /\ repeats = 0
    /\ crashes = 0

-----------------------------------------------------------------------------
(* Helpers *)

Call == calls < MaxCalls /\ calls' = calls + 1
Failure == crashes < MaxCrashes /\ crashes' = crashes + 1

Begin(p, op, at, u, c, cus) ==
    job' = [job EXCEPT ![p] = [op |-> op, at |-> at, user |-> u, card |-> c,
                               customer |-> cus]]
Start(p, op, at, u, c, cus) ==
    job[p] = Idle /\ Call /\ Begin(p, op, at, u, c, cus)
MoveTo(p, place) == job' = [job EXCEPT ![p].at = place]
Return(p) == job' = [job EXCEPT ![p] = Idle]
At(p, op, place) == job[p].op = op /\ job[p].at = place

Jobs(ops) == {p \in Procs : job[p].op \in ops}

Attached(c) == attached[c] # NoCustomer
Fresh(c) == ~Attached(c) /\ c \notin detached

(* findUserIdByCustomerId *)
FindUser(cus) == {u \in Users : stripeCustomerId[u] = cus}

(* What may still add card c to the table.                                 *)
Adding(c) ==
    \/ \E e \in events : e.type = "attached" /\ e.card = c
    \/ \E p \in Jobs({"upsert", "save"}) : job[p].card = c

(* What may still change the flags of user u's cards.                      *)
Flagging(u) ==
    \/ \E e \in events : e.type = "updated" /\ u \in FindUser(e.customer)
    \/ \E p \in Jobs({"default", "updated"}) : job[p].user = u

(* A payment method is attached, for good or bad, to one customer.         *)
Attach(c, cus) ==
    /\ attached' = [attached EXCEPT ![c] = cus]
    /\ events' = events \cup {[type |-> "attached", customer |-> cus,
                               card |-> c]}

(* It is detached; a customer whose default it was has none.               *)
Detach(c) ==
    LET cus == attached[c]
        was == default[cus] = c
    IN  /\ attached' = [attached EXCEPT ![c] = NoCustomer]
        /\ detached' = detached \cup {c}
        /\ default' = IF was THEN [default EXCEPT ![cus] = NoCard] ELSE default
        /\ events' = events
                \cup {[type |-> "detached", customer |-> cus, card |-> c]}
                \cup IF was THEN {[type |-> "updated", customer |-> cus,
                                   card |-> NoCard]}
                            ELSE {}
        /\ crossed' = IF Adding(c) THEN crossed \cup {c} ELSE crossed
        /\ muddled' = IF was THEN muddled \cup {u \in FindUser(cus) : Flagging(u)}
                             ELSE muddled

(* The default of user u's customer is set; the user is in order again if  *)
(* nothing older is still to come.                                         *)
SetDefault(u, c) ==
    LET cus == stripeCustomerId[u]
    IN  /\ default' = [default EXCEPT ![cus] = c]
        /\ events' = events \cup {[type |-> "updated", customer |-> cus,
                                   card |-> c]}
        /\ muddled' = IF Flagging(u) THEN muddled \cup {u} ELSE muddled \ {u}

-----------------------------------------------------------------------------
(* ensureCustomer *)

(* Mutant: it is not asked whether the user has a customer. *)
CustomerCheckNothing(p, u) ==
    /\ Start(p, "customer", "start", u, NoCard, NoCustomer)
    /\ rushed' = IF \E q \in Jobs({"customer"}) : job[q].user = u
                    THEN rushed \cup {u} ELSE rushed
    /\ UNCHANGED <<stripe, events, ids, table, stranded, crossed, halved,
                   muddled, repeats, crashes>>

(* A user who has one keeps it, and gets one more SetupIntent for it ...   *)
CustomerCheck(p, u) ==
    /\ stripeCustomerId[u] = NoCustomer
    /\ Start(p, "customer", "start", u, NoCard, NoCustomer)
    /\ rushed' = IF \E q \in Jobs({"customer"}) : job[q].user = u
                    THEN rushed \cup {u} ELSE rushed
    /\ UNCHANGED <<stripe, events, ids, table, stranded, crossed, halved,
                   muddled, repeats, crashes>>

(* ... else one is made at Stripe (by saveCard with the card on it) ...    *)
CustomerCreate(p) ==
    /\ At(p, "customer", "start")
    /\ \E cus \in Customers :
            /\ made[cus] = NoUser
            /\ made' = [made EXCEPT ![cus] = job[p].user]
            /\ job' = [job EXCEPT ![p].at = "made", ![p].customer = cus]
    /\ UNCHANGED <<attached, detached, intents, default, events, ids, table,
                   ghosts, calls, repeats, crashes>>

(* ... and kept, over one that another call has kept in the meantime; a    *)
(* SetupIntent is made for it.                                             *)
CustomerKeep(p) ==
    /\ At(p, "customer", "made")
    /\ stripeCustomerId' = [stripeCustomerId EXCEPT ![job[p].user] =
                                                        job[p].customer]
    /\ intents' = intents \cup {job[p].customer}
    /\ Return(p)
    /\ UNCHANGED <<made, attached, detached, default, events, billing_id, table,
                   ghosts, calls, repeats, crashes>>

(* The client confirms the SetupIntent: Stripe attaches the card, and says *)
(* so twice, by setup_intent.succeeded and payment_method.attached.        *)
ConfirmSetupIntent(cus, c) ==
    /\ cus \in intents
    /\ Fresh(c)
    /\ Call
    /\ Attach(c, cus)
    /\ UNCHANGED <<made, detached, intents, default, ids, table, job, ghosts, repeats,
                   crashes>>

-----------------------------------------------------------------------------
(* StripeService.saveCard *)

(* With a billing_id the card is attached to it; without, a customer is    *)
(* made with the card on it ...                                            *)
SaveAttach(p, u, c) ==
    /\ Fresh(c)
    /\ \/ /\ billing_id[u] # NoCustomer
          /\ Start(p, "save", "stored", u, c, billing_id[u])
          /\ Attach(c, billing_id[u])
          /\ UNCHANGED made
       \/ /\ billing_id[u] = NoCustomer
          /\ \E cus \in Customers :
                /\ made[cus] = NoUser
                /\ made' = [made EXCEPT ![cus] = u]
                /\ Start(p, "save", "made", u, c, cus)
                /\ Attach(c, cus)
    /\ rushed' = IF billing_id[u] = NoCustomer
                        /\ \E q \in Procs : /\ At(q, "save", "made")
                                            /\ job[q].user = u
                    THEN rushed \cup {u} ELSE rushed
    /\ UNCHANGED <<detached, intents, default, ids, table, stranded, crossed, halved,
                   muddled, repeats, crashes>>

(* ... which is kept ...                                                   *)
SaveKeep(p) ==
    /\ At(p, "save", "made")
    /\ billing_id' = [billing_id EXCEPT ![job[p].user] = job[p].customer]
    /\ MoveTo(p, "stored")
    /\ UNCHANGED <<stripe, events, stripeCustomerId, table, ghosts, calls,
                   repeats, crashes>>

(* A new row has no flag: if Stripe calls the card the default already,    *)
(* the flag is behind.                                                     *)
AddRow(c, u) ==
    /\ row' = [row EXCEPT ![c] = u]
    /\ muddled' = IF \E cus \in Customers : default[cus] = c
                     THEN muddled \cup {u} ELSE muddled

(* ... and then the row is created.                                        *)
SaveStore(p) ==
    /\ At(p, "save", "stored")
    /\ IF row[job[p].card] = NoUser
          THEN AddRow(job[p].card, job[p].user)
          ELSE UNCHANGED <<row, muddled>>
    /\ Return(p)
    /\ UNCHANGED <<stripe, events, ids, is_default, rushed, stranded, crossed,
                   halved, calls, repeats, crashes>>

-----------------------------------------------------------------------------
(* setDefaultCard and detachCard *)

(* Mutant: the flags of the user's other cards stay. *)
ResetFlagsNot(u) == is_default

(* updateMany: no card of user u's is the default.                         *)
ResetFlags(u) == {c \in is_default : row[c] # u}

(* setDefaultCard: first Stripe, which asks for a card of that customer ...*)
DefaultCheck(p, u, c) ==
    /\ stripeCustomerId[u] # NoCustomer
    /\ attached[c] = stripeCustomerId[u]
    /\ Start(p, "default", "start", u, c, stripeCustomerId[u])
    /\ SetDefault(u, c)
    /\ UNCHANGED <<made, attached, detached, intents, ids, table, rushed, stranded,
                   crossed, halved, repeats, crashes>>

(* ... then no card is the default, and then this one, if it has a row.    *)
DefaultReset(p) ==
    /\ At(p, "default", "start")
    /\ is_default' = ResetFlags(job[p].user)
    /\ MoveTo(p, "reset")
    /\ UNCHANGED <<stripe, events, ids, row, ghosts, calls, repeats, crashes>>

DefaultFlag(p) ==
    /\ At(p, "default", "reset")
    /\ is_default' = IF row[job[p].card] # NoUser
                        THEN is_default \cup {job[p].card} ELSE is_default
    /\ Return(p)
    /\ UNCHANGED <<stripe, events, ids, row, ghosts, calls, repeats, crashes>>

DropRow(c) ==
    /\ row' = [row EXCEPT ![c] = NoUser]
    /\ is_default' = is_default \ {c}

(* detachCard: the row, without which nothing happens ...                  *)
DetachRow(p, c) ==
    /\ row[c] # NoUser
    /\ Start(p, "detach", "start", row[c], c, NoCustomer)
    /\ DropRow(c)
    /\ UNCHANGED <<stripe, events, ids, ghosts, repeats, crashes>>

(* ... and then Stripe, which refuses for a card that is not attached.     *)
DetachAtStripe(p) ==
    /\ At(p, "detach", "start")
    /\ IF Attached(job[p].card)
          THEN Detach(job[p].card)
          ELSE UNCHANGED <<attached, detached, default, events, crossed, muddled>>
    /\ Return(p)
    /\ UNCHANGED <<made, intents, ids, table, rushed, stranded, halved, calls,
                   repeats, crashes>>

(* The dashboard of Stripe: a card is detached, a default is set.          *)
DashboardDetach(c) ==
    /\ Attached(c)
    /\ Call
    /\ Detach(c)
    /\ UNCHANGED <<made, intents, ids, table, job, rushed, stranded, halved,
                   repeats, crashes>>

DashboardDefault(u, c) ==
    /\ stripeCustomerId[u] # NoCustomer
    /\ attached[c] = stripeCustomerId[u]
    /\ default[stripeCustomerId[u]] # c
    /\ Call
    /\ SetDefault(u, c)
    /\ UNCHANGED <<made, attached, detached, intents, ids, table, job, rushed,
                   stranded, crossed, halved, repeats, crashes>>

-----------------------------------------------------------------------------
(* The webhook *)

(* An event is delivered; it may be delivered once more.                   *)
Taken(e) ==
    \/ events' = events \ {e} /\ UNCHANGED repeats
    \/ /\ repeats < MaxRepeats
       /\ repeats' = repeats + 1
       /\ UNCHANGED events

(* setup_intent.succeeded and payment_method.attached: the customer's user *)
(* is looked up and the card retrieved ...                                 *)
HandleAttached(p, e) ==
    /\ e \in events
    /\ e.type = "attached"
    /\ job[p] = Idle
    /\ IF FindUser(e.customer) = {}
          THEN UNCHANGED job
          ELSE \E u \in FindUser(e.customer) :
                    Begin(p, "upsert", "start", u, e.card, e.customer)
    /\ Taken(e)
    /\ UNCHANGED <<stripe, ids, table, ghosts, calls, crashes>>

(* Mutant: the row is found and nothing is created. *)
UpsertUpdateOnly(p) ==
    /\ job[p].op = "upsert"
    /\ Return(p)
    /\ UNCHANGED <<stripe, events, ids, table, ghosts, calls, repeats, crashes>>

(* ... and its row is written, whatever has become of the card.            *)
Upsert(p) ==
    /\ job[p].op = "upsert"
    /\ IF row[job[p].card] = NoUser
          THEN AddRow(job[p].card, job[p].user)
          ELSE UNCHANGED <<row, muddled>>
    /\ Return(p)
    /\ UNCHANGED <<stripe, events, ids, is_default, rushed, stranded, crossed,
                   halved, calls, repeats, crashes>>

(* payment_method.detached *)
HandleDetached(e) ==
    /\ e \in events
    /\ e.type = "detached"
    /\ DropRow(e.card)
    /\ Taken(e)
    /\ UNCHANGED <<stripe, ids, job, ghosts, calls, crashes>>

(* Its deletion is rejected: the error goes no further, so the event is    *)
(* answered like any other and need not come again.                        *)
DetachedRejected(e) ==
    /\ e \in events
    /\ e.type = "detached"
    /\ Failure
    /\ Taken(e)
    /\ halved' = IF row[e.card] # NoUser /\ e \notin events'
                    THEN halved \cup {e.card} ELSE halved
    /\ UNCHANGED <<stripe, ids, table, job, rushed, stranded, crossed, muddled,
                   calls>>

(* customer.updated: no card of the user's is the default ...              *)
HandleUpdated(p, e) ==
    /\ e \in events
    /\ e.type = "updated"
    /\ job[p] = Idle
    /\ IF FindUser(e.customer) = {}
          THEN UNCHANGED <<job, is_default>>
          ELSE \E u \in FindUser(e.customer) :
                /\ is_default' = ResetFlags(u)
                /\ Begin(p, "updated", "start", u, e.card, e.customer)
    /\ Taken(e)
    /\ UNCHANGED <<stripe, ids, row, ghosts, calls, crashes>>

(* ... and then the one the event names, if it has a row.                  *)
UpdatedFlag(p) ==
    /\ job[p].op = "updated"
    /\ LET c == job[p].card
       IN  is_default' = IF c # NoCard /\ row[c] # NoUser
                            THEN is_default \cup {c} ELSE is_default
    /\ Return(p)
    /\ UNCHANGED <<stripe, events, ids, row, ghosts, calls, repeats, crashes>>

(* That second update is rejected: this error too goes no further, the     *)
(* event is answered, and no card is left flagged.                         *)
UpdatedFlagRejected(p) ==
    /\ job[p].op = "updated"
    /\ job[p].card # NoCard
    /\ row[job[p].card] # NoUser
    /\ Failure
    /\ muddled' = muddled \cup {job[p].user}
    /\ Return(p)
    /\ UNCHANGED <<stripe, events, ids, table, rushed, stranded, crossed, halved,
                   calls, repeats>>

-----------------------------------------------------------------------------
(* A handler is cut short, by the end of the process or by an error it     *)
(* does not swallow.  Stripe delivers again an event that has not been     *)
(* answered.                                                               *)
Crash(p) ==
    /\ job[p].op # "none"
    /\ Failure
    /\ events' = events \cup
            CASE job[p].op = "upsert" -> {[type |-> "attached",
                        customer |-> job[p].customer, card |-> job[p].card]}
              [] job[p].op = "updated" -> {[type |-> "updated",
                        customer |-> job[p].customer, card |-> job[p].card]}
              [] OTHER -> {}
    /\ stranded' = IF job[p].at = "made" THEN stranded \cup {job[p].customer}
                                         ELSE stranded
    /\ halved' = IF job[p].op \in {"save", "detach"}
                    THEN halved \cup {job[p].card} ELSE halved
    /\ muddled' = IF At(p, "default", "reset") THEN muddled \cup {job[p].user}
                                               ELSE muddled
    /\ Return(p)
    /\ UNCHANGED <<stripe, ids, table, rushed, crossed, calls, repeats>>

BillingRoutes ==
    \E p \in Procs :
        \/ \E u \in Users :
            \/ CustomerCheck(p, u)
            \/ \E c \in CardIds : SaveAttach(p, u, c) \/ DefaultCheck(p, u, c)
        \/ \E c \in CardIds : DetachRow(p, c)

AtStripe ==
    \/ \E cus \in Customers, c \in CardIds : ConfirmSetupIntent(cus, c)
    \/ \E c \in CardIds : DashboardDetach(c)
    \/ \E u \in Users, c \in CardIds : DashboardDefault(u, c)

Webhook ==
    \E e \in events :
        \/ \E p \in Procs : HandleAttached(p, e) \/ HandleUpdated(p, e)
        \/ HandleDetached(e) \/ DetachedRejected(e)

Continue(p) ==
    \/ CustomerCreate(p) \/ CustomerKeep(p)
    \/ SaveKeep(p) \/ SaveStore(p)
    \/ DefaultReset(p) \/ DefaultFlag(p)
    \/ DetachAtStripe(p)
    \/ Upsert(p) \/ UpdatedFlag(p)

Next ==
    \/ BillingRoutes
    \/ AtStripe
    \/ Webhook
    \/ \E p \in Procs : Continue(p) \/ UpdatedFlagRejected(p) \/ Crash(p)

Spec == Init /\ [][Next]_vars

-----------------------------------------------------------------------------
(* Every customer at Stripe is in the database of the user it was made     *)
(* for, or on its way there; unless two were made for the user at once, or *)
(* the handler that made it was cut short.                                 *)
CustomersAreKept ==
    \A cus \in Customers : \A u \in Users :
        made[cus] = u =>
            \/ cus \in {billing_id[u], stripeCustomerId[u]}
            \/ \E p \in Procs : job[p].at = "made" /\ job[p].customer = cus
            \/ u \in rushed
            \/ cus \in stranded

(* Once nothing about a card is under way, the table has the card exactly  *)
(* when Stripe has it attached; unless it was detached while it was still  *)
(* being added, or saveCard or detachCard was cut between the two, or the  *)
(* deletion the last event asked for was rejected, or the customer it is   *)
(* attached to is kept nowhere.                                            *)
CardsSettle ==
    \A c \in CardIds :
        /\ \A e \in events : e.card # c
        /\ \A p \in Procs : job[p].card # c
        /\ c \notin crossed \cup halved
        => /\ row[c] # NoUser => Attached(c)
           /\ Attached(c) =>
                \/ row[c] = made[attached[c]]
                \/ \A u \in Users :
                        attached[c] \notin {billing_id[u], stripeCustomerId[u]}

(* Once no change of a user's default is under way, the card flagged is    *)
(* the one Stripe has as the default, if it is in the table; unless the    *)
(* default was changed while an older change was still under way, or its   *)
(* row came after, or setDefaultCard was cut between its two updates, or   *)
(* the second update of an event was rejected, and then until it is next   *)
(* changed on its own; or two customers were made for the user at once, of *)
(* which the first may have had the default.                               *)
DefaultSettles ==
    \A u \in Users \ (muddled \cup rushed) :
        ~Flagging(u) /\ stripeCustomerId[u] # NoCustomer =>
            {c \in is_default : row[c] = u}
                = {c \in CardIds : /\ row[c] = u
                                   /\ default[stripeCustomerId[u]] = c}

===================================================================================
