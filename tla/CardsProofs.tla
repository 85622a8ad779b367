----------------------------- MODULE CardsProofs -----------------------------
(***************************************************************************)
(* What BillingService, saveCard and the card webhook keep true, for any   *)
(* users, cards, customers, number of handlers and bounds: every customer  *)
(* made at Stripe is kept, the table of cards settles to what Stripe has,  *)
(* and so does the flag of the default card.                               *)
(***************************************************************************)
EXTENDS Cards, TLAPS

-----------------------------------------------------------------------------
(* Types, and what every handler remembers *)

(* What a handler in flight remembers. *)
Knows(j) ==
    /\ j.op = "none" => j = Idle
    /\ j.op # "none" => j.user \in Users
    /\ j.op \in {"save", "default", "detach", "upsert"} => j.card \in CardIds
    /\ j.op \in {"save", "default", "upsert", "updated"} =>
            j.customer \in Customers
    /\ j.op = "customer" => j.at \in {"start", "made"} /\ j.card = NoCard
    /\ j.op = "save" => j.at \in {"made", "stored"}
    /\ j.op = "default" => j.at \in {"start", "reset"}
    /\ j.op \in {"detach", "upsert", "updated"} => j.at = "start"
    /\ j.at = "made" => j.customer \in Customers

(* The events about a card name it. *)
EventsSound ==
    \A e \in events : e.type # "updated" => e.card \in CardIds

TypeInv == TypeOK /\ EventsSound /\ \A p \in Procs : Knows(job[p])

(* A detachment keeps the types of what it touches. *)
LEMMA DetachTypes ==
    ASSUME TypeInv, NEW c \in CardIds, Attached(c), Detach(c)
    PROVE  /\ attached' \in [CardIds -> Customers \cup {NoCustomer}]
           /\ detached' \subseteq CardIds
           /\ default' \in [Customers -> CardIds \cup {NoCard}]
           /\ events' \subseteq Event
           /\ EventsSound'
           /\ crossed' \subseteq CardIds
           /\ muddled' \subseteq Users
<1>1. /\ attached \in [CardIds -> Customers \cup {NoCustomer}]
      /\ detached \subseteq CardIds /\ crossed \subseteq CardIds
      /\ default \in [Customers -> CardIds \cup {NoCard}]
      /\ events \subseteq Event /\ EventsSound /\ muddled \subseteq Users
  BY DEF TypeInv, TypeOK
<1>2. attached[c] \in Customers
  BY <1>1 DEF Attached
<1>3. /\ attached' = [attached EXCEPT ![c] = NoCustomer]
      /\ detached' = detached \cup {c}
      /\ default' \in {default, [default EXCEPT ![attached[c]] = NoCard]}
      /\ crossed' \in {crossed, crossed \cup {c}}
      /\ muddled' \in {muddled,
                       muddled \cup {u \in FindUser(attached[c]) : Flagging(u)}}
  BY DEF Detach
<1>4. events' \subseteq events \cup
            {[type |-> "detached", customer |-> attached[c], card |-> c],
             [type |-> "updated", customer |-> attached[c], card |-> NoCard]}
  BY Zenon DEF Detach
<1>5. events' \subseteq Event /\ EventsSound'
  BY <1>1, <1>2, <1>4 DEF Event, EventsSound
<1>6. FindUser(attached[c]) \subseteq Users
  BY DEF FindUser
<1>7. QED
  BY <1>1, <1>2, <1>3, <1>5, <1>6

(* A handler that goes on remembers what it should; the others still do. *)
LEMMA JobChange ==
    ASSUME TypeInv, NEW p \in Procs, NEW j \in Job, Knows(j),
           job' = [job EXCEPT ![p] = j]
    PROVE  /\ job' \in [Procs -> Job]
           /\ (\A q \in Procs : Knows(job[q]))'
<1>1. \A q \in Procs : job'[q] = IF q = p THEN j ELSE job[q]
  BY DEF TypeInv, TypeOK
<1>2. \A q \in Procs : Knows(job[q])
  BY DEF TypeInv
<1>3. job' \in [Procs -> Job]
  BY DEF TypeInv, TypeOK
<1>4. ASSUME NEW q \in Procs PROVE Knows(job[q])'
  BY <1>1, <1>2 DEF Knows
<1>5. QED
  BY <1>3, <1>4

(* Every step keeps the types. *)
LEMMA TypeStep == TypeInv /\ [Next]_vars => TypeInv'
<1> SUFFICES ASSUME TypeInv, [Next]_vars
             PROVE  TypeInv'
  OBVIOUS
<1>0. TypeInv /\ Idle \in Job /\ NoUser \notin Users
  BY CardsAssumption DEF TypeInv, Idle, Job
<1>1. ASSUME NEW p \in Procs, NEW u \in Users, CustomerCheck(p, u)
      PROVE  TypeInv'
  BY <1>0, <1>1
     DEF CustomerCheck, Start, Begin, Call, TypeInv, TypeOK, EventsSound,
         Knows, stripe, ids, table, Job
<1>2. ASSUME NEW p \in Procs, CustomerCreate(p)
      PROVE  TypeInv'
<2>1. PICK cus \in Customers :
            /\ made' = [made EXCEPT ![cus] = job[p].user]
            /\ job' = [job EXCEPT ![p].at = "made", ![p].customer = cus]
  BY <1>2 DEF CustomerCreate
<2> DEFINE after == [job[p] EXCEPT !.at = "made", !.customer = cus]
<2>2. job[p] \in Job /\ job[p].op = "customer" /\ Knows(job[p])
  BY <1>0, <1>2 DEF CustomerCreate, At, TypeInv, TypeOK
<2>3. after \in Job /\ Knows(after) /\ job[p].user \in Users
  BY <2>2 DEF Job, Knows, Idle
<2>4. job' = [job EXCEPT ![p] = after]
  BY <1>0, <2>1 DEF TypeInv, TypeOK
<2> HIDE DEF after
<2>5. QED
  BY <1>0, <1>2, <2>1, <2>3, <2>4, JobChange
     DEF CustomerCreate, TypeInv, TypeOK, EventsSound, ids, table, ghosts
<1>3. ASSUME NEW p \in Procs, CustomerKeep(p)
      PROVE  TypeInv'
  BY <1>0, <1>3
     DEF CustomerKeep, At, Return, TypeInv, TypeOK, EventsSound, Knows, table,
         ghosts, Idle
<1>4. ASSUME NEW cus \in Customers, NEW c \in CardIds,
             ConfirmSetupIntent(cus, c)
      PROVE  TypeInv'
  BY <1>0, <1>4
     DEF ConfirmSetupIntent, Attach, Call, TypeInv, TypeOK, EventsSound, ids,
         table, ghosts, Event
<1>5. ASSUME NEW p \in Procs, NEW u \in Users, NEW c \in CardIds,
             SaveAttach(p, u, c)
      PROVE  TypeInv'
<2>1. PICK cus \in Customers, place \in {"stored", "made"} :
            /\ job' = [job EXCEPT ![p] =
                        [op |-> "save", at |-> place, user |-> u, card |-> c,
                         customer |-> cus]]
            /\ attached' = [attached EXCEPT ![c] = cus]
            /\ events' = events \cup {[type |-> "attached", customer |-> cus,
                                       card |-> c]}
            /\ made' \in [Customers -> Users \cup {NoUser}]
            /\ rushed' \subseteq Users
            /\ calls' = calls + 1
  <3>1. CASE billing_id[u] # NoCustomer
    BY <1>0, <1>5, <3>1
       DEF SaveAttach, Start, Begin, Call, Attach, TypeInv, TypeOK
  <3>2. CASE billing_id[u] = NoCustomer
    BY <1>0, <1>5, <3>2
       DEF SaveAttach, Start, Begin, Call, Attach, TypeInv, TypeOK
  <3>3. QED
    BY <3>1, <3>2
<2>2. PICK j \in Job : /\ Knows(j)
                       /\ job' = [job EXCEPT ![p] = j]
  <3> DEFINE j == [op |-> "save", at |-> place, user |-> u, card |-> c,
                   customer |-> cus]
  <3>1. j \in Job /\ Knows(j)
    BY <1>0, <2>1 DEF Job, Knows
  <3>2. QED
    BY <2>1, <3>1
<2>3. job' \in [Procs -> Job] /\ (\A q \in Procs : Knows(job[q]))'
  BY <2>2, JobChange
<2>4. /\ attached' \in [CardIds -> Customers \cup {NoCustomer}]
      /\ events' \subseteq Event
      /\ EventsSound'
  BY <1>0, <2>1 DEF TypeInv, TypeOK, Event, EventsSound
<2>5. QED
  BY <1>0, <1>5, <2>1, <2>3, <2>4
     DEF SaveAttach, TypeInv, TypeOK, ids, table
<1>6. ASSUME NEW p \in Procs, SaveKeep(p)
      PROVE  TypeInv'
  BY <1>0, <1>6
     DEF SaveKeep, At, MoveTo, TypeInv, TypeOK, EventsSound, Knows, stripe,
         table, ghosts, Job
<1>7. ASSUME NEW p \in Procs, SaveStore(p)
      PROVE  TypeInv'
  BY <1>0, <1>7
     DEF SaveStore, At, Return, AddRow, TypeInv, TypeOK, EventsSound, Knows,
         stripe, ids, Idle
<1>8. ASSUME NEW p \in Procs, NEW u \in Users, NEW c \in CardIds,
             DefaultCheck(p, u, c)
      PROVE  TypeInv'
  BY <1>0, <1>8
     DEF DefaultCheck, Start, Begin, Call, SetDefault, TypeInv, TypeOK,
         EventsSound, Knows, ids, table, Job, Event
<1>9. ASSUME NEW p \in Procs, DefaultReset(p)
      PROVE  TypeInv'
  BY <1>0, <1>9
     DEF DefaultReset, At, MoveTo, ResetFlags, TypeInv, TypeOK, EventsSound,
         Knows, stripe, ids, ghosts, Job
<1>10. ASSUME NEW p \in Procs, DefaultFlag(p)
      PROVE  TypeInv'
  BY <1>0, <1>10
     DEF DefaultFlag, At, Return, TypeInv, TypeOK, EventsSound, Knows, stripe,
         ids, ghosts, Idle
<1>11. ASSUME NEW p \in Procs, NEW c \in CardIds, DetachRow(p, c)
      PROVE  TypeInv'
  BY <1>0, <1>11
     DEF DetachRow, Start, Begin, Call, DropRow, TypeInv, TypeOK, EventsSound,
         Knows, stripe, ids, table, ghosts, Job
<1>12. ASSUME NEW p \in Procs, DetachAtStripe(p)
      PROVE  TypeInv'
<2>1. job[p].op = "detach" /\ job' = [job EXCEPT ![p] = Idle]
  BY <1>12 DEF DetachAtStripe, At, Return
<2>2. job[p].card \in CardIds
  BY <1>0, <2>1 DEF TypeInv, Knows
<2>3. job' \in [Procs -> Job] /\ (\A q \in Procs : Knows(job[q]))'
  BY <1>0, <2>1, JobChange DEF Knows, Idle
<2>4. CASE Attached(job[p].card)
  BY <1>0, <1>12, <2>1, <2>2, <2>4, <2>3, DetachTypes
     DEF DetachAtStripe, TypeInv, TypeOK, ids, table
<2>5. CASE ~Attached(job[p].card)
  BY <1>0, <1>12, <2>1, <2>5, <2>3
     DEF DetachAtStripe, TypeInv, TypeOK, EventsSound, ids, table
<2>6. QED
  BY <2>4, <2>5
<1>13. ASSUME NEW c \in CardIds, DashboardDetach(c)
      PROVE  TypeInv'
<2>1. Attached(c) /\ Detach(c)
  BY <1>13 DEF DashboardDetach
<2>2. QED
  BY <1>0, <1>13, <2>1, DetachTypes
     DEF DashboardDetach, Call, TypeInv, TypeOK, Knows, ids, table
<1>14. ASSUME NEW u \in Users, NEW c \in CardIds, DashboardDefault(u, c)
      PROVE  TypeInv'
  BY <1>0, <1>14
     DEF DashboardDefault, Call, SetDefault, TypeInv, TypeOK, EventsSound, ids,
         table, Event
<1>15. ASSUME NEW e \in events, NEW p \in Procs, HandleAttached(p, e)
      PROVE  TypeInv'
  BY <1>0, <1>15
     DEF HandleAttached, Begin, Taken, FindUser, TypeInv, TypeOK, EventsSound,
         Knows, stripe, ids, table, ghosts, Job, Event
<1>16. ASSUME NEW e \in events, HandleDetached(e)
      PROVE  TypeInv'
  BY <1>0, <1>16
     DEF HandleDetached, DropRow, Taken, TypeInv, TypeOK, EventsSound, stripe,
         ids, ghosts
<1>17. ASSUME NEW e \in events, NEW p \in Procs, HandleUpdated(p, e)
      PROVE  TypeInv'
  BY <1>0, <1>17
     DEF HandleUpdated, Begin, Taken, FindUser, ResetFlags, TypeInv, TypeOK,
         EventsSound, Knows, stripe, ids, ghosts, Job, Event
<1>18. ASSUME NEW p \in Procs, Upsert(p)
      PROVE  TypeInv'
  BY <1>0, <1>18
     DEF Upsert, Return, AddRow, TypeInv, TypeOK, EventsSound, Knows, stripe,
         ids, Idle
<1>19. ASSUME NEW p \in Procs, UpdatedFlag(p)
      PROVE  TypeInv'
  BY <1>0, <1>19
     DEF UpdatedFlag, Return, TypeInv, TypeOK, EventsSound, Knows, stripe, ids,
         ghosts, Idle, Job
<1>20. ASSUME NEW p \in Procs, Crash(p)
      PROVE  TypeInv'
  BY <1>0, <1>20
     DEF Crash, Failure, Return, TypeInv, TypeOK, EventsSound, Knows, stripe, ids,
         table, Idle, Job, Event
<1>21. ASSUME NEW e \in events, DetachedRejected(e)
      PROVE  TypeInv'
  BY <1>0, <1>21
     DEF DetachedRejected, Failure, Taken, TypeInv, TypeOK, EventsSound, stripe,
         ids, table
<1>22. ASSUME NEW p \in Procs, UpdatedFlagRejected(p)
      PROVE  TypeInv'
  BY <1>0, <1>22
     DEF UpdatedFlagRejected, Failure, Return, TypeInv, TypeOK, EventsSound,
         Knows, stripe, ids, table, Idle, Job
<1>23. CASE UNCHANGED vars
  BY <1>0, <1>23
     DEF vars, TypeInv, TypeOK, EventsSound, stripe, ids, table, ghosts
<1>24. QED
  BY <1>1, <1>2, <1>3, <1>4, <1>5, <1>6, <1>7, <1>8, <1>9, <1>10, <1>11, <1>12,
     <1>13, <1>14, <1>15, <1>16, <1>17, <1>18, <1>19, <1>20, <1>21,
     <1>22, <1>23
     DEF Next, BillingRoutes, AtStripe, Webhook, Continue

(* At the start no handler is in flight and no event is under way. *)
LEMMA TypeStart == Init => TypeInv
  BY CardsAssumption
     DEF Init, TypeInv, TypeOK, EventsSound, Knows, Idle, Job, Event

(* The types, and what every handler remembers, hold throughout. *)
LEMMA TypeAlways == Spec => []TypeInv
  BY TypeStart, TypeStep, PTL DEF Spec

(* The tables, Stripe's side and the handlers in flight keep their types   *)
(* through every interleaving, repetition and crash.                       *)
THEOREM TypesHold == Spec => []TypeOK
<1>1. TypeInv => TypeOK
  BY DEF TypeInv
<1>2. QED
  BY <1>1, TypeAlways, PTL

-----------------------------------------------------------------------------
(* Every customer is kept *)

(* A stored id is a customer of that user.  A customer on its way to the   *)
(* database is in no column yet, and nobody else's; and as long as a user  *)
(* has not rushed, the handler that makes one is the only one and finds    *)
(* the column empty.                                                       *)
Making(p, op) == job[p].op = op /\ (op = "save" => job[p].at = "made")

IdsSound ==
    \A u \in Users :
        /\ billing_id[u] # NoCustomer =>
                made[billing_id[u]] = u /\ billing_id[u] \notin intents
        /\ stripeCustomerId[u] # NoCustomer =>
                made[stripeCustomerId[u]] = u /\ stripeCustomerId[u] \in intents

MadeSound ==
    \A p \in Procs : job[p].at = "made" =>
        /\ made[job[p].customer] = job[p].user
        /\ job[p].customer \notin intents
        /\ \A u \in Users : billing_id[u] # job[p].customer
        /\ \A q \in Procs \ {p} : job[q].at = "made" =>
                job[q].customer # job[p].customer

AloneUnlessRushed ==
    \A p \in Procs, op \in {"customer", "save"} :
        Making(p, op) /\ job[p].user \notin rushed =>
            /\ op = "customer" => stripeCustomerId[job[p].user] = NoCustomer
            /\ op = "save" => billing_id[job[p].user] = NoCustomer
            /\ \A q \in Procs \ {p} : Making(q, op) => job[q].user # job[p].user

KeptInv ==
    /\ CustomersAreKept
    /\ IdsSound
    /\ MadeSound
    /\ AloneUnlessRushed
    /\ \A cus \in intents : made[cus] # NoUser

(* Nothing is lost by a step that makes no customer and keeps none.        *)
LEMMA KeptStill ==
    ASSUME KeptInv,
           UNCHANGED <<made, ids, intents, rushed, stranded>>,
           \A p \in Procs :
                \/ job'[p] = job[p]
                \/ /\ job[p].op # "customer" /\ job[p].at # "made"
                   /\ job'[p].op # "customer" /\ job'[p].at # "made"
    PROVE  KeptInv'
<1>1. CustomersAreKept'
  BY DEF KeptInv, CustomersAreKept, ids
<1>2. IdsSound'
  BY DEF KeptInv, IdsSound, ids
<1>3. MadeSound'
  BY DEF KeptInv, MadeSound, ids
<1>4. AloneUnlessRushed'
  BY DEF KeptInv, AloneUnlessRushed, Making, ids
<1>5. QED
  BY <1>1, <1>2, <1>3, <1>4 DEF KeptInv

(* No step loses a customer. *)
LEMMA KeptStep == TypeInv /\ KeptInv /\ [Next]_vars => KeptInv'
<1> SUFFICES ASSUME TypeInv, KeptInv, [Next]_vars
             PROVE  KeptInv'
  OBVIOUS
<1>0. /\ made \in [Customers -> Users \cup {NoUser}]
      /\ billing_id \in [Users -> Customers \cup {NoCustomer}]
      /\ stripeCustomerId \in [Users -> Customers \cup {NoCustomer}]
      /\ job \in [Procs -> Job]
      /\ NoUser \notin Users /\ NoCustomer \notin Customers
      /\ \A p \in Procs : Knows(job[p])
      /\ KeptInv
  BY CardsAssumption DEF TypeInv, TypeOK
<1>1. ASSUME NEW p \in Procs, NEW u \in Users, CustomerCheck(p, u)
      PROVE  KeptInv'
<2>1. /\ job[p] = Idle
      /\ job' = [job EXCEPT ![p] =
                    [op |-> "customer", at |-> "start", user |-> u,
                     card |-> NoCard, customer |-> NoCustomer]]
      /\ UNCHANGED <<made, intents, billing_id, stripeCustomerId, stranded>>
      /\ rushed \subseteq rushed'
  BY <1>1 DEF CustomerCheck, Start, Begin, stripe, ids
<2>2. CustomersAreKept' /\ IdsSound' /\ MadeSound'
  BY <1>0, <2>1 DEF KeptInv, CustomersAreKept, IdsSound, MadeSound, Idle
<2>3. \A q \in Procs :
        job[q].op = "customer" /\ job[q].user = u => u \in rushed'
  BY <1>1 DEF CustomerCheck, Jobs
<2>4. AloneUnlessRushed'
  BY <1>0, <1>1, <2>1, <2>3
     DEF CustomerCheck, KeptInv, AloneUnlessRushed, Making, Idle
<2>5. QED
  BY <1>0, <2>1, <2>2, <2>4 DEF KeptInv
<1>2. ASSUME NEW p \in Procs, CustomerCreate(p)
      PROVE  KeptInv'
<2>1. PICK cus \in Customers :
            /\ made[cus] = NoUser
            /\ made' = [made EXCEPT ![cus] = job[p].user]
            /\ job' = [job EXCEPT ![p].at = "made", ![p].customer = cus]
  BY <1>2 DEF CustomerCreate
<2>2. /\ job[p].op = "customer" /\ job[p].at = "start" /\ job[p].user \in Users
      /\ UNCHANGED <<intents, billing_id, stripeCustomerId, rushed, stranded>>
  BY <1>0, <1>2 DEF CustomerCreate, At, Knows, ids, ghosts
<2>3. /\ \A q \in Procs \ {p} : job'[q] = job[q]
      /\ job'[p].op = "customer" /\ job'[p].at = "made"
      /\ job'[p].user = job[p].user /\ job'[p].customer = cus
  BY <1>0, <2>1, <2>2 DEF Job
<2>4. /\ cus \notin intents
      /\ \A u \in Users : billing_id[u] # cus /\ stripeCustomerId[u] # cus
      /\ \A q \in Procs : job[q].at = "made" => job[q].customer # cus
  BY <1>0, <2>1 DEF KeptInv, IdsSound, MadeSound, Knows, Idle
<2>5. CustomersAreKept'
  BY <1>0, <2>1, <2>2, <2>3 DEF KeptInv, CustomersAreKept
<2>6. IdsSound' /\ MadeSound'
  BY <1>0, <2>1, <2>2, <2>3, <2>4 DEF KeptInv, IdsSound, MadeSound
<2>7. AloneUnlessRushed'
  BY <1>0, <2>2, <2>3 DEF KeptInv, AloneUnlessRushed, Making
<2>8. QED
  BY <1>0, <2>1, <2>2, <2>5, <2>6, <2>7 DEF KeptInv
<1>3. ASSUME NEW p \in Procs, CustomerKeep(p)
      PROVE  KeptInv'
  BY <1>0, <1>3
     DEF CustomerKeep, At, Return, KeptInv, CustomersAreKept, IdsSound,
         MadeSound, AloneUnlessRushed, Making, Knows, Idle, ghosts
<1>4. ASSUME NEW cus \in Customers, NEW c \in CardIds,
             ConfirmSetupIntent(cus, c)
      PROVE  KeptInv'
  BY <1>0, <1>4, KeptStill
     DEF ConfirmSetupIntent, Knows, Idle, stripe, ids, ghosts
<1>5. ASSUME NEW p \in Procs, NEW u \in Users, NEW c \in CardIds,
             SaveAttach(p, u, c)
      PROVE  KeptInv'
<2>1. job[p] = Idle /\ UNCHANGED <<intents, ids, stranded>>
  BY <1>5 DEF SaveAttach, Start
<2>2. rushed \subseteq rushed'
  BY <1>5 DEF SaveAttach
<2>3. CASE billing_id[u] # NoCustomer
  <3>1. /\ made' = made
        /\ rushed' = rushed
        /\ job' = [job EXCEPT ![p] =
                        [op |-> "save", at |-> "stored", user |-> u,
                         card |-> c, customer |-> billing_id[u]]]
    BY <1>5, <2>3 DEF SaveAttach, Start, Begin
  <3>2. QED
    BY <1>0, <2>1, <3>1, KeptStill DEF Idle
<2>4. CASE billing_id[u] = NoCustomer
  <3>1. PICK cus \in Customers :
            /\ made[cus] = NoUser
            /\ made' = [made EXCEPT ![cus] = u]
            /\ job' = [job EXCEPT ![p] =
                            [op |-> "save", at |-> "made", user |-> u,
                             card |-> c, customer |-> cus]]
    BY <1>5, <2>4 DEF SaveAttach, Start, Begin
  <3>2. /\ cus \notin intents
        /\ \A v \in Users : billing_id[v] # cus /\ stripeCustomerId[v] # cus
        /\ \A q \in Procs : job[q].at = "made" => job[q].customer # cus
    BY <1>0, <3>1 DEF KeptInv, IdsSound, MadeSound, Knows, Idle
  <3>3. CustomersAreKept'
    <4>1. job'[p].at = "made" /\ job'[p].customer = cus
      BY <1>0, <3>1
    <4>2. \A q \in Procs : job[q].at = "made" => job'[q] = job[q]
      BY <1>0, <2>1, <3>1 DEF Idle
    <4>3. QED
      BY <1>0, <2>1, <2>2, <3>1, <4>1, <4>2 DEF KeptInv, CustomersAreKept, ids
  <3>4. IdsSound' /\ MadeSound'
    BY <1>0, <2>1, <3>1, <3>2 DEF KeptInv, IdsSound, MadeSound, ids
  <3>5. \A q \in Procs : Making(q, "save") /\ job[q].user = u => u \in rushed'
    BY <1>5, <2>4 DEF SaveAttach, At, Making
  <3>6. AloneUnlessRushed'
    BY <1>0, <2>1, <2>2, <2>4, <3>1, <3>5
       DEF KeptInv, AloneUnlessRushed, Making, ids, Idle
  <3>7. QED
    BY <1>0, <2>1, <3>1, <3>3, <3>4, <3>6 DEF KeptInv
<2>5. QED
  BY <2>3, <2>4
<1>6. ASSUME NEW p \in Procs, SaveKeep(p)
      PROVE  KeptInv'
  BY <1>0, <1>6
     DEF SaveKeep, At, MoveTo, KeptInv, CustomersAreKept, IdsSound, MadeSound,
         AloneUnlessRushed, Making, stripe, ghosts
<1>7. ASSUME NEW p \in Procs, SaveStore(p)
      PROVE  KeptInv'
  BY <1>0, <1>7, KeptStill
     DEF SaveStore, At, Return, Knows, Idle, stripe, ids, ghosts
<1>8. ASSUME NEW p \in Procs, NEW u \in Users, NEW c \in CardIds,
             DefaultCheck(p, u, c)
      PROVE  KeptInv'
  BY <1>0, <1>8, KeptStill
     DEF DefaultCheck, Start, Begin, Knows, Idle, stripe, ids, ghosts
<1>9. ASSUME NEW p \in Procs, DefaultReset(p)
      PROVE  KeptInv'
  BY <1>0, <1>9, KeptStill
     DEF DefaultReset, At, MoveTo, Knows, Idle, stripe, ids, ghosts
<1>10. ASSUME NEW p \in Procs, DefaultFlag(p)
      PROVE  KeptInv'
  BY <1>0, <1>10, KeptStill
     DEF DefaultFlag, At, Return, Knows, Idle, stripe, ids, ghosts
<1>11. ASSUME NEW p \in Procs, NEW c \in CardIds, DetachRow(p, c)
      PROVE  KeptInv'
  BY <1>0, <1>11, KeptStill
     DEF DetachRow, Start, Begin, Knows, Idle, stripe, ids, ghosts
<1>12. ASSUME NEW p \in Procs, DetachAtStripe(p)
      PROVE  KeptInv'
  BY <1>0, <1>12, KeptStill
     DEF DetachAtStripe, At, Return, Knows, Idle, stripe, ids, ghosts
<1>13. ASSUME NEW c \in CardIds, DashboardDetach(c)
      PROVE  KeptInv'
  BY <1>0, <1>13, KeptStill
     DEF DashboardDetach, Knows, Idle, stripe, ids, ghosts
<1>14. ASSUME NEW u \in Users, NEW c \in CardIds, DashboardDefault(u, c)
      PROVE  KeptInv'
  BY <1>0, <1>14, KeptStill
     DEF DashboardDefault, Knows, Idle, stripe, ids, ghosts
<1>15. ASSUME NEW e \in events, NEW p \in Procs, HandleAttached(p, e)
      PROVE  KeptInv'
  BY <1>0, <1>15, KeptStill
     DEF HandleAttached, Begin, Knows, Idle, stripe, ids, ghosts
<1>16. ASSUME NEW e \in events, HandleDetached(e)
      PROVE  KeptInv'
  BY <1>0, <1>16, KeptStill
     DEF HandleDetached, Knows, Idle, stripe, ids, ghosts
<1>17. ASSUME NEW e \in events, NEW p \in Procs, HandleUpdated(p, e)
      PROVE  KeptInv'
  BY <1>0, <1>17, KeptStill
     DEF HandleUpdated, Begin, Knows, Idle, stripe, ids, ghosts
<1>18. ASSUME NEW p \in Procs, Upsert(p)
      PROVE  KeptInv'
  BY <1>0, <1>18, KeptStill
     DEF Upsert, Return, Knows, Idle, stripe, ids, ghosts
<1>19. ASSUME NEW p \in Procs, UpdatedFlag(p)
      PROVE  KeptInv'
  BY <1>0, <1>19, KeptStill
     DEF UpdatedFlag, Return, Knows, Idle, stripe, ids, ghosts
<1>20. ASSUME NEW p \in Procs, Crash(p)
      PROVE  KeptInv'
  BY <1>0, <1>20
     DEF Crash, Return, KeptInv, CustomersAreKept, IdsSound, MadeSound,
         AloneUnlessRushed, Making, Idle, stripe, ids
<1>21. ASSUME NEW e \in events, DetachedRejected(e)
      PROVE  KeptInv'
  BY <1>0, <1>21, KeptStill
     DEF DetachedRejected, Knows, Idle, stripe, ids
<1>22. ASSUME NEW p \in Procs, UpdatedFlagRejected(p)
      PROVE  KeptInv'
  BY <1>0, <1>22, KeptStill
     DEF UpdatedFlagRejected, Return, Knows, Idle, stripe, ids
<1>23. CASE UNCHANGED vars
  BY <1>0, <1>23
     DEF vars, KeptInv, CustomersAreKept, IdsSound, MadeSound,
         AloneUnlessRushed, Making, stripe, ids, ghosts
<1>24. QED
  BY <1>1, <1>2, <1>3, <1>4, <1>5, <1>6, <1>7, <1>8, <1>9, <1>10, <1>11, <1>12,
     <1>13, <1>14, <1>15, <1>16, <1>17, <1>18, <1>19, <1>20, <1>21,
     <1>22, <1>23
     DEF Next, BillingRoutes, AtStripe, Webhook, Continue

(* At the start the customers there are are those of the users' columns.   *)
LEMMA KeptStart == Init => KeptInv
<1> SUFFICES ASSUME Init PROVE KeptInv
  OBVIOUS
<1>1. CustomersAreKept
  BY DEF Init, CustomersAreKept
<1>2. IdsSound
  <2>1. ASSUME NEW u \in Users, billing_id[u] # NoCustomer
        PROVE  made[billing_id[u]] = u /\ billing_id[u] \notin intents
    BY <2>1 DEF Init
  <2>2. ASSUME NEW u \in Users, stripeCustomerId[u] # NoCustomer
        PROVE  /\ made[stripeCustomerId[u]] = u
               /\ stripeCustomerId[u] \in intents
    BY <2>2 DEF Init
  <2>3. QED
    BY <2>1, <2>2 DEF IdsSound
<1>3. MadeSound /\ AloneUnlessRushed
  BY DEF Init, MadeSound, AloneUnlessRushed, Making, Idle
<1>4. \A cus \in intents : made[cus] # NoUser
  BY CardsAssumption DEF Init
<1>5. QED
  BY <1>1, <1>2, <1>3, <1>4 DEF KeptInv

LEMMA KeptAlways == Spec => []KeptInv
  BY TypeAlways, KeptStart, KeptStep, PTL DEF Spec

(* BillingService and saveCard lose no customer they make at Stripe, for   *)
(* any users and any number of calls at once: each is in the column of the *)
(* user it was made for, or in the hands of the handler that made it;      *)
(* unless the user's calls met, or the handler was cut short.              *)
THEOREM CustomersKept == Spec => []CustomersAreKept
<1>1. KeptInv => CustomersAreKept
  BY DEF KeptInv
<1>2. QED
  BY <1>1, KeptAlways, PTL

-----------------------------------------------------------------------------
(* Whose a card is *)

(* A card that has been attached belongs to one user, whatever has become  *)
(* of it: the row, the events and the handlers that name it are that       *)
(* user's.  Nothing names a card that never was.                           *)
Belongs(c, w) ==
    /\ row[c] \in {NoUser, w}
    /\ Attached(c) => made[attached[c]] = w
    /\ \A e \in events : e.card = c => made[e.customer] = w
    /\ \A p \in Procs : job[p].card = c =>
            /\ job[p].user = w
            /\ job[p].customer # NoCustomer => made[job[p].customer] = w

Unheard(c) ==
    /\ row[c] = NoUser
    /\ \A e \in events : e.card # c
    /\ \A p \in Procs : job[p].card # c

OwnerInv ==
    \A c \in CardIds :
        /\ Fresh(c) \/ \E w \in Users : Belongs(c, w)
        /\ Fresh(c) => Unheard(c)
        /\ Attached(c) => c \notin detached

(* A card is attached to a customer of user w's. *)
LEMMA OwnerAttach ==
    ASSUME TypeInv, OwnerInv,
           NEW c \in CardIds, NEW cus \in Customers, NEW w \in Users,
           Fresh(c), Attach(c, cus), made'[cus] = w,
           \A k \in Customers : made[k] # NoUser => made'[k] = made[k],
           UNCHANGED <<detached, row>>,
           \A p \in Procs :
                \/ job'[p] = job[p]
                \/ /\ job[p] = Idle
                   /\ job'[p].card = c /\ job'[p].user = w
                   /\ job'[p].customer = cus
    PROVE  OwnerInv'
<1>1. /\ attached \in [CardIds -> Customers \cup {NoCustomer}]
      /\ events \subseteq Event
      /\ job \in [Procs -> Job]
      /\ NoUser \notin Users /\ NoCustomer \notin Customers
  BY CardsAssumption DEF TypeInv, TypeOK
<1>2. /\ attached' = [attached EXCEPT ![c] = cus]
      /\ events' = events \cup {[type |-> "attached", customer |-> cus,
                                 card |-> c]}
  BY DEF Attach
<1>3. Unheard(c) /\ c \notin detached
  BY DEF OwnerInv, Fresh
<1>4. Belongs(c, w)' /\ ~Fresh(c)' /\ c \notin detached'
  BY <1>1, <1>2, <1>3 DEF Fresh, Attached, Unheard, Belongs
<1>5. ASSUME NEW d \in CardIds, d # c
      PROVE  /\ Fresh(d)' = Fresh(d) /\ Attached(d)' = Attached(d)
             /\ Unheard(d) => Unheard(d)'
             /\ \A v \in Users : Belongs(d, v) => Belongs(d, v)'
  <2>1. attached'[d] = attached[d]
    BY <1>1, <1>2, <1>5
  <2>2. \A e \in events' : e.card = d => e \in events
    BY <1>2, <1>5
  <2>3. \A p \in Procs : job'[p].card = d => job'[p] = job[p]
    BY <1>5
  <2>4. Unheard(d) => Unheard(d)'
    BY <2>2, <2>3 DEF Unheard
  <2>5. ASSUME NEW v \in Users, Belongs(d, v) PROVE Belongs(d, v)'
    BY <1>1, <2>1, <2>2, <2>3, <2>5 DEF Belongs, Attached, Event, Job
  <2>6. QED
    BY <2>1, <2>4, <2>5 DEF Fresh, Attached
<1>6. QED
  BY <1>4, <1>5 DEF OwnerInv

(* A handler starts with an event: about a customer its user has, and a    *)
(* card that, having been heard of, is that user's.                        *)
LEMMA OwnerHeard ==
    ASSUME IdsSound, OwnerInv, NoCustomer \notin Customers,
           UNCHANGED <<made, attached, detached, row>>,
           events' \subseteq events,
           \A p \in Procs :
                \/ job'[p] = job[p]
                \/ \E e \in events, u \in Users :
                    /\ stripeCustomerId[u] = e.customer
                    /\ e.customer \in Customers
                    /\ job'[p].card = e.card /\ job'[p].user = u
                    /\ job'[p].customer = e.customer
    PROVE  OwnerInv'
<1>1. ASSUME NEW c \in CardIds, Unheard(c) PROVE Unheard(c)'
  BY <1>1 DEF Unheard
<1>2. ASSUME NEW c \in CardIds, NEW w \in Users, Belongs(c, w)
      PROVE  Belongs(c, w)'
  <2>1. row'[c] \in {NoUser, w} /\ (Attached(c)' => made'[attached'[c]] = w)
    BY <1>2 DEF Belongs, Attached
  <2>2. \A e \in events' : e.card = c => made'[e.customer] = w
    BY <1>2 DEF Belongs
  <2>3. ASSUME NEW p \in Procs, job'[p].card = c
        PROVE  /\ job'[p].user = w
               /\ job'[p].customer # NoCustomer => made'[job'[p].customer] = w
    BY <1>2, <2>3 DEF Belongs, IdsSound
  <2>4. QED
    BY <2>1, <2>2, <2>3 DEF Belongs
<1>3. QED
  BY <1>1, <1>2 DEF OwnerInv, Fresh, Attached

(* A card stays with its user. *)
LEMMA OwnerStep == TypeInv /\ KeptInv /\ OwnerInv /\ [Next]_vars => OwnerInv'
<1> SUFFICES ASSUME TypeInv, KeptInv, OwnerInv, [Next]_vars
             PROVE  OwnerInv'
  OBVIOUS
<1>0. /\ made \in [Customers -> Users \cup {NoUser}]
      /\ attached \in [CardIds -> Customers \cup {NoCustomer}]
      /\ billing_id \in [Users -> Customers \cup {NoCustomer}]
      /\ row \in [CardIds -> Users \cup {NoUser}]
      /\ events \subseteq Event
      /\ job \in [Procs -> Job]
      /\ NoUser \notin Users /\ NoCustomer \notin Customers
      /\ NoCard \notin CardIds
      /\ \A p \in Procs : Knows(job[p])
      /\ IdsSound /\ OwnerInv
  BY CardsAssumption DEF TypeInv, TypeOK, KeptInv
<1>1. ASSUME NEW p \in Procs, NEW u \in Users, CustomerCheck(p, u)
      PROVE  OwnerInv'
  BY <1>0, <1>1
     DEF CustomerCheck, Start, Begin, OwnerInv, Fresh, Attached, Unheard,
         Belongs, stripe, table
<1>2. ASSUME NEW p \in Procs, CustomerCreate(p)
      PROVE  OwnerInv'
<2>1. PICK cus \in Customers :
            made[cus] = NoUser /\ made' = [made EXCEPT ![cus] = job[p].user]
  BY <1>2 DEF CustomerCreate
<2>2. /\ job[p].op = "customer" /\ job'[p].card = NoCard
      /\ \A q \in Procs \ {p} : job'[q] = job[q]
      /\ UNCHANGED <<attached, detached, row, events>>
  BY <1>0, <1>2 DEF CustomerCreate, At, Knows, Job, table
<2>3. \A k \in Customers : made[k] # NoUser => made'[k] = made[k]
  BY <1>0, <2>1
<2>4. ASSUME NEW c \in CardIds
      PROVE  /\ Unheard(c) => Unheard(c)'
             /\ \A w \in Users : Belongs(c, w) => Belongs(c, w)'
  BY <1>0, <2>2, <2>3 DEF Unheard, Belongs, Attached, Event, Job
<2>5. QED
  BY <1>0, <2>2, <2>4 DEF OwnerInv, Fresh, Attached
<1>3. ASSUME NEW p \in Procs, CustomerKeep(p)
      PROVE  OwnerInv'
  BY <1>0, <1>3
     DEF CustomerKeep, Return, OwnerInv, Fresh, Attached, Unheard, Belongs,
         Idle, table
<1>4. ASSUME NEW cus \in Customers, NEW c \in CardIds,
             ConfirmSetupIntent(cus, c)
      PROVE  OwnerInv'
<2>1. /\ Fresh(c) /\ Attach(c, cus) /\ cus \in intents
      /\ UNCHANGED <<made, detached, row, job>>
  BY <1>4 DEF ConfirmSetupIntent, table
<2>2. made[cus] \in Users
  BY <1>0, <2>1 DEF KeptInv
<2>3. QED
  BY <1>0, <2>1, <2>2, OwnerAttach
<1>5. ASSUME NEW p \in Procs, NEW u \in Users, NEW c \in CardIds,
             SaveAttach(p, u, c)
      PROVE  OwnerInv'
<2>1. PICK cus \in Customers :
            /\ Attach(c, cus)
            /\ made'[cus] = u
            /\ \A k \in Customers : made[k] # NoUser => made'[k] = made[k]
            /\ job[p] = Idle
            /\ job' = [job EXCEPT ![p] =
                          [op |-> "save", at |-> job'[p].at, user |-> u,
                           card |-> c, customer |-> cus]]
  <3>1. CASE billing_id[u] # NoCustomer
    BY <1>0, <1>5, <3>1 DEF SaveAttach, Start, Begin, IdsSound
  <3>2. CASE billing_id[u] = NoCustomer
    BY <1>0, <1>5, <3>2 DEF SaveAttach, Start, Begin
  <3>3. QED
    BY <3>1, <3>2
<2>2. Fresh(c) /\ UNCHANGED <<detached, row>>
  BY <1>5 DEF SaveAttach, table
<2>3. QED
  BY <1>0, <2>1, <2>2, OwnerAttach
<1>6. ASSUME NEW p \in Procs, SaveKeep(p)
      PROVE  OwnerInv'
  BY <1>0, <1>6
     DEF SaveKeep, MoveTo, OwnerInv, Fresh, Attached, Unheard, Belongs, stripe,
         table
<1>7. ASSUME NEW p \in Procs, SaveStore(p)
      PROVE  OwnerInv'
  BY <1>0, <1>7
     DEF SaveStore, Return, AddRow, OwnerInv, Fresh, Attached, Unheard,
         Belongs, Idle, stripe
<1>8. ASSUME NEW p \in Procs, NEW u \in Users, NEW c \in CardIds,
             DefaultCheck(p, u, c)
      PROVE  OwnerInv'
<2>1. /\ attached[c] = stripeCustomerId[u] /\ stripeCustomerId[u] # NoCustomer
      /\ events' = events \cup {[type |-> "updated", card |-> c,
                                 customer |-> stripeCustomerId[u]]}
      /\ \A q \in Procs \ {p} : job'[q] = job[q]
      /\ job'[p].card = c /\ job'[p].user = u
      /\ job'[p].customer = stripeCustomerId[u]
      /\ UNCHANGED <<made, attached, detached, row>>
  BY <1>0, <1>8 DEF DefaultCheck, Start, Begin, SetDefault, table
<2>2. /\ ~Fresh(c)
      /\ \A w \in Users : Belongs(c, w) => w = u
  BY <1>0, <2>1 DEF Fresh, Attached, Belongs, IdsSound
<2>3. ASSUME NEW d \in CardIds
      PROVE  /\ Unheard(d) /\ d # c => Unheard(d)'
             /\ \A w \in Users : Belongs(d, w) => Belongs(d, w)'
  BY <1>0, <2>1, <2>2 DEF Unheard, Belongs, Attached, IdsSound
<2>4. QED
  BY <1>0, <2>1, <2>2, <2>3 DEF OwnerInv, Fresh, Attached
<1>9. ASSUME NEW p \in Procs, DefaultReset(p)
      PROVE  OwnerInv'
<2>1. /\ UNCHANGED <<made, attached, detached, intents, events, ids, row, ghosts>>
      /\ job[p].op = "default"
  BY <1>9 DEF DefaultReset, At, stripe, ids
<2>2. \A q \in Procs : /\ job'[q].op = job[q].op
                       /\ job'[q].user = job[q].user
                       /\ job'[q].card = job[q].card
                       /\ job'[q].customer = job[q].customer
  BY <1>0, <1>9 DEF DefaultReset, MoveTo, Job
<2>3. QED
  BY <1>0, <2>1, <2>2
     DEF OwnerInv, Fresh, Attached, Unheard, Belongs
<1>10. ASSUME NEW p \in Procs, DefaultFlag(p)
      PROVE  OwnerInv'
  BY <1>0, <1>10
     DEF DefaultFlag, Return, OwnerInv, Fresh, Attached, Unheard, Belongs,
         IdsSound, Idle, stripe
<1>11. ASSUME NEW p \in Procs, NEW c \in CardIds, DetachRow(p, c)
      PROVE  OwnerInv'
  BY <1>0, <1>11
     DEF DetachRow, Start, Begin, DropRow, OwnerInv, Fresh, Attached, Unheard,
         Belongs, stripe
<1>12. ASSUME NEW p \in Procs, DetachAtStripe(p)
      PROVE  OwnerInv'
  BY <1>0, <1>12
     DEF DetachAtStripe, At, Return, Detach, Attached, OwnerInv, Fresh,
         Unheard, Belongs, Idle, table
<1>13. ASSUME NEW c \in CardIds, DashboardDetach(c)
      PROVE  OwnerInv'
  BY <1>0, <1>13
     DEF DashboardDetach, Detach, Attached, OwnerInv, Fresh, Unheard, Belongs,
         table
<1>14. ASSUME NEW u \in Users, NEW c \in CardIds, DashboardDefault(u, c)
      PROVE  OwnerInv'
  BY <1>0, <1>14
     DEF DashboardDefault, SetDefault, OwnerInv, Fresh, Attached, Unheard,
         Belongs, table
<1>15. ASSUME NEW e \in events, NEW p \in Procs, HandleAttached(p, e)
      PROVE  OwnerInv'
<2>1. /\ events' \subseteq events
      /\ UNCHANGED <<made, attached, detached, row>>
  BY <1>15 DEF HandleAttached, Taken, stripe, table
<2>2. CASE FindUser(e.customer) = {}
  BY <1>0, <1>15, <2>1, <2>2, OwnerHeard DEF HandleAttached
<2>3. CASE FindUser(e.customer) # {}
  <3>1. PICK u \in Users :
            /\ stripeCustomerId[u] = e.customer
            /\ Begin(p, "upsert", "start", u, e.card, e.customer)
    BY <1>15, <2>3 DEF HandleAttached, FindUser
  <3>2. e.customer \in Customers
    BY <1>0 DEF Event
  <3>3. QED
    BY <1>0, <2>1, <3>1, <3>2, OwnerHeard DEF Begin
<2>4. QED
  BY <2>2, <2>3
<1>16. ASSUME NEW e \in events, HandleDetached(e)
      PROVE  OwnerInv'
  BY <1>0, <1>16
     DEF HandleDetached, DropRow, Taken, OwnerInv, Fresh, Attached, Unheard,
         Belongs, stripe
<1>17. ASSUME NEW e \in events, NEW p \in Procs, HandleUpdated(p, e)
      PROVE  OwnerInv'
<2>1. /\ events' \subseteq events
      /\ UNCHANGED <<made, attached, detached, row>>
  BY <1>17 DEF HandleUpdated, Taken, stripe
<2>2. CASE FindUser(e.customer) = {}
  BY <1>0, <1>17, <2>1, <2>2, OwnerHeard DEF HandleUpdated
<2>3. CASE FindUser(e.customer) # {}
  <3>1. PICK u \in Users :
            /\ stripeCustomerId[u] = e.customer
            /\ Begin(p, "updated", "start", u, e.card, e.customer)
    BY <1>17, <2>3 DEF HandleUpdated, FindUser
  <3>2. e.customer \in Customers
    BY <1>0 DEF Event
  <3>3. QED
    BY <1>0, <2>1, <3>1, <3>2, OwnerHeard DEF Begin
<2>4. QED
  BY <2>2, <2>3
<1>18. ASSUME NEW p \in Procs, Upsert(p)
      PROVE  OwnerInv'
  BY <1>0, <1>18
     DEF Upsert, Return, AddRow, OwnerInv, Fresh, Attached, Unheard, Belongs,
         Idle, stripe
<1>19. ASSUME NEW p \in Procs, UpdatedFlag(p)
      PROVE  OwnerInv'
  BY <1>0, <1>19
     DEF UpdatedFlag, Return, OwnerInv, Fresh, Attached, Unheard, Belongs,
         Idle, stripe
<1>20. ASSUME NEW p \in Procs, Crash(p)
      PROVE  OwnerInv'
  BY <1>0, <1>20
     DEF Crash, Return, OwnerInv, Fresh, Attached, Unheard, Belongs, Knows,
         Idle, stripe, table
<1>21. ASSUME NEW e \in events, DetachedRejected(e)
      PROVE  OwnerInv'
  BY <1>0, <1>21
     DEF DetachedRejected, Taken, OwnerInv, Fresh, Attached, Unheard, Belongs,
         stripe, table
<1>22. ASSUME NEW p \in Procs, UpdatedFlagRejected(p)
      PROVE  OwnerInv'
  BY <1>0, <1>22
     DEF UpdatedFlagRejected, Return, OwnerInv, Fresh, Attached, Unheard, Belongs,
         Knows, Idle, stripe, table
<1>23. CASE UNCHANGED vars
  BY <1>0, <1>23
     DEF vars, OwnerInv, Fresh, Attached, Unheard, Belongs, stripe, table
<1>24. QED
  BY <1>1, <1>2, <1>3, <1>4, <1>5, <1>6, <1>7, <1>8, <1>9, <1>10, <1>11, <1>12,
     <1>13, <1>14, <1>15, <1>16, <1>17, <1>18, <1>19, <1>20, <1>21,
     <1>22, <1>23
     DEF Next, BillingRoutes, AtStripe, Webhook, Continue

(* At the start no card is anybody's. *)
LEMMA OwnerStart == Init => OwnerInv
  BY CardsAssumption DEF Init, OwnerInv, Fresh, Attached, Unheard, Idle

LEMMA OwnerAlways == Spec => []OwnerInv
  BY TypeAlways, KeptAlways, OwnerStart, OwnerStep, PTL DEF Spec

-----------------------------------------------------------------------------
(* The table settles to what Stripe has *)

(* The row of a detached card waits for the event, unless the event came   *)
(* and its write was rejected.  A card that is attached and has no row is  *)
(* being stored or detached; or else Stripe has confirmed it for a         *)
(* customer of BillingService, and the event is under way, or nobody has   *)
(* that customer any more.                                                 *)
Detaching(c) == \E p \in Procs : job[p].op = "detach" /\ job[p].card = c
Storing(c) == \E p \in Jobs({"upsert", "save"}) : job[p].card = c
Heard(c, type) == \E e \in events : e.type = type /\ e.card = c

Settling(c) ==
    /\ c \in detached \ crossed =>
        /\ ~Storing(c) /\ ~Heard(c, "attached")
        /\ row[c] # NoUser /\ c \notin halved => Heard(c, "detached")
    /\ Attached(c) /\ c \notin halved =>
        \/ row[c] # NoUser \/ Storing(c) \/ Detaching(c)
        \/ /\ attached[c] \in intents
           /\ Heard(c, "attached") \/ FindUser(attached[c]) = {}

SettleInv ==
    /\ \A e \in events :
        /\ e.type = "detached" => e.card \in detached
        /\ e.type = "attached" /\ Attached(e.card) =>
                e.customer = attached[e.card]
    /\ \A p \in Jobs({"upsert"}) :
        /\ job[p].customer \in intents
        /\ Attached(job[p].card) => job[p].customer = attached[job[p].card]
    /\ \A c \in CardIds : Settling(c)

(* Nothing happens to the card. *)
LEMMA SettleStill ==
    ASSUME NEW c \in CardIds, Settling(c),
           attached'[c] = attached[c], row'[c] = row[c],
           UNCHANGED <<intents, stripeCustomerId>>,
           c \in detached' <=> c \in detached,
           c \in crossed => c \in crossed', c \in halved => c \in halved',
           \A type \in {"attached", "detached"} :
                Heard(c, type)' <=> Heard(c, type),
           Storing(c)' <=> Storing(c), Detaching(c)' <=> Detaching(c)
    PROVE  Settling(c)'
<1>1. c \in (detached \ crossed)' =>
        /\ ~Storing(c)' /\ ~Heard(c, "attached")'
        /\ row'[c] # NoUser /\ c \notin halved' => Heard(c, "detached")'
  BY DEF Settling
<1>2. Attached(c)' /\ c \notin halved' =>
        \/ row'[c] # NoUser \/ Storing(c)' \/ Detaching(c)'
        \/ /\ attached'[c] \in intents'
           /\ Heard(c, "attached")' \/ FindUser(attached[c])' = {}
  BY DEF Settling, Attached, FindUser
<1>3. QED
  BY <1>1, <1>2 DEF Settling

(* A card is attached: by a customer of BillingService, or by saveCard.     *)
LEMMA AttachSettles ==
    ASSUME TypeInv, OwnerInv, SettleInv,
           NEW c \in CardIds, NEW cus \in Customers,
           Fresh(c), Attach(c, cus), cus \in intents \/ Storing(c)',
           UNCHANGED <<detached, intents, stripeCustomerId, row, crossed,
                       halved>>,
           \A p \in Procs :
                \/ job'[p] = job[p]
                \/ /\ job[p] = Idle
                   /\ job'[p].op = "save" /\ job'[p].card = c
    PROVE  SettleInv'
<1>1. /\ attached \in [CardIds -> Customers \cup {NoCustomer}]
      /\ NoCustomer \notin Customers
      /\ EventsSound /\ \A p \in Procs : Knows(job[p])
  BY CardsAssumption DEF TypeInv, TypeOK
<1>2. /\ attached' = [attached EXCEPT ![c] = cus]
      /\ events' = events \cup {[type |-> "attached", customer |-> cus,
                                 card |-> c]}
  BY DEF Attach
<1>3. Unheard(c) /\ c \notin detached
  BY DEF OwnerInv, Fresh
<1>4. Heard(c, "attached")'
  <2>1. [type |-> "attached", customer |-> cus, card |-> c] \in events'
    BY <1>2
  <2>2. QED
    BY <2>1 DEF Heard
<1>5. Settling(c)'
  BY <1>1, <1>2, <1>3, <1>4 DEF Settling
<1>6. ASSUME NEW d \in CardIds, d # c
      PROVE  Settling(d)'
  <2>1. \A type : Heard(d, type)' <=> Heard(d, type)
    BY <1>2, <1>6 DEF Heard
  <2>2. (Storing(d)' <=> Storing(d)) /\ (Detaching(d)' <=> Detaching(d))
    BY <1>6 DEF Storing, Detaching, Jobs, Idle
  <2>3. Settling(d) /\ attached'[d] = attached[d]
    BY <1>1, <1>2, <1>6 DEF SettleInv
  <2>4. QED
    BY <2>1, <2>2, <2>3, SettleStill
<1>7. ASSUME NEW e \in events'
      PROVE  /\ e.type = "detached" => e.card \in detached'
             /\ e.type = "attached" /\ Attached(e.card)' =>
                    e.customer = attached'[e.card]
  BY <1>1, <1>2, <1>3 DEF SettleInv, Unheard, Attached, EventsSound
<1>8. \A p \in Jobs({"upsert"})' :
        /\ job'[p].customer \in intents'
        /\ Attached(job[p].card)' =>
                job'[p].customer = attached'[job'[p].card]
  BY <1>1, <1>2, <1>3 DEF SettleInv, Unheard, Attached, Jobs, Knows
<1>9. QED
  BY <1>5, <1>6, <1>7, <1>8 DEF SettleInv

(* A card is detached, by detachCard or at the dashboard.                  *)
LEMMA DetachSettles ==
    ASSUME TypeInv, OwnerInv, SettleInv,
           NEW c \in CardIds, Attached(c), Detach(c),
           UNCHANGED <<intents, stripeCustomerId, row, halved>>,
           \A p \in Procs :
                \/ job'[p] = job[p]
                \/ /\ job[p].op = "detach" /\ job[p].card = c
                   /\ job'[p] = Idle
    PROVE  SettleInv'
<1>1. /\ attached \in [CardIds -> Customers \cup {NoCustomer}]
      /\ NoCard \notin CardIds
      /\ EventsSound /\ \A p \in Procs : Knows(job[p])
  BY CardsAssumption DEF TypeInv, TypeOK
<1>2. /\ attached' = [attached EXCEPT ![c] = NoCustomer]
      /\ detached' = detached \cup {c}
      /\ crossed' = IF Adding(c) THEN crossed \cup {c} ELSE crossed
  BY DEF Detach
<1>3. [type |-> "detached", customer |-> attached[c], card |-> c] \in events'
  BY DEF Detach
<1>4. \A e \in events' : \/ e \in events
                         \/ e.type = "detached" /\ e.card = c
                         \/ e.type = "updated"
  <2>1. events' \subseteq events \cup
            {[type |-> "detached", customer |-> attached[c], card |-> c],
             [type |-> "updated", customer |-> attached[c], card |-> NoCard]}
    BY Zenon DEF Detach
  <2>2. ASSUME NEW e \in events', e \notin events
        PROVE  (e.type = "detached" /\ e.card = c) \/ e.type = "updated"
    BY <2>1, <2>2
  <2>3. QED
    BY <2>2
<1>5. events \subseteq events'
  BY DEF Detach
<1>6. \A d \in CardIds : /\ Heard(d, "attached")' <=> Heard(d, "attached")
                         /\ Heard(d, "detached") => Heard(d, "detached")'
                         /\ Storing(d)' <=> Storing(d)
  BY <1>4, <1>5 DEF Heard, Storing, Jobs, Idle
<1>7. Settling(c)'
  <2>1. Heard(c, "detached")' /\ ~Attached(c)'
    BY <1>1, <1>2, <1>3 DEF Heard, Attached
  <2>2. c \notin crossed' => ~Storing(c) /\ ~Heard(c, "attached")
    BY <1>2 DEF Adding, Storing, Heard
  <2>3. QED
    BY <1>6, <2>1, <2>2 DEF Settling
<1>8. ASSUME NEW d \in CardIds, d # c
      PROVE  Settling(d)'
  <2>1. Detaching(d)' <=> Detaching(d)
    BY <1>8 DEF Detaching, Idle
  <2>2. attached'[d] = attached[d] /\ Settling(d)
    BY <1>1, <1>2, <1>8 DEF SettleInv
  <2>3. /\ d \in detached' <=> d \in detached
        /\ d \in crossed' <=> d \in crossed
    BY <1>2, <1>8
  <2>4. QED
    BY <1>6, <2>1, <2>2, <2>3 DEF Settling, Attached, FindUser
<1>9. ASSUME NEW e \in events'
      PROVE  /\ e.type = "detached" => e.card \in detached'
             /\ e.type = "attached" /\ Attached(e.card)' =>
                    e.customer = attached'[e.card]
  BY <1>1, <1>2, <1>4 DEF SettleInv, Attached, EventsSound
<1>10. \A p \in Jobs({"upsert"})' :
        /\ job'[p].customer \in intents'
        /\ Attached(job[p].card)' =>
                job'[p].customer = attached'[job'[p].card]
  BY <1>1, <1>2 DEF SettleInv, Attached, Jobs, Knows, Idle
<1>11. QED
  BY <1>7, <1>8, <1>9, <1>10 DEF SettleInv

(* The table follows Stripe. *)
LEMMA SettleStep ==
    TypeInv /\ KeptInv /\ OwnerInv /\ SettleInv /\ [Next]_vars => SettleInv'
<1> SUFFICES ASSUME TypeInv, KeptInv, OwnerInv, SettleInv, [Next]_vars
             PROVE  SettleInv'
  OBVIOUS
<1>0. /\ made \in [Customers -> Users \cup {NoUser}]
      /\ attached \in [CardIds -> Customers \cup {NoCustomer}]
      /\ billing_id \in [Users -> Customers \cup {NoCustomer}]
      /\ row \in [CardIds -> Users \cup {NoUser}]
      /\ events \subseteq Event
      /\ job \in [Procs -> Job]
      /\ NoUser \notin Users /\ NoCustomer \notin Customers
      /\ NoCard \notin CardIds
      /\ \A p \in Procs : Knows(job[p])
      /\ EventsSound /\ OwnerInv /\ SettleInv /\ IdsSound /\ MadeSound
  BY CardsAssumption DEF TypeInv, TypeOK, KeptInv
<1>1. ASSUME NEW p \in Procs, NEW u \in Users, CustomerCheck(p, u)
      PROVE  SettleInv'
  BY <1>0, <1>1
     DEF CustomerCheck, Start, Begin, SettleInv, Settling, OwnerInv, Attached,
         Unheard, Jobs, Detaching, Storing, Heard, MadeSound, FindUser, Idle,
         stripe, ids, table
<1>2. ASSUME NEW p \in Procs, CustomerCreate(p)
      PROVE  SettleInv'
<2>1. /\ \A q \in Procs \ {p} : job'[q] = job[q]
      /\ job[p].op = "customer" /\ job'[p].op = "customer"
      /\ UNCHANGED <<attached, detached, intents, events, stripeCustomerId,
                     row, crossed, halved>>
  BY <1>0, <1>2 DEF CustomerCreate, At, ids, table, ghosts
<2>2. ASSUME NEW c \in CardIds PROVE Settling(c)'
  <3>1. \A type : Heard(c, type)' <=> Heard(c, type)
    BY <2>1 DEF Heard
  <3>2. (Storing(c)' <=> Storing(c)) /\ (Detaching(c)' <=> Detaching(c))
    BY <2>1 DEF Storing, Detaching, Jobs
  <3>3. QED
    BY <1>0, <2>1, <3>1, <3>2, SettleStill DEF SettleInv
<2>3. QED
  BY <1>0, <2>1, <2>2 DEF SettleInv, Attached, Jobs
<1>3. ASSUME NEW p \in Procs, CustomerKeep(p)
      PROVE  SettleInv'
  BY <1>0, <1>3
     DEF CustomerKeep, At, Return, SettleInv, Settling, Attached, Jobs,
         Detaching, Storing, Heard, MadeSound, FindUser, Idle, table, ghosts
<1>4. ASSUME NEW cus \in Customers, NEW c \in CardIds,
             ConfirmSetupIntent(cus, c)
      PROVE  SettleInv'
  BY <1>0, <1>4, AttachSettles DEF ConfirmSetupIntent, ids, table, ghosts
<1>5. ASSUME NEW p \in Procs, NEW u \in Users, NEW c \in CardIds,
             SaveAttach(p, u, c)
      PROVE  SettleInv'
<2>1. PICK cus \in Customers :
        /\ Attach(c, cus)
        /\ job[p] = Idle
        /\ job'[p].op = "save" /\ job'[p].card = c
        /\ \A q \in Procs \ {p} : job'[q] = job[q]
  BY <1>0, <1>5 DEF SaveAttach, Start, Begin
<2>2. Storing(c)'
  BY <2>1 DEF Storing, Jobs
<2>3. /\ Fresh(c)
      /\ UNCHANGED <<detached, intents, stripeCustomerId, row, crossed, halved>>
  BY <1>5 DEF SaveAttach, ids, table
<2>4. QED
  BY <1>0, <2>1, <2>2, <2>3, AttachSettles
<1>6. ASSUME NEW p \in Procs, SaveKeep(p)
      PROVE  SettleInv'
  BY <1>0, <1>6
     DEF SaveKeep, At, MoveTo, SettleInv, Settling, Attached, Jobs, Detaching,
         Storing, Heard, FindUser, Knows, stripe, table, ghosts
<1>7. ASSUME NEW p \in Procs, SaveStore(p)
      PROVE  SettleInv'
  BY <1>0, <1>7
     DEF SaveStore, At, Return, AddRow, SettleInv, Settling, Attached, Jobs,
         Detaching, Storing, Heard, MadeSound, FindUser, Knows, Idle, stripe,
         ids
<1>8. ASSUME NEW p \in Procs, NEW u \in Users, NEW c \in CardIds,
             DefaultCheck(p, u, c)
      PROVE  SettleInv'
  BY <1>0, <1>8
     DEF DefaultCheck, Start, Begin, SetDefault, SettleInv, Settling, Attached,
         Jobs, Detaching, Storing, Heard, FindUser, Idle, ids, table
<1>9. ASSUME NEW p \in Procs, DefaultReset(p)
      PROVE  SettleInv'
<2>1. /\ UNCHANGED <<made, attached, detached, intents, events, ids, row, ghosts>>
      /\ job[p].op = "default"
  BY <1>9 DEF DefaultReset, At, stripe, ids
<2>2. \A q \in Procs : /\ job'[q].op = job[q].op
                       /\ job'[q].user = job[q].user
                       /\ job'[q].card = job[q].card
                       /\ job'[q].customer = job[q].customer
  BY <1>0, <1>9 DEF DefaultReset, MoveTo, Job
<2>3. ASSUME NEW c \in CardIds PROVE Settling(c)'
  <3>1. /\ Storing(c)' <=> Storing(c)
        /\ Detaching(c)' <=> Detaching(c)
    BY <2>2 DEF Storing, Detaching, Jobs
  <3>2. \A type \in {"attached", "detached"} :
            Heard(c, type)' <=> Heard(c, type)
    BY <2>1 DEF Heard
  <3> QED
    BY <1>0, <2>1, <3>1, <3>2, SettleStill DEF SettleInv, ids, ghosts
<2>4. QED
  BY <1>0, <2>1, <2>2, <2>3 DEF SettleInv, Attached, Jobs
<1>10. ASSUME NEW p \in Procs, DefaultFlag(p)
      PROVE  SettleInv'
  BY <1>0, <1>10
     DEF DefaultFlag, At, Return, SettleInv, Settling, Attached, Jobs,
         Detaching, Storing, Heard, FindUser, Idle, stripe, ids, ghosts
<1>11. ASSUME NEW p \in Procs, NEW c \in CardIds, DetachRow(p, c)
      PROVE  SettleInv'
  BY <1>0, <1>11
     DEF DetachRow, Start, Begin, Call, DropRow, SettleInv, Settling, OwnerInv,
         Fresh, Attached, Jobs, Detaching, Storing, Heard, FindUser, Idle,
         stripe, ids, ghosts
<1>12. ASSUME NEW p \in Procs, DetachAtStripe(p)
      PROVE  SettleInv'
<2>1. /\ job[p].op = "detach" /\ job' = [job EXCEPT ![p] = Idle]
      /\ UNCHANGED <<intents, stripeCustomerId, row, halved>>
  BY <1>12 DEF DetachAtStripe, At, Return, ids, table
<2>2. PICK c \in CardIds : job[p].card = c
  BY <1>0, <2>1 DEF Knows
<2>3. \A q \in Procs : job'[q] = IF q = p THEN Idle ELSE job[q]
  BY <1>0, <2>1
<2>4. CASE Attached(c)
  BY <1>0, <1>12, <2>1, <2>2, <2>3, <2>4, DetachSettles DEF DetachAtStripe
<2>5. CASE ~Attached(c)
  <3>1. UNCHANGED <<attached, detached, events, crossed>>
    BY <1>12, <2>2, <2>5 DEF DetachAtStripe
  <3>2. ASSUME NEW d \in CardIds PROVE Settling(d)'
    <4>1. \A type : Heard(d, type)' <=> Heard(d, type)
      BY <3>1 DEF Heard
    <4>2. Storing(d)' <=> Storing(d)
      BY <2>1, <2>3 DEF Storing, Jobs, Idle
    <4>3. CASE d = c
      BY <1>0, <2>1, <2>5, <3>1, <4>1, <4>2, <4>3
         DEF SettleInv, Settling, Attached
    <4>4. CASE d # c
      <5>1. Detaching(d)' <=> Detaching(d)
        BY <2>1, <2>2, <2>3, <4>4 DEF Detaching, Idle
      <5>2. QED
        BY <1>0, <2>1, <3>1, <4>1, <4>2, <5>1, SettleStill DEF SettleInv
    <4>5. QED
      BY <4>3, <4>4
  <3>3. QED
    BY <1>0, <2>1, <2>3, <3>1, <3>2 DEF SettleInv, Attached, Jobs, Idle
<2>6. QED
  BY <2>4, <2>5
<1>13. ASSUME NEW c \in CardIds, DashboardDetach(c)
      PROVE  SettleInv'
  BY <1>0, <1>13, DetachSettles DEF DashboardDetach, ids, table
<1>14. ASSUME NEW u \in Users, NEW c \in CardIds, DashboardDefault(u, c)
      PROVE  SettleInv'
  BY <1>0, <1>14
     DEF DashboardDefault, SetDefault, SettleInv, Settling, Attached, Jobs,
         Detaching, Storing, Heard, FindUser, ids, table
<1>15. ASSUME NEW e \in events, NEW p \in Procs, HandleAttached(p, e)
      PROVE  SettleInv'
<2>1. /\ job[p] = Idle /\ e.type = "attached" /\ e.card \in CardIds
      /\ \A q \in Procs \ {p} : job'[q] = job[q]
      /\ UNCHANGED <<attached, detached, intents, stripeCustomerId, row,
                     crossed, halved>>
  BY <1>0, <1>15
     DEF HandleAttached, Begin, EventsSound, stripe, ids, table, ghosts
<2>2. /\ events' \subseteq events
      /\ \A f \in events : f # e => f \in events'
  BY <1>15 DEF HandleAttached, Taken
<2>3. \A c \in CardIds : /\ Heard(c, "detached")' <=> Heard(c, "detached")
                         /\ Heard(c, "attached")' => Heard(c, "attached")
                         /\ c # e.card /\ Heard(c, "attached")
                                => Heard(c, "attached")'
  BY <2>1, <2>2 DEF Heard
<2>4. Heard(e.card, "attached")
  BY <2>1 DEF Heard
<2>5. CASE FindUser(e.customer) = {}
  <3>1. job' = job
    BY <1>15, <2>5 DEF HandleAttached
  <3>2. ASSUME NEW c \in CardIds PROVE Settling(c)'
    <4>1. (Storing(c)' <=> Storing(c)) /\ (Detaching(c)' <=> Detaching(c))
      BY <3>1 DEF Storing, Detaching, Jobs
    <4>2. Attached(e.card) => FindUser(attached[e.card])' = {}
      BY <1>0, <2>1, <2>5 DEF SettleInv, FindUser
    <4>3. QED
      BY <1>0, <2>1, <2>3, <4>1, <4>2
         DEF SettleInv, Settling, Attached, FindUser
  <3>3. QED
    BY <1>0, <2>1, <2>2, <3>1, <3>2 DEF SettleInv, Attached, Jobs
<2>6. CASE FindUser(e.customer) # {}
  <3>1. /\ job'[p].op = "upsert" /\ job'[p].card = e.card
        /\ job'[p].customer = e.customer
    BY <1>0, <1>15, <2>6 DEF HandleAttached, Begin
  <3>2. e.customer \in intents
    BY <1>0, <2>6 DEF FindUser, IdsSound, Event
  <3>3. ASSUME NEW c \in CardIds PROVE Settling(c)'
    <4>1. /\ Storing(c) => Storing(c)'
          /\ Storing(c)' => Storing(c) \/ c = e.card
          /\ Storing(e.card)'
          /\ Detaching(c) => Detaching(c)'
      BY <2>1, <3>1 DEF Storing, Detaching, Jobs, Idle
    <4>2. QED
      BY <1>0, <2>1, <2>3, <2>4, <4>1
         DEF SettleInv, Settling, Attached, FindUser
  <3>4. QED
    BY <1>0, <2>1, <2>2, <3>1, <3>2, <3>3
       DEF SettleInv, Attached, Jobs, Idle
<2>7. QED
  BY <2>5, <2>6
<1>16. ASSUME NEW e \in events, HandleDetached(e)
      PROVE  SettleInv'
  BY <1>0, <1>16
     DEF HandleDetached, DropRow, Taken, SettleInv, Settling, OwnerInv,
         Attached, Jobs, Detaching, Storing, Heard, FindUser, stripe, ids,
         ghosts
<1>17. ASSUME NEW e \in events, NEW p \in Procs, HandleUpdated(p, e)
      PROVE  SettleInv'
<2>1. /\ \A q \in Procs : \/ job'[q] = job[q]
                          \/ job[q] = Idle /\ job'[q].op = "updated"
      /\ e.type = "updated"
      /\ events' \subseteq events
      /\ \A f \in events : f # e => f \in events'
      /\ UNCHANGED <<attached, detached, intents, stripeCustomerId, row,
                     crossed, halved>>
  BY <1>0, <1>17 DEF HandleUpdated, Begin, Taken, stripe, ids, ghosts
<2>2. ASSUME NEW c \in CardIds PROVE Settling(c)'
  <3>1. \A type \in {"attached", "detached"} :
            Heard(c, type)' <=> Heard(c, type)
    BY <2>1 DEF Heard
  <3>2. (Storing(c)' <=> Storing(c)) /\ (Detaching(c)' <=> Detaching(c))
    BY <2>1 DEF Storing, Detaching, Jobs, Idle
  <3>3. QED
    BY <1>0, <2>1, <3>1, <3>2, SettleStill DEF SettleInv
<2>3. QED
  BY <1>0, <2>1, <2>2 DEF SettleInv, Attached, Jobs, Idle
<1>18. ASSUME NEW p \in Procs, Upsert(p)
      PROVE  SettleInv'
  BY <1>0, <1>18
     DEF Upsert, Return, AddRow, SettleInv, Settling, Attached, Jobs,
         Detaching, Storing, Heard, FindUser, Knows, Idle, stripe, ids
<1>19. ASSUME NEW p \in Procs, UpdatedFlag(p)
      PROVE  SettleInv'
  BY <1>0, <1>19
     DEF UpdatedFlag, Return, SettleInv, Settling, Attached, Jobs, Detaching,
         Storing, Heard, FindUser, Idle, stripe, ids, ghosts
<1>20. ASSUME NEW p \in Procs, Crash(p)
      PROVE  SettleInv'
<2>1. /\ job' = [job EXCEPT ![p] = Idle]
      /\ halved \subseteq halved'
      /\ UNCHANGED <<attached, detached, intents, stripeCustomerId, row,
                     crossed>>
  BY <1>20 DEF Crash, Return, stripe, ids, table
<2>2. \A q \in Procs : job'[q] = IF q = p THEN Idle ELSE job[q]
  BY <1>0, <2>1
<2>3. CASE job[p].op = "upsert"
  <3>1. PICK c \in CardIds :
            /\ job[p].card = c
            /\ events' = events \cup {[type |-> "attached",
                    customer |-> job[p].customer, card |-> c]}
            /\ [type |-> "attached", customer |-> job[p].customer,
                card |-> c] \in events'
    BY <1>0, <1>20, <2>3 DEF Crash, Knows
  <3>2. /\ Heard(c, "attached")' /\ Storing(c)
        /\ job[p].customer \in intents
        /\ Attached(c) => attached[c] = job[p].customer
    <4>1. Heard(c, "attached")'
      BY <3>1 DEF Heard
    <4>2. Storing(c)
      BY <2>3, <3>1 DEF Storing, Jobs
    <4>3. QED
      BY <1>0, <2>3, <3>1, <4>1, <4>2 DEF SettleInv, Jobs
  <3>3. Settling(c)'
    BY <1>0, <2>1, <3>2 DEF SettleInv, Settling, Attached
  <3>4. ASSUME NEW d \in CardIds, d # c
        PROVE  Settling(d)'
    <4>1. \A type : Heard(d, type)' <=> Heard(d, type)
      BY <3>1, <3>4 DEF Heard
    <4>2. (Storing(d)' <=> Storing(d)) /\ (Detaching(d)' <=> Detaching(d))
      BY <2>2, <2>3, <3>1, <3>4 DEF Storing, Detaching, Jobs, Idle
    <4>3. QED
      BY <1>0, <2>1, <4>1, <4>2, SettleStill DEF SettleInv
  <3>5. QED
    BY <1>0, <2>1, <2>2, <3>1, <3>2, <3>3, <3>4
       DEF SettleInv, Attached, Jobs, Idle
<2>4. CASE job[p].op # "upsert"
  <3>1. \A type \in {"attached", "detached"}, c \in CardIds :
            Heard(c, type)' <=> Heard(c, type)
    BY <1>20, <2>4 DEF Crash, Heard
  <3>2. \A e \in events' : e.type # "updated" => e \in events
    BY <1>20, <2>4 DEF Crash
  <3>3. ASSUME NEW c \in CardIds PROVE Settling(c)'
    <4>1. CASE job[p].op \in {"save", "detach"} /\ job[p].card = c
      <5>1. c \in halved'
        BY <1>20, <4>1 DEF Crash
      <5>2. Storing(c)' => Storing(c)
        BY <2>2 DEF Storing, Jobs, Idle
      <5>3. QED
        BY <1>0, <2>1, <3>1, <5>1, <5>2 DEF SettleInv, Settling
    <4>2. CASE ~(job[p].op \in {"save", "detach"} /\ job[p].card = c)
      <5>1. (Storing(c)' <=> Storing(c)) /\ (Detaching(c)' <=> Detaching(c))
        BY <2>2, <2>4, <4>2 DEF Storing, Detaching, Jobs, Idle
      <5>2. QED
        BY <1>0, <2>1, <3>1, <5>1 DEF SettleInv, Settling, Attached, FindUser
    <4>3. QED
      BY <4>1, <4>2
  <3>4. QED
    BY <1>0, <2>1, <2>2, <3>2, <3>3 DEF SettleInv, Attached, Jobs, Idle, Event
<2>5. QED
  BY <2>3, <2>4
<1>21. ASSUME NEW e \in events, DetachedRejected(e)
      PROVE  SettleInv'
<2>1. /\ UNCHANGED <<attached, detached, intents, stripeCustomerId, row, job,
                     crossed>>
      /\ events' \subseteq events /\ e.type = "detached"
      /\ \A f \in events : f # e => f \in events'
      /\ halved \subseteq halved'
      /\ e \notin events' /\ row[e.card] # NoUser => e.card \in halved'
  BY <1>21 DEF DetachedRejected, Taken, stripe, ids, table
<2>2. ASSUME NEW c \in CardIds PROVE Settling(c)'
  <3>1. Heard(c, "attached")' <=> Heard(c, "attached")
    BY <2>1 DEF Heard
  <3>2. row[c] # NoUser /\ c \notin halved' /\ Heard(c, "detached")
            => Heard(c, "detached")'
    BY <2>1 DEF Heard
  <3>3. (Storing(c)' <=> Storing(c)) /\ (Detaching(c)' <=> Detaching(c))
    BY <2>1 DEF Storing, Detaching, Jobs
  <3>4. QED
    BY <1>0, <2>1, <3>1, <3>2, <3>3
       DEF SettleInv, Settling, Attached, FindUser
<2>3. QED
  BY <1>0, <2>1, <2>2 DEF SettleInv, Attached, Jobs
<1>22. ASSUME NEW p \in Procs, UpdatedFlagRejected(p)
      PROVE  SettleInv'
<2>1. /\ \A q \in Procs : job'[q] = IF q = p THEN Idle ELSE job[q]
      /\ job[p].op = "updated"
      /\ UNCHANGED <<attached, detached, intents, stripeCustomerId, row, events,
                     crossed, halved>>
  BY <1>0, <1>22 DEF UpdatedFlagRejected, Return, stripe, ids, table
<2>2. ASSUME NEW c \in CardIds PROVE Settling(c)'
  <3>1. \A type : Heard(c, type)' <=> Heard(c, type)
    BY <2>1 DEF Heard
  <3>2. (Storing(c)' <=> Storing(c)) /\ (Detaching(c)' <=> Detaching(c))
    BY <2>1 DEF Storing, Detaching, Jobs, Idle
  <3>3. QED
    BY <1>0, <2>1, <3>1, <3>2, SettleStill DEF SettleInv
<2>3. QED
  BY <1>0, <2>1, <2>2 DEF SettleInv, Attached, Jobs, Idle
<1>23. CASE UNCHANGED vars
  BY <1>0, <1>23
     DEF vars, SettleInv, Settling, Attached, Jobs, Detaching, Storing, Heard,
         FindUser, stripe, ids, table, ghosts
<1>24. QED
  BY <1>1, <1>2, <1>3, <1>4, <1>5, <1>6, <1>7, <1>8, <1>9, <1>10, <1>11, <1>12,
     <1>13, <1>14, <1>15, <1>16, <1>17, <1>18, <1>19, <1>20, <1>21,
     <1>22, <1>23
     DEF Next, BillingRoutes, AtStripe, Webhook, Continue

(* At the start nothing is attached, detached or under way. *)
LEMMA SettleStart == Init => SettleInv
  BY DEF Init, SettleInv, Settling, Attached, Jobs, Idle

LEMMA SettleAlways == Spec => []SettleInv
  BY TypeAlways, KeptAlways, OwnerAlways, SettleStart, SettleStep, PTL
     DEF Spec

(* The cards that the application shows are those Stripe has, whatever     *)
(* calls, dashboards, repeated and late events met on the way: once        *)
(* nothing about a card is under way, its row and its attachment agree,    *)
(* but for the exceptions CardsSettle names.                               *)
THEOREM CardsAgree == Spec => []CardsSettle
<1>1. TypeInv /\ KeptInv /\ OwnerInv /\ SettleInv => CardsSettle
  <2> SUFFICES ASSUME TypeInv, KeptInv, OwnerInv, SettleInv,
                      NEW c \in CardIds,
                      \A e \in events : e.card # c,
                      \A p \in Procs : job[p].card # c,
                      c \notin crossed \cup halved
               PROVE  /\ row[c] # NoUser => Attached(c)
                      /\ Attached(c) =>
                            \/ row[c] = made[attached[c]]
                            \/ \A u \in Users : attached[c] \notin
                                    {billing_id[u], stripeCustomerId[u]}
    BY DEF CardsSettle
  <2>1. /\ attached \in [CardIds -> Customers \cup {NoCustomer}]
        /\ NoCustomer \notin Customers
    BY CardsAssumption DEF TypeInv, TypeOK
  <2>2. ~Storing(c) /\ ~Detaching(c) /\ \A type : ~Heard(c, type)
    BY DEF Storing, Detaching, Heard, Jobs
  <2>3. Settling(c)
    BY DEF SettleInv
  <2>4. ASSUME row[c] # NoUser
        PROVE  Attached(c)
    <3>1. ~Fresh(c)
      BY <2>4 DEF OwnerInv, Unheard
    <3>2. c \notin detached
      BY <2>2, <2>3, <2>4 DEF Settling
    <3>3. QED
      BY <3>1, <3>2 DEF Fresh
  <2>5. ASSUME Attached(c), row[c] # NoUser
        PROVE  row[c] = made[attached[c]]
    BY <2>5 DEF OwnerInv, Belongs, Fresh
  <2>6. ASSUME Attached(c), row[c] = NoUser, NEW u \in Users
        PROVE  attached[c] \notin {billing_id[u], stripeCustomerId[u]}
    <3>1. attached[c] \in intents /\ FindUser(attached[c]) = {}
      BY <2>2, <2>3, <2>6 DEF Settling
    <3>2. attached[c] # stripeCustomerId[u]
      BY <3>1 DEF FindUser
    <3>3. attached[c] # billing_id[u]
      BY <2>1, <2>6, <3>1 DEF KeptInv, IdsSound, Attached
    <3>4. QED
      BY <3>2, <3>3
  <2>7. QED
    BY <2>4, <2>5, <2>6
<1>2. QED
  BY <1>1, TypeAlways, KeptAlways, OwnerAlways, SettleAlways, PTL

-----------------------------------------------------------------------------
(* The flag of the default card settles *)

(* What is on its way to the flags of a user in order is the default of    *)
(* his customer, and when the flags are not, something is on its way.      *)
Flagged(u) == {c \in is_default : row[c] = u}
Chosen(u) == {c \in CardIds : /\ row[c] = u
                              /\ default[stripeCustomerId[u]] = c}

About(u) == {e \in events : /\ e.type = "updated"
                            /\ e.customer = stripeCustomerId[u]}
Handling(u) == {p \in Jobs({"default", "updated"}) : job[p].user = u}
Writing(u) == {p \in Handling(u) : job[p].op = "default" => job[p].at = "reset"}

InOrder(u) ==
    /\ \A e \in About(u) : e.card = default[stripeCustomerId[u]]
    /\ \A p \in Handling(u) : /\ job[p].card = default[stripeCustomerId[u]]
                              /\ job[p].customer = stripeCustomerId[u]
    /\ \/ Flagged(u) = Chosen(u)
       \/ About(u) # {}
       \/ Flagged(u) \subseteq Chosen(u) /\ Writing(u) # {}

(* Only customers of BillingService have defaults and events about them.   *)
FlagsSound ==
    /\ \A c \in is_default : row[c] # NoUser
    /\ \A cus \in Customers : default[cus] # NoCard => cus \in intents
    /\ \A e \in events : e.type = "updated" => e.customer \in intents
    /\ \A p \in Jobs({"default", "updated"}) :
            job[p].customer \in intents /\ made[job[p].customer] = job[p].user

Ordered(u) ==
    IF stripeCustomerId[u] = NoCustomer
        THEN Flagged(u) = {} /\ Handling(u) = {}
        ELSE u \notin muddled \cup rushed => InOrder(u)

OrderInv == \A u \in Users : Ordered(u)

(* Defaults and what is said of them are of customers of BillingService. *)
LEMMA FlagsStep ==
    TypeInv /\ KeptInv /\ FlagsSound /\ [Next]_vars => FlagsSound'
<1> SUFFICES ASSUME TypeInv, KeptInv, FlagsSound, [Next]_vars
             PROVE  FlagsSound'
  OBVIOUS
<1>0. /\ made \in [Customers -> Users \cup {NoUser}]
      /\ default \in [Customers -> CardIds \cup {NoCard}]
      /\ row \in [CardIds -> Users \cup {NoUser}]
      /\ is_default \subseteq CardIds
      /\ events \subseteq Event
      /\ job \in [Procs -> Job]
      /\ NoUser \notin Users /\ NoCustomer \notin Customers
      /\ NoCard \notin CardIds
      /\ stripeCustomerId \in [Users -> Customers \cup {NoCustomer}]
      /\ attached \in [CardIds -> Customers \cup {NoCustomer}]
      /\ \A p \in Procs : Knows(job[p])
      /\ IdsSound /\ FlagsSound
  BY CardsAssumption DEF TypeInv, TypeOK, KeptInv
<1>1. ASSUME NEW p \in Procs, NEW u \in Users, CustomerCheck(p, u)
      PROVE  FlagsSound'
  BY <1>0, <1>1
     DEF CustomerCheck, Start, Begin, FlagsSound, Jobs, stripe, table
<1>2. ASSUME NEW p \in Procs, CustomerCreate(p)
      PROVE  FlagsSound'
  BY <1>0, <1>2 DEF CustomerCreate, FlagsSound, Jobs, Knows, Job, table
<1>3. ASSUME NEW p \in Procs, CustomerKeep(p)
      PROVE  FlagsSound'
  BY <1>0, <1>3 DEF CustomerKeep, Return, FlagsSound, Jobs, Idle, table
<1>4. ASSUME NEW cus \in Customers, NEW c \in CardIds,
             ConfirmSetupIntent(cus, c)
      PROVE  FlagsSound'
  BY <1>0, <1>4 DEF ConfirmSetupIntent, Attach, FlagsSound, Jobs, table
<1>5. ASSUME NEW p \in Procs, NEW u \in Users, NEW c \in CardIds,
             SaveAttach(p, u, c)
      PROVE  FlagsSound'
<2>1. PICK cus : Attach(c, cus)
  BY <1>5 DEF SaveAttach
<2>2. /\ \A k \in Customers : made[k] # NoUser => made'[k] = made[k]
      /\ \A q \in Procs : job'[q] = job[q] \/ job'[q].op = "save"
      /\ UNCHANGED <<default, intents, row, is_default>>
  BY <1>0, <1>5 DEF SaveAttach, Start, Begin, table
<2>3. QED
  BY <1>0, <2>1, <2>2 DEF Attach, FlagsSound, Jobs, Knows
<1>6. ASSUME NEW p \in Procs, SaveKeep(p)
      PROVE  FlagsSound'
  BY <1>0, <1>6 DEF SaveKeep, MoveTo, FlagsSound, Jobs, stripe, table
<1>7. ASSUME NEW p \in Procs, SaveStore(p)
      PROVE  FlagsSound'
  BY <1>0, <1>7 DEF SaveStore, Return, AddRow, FlagsSound, Jobs, Idle, stripe
<1>8. ASSUME NEW p \in Procs, NEW u \in Users, NEW c \in CardIds,
             DefaultCheck(p, u, c)
      PROVE  FlagsSound'
  BY <1>0, <1>8
     DEF DefaultCheck, Start, Begin, SetDefault, FlagsSound, IdsSound, Jobs,
         table
<1>9. ASSUME NEW p \in Procs, DefaultReset(p)
      PROVE  FlagsSound'
  BY <1>0, <1>9 DEF DefaultReset, MoveTo, ResetFlags, FlagsSound, Jobs, stripe
<1>10. ASSUME NEW p \in Procs, DefaultFlag(p)
      PROVE  FlagsSound'
  BY <1>0, <1>10 DEF DefaultFlag, Return, FlagsSound, Jobs, Idle, stripe
<1>11. ASSUME NEW p \in Procs, NEW c \in CardIds, DetachRow(p, c)
      PROVE  FlagsSound'
  BY <1>0, <1>11 DEF DetachRow, Start, Begin, DropRow, FlagsSound, Jobs, stripe
<1>12. ASSUME NEW p \in Procs, DetachAtStripe(p)
      PROVE  FlagsSound'
  BY <1>0, <1>12
     DEF DetachAtStripe, At, Return, Detach, Attached, FlagsSound, Jobs, Knows,
         Idle, table
<1>13. ASSUME NEW c \in CardIds, DashboardDetach(c)
      PROVE  FlagsSound'
  BY <1>0, <1>13 DEF DashboardDetach, Detach, Attached, FlagsSound, Jobs, table
<1>14. ASSUME NEW u \in Users, NEW c \in CardIds, DashboardDefault(u, c)
      PROVE  FlagsSound'
  BY <1>0, <1>14
     DEF DashboardDefault, SetDefault, FlagsSound, IdsSound, Jobs, table
<1>15. ASSUME NEW e \in events, NEW p \in Procs, HandleAttached(p, e)
      PROVE  FlagsSound'
  BY <1>0, <1>15
     DEF HandleAttached, Begin, Taken, FlagsSound, Jobs, stripe, table
<1>16. ASSUME NEW e \in events, HandleDetached(e)
      PROVE  FlagsSound'
  BY <1>0, <1>16 DEF HandleDetached, DropRow, Taken, FlagsSound, Jobs, stripe
<1>17. ASSUME NEW e \in events, NEW p \in Procs, HandleUpdated(p, e)
      PROVE  FlagsSound'
  BY <1>0, <1>17
     DEF HandleUpdated, Begin, Taken, FindUser, ResetFlags, FlagsSound,
         IdsSound, Jobs, Event, stripe
<1>18. ASSUME NEW p \in Procs, Upsert(p)
      PROVE  FlagsSound'
  BY <1>0, <1>18 DEF Upsert, Return, AddRow, FlagsSound, Jobs, Idle, stripe
<1>19. ASSUME NEW p \in Procs, UpdatedFlag(p)
      PROVE  FlagsSound'
  BY <1>0, <1>19 DEF UpdatedFlag, Return, FlagsSound, Jobs, Idle, stripe
<1>20. ASSUME NEW p \in Procs, Crash(p)
      PROVE  FlagsSound'
  BY <1>0, <1>20 DEF Crash, Return, FlagsSound, Jobs, Idle, stripe, table
<1>21. ASSUME NEW e \in events, DetachedRejected(e)
      PROVE  FlagsSound'
  BY <1>0, <1>21 DEF DetachedRejected, Taken, FlagsSound, Jobs, stripe, table
<1>22. ASSUME NEW p \in Procs, UpdatedFlagRejected(p)
      PROVE  FlagsSound'
  BY <1>0, <1>22
     DEF UpdatedFlagRejected, Return, FlagsSound, Jobs, Idle, stripe, table
<1>23. CASE UNCHANGED vars
  BY <1>0, <1>23 DEF vars, FlagsSound, Jobs, stripe, table
<1>24. QED
  BY <1>1, <1>2, <1>3, <1>4, <1>5, <1>6, <1>7, <1>8, <1>9, <1>10, <1>11, <1>12,
     <1>13, <1>14, <1>15, <1>16, <1>17, <1>18, <1>19, <1>20, <1>21,
     <1>22, <1>23
     DEF Next, BillingRoutes, AtStripe, Webhook, Continue

(* What changes a user's flags and choices alike, and nothing on its way,  *)
(* leaves him in order.                                                    *)
LEMMA OrderLess ==
    ASSUME NEW u \in Users, NEW C, Ordered(u),
           stripeCustomerId'[u] = stripeCustomerId[u],
           stripeCustomerId[u] # NoCustomer =>
                default'[stripeCustomerId[u]] = default[stripeCustomerId[u]],
           Flagged(u)' = Flagged(u) \ C,
           stripeCustomerId[u] # NoCustomer
                /\ u \notin (muddled \cup rushed)' =>
                /\ Chosen(u)' = Chosen(u) \ C
                /\ u \notin muddled \cup rushed,
           About(u)' = About(u),
           Handling(u)' = Handling(u),
           \A p \in Handling(u) : job'[p] = job[p]
    PROVE  Ordered(u)'
<1>1. Writing(u)' = Writing(u)
  BY DEF Writing
<1>2. CASE stripeCustomerId[u] = NoCustomer
  BY <1>2 DEF Ordered
<1>3. CASE stripeCustomerId[u] # NoCustomer /\ u \in (muddled \cup rushed)'
  BY <1>3 DEF Ordered
<1>4. CASE stripeCustomerId[u] # NoCustomer /\ u \notin (muddled \cup rushed)'
  <2>1. InOrder(u)
    BY <1>4 DEF Ordered
  <2>2. InOrder(u)'
    BY <1>1, <1>4, <2>1 DEF InOrder
  <2>3. QED
    BY <1>4, <2>2 DEF Ordered
<1>5. QED
  BY <1>2, <1>3, <1>4

(* A step that is not about flags. *)
LEMMA OrderStill ==
    ASSUME OrderInv,
           UNCHANGED <<row, is_default, default, stripeCustomerId, muddled>>,
           rushed \subseteq rushed',
           \A e : e.type = "updated" => (e \in events' <=> e \in events),
           \A p \in Procs :
                \/ job'[p] = job[p]
                \/ /\ job[p].op \notin {"default", "updated"}
                   /\ job'[p].op \notin {"default", "updated"}
    PROVE  OrderInv'
<1> SUFFICES ASSUME NEW u \in Users PROVE Ordered(u)'
  BY DEF OrderInv
<1>1. Flagged(u)' = Flagged(u) \ {} /\ Chosen(u)' = Chosen(u) \ {}
  BY DEF Flagged, Chosen
<1>2. About(u)' = About(u)
  BY DEF About
<1>3. Handling(u)' = Handling(u) /\ \A p \in Handling(u) : job'[p] = job[p]
  BY DEF Handling, Jobs
<1>4. QED
  BY <1>1, <1>2, <1>3, OrderLess DEF OrderInv

(* A row goes: the card is neither flagged nor to be flagged any more.     *)
LEMMA OrderDropped ==
    ASSUME OrderInv, TypeInv, NEW c \in CardIds, DropRow(c),
           UNCHANGED <<default, stripeCustomerId, muddled, rushed>>,
           \A e : e.type = "updated" => (e \in events' <=> e \in events),
           \A p \in Procs :
                \/ job'[p] = job[p]
                \/ /\ job[p].op \notin {"default", "updated"}
                   /\ job'[p].op \notin {"default", "updated"}
    PROVE  OrderInv'
<1> SUFFICES ASSUME NEW u \in Users PROVE Ordered(u)'
  BY DEF OrderInv
<1>1. \A d \in CardIds : row'[d] = IF d = c THEN NoUser ELSE row[d]
  BY DEF DropRow, TypeInv, TypeOK
<1>2. Flagged(u)' = Flagged(u) \ {c} /\ Chosen(u)' = Chosen(u) \ {c}
  BY <1>1, CardsAssumption DEF DropRow, Flagged, Chosen, TypeInv, TypeOK
<1>3. About(u)' = About(u)
  BY DEF About
<1>4. Handling(u)' = Handling(u) /\ \A p \in Handling(u) : job'[p] = job[p]
  BY DEF Handling, Jobs
<1>5. QED
  BY <1>2, <1>3, <1>4, OrderLess DEF OrderInv

(* A row comes: without a flag, and a user whose default it is already is  *)
(* out of order.                                                           *)
LEMMA OrderAdded ==
    ASSUME OrderInv, FlagsSound, TypeInv,
           NEW c \in CardIds, NEW w \in Users, row[c] = NoUser, AddRow(c, w),
           UNCHANGED <<is_default, default, stripeCustomerId, events, rushed>>,
           \A p \in Procs :
                \/ job'[p] = job[p]
                \/ /\ job[p].op \notin {"default", "updated"}
                   /\ job'[p].op \notin {"default", "updated"}
    PROVE  OrderInv'
<1> SUFFICES ASSUME NEW u \in Users PROVE Ordered(u)'
  BY DEF OrderInv
<1>1. \A d \in CardIds : row'[d] = IF d = c THEN w ELSE row[d]
  BY DEF AddRow, TypeInv, TypeOK
<1>2. c \notin is_default /\ is_default \subseteq CardIds
  BY DEF FlagsSound, TypeInv, TypeOK
<1>3. Flagged(u)' = Flagged(u) \ {}
  BY <1>1, <1>2 DEF Flagged
<1>4. ASSUME u \notin (muddled \cup rushed)', stripeCustomerId[u] # NoCustomer
      PROVE  Chosen(u)' = Chosen(u) \ {} /\ u \notin muddled \cup rushed
  <2>1. stripeCustomerId[u] \in Customers
    BY <1>4 DEF TypeInv, TypeOK
  <2>2. u = w => default[stripeCustomerId[u]] # c
    BY <1>4, <2>1 DEF AddRow
  <2>3. QED
    BY <1>1, <1>4, <2>2, CardsAssumption DEF Chosen, AddRow
<1>5. About(u)' = About(u)
  BY DEF About
<1>6. Handling(u)' = Handling(u) /\ \A p \in Handling(u) : job'[p] = job[p]
  BY DEF Handling, Jobs
<1>7. QED
  BY <1>3, <1>4, <1>5, <1>6, OrderLess DEF OrderInv

(* When nothing may change the flags of a user, nothing is on its way.     *)
LEMMA NothingOnItsWay ==
    ASSUME NEW u \in Users, ~Flagging(u)
    PROVE  About(u) = {} /\ Handling(u) = {}
  BY DEF Flagging, FindUser, About, Handling

(* No two users share a customer of BillingService. *)
LEMMA CustomersApart ==
    ASSUME IdsSound, NEW u \in Users, NEW v \in Users, u # v,
           stripeCustomerId[u] # NoCustomer
    PROVE  stripeCustomerId[v] # stripeCustomerId[u]
  BY DEF IdsSound

(* A default is set at Stripe, by setDefaultCard or at the dashboard: the  *)
(* only thing on its way is the event that says so.                        *)
LEMMA OrderDefault ==
    ASSUME TypeInv, IdsSound, OrderInv,
           NEW u \in Users, NEW c \in CardIds,
           stripeCustomerId[u] # NoCustomer, SetDefault(u, c),
           UNCHANGED <<row, is_default, stripeCustomerId, rushed>>,
           \A p \in Procs :
                \/ job'[p] = job[p]
                \/ /\ job[p].op \notin {"default", "updated"}
                   /\ job'[p].user = u /\ job'[p].op = "default"
                   /\ job'[p].card = c
                   /\ job'[p].customer = stripeCustomerId[u]
    PROVE  OrderInv'
<1> DEFINE cus == stripeCustomerId[u]
           said == [type |-> "updated", customer |-> cus, card |-> c]
<1>1. /\ cus \in Customers /\ NoCustomer \notin Customers
      /\ default \in [Customers -> CardIds \cup {NoCard}]
  BY CardsAssumption DEF TypeInv, TypeOK
<1>2. /\ default' = [default EXCEPT ![cus] = c]
      /\ events' = events \cup {said}
      /\ muddled' = IF Flagging(u) THEN muddled \cup {u} ELSE muddled \ {u}
  BY DEF SetDefault
<1> SUFFICES ASSUME NEW v \in Users PROVE Ordered(v)'
  BY DEF OrderInv
<1>3. CASE v = u /\ Flagging(u)
  BY <1>2, <1>3 DEF Ordered
<1>4. CASE v = u /\ ~Flagging(u)
  <2>1. About(u) = {} /\ Handling(u) = {}
    BY <1>4, NothingOnItsWay
  <2>2. About(u)' = {said}
    BY <1>2, <2>1 DEF About
  <2>3. \A p \in Handling(u)' : job'[p].card = c /\ job'[p].customer = cus
    BY <2>1 DEF Handling, Jobs
  <2>4. default'[cus] = c
    BY <1>1, <1>2
  <2>5. InOrder(u)'
    BY <2>2, <2>3, <2>4 DEF InOrder
  <2>6. QED
    BY <1>4, <2>5 DEF Ordered
<1>5. CASE v # u
  <2>1. stripeCustomerId[v] # cus
    BY <1>5, CustomersApart
  <2>2. Flagged(v)' = Flagged(v) \ {}
    BY DEF Flagged
  <2>3. stripeCustomerId[v] # NoCustomer =>
            default'[stripeCustomerId[v]] = default[stripeCustomerId[v]]
    BY <1>1, <1>2, <2>1 DEF TypeInv, TypeOK
  <2>4. stripeCustomerId[v] # NoCustomer => Chosen(v)' = Chosen(v) \ {}
    BY <2>3 DEF Chosen
  <2>5. About(v)' = About(v)
    BY <1>2, <2>1 DEF About
  <2>6. Handling(v)' = Handling(v) /\ \A p \in Handling(v) : job'[p] = job[p]
    BY <1>5 DEF Handling, Jobs
  <2>7. v \notin (muddled \cup rushed)' => v \notin muddled \cup rushed
    BY <1>2, <1>5
  <2>8. QED
    BY <2>2, <2>3, <2>4, <2>5, <2>6, <2>7, OrderLess DEF OrderInv
<1>6. QED
  BY <1>3, <1>4, <1>5

(* A card is detached at Stripe: when it was the default, the event that   *)
(* there is none any more is on its way.                                   *)
LEMMA OrderDetached ==
    ASSUME TypeInv, FlagsSound, OrderInv,
           NEW c \in CardIds, Attached(c), Detach(c),
           UNCHANGED <<row, is_default, stripeCustomerId, rushed>>,
           \A p \in Procs :
                \/ job'[p] = job[p]
                \/ /\ job[p].op \notin {"default", "updated"}
                   /\ job'[p].op \notin {"default", "updated"}
    PROVE  OrderInv'
<1> DEFINE cus == attached[c]
           said == [type |-> "updated", customer |-> cus, card |-> NoCard]
<1>1. /\ cus \in Customers /\ NoCustomer \notin Customers
      /\ NoCard \notin CardIds
      /\ default \in [Customers -> CardIds \cup {NoCard}]
  BY CardsAssumption DEF TypeInv, TypeOK, Attached
<1>2. CASE default[cus] # c
  <2>1. /\ UNCHANGED <<default, muddled>>
        /\ \A e : e.type = "updated" => (e \in events' <=> e \in events)
    BY <1>2 DEF Detach
  <2>2. QED
    BY <2>1, OrderStill
<1>3. CASE default[cus] = c
  <2>1. /\ default' = [default EXCEPT ![cus] = NoCard]
        /\ muddled' = muddled \cup {u \in FindUser(cus) : Flagging(u)}
    BY <1>3 DEF Detach
  <2>2. events' = events
            \cup {[type |-> "detached", customer |-> cus, card |-> c]}
            \cup {said}
    BY <1>3 DEF Detach
  <2>3. ASSUME NEW u \in Users, stripeCustomerId[u] = cus
        PROVE  Ordered(u)'
    <3>1. CASE Flagging(u)
      BY <1>1, <2>1, <2>3, <3>1 DEF Ordered, FindUser
    <3>2. CASE ~Flagging(u)
      <4>1. About(u) = {} /\ Handling(u) = {}
        BY <3>2, NothingOnItsWay
      <4>2. About(u)' = {said}
        BY <2>2, <2>3, <4>1 DEF About
      <4>3. Handling(u)' = {}
        BY <4>1 DEF Handling, Jobs
      <4>4. default'[cus] = NoCard
        BY <1>1, <2>1
      <4>5. InOrder(u)'
        BY <2>3, <4>2, <4>3, <4>4 DEF InOrder
      <4>6. QED
        BY <1>1, <2>3, <4>5 DEF Ordered
    <3>3. QED
      BY <3>1, <3>2
  <2>4. ASSUME NEW u \in Users, stripeCustomerId[u] # cus
        PROVE  Ordered(u)'
    <3>1. Flagged(u)' = Flagged(u) \ {}
      BY DEF Flagged
    <3>2. stripeCustomerId[u] # NoCustomer =>
            default'[stripeCustomerId[u]] = default[stripeCustomerId[u]]
      BY <1>1, <2>1, <2>4 DEF TypeInv, TypeOK
    <3>3. stripeCustomerId[u] # NoCustomer => Chosen(u)' = Chosen(u) \ {}
      BY <3>2 DEF Chosen
    <3>4. About(u)' = About(u)
      BY <2>2, <2>4 DEF About
    <3>5. Handling(u)' = Handling(u) /\ \A p \in Handling(u) : job'[p] = job[p]
      BY DEF Handling, Jobs
    <3>6. u \notin (muddled \cup rushed)' => u \notin muddled \cup rushed
      BY <2>1
    <3>7. QED
      BY <3>1, <3>2, <3>3, <3>4, <3>5, <3>6, OrderLess DEF OrderInv
  <2>5. QED
    BY <2>3, <2>4 DEF OrderInv
<1>4. QED
  BY <1>2, <1>3

(* The last update of setDefaultCard or of the webhook: the card is        *)
(* flagged if it has a row, and that row is the user's.                    *)
LEMMA OrderFlagged ==
    ASSUME TypeInv, OwnerInv, OrderInv,
           NEW u \in Users, NEW p \in Writing(u),
           job' = [job EXCEPT ![p] = Idle],
           is_default' = IF job[p].card # NoCard /\ row[job[p].card] # NoUser
                            THEN is_default \cup {job[p].card} ELSE is_default,
           UNCHANGED <<row, default, stripeCustomerId, events, muddled, rushed>>
    PROVE  OrderInv'
<1> DEFINE card == job[p].card
           cus == stripeCustomerId[u]
<1>1. /\ p \in Handling(u) /\ p \in Procs /\ job[p].user = u
      /\ job \in [Procs -> Job] /\ NoCard \notin CardIds
      /\ NoUser \notin Users
      /\ card \in CardIds \cup {NoCard}
      /\ is_default \subseteq CardIds
  BY CardsAssumption DEF Writing, Handling, Jobs, TypeInv, TypeOK, Job
<1>2. \A q \in Procs : job'[q] = IF q = p THEN Idle ELSE job[q]
  BY <1>1
<1>3. card # NoCard => row[card] \in {NoUser, u}
  BY <1>1 DEF OwnerInv, Belongs, Unheard
<1>4. ASSUME NEW v \in Users, v # u PROVE Ordered(v)'
  <2>1. Flagged(v)' = Flagged(v) \ {} /\ Chosen(v)' = Chosen(v) \ {}
    BY <1>3, <1>4 DEF Flagged, Chosen
  <2>2. About(v)' = About(v)
    BY DEF About
  <2>3. Handling(v)' = Handling(v) /\ \A q \in Handling(v) : job'[q] = job[q]
    BY <1>1, <1>2, <1>4 DEF Handling, Jobs, Idle
  <2>4. QED
    BY <2>1, <2>2, <2>3, OrderLess DEF OrderInv
<1>5. cus # NoCustomer
  BY <1>1 DEF OrderInv, Ordered
<1>6. ASSUME u \notin muddled \cup rushed PROVE InOrder(u)'
  <2>1. InOrder(u)
    BY <1>5, <1>6 DEF OrderInv, Ordered
  <2>2. card = default[cus]
    BY <1>1, <2>1 DEF InOrder
  <2>3. About(u)' = About(u)
    BY DEF About
  <2>4. \A q \in Handling(u)' : q \in Handling(u) /\ job'[q] = job[q]
    BY <1>2 DEF Handling, Jobs, Idle
  <2>5. Chosen(u) = IF card # NoCard /\ row[card] = u THEN {card} ELSE {}
    BY <1>1, <2>2 DEF Chosen
  <2>6. Chosen(u)' = Chosen(u)
    BY DEF Chosen
  <2>7. Flagged(u) \subseteq Chosen(u) => Flagged(u)' = Chosen(u)
    BY <1>1, <1>3, <2>5 DEF Flagged
  <2>8. Flagged(u)' = Chosen(u)' \/ About(u)' # {}
    BY <2>1, <2>3, <2>6, <2>7 DEF InOrder
  <2>9. QED
    BY <2>1, <2>3, <2>4, <2>8 DEF InOrder
<1>7. QED
  BY <1>4, <1>5, <1>6 DEF OrderInv, Ordered

(* Every step keeps the users in order. *)
LEMMA OrderStep ==
    TypeInv /\ KeptInv /\ OwnerInv /\ FlagsSound /\ OrderInv /\ [Next]_vars
        => OrderInv'
<1> SUFFICES ASSUME TypeInv, KeptInv, OwnerInv, FlagsSound, OrderInv,
                    [Next]_vars
             PROVE  OrderInv'
  OBVIOUS
<1>0. /\ job \in [Procs -> Job]
      /\ events \subseteq Event /\ EventsSound
      /\ stripeCustomerId \in [Users -> Customers \cup {NoCustomer}]
      /\ default \in [Customers -> CardIds \cup {NoCard}]
      /\ NoUser \notin Users /\ NoCustomer \notin Customers
      /\ NoCard \notin CardIds
      /\ \A p \in Procs : Knows(job[p])
      /\ IdsSound
  BY CardsAssumption DEF TypeInv, TypeOK, KeptInv
<1>1. ASSUME NEW p \in Procs, NEW u \in Users, CustomerCheck(p, u)
      PROVE  OrderInv'
  BY <1>0, <1>1, OrderStill
     DEF CustomerCheck, Start, Begin, Idle, stripe, ids, table
<1>2. ASSUME NEW p \in Procs, CustomerCreate(p)
      PROVE  OrderInv'
<2>1. /\ \A q \in Procs \ {p} : job'[q] = job[q]
      /\ job[p].op = "customer" /\ job'[p].op = "customer"
      /\ UNCHANGED <<row, is_default, default, stripeCustomerId, muddled,
                     rushed, events>>
  BY <1>0, <1>2 DEF CustomerCreate, At, ids, table, ghosts
<2>2. QED
  BY <2>1, OrderStill
<1>3. ASSUME NEW p \in Procs, CustomerKeep(p)
      PROVE  OrderInv'
<2>0. PICK u \in Users, cus \in Customers :
            u = job[p].user /\ cus = job[p].customer
  BY <1>0, <1>3 DEF CustomerKeep, At, Knows
<2>1. /\ Making(p, "customer") /\ job[p].at = "made"
      /\ u = job[p].user /\ cus = job[p].customer
      /\ stripeCustomerId' = [stripeCustomerId EXCEPT ![u] = cus]
      /\ job' = [job EXCEPT ![p] = Idle]
      /\ UNCHANGED <<row, is_default, default, events, muddled, rushed>>
  BY <1>3, <2>0 DEF CustomerKeep, At, Return, Making, table, ghosts
<2>2. /\ stripeCustomerId'[u] = cus
      /\ \A v \in Users \ {u} : stripeCustomerId'[v] = stripeCustomerId[v]
      /\ \A q \in Procs : job'[q] = IF q = p THEN Idle ELSE job[q]
  BY <1>0, <2>1
<2>3. ASSUME NEW v \in Users \ {u} PROVE Ordered(v)'
  <3>1. Flagged(v)' = Flagged(v) \ {} /\ Chosen(v)' = Chosen(v) \ {}
    BY <2>1, <2>2 DEF Flagged, Chosen
  <3>2. About(v)' = About(v)
    BY <2>1, <2>2 DEF About
  <3>3. Handling(v)' = Handling(v) /\ \A q \in Handling(v) : job'[q] = job[q]
    BY <2>1, <2>2 DEF Handling, Jobs, Making, Idle
  <3>4. QED
    BY <2>1, <2>2, <3>1, <3>2, <3>3, OrderLess DEF OrderInv
<2>4. ASSUME u \notin muddled \cup rushed
      PROVE  InOrder(u)'
  <3>1. Flagged(u) = {} /\ Handling(u) = {}
    BY <2>1, <2>4 DEF OrderInv, Ordered, KeptInv, AloneUnlessRushed
  <3>2. cus \notin intents
    BY <2>1 DEF KeptInv, MadeSound
  <3>3. default[cus] = NoCard /\ About(u)' = {}
    BY <1>0, <2>1, <2>2, <3>2 DEF FlagsSound, About
  <3>4. Flagged(u)' = {} /\ Chosen(u)' = {}
    BY <1>0, <2>1, <2>2, <3>1, <3>3 DEF Flagged, Chosen
  <3>5. Handling(u)' = {}
    BY <2>2, <3>1 DEF Handling, Jobs, Idle
  <3>6. QED
    BY <3>3, <3>4, <3>5 DEF InOrder
<2>5. QED
  BY <1>0, <2>1, <2>2, <2>3, <2>4 DEF OrderInv, Ordered
<1>4. ASSUME NEW cus \in Customers, NEW c \in CardIds,
             ConfirmSetupIntent(cus, c)
      PROVE  OrderInv'
  BY <1>4, OrderStill DEF ConfirmSetupIntent, Attach, ids, table, ghosts
<1>5. ASSUME NEW p \in Procs, NEW u \in Users, NEW c \in CardIds,
             SaveAttach(p, u, c)
      PROVE  OrderInv'
<2>1. PICK cus : Attach(c, cus)
  BY <1>5 DEF SaveAttach
<2>2. \A e : e.type = "updated" => (e \in events' <=> e \in events)
  BY <2>1 DEF Attach
<2>3. /\ job[p].op = "none" /\ job'[p].op = "save"
      /\ \A q \in Procs \ {p} : job'[q] = job[q]
  BY <1>0, <1>5 DEF SaveAttach, Start, Begin, Idle
<2>4. /\ UNCHANGED <<row, is_default, default, stripeCustomerId, muddled>>
      /\ rushed \subseteq rushed'
  BY <1>5 DEF SaveAttach, ids, table
<2>5. QED
  BY <2>2, <2>3, <2>4, OrderStill
<1>6. ASSUME NEW p \in Procs, SaveKeep(p)
      PROVE  OrderInv'
  BY <1>0, <1>6, OrderStill
     DEF SaveKeep, At, MoveTo, stripe, table, ghosts
<1>7. ASSUME NEW p \in Procs, SaveStore(p)
      PROVE  OrderInv'
<2>1. /\ job[p].op = "save" /\ job[p].card \in CardIds /\ job[p].user \in Users
      /\ \A q \in Procs : job'[q] = IF q = p THEN Idle ELSE job[q]
      /\ UNCHANGED <<is_default, default, stripeCustomerId, events, rushed>>
  BY <1>0, <1>7 DEF SaveStore, At, Return, Knows, stripe, ids
<2>2. CASE row[job[p].card] = NoUser
  BY <1>7, <2>1, <2>2, OrderAdded DEF SaveStore, Idle
<2>3. CASE row[job[p].card] # NoUser
  BY <1>7, <2>1, <2>3, OrderStill DEF SaveStore, Idle
<2>4. QED
  BY <2>2, <2>3
<1>8. ASSUME NEW p \in Procs, NEW u \in Users, NEW c \in CardIds,
             DefaultCheck(p, u, c)
      PROVE  OrderInv'
  BY <1>0, <1>8, OrderDefault
     DEF DefaultCheck, Start, Begin, Idle, ids, table
<1>9. ASSUME NEW p \in Procs, DefaultReset(p)
      PROVE  OrderInv'
<2>0. PICK u \in Users : u = job[p].user
  BY <1>0, <1>9 DEF DefaultReset, At, Knows
<2>1. /\ job[p].op = "default" /\ u = job[p].user
      /\ job' = [job EXCEPT ![p].at = "reset"]
      /\ is_default' = {c \in is_default : row[c] # u}
      /\ UNCHANGED <<row, default, stripeCustomerId, events, muddled, rushed>>
  BY <1>9, <2>0
     DEF DefaultReset, At, MoveTo, ResetFlags, stripe, ids, ghosts
<2>2. /\ job'[p].at = "reset"
      /\ \A q \in Procs : /\ job'[q].op = job[q].op
                          /\ job'[q].user = job[q].user
                          /\ job'[q].card = job[q].card
                          /\ job'[q].customer = job[q].customer
      /\ \A q \in Procs \ {p} : job'[q] = job[q]
  BY <1>0, <2>1 DEF Job
<2>3. \A v \in Users : Handling(v)' = Handling(v) /\ About(v)' = About(v)
  BY <2>1, <2>2 DEF Handling, Jobs, About
<2>4. ASSUME NEW v \in Users \ {u} PROVE Ordered(v)'
  <3>1. Flagged(v)' = Flagged(v) \ {} /\ Chosen(v)' = Chosen(v) \ {}
    BY <2>1 DEF Flagged, Chosen
  <3>2. \A q \in Handling(v) : job'[q] = job[q]
    BY <2>1, <2>2 DEF Handling, Jobs
  <3>3. QED
    BY <2>1, <2>3, <3>1, <3>2, OrderLess DEF OrderInv
<2>5. p \in Handling(u)
  BY <2>1 DEF Handling, Jobs
<2>6. p \in Writing(u)' /\ Flagged(u)' = {}
  BY <2>1, <2>2, <2>3, <2>5 DEF Writing, Flagged
<2>7. ASSUME InOrder(u) PROVE InOrder(u)'
  BY <2>1, <2>2, <2>3, <2>6, <2>7 DEF InOrder, Handling, Jobs
<2>8. Ordered(u)'
  BY <2>1, <2>5, <2>7 DEF OrderInv, Ordered
<2>9. QED
  BY <2>4, <2>8 DEF OrderInv
<1>10. ASSUME NEW p \in Procs, DefaultFlag(p)
      PROVE  OrderInv'
<2>1. p \in Writing(job[p].user) /\ job[p].user \in Users
  BY <1>0, <1>10 DEF DefaultFlag, At, Writing, Handling, Jobs, Knows
<2>2. job[p].card # NoCard
  BY <1>0, <1>10 DEF DefaultFlag, At, Knows
<2>3. QED
  BY <1>10, <2>1, <2>2, OrderFlagged
     DEF DefaultFlag, Return, stripe, ids, ghosts
<1>11. ASSUME NEW p \in Procs, NEW c \in CardIds, DetachRow(p, c)
      PROVE  OrderInv'
  BY <1>0, <1>11, OrderDropped
     DEF DetachRow, Start, Begin, Idle, stripe, ids, ghosts
<1>12. ASSUME NEW p \in Procs, DetachAtStripe(p)
      PROVE  OrderInv'
<2>1. /\ job[p].op = "detach" /\ job[p].card \in CardIds
      /\ \A q \in Procs : job'[q] = IF q = p THEN Idle ELSE job[q]
      /\ UNCHANGED <<row, is_default, stripeCustomerId, rushed>>
  BY <1>0, <1>12 DEF DetachAtStripe, At, Return, Knows, ids, table
<2>2. CASE Attached(job[p].card)
  BY <1>12, <2>1, <2>2, OrderDetached DEF DetachAtStripe, Idle
<2>3. CASE ~Attached(job[p].card)
  BY <1>12, <2>1, <2>3, OrderStill DEF DetachAtStripe, Idle
<2>4. QED
  BY <2>2, <2>3
<1>13. ASSUME NEW c \in CardIds, DashboardDetach(c)
      PROVE  OrderInv'
  BY <1>13, OrderDetached DEF DashboardDetach, ids, table
<1>14. ASSUME NEW u \in Users, NEW c \in CardIds, DashboardDefault(u, c)
      PROVE  OrderInv'
  BY <1>0, <1>14, OrderDefault DEF DashboardDefault, ids, table
<1>15. ASSUME NEW e \in events, NEW p \in Procs, HandleAttached(p, e)
      PROVE  OrderInv'
<2>1. \A f : f.type = "updated" => (f \in events' <=> f \in events)
  BY <1>15 DEF HandleAttached, Taken
<2>2. /\ \A q \in Procs \ {p} : job'[q] = job[q]
      /\ job[p].op = "none"
      /\ job'[p] = job[p] \/ job'[p].op = "upsert"
  BY <1>0, <1>15 DEF HandleAttached, Begin, Idle
<2>3. UNCHANGED <<row, is_default, default, stripeCustomerId, muddled, rushed>>
  BY <1>15 DEF HandleAttached, stripe, ids, table, ghosts
<2>4. QED
  BY <2>1, <2>2, <2>3, OrderStill
<1>16. ASSUME NEW e \in events, HandleDetached(e)
      PROVE  OrderInv'
<2>1. \A f : f.type = "updated" => (f \in events' <=> f \in events)
  BY <1>16 DEF HandleDetached, Taken
<2>2. QED
  BY <1>0, <1>16, <2>1, OrderDropped
     DEF HandleDetached, EventsSound, stripe, ids, ghosts
<1>17. ASSUME NEW e \in events, NEW p \in Procs, HandleUpdated(p, e)
      PROVE  OrderInv'
<2>1. /\ job[p] = Idle /\ e.type = "updated"
      /\ events' \subseteq events
      /\ \A f \in events \ {e} : f \in events'
      /\ UNCHANGED <<row, default, stripeCustomerId, muddled, rushed>>
  BY <1>17 DEF HandleUpdated, Taken, stripe, ids, ghosts
<2>2. \A u \in Users : stripeCustomerId[u] # e.customer => About(u)' = About(u)
  BY <2>1 DEF About
<2>3. CASE FindUser(e.customer) = {}
  <3>1. UNCHANGED <<job, is_default>>
    BY <1>17, <2>3 DEF HandleUpdated
  <3>2. ASSUME NEW u \in Users PROVE Ordered(u)'
    <4>1. About(u)' = About(u)
      BY <2>2, <2>3 DEF FindUser
    <4>2. Flagged(u)' = Flagged(u) \ {} /\ Chosen(u)' = Chosen(u) \ {}
      BY <2>1, <3>1 DEF Flagged, Chosen
    <4>3. Handling(u)' = Handling(u)
      BY <3>1 DEF Handling, Jobs
    <4>4. QED
      BY <2>1, <3>1, <4>1, <4>2, <4>3, OrderLess DEF OrderInv
  <3>3. QED
    BY <3>2 DEF OrderInv
<2>4. CASE FindUser(e.customer) # {}
  <3>1. PICK u \in Users :
            /\ stripeCustomerId[u] = e.customer
            /\ is_default' = {c \in is_default : row[c] # u}
            /\ job' = [job EXCEPT ![p] =
                            [op |-> "updated", at |-> "start", user |-> u,
                             card |-> e.card, customer |-> e.customer]]
    BY <1>17, <2>4 DEF HandleUpdated, FindUser, Begin, ResetFlags
  <3>2. /\ job'[p].op = "updated" /\ job'[p].user = u
        /\ job'[p].card = e.card /\ job'[p].customer = e.customer
        /\ \A q \in Procs \ {p} : job'[q] = job[q]
    BY <1>0, <3>1
  <3>3. e.customer \in Customers
    BY <1>0 DEF Event
  <3>4. ASSUME NEW v \in Users \ {u} PROVE Ordered(v)'
    <4>1. About(v)' = About(v)
      BY <1>0, <2>2, <3>1, <3>3, CustomersApart
    <4>2. Flagged(v)' = Flagged(v) \ {} /\ Chosen(v)' = Chosen(v) \ {}
      BY <2>1, <3>1 DEF Flagged, Chosen
    <4>3. /\ Handling(v)' = Handling(v)
          /\ \A q \in Handling(v) : job'[q] = job[q]
      BY <2>1, <3>2 DEF Handling, Jobs, Idle
    <4>4. QED
      BY <2>1, <4>1, <4>2, <4>3, OrderLess DEF OrderInv
  <3>5. ASSUME InOrder(u) PROVE InOrder(u)'
    <4>1. e \in About(u) /\ About(u)' \subseteq About(u)
      BY <2>1, <3>1 DEF About
    <4>2. p \in Writing(u)' /\ Flagged(u)' = {}
      BY <2>1, <3>1, <3>2 DEF Writing, Handling, Jobs, Flagged
    <4>3. \A q \in Handling(u)' \ {p} : q \in Handling(u)
      BY <3>2 DEF Handling, Jobs
    <4>4. QED
      BY <2>1, <3>1, <3>2, <3>5, <4>1, <4>2, <4>3 DEF InOrder, Handling, Jobs
  <3>6. Ordered(u)'
    BY <1>0, <2>1, <3>1, <3>3, <3>5 DEF OrderInv, Ordered
  <3>7. QED
    BY <3>4, <3>6 DEF OrderInv
<2>5. QED
  BY <2>3, <2>4
<1>18. ASSUME NEW p \in Procs, Upsert(p)
      PROVE  OrderInv'
<2>1. /\ job[p].op = "upsert" /\ job[p].card \in CardIds
      /\ job[p].user \in Users
      /\ \A q \in Procs : job'[q] = IF q = p THEN Idle ELSE job[q]
      /\ UNCHANGED <<is_default, default, stripeCustomerId, events, rushed>>
  BY <1>0, <1>18 DEF Upsert, Return, Knows, stripe, ids
<2>2. CASE row[job[p].card] = NoUser
  BY <1>18, <2>1, <2>2, OrderAdded DEF Upsert, Idle
<2>3. CASE row[job[p].card] # NoUser
  BY <1>18, <2>1, <2>3, OrderStill DEF Upsert, Idle
<2>4. QED
  BY <2>2, <2>3
<1>19. ASSUME NEW p \in Procs, UpdatedFlag(p)
      PROVE  OrderInv'
<2>1. p \in Writing(job[p].user) /\ job[p].user \in Users
  BY <1>0, <1>19 DEF UpdatedFlag, Writing, Handling, Jobs, Knows
<2>2. QED
  BY <1>19, <2>1, OrderFlagged DEF UpdatedFlag, Return, stripe, ids, ghosts
<1>20. ASSUME NEW p \in Procs, Crash(p)
      PROVE  OrderInv'
<2>0. PICK u \in Users : u = job[p].user
  BY <1>0, <1>20 DEF Crash, Knows
<2>1. /\ u = job[p].user
      /\ \A q \in Procs : job'[q] = IF q = p THEN Idle ELSE job[q]
      /\ UNCHANGED <<row, is_default, default, stripeCustomerId, rushed>>
      /\ muddled \subseteq muddled' /\ muddled' \subseteq muddled \cup {u}
  BY <1>0, <1>20, <2>0 DEF Crash, Return, stripe, ids, table
<2>2. \A v \in Users : /\ Flagged(v)' = Flagged(v) \ {}
                       /\ Chosen(v)' = Chosen(v) \ {}
  BY <2>1 DEF Flagged, Chosen
<2>3. ASSUME NEW v \in Users \ {u}, About(v)' = About(v)
      PROVE  Ordered(v)'
  <3>1. Handling(v)' = Handling(v) /\ \A q \in Handling(v) : job'[q] = job[q]
    BY <2>1 DEF Handling, Jobs, Idle
  <3>2. QED
    BY <2>1, <2>2, <2>3, <3>1, OrderLess DEF OrderInv
<2>4. \A q \in Handling(u)' : q \in Handling(u) /\ job'[q] = job[q]
  BY <2>1 DEF Handling, Jobs, Idle
<2>5. CASE job[p].op = "updated"
  <3> DEFINE said == [type |-> "updated", customer |-> job[p].customer,
                      card |-> job[p].card]
  <3>1. events' = events \cup {said} /\ p \in Handling(u)
    BY <1>20, <2>1, <2>5 DEF Crash, Handling, Jobs
  <3>2. job[p].customer \in Customers /\ made[job[p].customer] = u
    BY <1>0, <2>1, <2>5 DEF FlagsSound, Jobs, Knows
  <3>3. ASSUME NEW v \in Users \ {u} PROVE Ordered(v)'
    <4>1. stripeCustomerId[v] # job[p].customer
      BY <1>0, <3>2 DEF IdsSound
    <4>2. About(v)' = About(v)
      BY <2>1, <3>1, <4>1 DEF About
    <4>3. QED
      BY <2>3, <4>2
  <3>4. ASSUME InOrder(u) PROVE InOrder(u)'
    <4>1. About(u)' = About(u) \cup {said}
      BY <2>1, <3>1, <3>4 DEF InOrder, About
    <4>2. said.card = default[stripeCustomerId[u]]
      BY <3>1, <3>4 DEF InOrder
    <4>3. QED
      BY <2>1, <2>4, <3>4, <4>1, <4>2 DEF InOrder
  <3>5. Ordered(u)'
    BY <2>1, <3>1, <3>4 DEF OrderInv, Ordered
  <3>6. QED
    BY <3>3, <3>5 DEF OrderInv
<2>6. CASE job[p].op = "default"
  <3>1. events' = events /\ p \in Handling(u)
    BY <1>20, <2>1, <2>6 DEF Crash, Handling, Jobs
  <3>2. \A v \in Users : About(v)' = About(v)
    BY <2>1, <3>1 DEF About
  <3>3. ASSUME u \notin (muddled \cup rushed)', InOrder(u) PROVE InOrder(u)'
    <4>1. job[p].at # "reset"
      BY <1>20, <2>1, <2>6, <3>3 DEF Crash, At
    <4>2. Writing(u) \subseteq Writing(u)'
      BY <2>1, <2>6, <4>1 DEF Writing, Handling, Jobs
    <4>3. QED
      BY <2>1, <2>2, <2>4, <3>2, <3>3, <4>2 DEF InOrder
  <3>4. Ordered(u)'
    BY <2>1, <3>1, <3>3 DEF OrderInv, Ordered
  <3>5. QED
    BY <2>3, <3>2, <3>4 DEF OrderInv
<2>7. CASE job[p].op \notin {"default", "updated"}
  <3>1. UNCHANGED muddled
    BY <1>20, <2>7 DEF Crash, At
  <3>2. \A e : e.type = "updated" => (e \in events' <=> e \in events)
    BY <1>20, <2>7 DEF Crash
  <3>3. QED
    BY <2>1, <2>7, <3>1, <3>2, OrderStill DEF Idle
<2>8. QED
  BY <2>5, <2>6, <2>7
<1>21. ASSUME NEW e \in events, DetachedRejected(e)
      PROVE  OrderInv'
<2>1. \A f : f.type = "updated" => (f \in events' <=> f \in events)
  BY <1>21 DEF DetachedRejected, Taken
<2>2. QED
  BY <1>21, <2>1, OrderStill DEF DetachedRejected, stripe, ids, table
<1>22. ASSUME NEW p \in Procs, UpdatedFlagRejected(p)
      PROVE  OrderInv'
<2>0. PICK u \in Users : u = job[p].user
  BY <1>0, <1>22 DEF UpdatedFlagRejected, Knows
<2>1. /\ \A q \in Procs : job'[q] = IF q = p THEN Idle ELSE job[q]
      /\ job[p].user = u
      /\ UNCHANGED <<row, is_default, default, stripeCustomerId, rushed, events>>
      /\ muddled' = muddled \cup {u}
  BY <1>0, <1>22, <2>0 DEF UpdatedFlagRejected, Return, stripe, ids, table
<2>2. \A v \in Users : /\ Flagged(v)' = Flagged(v) \ {}
                       /\ Chosen(v)' = Chosen(v) \ {}
                       /\ About(v)' = About(v)
  BY <2>1 DEF Flagged, Chosen, About
<2>3. ASSUME NEW v \in Users \ {u} PROVE Ordered(v)'
  <3>1. Handling(v)' = Handling(v) /\ \A q \in Handling(v) : job'[q] = job[q]
    BY <2>1 DEF Handling, Jobs, Idle
  <3>2. QED
    BY <1>0, <2>1, <2>2, <3>1, OrderLess DEF OrderInv
<2>4. stripeCustomerId[u] # NoCustomer
  BY <1>0, <1>22, <2>0
     DEF UpdatedFlagRejected, OrderInv, Ordered, Handling, Jobs
<2>5. QED
  BY <2>1, <2>3, <2>4 DEF OrderInv, Ordered
<1>23. CASE UNCHANGED vars
  BY <1>23, OrderStill DEF vars, stripe, ids, table, ghosts
<1>24. QED
  BY <1>1, <1>2, <1>3, <1>4, <1>5, <1>6, <1>7, <1>8, <1>9, <1>10, <1>11, <1>12,
     <1>13, <1>14, <1>15, <1>16, <1>17, <1>18, <1>19, <1>20, <1>21,
     <1>22, <1>23
     DEF Next, BillingRoutes, AtStripe, Webhook, Continue

(* At the start no user has a card, let alone a default. *)
LEMMA OrderStart == Init => FlagsSound /\ OrderInv
<1> SUFFICES ASSUME Init PROVE FlagsSound /\ OrderInv
  OBVIOUS
<1>1. FlagsSound
  BY DEF Init, FlagsSound, Jobs, Idle
<1>2. ASSUME NEW u \in Users
      PROVE  Flagged(u) = {} /\ Chosen(u) = {} /\ About(u) = {}
             /\ Handling(u) = {}
  BY CardsAssumption DEF Init, Flagged, Chosen, About, Handling, Jobs, Idle
<1>3. OrderInv
  BY <1>2 DEF OrderInv, Ordered, InOrder
<1>4. QED
  BY <1>1, <1>3

LEMMA OrderAlways == Spec => [](FlagsSound /\ OrderInv)
<1>1. TypeInv /\ KeptInv /\ OwnerInv /\ FlagsSound /\ OrderInv /\ [Next]_vars
        => (FlagsSound /\ OrderInv)'
  BY FlagsStep, OrderStep
<1>2. QED
  BY <1>1, TypeAlways, KeptAlways, OwnerAlways, OrderStart, PTL DEF Spec

(* The card shown as the default is the one Stripe charges, whatever calls *)
(* and late or repeated events met on the way: once nothing is on its way  *)
(* to a user's flags they agree with Stripe, but for the exceptions        *)
(* DefaultSettles names, each of which ends with the next change.          *)
THEOREM DefaultsAgree == Spec => []DefaultSettles
<1>1. OrderInv => DefaultSettles
  <2> SUFFICES ASSUME OrderInv, NEW u \in Users \ (muddled \cup rushed),
                      ~Flagging(u), stripeCustomerId[u] # NoCustomer
               PROVE  Flagged(u) = Chosen(u)
    BY DEF DefaultSettles, Flagged, Chosen
  <2>1. About(u) = {} /\ Writing(u) = {}
    BY NothingOnItsWay DEF Writing
  <2>2. QED
    BY <2>1 DEF OrderInv, Ordered, InOrder
<1>2. QED
  BY <1>1, OrderAlways, PTL

===============================================================================
