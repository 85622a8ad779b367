--------------------------- MODULE WalletPayoutProofs ---------------------------
(***************************************************************************)
(* Proofs about WalletPayout, for any users, amounts and number of         *)
(* handlers in flight.                                                     *)
(***************************************************************************)
EXTENDS WalletPayout, MoneyProofs

(* A withdrawal in flight remembers its user's stored account, an active   *)
(* row has an account, and money went only to stored accounts.             *)
AccountInv ==
    /\ TypeOK
    /\ \A u \in Users : account[u].is_active => account[u].id \in Accounts
    /\ \A p \in Procs :
        /\ job[p].op = "withdraw" =>
                /\ job[p].user \in Users
                /\ job[p].account \in Accounts
                /\ account[job[p].user].id = job[p].account
        /\ job[p].op \in {"connect", "pay"} => job[p].user \in Users
        /\ job[p].at = "issued" => job[p].account \in Accounts
    /\ TransfersReachOwners

(* One step of the table of accounts: a stored id stays. *)
Stable ==
    \A u \in Users :
        account[u].id # NoAccount => account'[u].id = account[u].id

(* A split-up Next: what each process may do. *)
Step(p) ==
    \/ \E u \in Users : ConnectCheck(p, u)
    \/ ConnectIssue(p)
    \/ ConnectStore(p)
    \/ \E u \in Users, amount \in Amounts : WithdrawCheck(p, u, amount)
    \/ WithdrawTransfer(p)
    \/ WithdrawRefused(p)
    \/ WithdrawDebit(p)
    \/ \E amount \in Amounts : PlatformCheck(p, amount)
    \/ PlatformSend(p)
    \/ PlatformRefused(p)
    \/ PlatformDebit(p)
    \/ \E u \in Users, amount \in Shares : PayCheck(p, u, amount)
    \/ PayCommit(p)
    \/ PayRolledBack(p)
    \/ Fail(p)

(* What arrives from bookings that are paid by card, refunded or settled. *)
Arrival ==
    \E amount \in Shares :
        \/ \E u \in Users : CreditWallet(u, amount)
        \/ CreditEarnings(amount)
        \/ ChargeCard(amount)

-----------------------------------------------------------------------------
(* A payout that is sent is a whole number of units. *)
LEMMA CentsAreInt ==
    ASSUME NEW amount \in Nat, NEW sent \in InCents(amount)
    PROVE  sent \in Int /\ sent >= 0
  BY SMT DEF InCents

(* The tables and accounts, initially and through each action: every       *)
(* action keeps AccountInv and exchanges no stored account.                *)
LEMMA AccountInit == ASSUME PayoutAssumption, Init PROVE AccountInv
  BY SMT DEF PayoutAssumption, Init, AccountInv, TypeOK, TransfersReachOwners,
             Job, Idle

LEMMA ConnectCheckKeeps ==
    ASSUME PayoutAssumption, AccountInv, NEW p \in Procs, NEW u \in Users,
           ConnectCheck(p, u)
    PROVE  AccountInv' /\ Stable
  BY CentsAreInt, SMT DEF PayoutAssumption, AccountInv, TypeOK, Stable,
     TransfersReachOwners, Job, Idle, ConnectCheck, Start, stripe, wallets,
     bookings

LEMMA ConnectIssueKeeps ==
    ASSUME PayoutAssumption, AccountInv, NEW p \in Procs, ConnectIssue(p)
    PROVE  AccountInv' /\ Stable
<1>1. PICK a \in Accounts \ issued :
            /\ issued' = issued \cup {a}
            /\ job' = [job EXCEPT ![p].at = "issued", ![p].account = a]
  BY DEF ConnectIssue
<1>2. /\ job[p] \in Job
      /\ job \in [Procs -> Job]
      /\ job[p].op = "connect"
      /\ job[p].user \in Users
      /\ UNCHANGED <<account, ready, funds, received, balance, earnings,
                     raced, rounded, charged, booked,
                     incomes, failures>>
  BY DEF ConnectIssue, At, wallets, bookings, AccountInv, TypeOK
<1>3. /\ job'[p].op = "connect"
      /\ job'[p].account = a
      /\ job'[p].user = job[p].user
      /\ \A q \in Procs \ {p} : job'[q] = job[q]
  BY <1>1, <1>2 DEF Job
<1>4. job' \in [Procs -> Job]
  BY <1>1, <1>2 DEF Job
<1>5. TypeOK'
  BY <1>1, <1>2, <1>4 DEF AccountInv, TypeOK
<1>6. \A q \in Procs :
        /\ job'[q].op = "withdraw" => job'[q] = job[q]
        /\ job'[q].op \in {"connect", "pay"} => job'[q].user \in Users
        /\ job'[q].at = "issued" => job'[q].account \in Accounts
  BY <1>1, <1>2, <1>3 DEF AccountInv
<1> QED
  BY <1>2, <1>5, <1>6 DEF AccountInv, Stable, TransfersReachOwners

LEMMA ConnectStoreKeeps ==
    ASSUME PayoutAssumption, AccountInv, NEW p \in Procs, ConnectStore(p)
    PROVE  AccountInv' /\ Stable
  BY CentsAreInt, SMT DEF PayoutAssumption, AccountInv, TypeOK, Stable,
     TransfersReachOwners, Job, Idle, ConnectStore, At, Return, stripe,
     wallets, bookings

LEMMA WithdrawCheckKeeps ==
    ASSUME PayoutAssumption, AccountInv, NEW p \in Procs, NEW u \in Users,
           NEW amount \in Amounts, WithdrawCheck(p, u, amount)
    PROVE  AccountInv' /\ Stable
  BY CentsAreInt, SMT DEF PayoutAssumption, AccountInv, TypeOK, Stable,
     TransfersReachOwners, Job, Idle, WithdrawCheck, Start, NoteRace, stripe,
     wallets, bookings

LEMMA WithdrawTransferKeeps ==
    ASSUME PayoutAssumption, AccountInv, NEW p \in Procs, WithdrawTransfer(p)
    PROVE  AccountInv' /\ Stable
  BY CentsAreInt, SMT DEF PayoutAssumption, AccountInv, TypeOK, Stable,
     TransfersReachOwners, Job, Idle, WithdrawTransfer, At, stripe, wallets,
     bookings

LEMMA WithdrawRefusedKeeps ==
    ASSUME PayoutAssumption, AccountInv, NEW p \in Procs, WithdrawRefused(p)
    PROVE  AccountInv' /\ Stable
  BY CentsAreInt, SMT DEF PayoutAssumption, AccountInv, TypeOK, Stable,
     TransfersReachOwners, Job, Idle, WithdrawRefused, Return, stripe,
     wallets, bookings

LEMMA WithdrawDebitKeeps ==
    ASSUME PayoutAssumption, AccountInv, NEW p \in Procs, WithdrawDebit(p)
    PROVE  AccountInv' /\ Stable
  BY CentsAreInt, SMT DEF PayoutAssumption, AccountInv, TypeOK, Stable,
     TransfersReachOwners, Job, Idle, WithdrawDebit, At, Return, stripe,
     wallets, bookings

LEMMA PlatformCheckKeeps ==
    ASSUME PayoutAssumption, AccountInv, NEW p \in Procs,
           NEW amount \in Amounts, PlatformCheck(p, amount)
    PROVE  AccountInv' /\ Stable
  BY CentsAreInt, SMT DEF PayoutAssumption, AccountInv, TypeOK, Stable,
     TransfersReachOwners, Job, Idle, PlatformCheck, Start, NoteRace, stripe,
     wallets, bookings

LEMMA PlatformSendKeeps ==
    ASSUME PayoutAssumption, AccountInv, NEW p \in Procs, PlatformSend(p)
    PROVE  AccountInv' /\ Stable
  BY CentsAreInt, SMT DEF PayoutAssumption, AccountInv, TypeOK, Stable,
     TransfersReachOwners, Job, Idle, PlatformSend, At, stripe, wallets,
     bookings

LEMMA PlatformRefusedKeeps ==
    ASSUME PayoutAssumption, AccountInv, NEW p \in Procs, PlatformRefused(p)
    PROVE  AccountInv' /\ Stable
  BY CentsAreInt, SMT DEF PayoutAssumption, AccountInv, TypeOK, Stable,
     TransfersReachOwners, Job, Idle, PlatformRefused, Return, stripe,
     wallets, bookings

LEMMA PlatformDebitKeeps ==
    ASSUME PayoutAssumption, AccountInv, NEW p \in Procs, PlatformDebit(p)
    PROVE  AccountInv' /\ Stable
  BY CentsAreInt, SMT DEF PayoutAssumption, AccountInv, TypeOK, Stable,
     TransfersReachOwners, Job, Idle, PlatformDebit, At, Return, stripe,
     wallets, bookings

LEMMA FailKeeps ==
    ASSUME PayoutAssumption, AccountInv, NEW p \in Procs, Fail(p)
    PROVE  AccountInv' /\ Stable
  BY CentsAreInt, SMT DEF PayoutAssumption, AccountInv, TypeOK, Stable,
     TransfersReachOwners, Job, Idle, Fail, Return, stripe,
     wallets, bookings

LEMMA ReactivateKeeps ==
    ASSUME PayoutAssumption, AccountInv, NEW u \in Users, Reactivate(u)
    PROVE  AccountInv' /\ Stable
<1>1. /\ account \in [Users -> [id : Accounts \cup {NoAccount},
                              is_active : BOOLEAN]]
      /\ account' = [account EXCEPT ![u].is_active = TRUE]
      /\ account[u].id \in Accounts
      /\ UNCHANGED <<issued, ready, funds, received, balance, earnings, job,
                     raced, rounded, charged, booked,
                     incomes, failures>>
  BY DEF PayoutAssumption, AccountInv, TypeOK, Reactivate, stripe, wallets,
         bookings
<1>2. /\ account' \in [Users -> [id : Accounts \cup {NoAccount},
                               is_active : BOOLEAN]]
      /\ account'[u].id = account[u].id
      /\ \A v \in Users \ {u} : account'[v] = account[v]
  BY <1>1
<1>3. \A v \in Users : account'[v].id = account[v].id
  BY <1>2
<1>4. \A v \in Users : account'[v].is_active => account'[v].id \in Accounts
  BY <1>1, <1>2 DEF AccountInv
<1>5. TypeOK'
  BY <1>1, <1>2 DEF AccountInv, TypeOK
<1> QED
  BY <1>1, <1>3, <1>4, <1>5
     DEF AccountInv, Stable, TransfersReachOwners

LEMMA DeactivateKeeps ==
    ASSUME PayoutAssumption, AccountInv, NEW u \in Users, Deactivate(u)
    PROVE  AccountInv' /\ Stable
<1>1. /\ account \in [Users -> [id : Accounts \cup {NoAccount},
                              is_active : BOOLEAN]]
      /\ account' = [account EXCEPT ![u].is_active = FALSE]
      /\ account[u].id \in Accounts
      /\ UNCHANGED <<issued, ready, funds, received, balance, earnings, job,
                     raced, rounded, charged, booked,
                     incomes, failures>>
  BY DEF PayoutAssumption, AccountInv, TypeOK, Deactivate, stripe, wallets,
         bookings
<1>2. /\ account' \in [Users -> [id : Accounts \cup {NoAccount},
                               is_active : BOOLEAN]]
      /\ account'[u].id = account[u].id
      /\ \A v \in Users \ {u} : account'[v] = account[v]
  BY <1>1
<1>3. \A v \in Users : account'[v].id = account[v].id
  BY <1>2
<1>4. \A v \in Users : account'[v].is_active => account'[v].id \in Accounts
  BY <1>1, <1>2 DEF AccountInv
<1>5. TypeOK'
  BY <1>1, <1>2 DEF AccountInv, TypeOK
<1> QED
  BY <1>1, <1>3, <1>4, <1>5
     DEF AccountInv, Stable, TransfersReachOwners

LEMMA OnboardKeeps ==
    ASSUME PayoutAssumption, AccountInv, NEW a \in Accounts, Onboard(a)
    PROVE  AccountInv' /\ Stable
  BY SMT DEF PayoutAssumption, AccountInv, TypeOK, Stable,
     TransfersReachOwners, Job, Idle, Onboard, stripe, wallets, bookings

LEMMA PayCheckKeeps ==
    ASSUME PayoutAssumption, AccountInv, NEW p \in Procs, NEW u \in Users,
           NEW amount \in Shares, PayCheck(p, u, amount)
    PROVE  AccountInv' /\ Stable
  BY SMT DEF PayoutAssumption, AccountInv, TypeOK, Stable,
     TransfersReachOwners, Job, Idle, PayCheck, Start, NoteRace, stripe,
     wallets, bookings

LEMMA PayCommitKeeps ==
    ASSUME PayoutAssumption, AccountInv, NEW p \in Procs, PayCommit(p)
    PROVE  AccountInv' /\ Stable
  BY SMT DEF PayoutAssumption, AccountInv, TypeOK, Stable,
     TransfersReachOwners, Job, Idle, PayCommit, At, Return, stripe

LEMMA PayRolledBackKeeps ==
    ASSUME PayoutAssumption, AccountInv, NEW p \in Procs, PayRolledBack(p)
    PROVE  AccountInv' /\ Stable
  BY SMT DEF PayoutAssumption, AccountInv, TypeOK, Stable,
     TransfersReachOwners, Job, Idle, PayRolledBack, Return, stripe,
     wallets, bookings

LEMMA ArrivalKeeps ==
    ASSUME PayoutAssumption, AccountInv, Arrival
    PROVE  AccountInv' /\ Stable
  BY SMT DEF PayoutAssumption, AccountInv, TypeOK, Stable,
     TransfersReachOwners, Job, Idle, Arrival, CreditWallet, CreditEarnings,
     ChargeCard, stripe, wallets

-----------------------------------------------------------------------------
(* A job that will take from its user's wallet *)
Takes(j) == j.op \in {"withdraw", "pay"}

(* While no two handlers that take from a user's wallet were in flight at  *)
(* once, the one that is in flight is alone and the wallet still covers it;*)
(* the platform's earnings likewise.                                       *)
Covered(p) ==
    /\ Takes(job[p]) /\ job[p].user \notin raced =>
            /\ balance[job[p].user] >= job[p].amount
            /\ \A q \in Procs \ {p} :
                ~(Takes(job[q]) /\ job[q].user = job[p].user)
    /\ job[p].op = "platform" =>
            /\ job[p].user = NoUser
            /\ NoUser \notin raced =>
                    /\ earnings >= job[p].amount
                    /\ \A q \in Procs \ {p} : job[q].op # "platform"

RaceInv ==
    /\ AccountInv
    /\ \A p \in Procs : Covered(p)
    /\ OverdraftTakesTwo

(* Initially nothing is in flight. *)
LEMMA RaceInit == ASSUME PayoutAssumption, Init PROVE RaceInv
  BY AccountInit, SMT
     DEF PayoutAssumption, Init, RaceInv, Covered, Takes, OverdraftTakesTwo,
         Idle

(* Jobs that are idle, or as they were, stay covered when wallets only     *)
(* grow.                                                                   *)
LEMMA StaysCovered ==
    ASSUME RaceInv,
           \A p \in Procs :
                \/ job'[p] = Idle
                \/ job'[p].op \notin {"withdraw", "pay", "platform"}
                \/ /\ job'[p].op = job[p].op
                   /\ job'[p].user = job[p].user
                   /\ job'[p].amount = job[p].amount,
           \A u \in Users : balance'[u] >= balance[u],
           earnings' >= earnings,
           TypeOK',
           UNCHANGED raced
    PROVE  /\ \A p \in Procs : Covered(p)'
           /\ OverdraftTakesTwo'
<1>1. TypeOK /\ TypeOK' /\ \A p \in Procs : Covered(p)
  BY DEF RaceInv, AccountInv
<1>2. ASSUME NEW p \in Procs PROVE Covered(p)'
  <2>1. \A q \in Procs : job'[q].op \in {"withdraw", "pay", "platform"} =>
            /\ job'[q].op = job[q].op
            /\ job'[q].user = job[q].user
            /\ job'[q].amount = job[q].amount
    BY DEF Idle
  <2>2. CASE Takes(job'[p])
    <3>1. job[p].user \in Users /\ job[p].amount \in Nat
      BY <2>1, <2>2 DEF RaceInv, AccountInv, TypeOK, Job, Takes
    <3> QED
      BY <1>1, <2>1, <2>2, <3>1, SMT DEF Covered, Takes, TypeOK
  <2>3. CASE job'[p].op = "platform"
    <3>1. job[p].amount \in Nat /\ earnings \in Int /\ earnings' \in Int
      BY <1>1 DEF TypeOK, Job
    <3> QED
      BY <1>1, <2>1, <2>3, <3>1, SMT DEF Covered, Takes
  <2> QED
    BY <2>2, <2>3 DEF Covered
<1>3. OverdraftTakesTwo'
  BY <1>1, SMT DEF RaceInv, OverdraftTakesTwo, TypeOK
<1> QED
  BY <1>2, <1>3

(* A step of the rest of the world moves no job and takes from no wallet.  *)
LEMMA WorldKeepsCover ==
    ASSUME PayoutAssumption, RaceInv,
           \/ \E u \in Users : Reactivate(u) \/ Deactivate(u)
           \/ \E a \in Accounts : Onboard(a)
           \/ Arrival
    PROVE  RaceInv'
<1>1. AccountInv'
  BY ReactivateKeeps, DeactivateKeeps, OnboardKeeps, ArrivalKeeps DEF RaceInv
<1>2. UNCHANGED job /\ UNCHANGED raced
  BY DEF Reactivate, Deactivate, Onboard, Arrival, CreditWallet,
         CreditEarnings, ChargeCard
<1>3. TypeOK /\ TypeOK'
  BY <1>1 DEF RaceInv, AccountInv
<1>4. (\A u \in Users : balance'[u] >= balance[u]) /\ earnings' >= earnings
  <2>1. CASE UNCHANGED wallets
    BY <1>3, <2>1, SMT DEF TypeOK, wallets
  <2>2. CASE \E u \in Users, amount \in Shares : CreditWallet(u, amount)
    BY <1>3, <2>2, SMT DEF TypeOK, CreditWallet, PayoutAssumption
  <2>3. CASE \E amount \in Shares : CreditEarnings(amount)
    BY <1>3, <2>3, SMT DEF TypeOK, CreditEarnings, PayoutAssumption
  <2> QED
    BY <2>1, <2>2, <2>3 DEF Reactivate, Deactivate, Onboard, Arrival,
                            ChargeCard
<1> QED
  BY <1>1, <1>2, <1>3, <1>4, StaysCovered DEF RaceInv

(* Neither does the step of a handler that does not begin a payout or      *)
(* debit one.                                                              *)
LEMMA OthersKeepCover ==
    ASSUME PayoutAssumption, RaceInv, NEW p \in Procs,
           \/ \E u \in Users : ConnectCheck(p, u)
           \/ ConnectIssue(p) \/ ConnectStore(p)
           \/ WithdrawTransfer(p) \/ WithdrawRefused(p)
           \/ PlatformSend(p) \/ PlatformRefused(p)
           \/ PayRolledBack(p) \/ Fail(p)
    PROVE  RaceInv'
<1>1. AccountInv'
  BY ConnectCheckKeeps, ConnectIssueKeeps, ConnectStoreKeeps,
     WithdrawTransferKeeps, WithdrawRefusedKeeps, PlatformSendKeeps,
     PlatformRefusedKeeps, PayRolledBackKeeps, FailKeeps DEF RaceInv
<1>2. TypeOK /\ TypeOK'
  BY <1>1 DEF RaceInv, AccountInv
<1>3. UNCHANGED <<balance, earnings, raced>>
  BY DEF ConnectCheck, ConnectIssue, ConnectStore, WithdrawTransfer,
         WithdrawRefused, PlatformSend, PlatformRefused, PayRolledBack,
         Fail, wallets
<1>4. (\A u \in Users : balance'[u] >= balance[u]) /\ earnings' >= earnings
  BY <1>2, <1>3, SMT DEF TypeOK
<1>5. ASSUME NEW q \in Procs
      PROVE  \/ job'[q] = Idle
             \/ job'[q].op \notin {"withdraw", "pay", "platform"}
             \/ /\ job'[q].op = job[q].op
                /\ job'[q].user = job[q].user
                /\ job'[q].amount = job[q].amount
  <2>1. job \in [Procs -> Job] /\ job[q] \in Job
    BY <1>2 DEF TypeOK
  <2>2. CASE WithdrawRefused(p) \/ PlatformRefused(p) \/ Fail(p)
                \/ ConnectStore(p) \/ PayRolledBack(p)
    BY <2>1, <2>2 DEF WithdrawRefused, PlatformRefused, Fail, ConnectStore,
                      PayRolledBack, Return
  <2>3. CASE WithdrawTransfer(p) \/ PlatformSend(p)
    BY <2>1, <2>3 DEF WithdrawTransfer, PlatformSend, Job
  <2>4. CASE ConnectIssue(p)
    <3>1. PICK a \in Accounts :
            job' = [job EXCEPT ![p].at = "issued", ![p].account = a]
      BY <2>4 DEF ConnectIssue
    <3> QED
      BY <2>1, <3>1 DEF Job
  <2>5. CASE \E u \in Users : ConnectCheck(p, u)
    BY <2>1, <2>5 DEF ConnectCheck, Start, Job
  <2> QED
    BY <2>2, <2>3, <2>4, <2>5
<1> QED
  BY <1>1, <1>2, <1>3, <1>4, <1>5, StaysCovered DEF RaceInv

(* A job that begins is covered, or its user is marked as racing; one that *)
(* debits was covered.  The two ways to take from a wallet do so alike.    *)
LEMMA TakerStarts ==
    ASSUME PayoutAssumption, RaceInv, NEW p \in Procs, NEW u \in Users,
           NEW amount \in Nat,
           job[p] = Idle, Takes(job'[p]),
           job'[p].user = u, job'[p].amount = amount,
           \A q \in Procs \ {p} : job'[q] = job[q],
           balance[u] >= amount, NoteRace(u),
           UNCHANGED <<balance, earnings>>
    PROVE  (\A q \in Procs : Covered(q)') /\ OverdraftTakesTwo'
<1>1. u # NoUser
  BY DEF PayoutAssumption
<1>2. /\ u \notin raced' => \A q \in Procs : ~(Takes(job[q]) /\ job[q].user = u)
      /\ raced \subseteq raced'
      /\ NoUser \in raced' => NoUser \in raced
  BY <1>1 DEF NoteRace, Takers, Takes
<1>3. Covered(p)'
  BY <1>2 DEF Covered, Takes
<1>4. ASSUME NEW q \in Procs \ {p} PROVE Covered(q)'
  <2>1. Covered(q)
    BY DEF RaceInv
  <2>2. Takes(job[q]) /\ job[q].user \notin raced' => job[q].user # u
    BY <1>2
  <2> QED
    BY <1>2, <2>1, <2>2 DEF Covered, Takes
<1>5. OverdraftTakesTwo'
  BY <1>2 DEF RaceInv, OverdraftTakesTwo
<1> QED
  BY <1>3, <1>4, <1>5

LEMMA WithdrawCheckCovers ==
    ASSUME PayoutAssumption, RaceInv, NEW p \in Procs, NEW u \in Users,
           NEW amount \in Amounts, WithdrawCheck(p, u, amount)
    PROVE  RaceInv'
<1>1. AccountInv' /\ TypeOK /\ amount \in Nat
  BY WithdrawCheckKeeps DEF RaceInv, AccountInv, PayoutAssumption
<1>2. /\ job[p] = Idle
      /\ job'[p].op = "withdraw" /\ job'[p].user = u
      /\ job'[p].amount = amount
      /\ \A q \in Procs \ {p} : job'[q] = job[q]
      /\ balance[u] >= amount
      /\ UNCHANGED <<balance, earnings>>
      /\ NoteRace(u)
  BY <1>1 DEF WithdrawCheck, Start, wallets, TypeOK
<1>3. Takes(job'[p])
  BY <1>2 DEF Takes
<1> QED
  BY <1>1, <1>2, <1>3, TakerStarts DEF RaceInv

LEMMA PayCheckCovers ==
    ASSUME PayoutAssumption, RaceInv, NEW p \in Procs, NEW u \in Users,
           NEW amount \in Shares, PayCheck(p, u, amount)
    PROVE  RaceInv'
<1>1. AccountInv' /\ TypeOK /\ amount \in Nat
  BY PayCheckKeeps DEF RaceInv, AccountInv, PayoutAssumption
<1>2. /\ job[p] = Idle
      /\ job'[p].op = "pay" /\ job'[p].user = u
      /\ job'[p].amount = amount
      /\ \A q \in Procs \ {p} : job'[q] = job[q]
      /\ balance[u] >= amount
      /\ UNCHANGED <<balance, earnings>>
      /\ NoteRace(u)
  BY <1>1 DEF PayCheck, Start, wallets, TypeOK
<1>3. Takes(job'[p])
  BY <1>2 DEF Takes
<1> QED
  BY <1>1, <1>2, <1>3, TakerStarts DEF RaceInv

LEMMA PlatformCheckCovers ==
    ASSUME PayoutAssumption, RaceInv, NEW p \in Procs,
           NEW amount \in Amounts, PlatformCheck(p, amount)
    PROVE  RaceInv'
<1>1. AccountInv' /\ TypeOK
  BY PlatformCheckKeeps DEF RaceInv, AccountInv
<1>2. /\ job[p] = Idle
      /\ job'[p].op = "platform" /\ job'[p].user = NoUser
      /\ job'[p].amount = amount
      /\ \A q \in Procs \ {p} : job'[q] = job[q]
      /\ earnings >= amount
      /\ UNCHANGED <<balance, earnings>>
      /\ NoteRace(NoUser)
  BY <1>1 DEF PlatformCheck, Start, wallets, TypeOK
<1>3. /\ NoUser \notin raced' =>
            \A q \in Procs : ~(job[q].op = "platform" /\ job[q].user = NoUser)
      /\ raced \subseteq raced'
      /\ raced' \subseteq raced \cup {NoUser}
  BY <1>2 DEF NoteRace, Takers
<1>4. Covered(p)'
  BY <1>2, <1>3 DEF Covered, RaceInv, Takes
<1>5. ASSUME NEW q \in Procs \ {p} PROVE Covered(q)'
  <2>1. Covered(q)
    BY DEF RaceInv
  <2>2. job[q].op = "platform" => NoUser \in raced'
    BY <1>3, <2>1 DEF Covered
  <2> QED
    BY <1>2, <1>3, <2>1, <2>2 DEF Covered, Takes
<1>6. OverdraftTakesTwo'
  BY <1>2, <1>3 DEF RaceInv, OverdraftTakesTwo
<1> QED
  BY <1>1, <1>4, <1>5, <1>6 DEF RaceInv

LEMMA TakerDebits ==
    ASSUME PayoutAssumption, RaceInv, NEW p \in Procs, Takes(job[p]),
           job' = [job EXCEPT ![p] = Idle],
           balance' = [balance EXCEPT ![job[p].user] = @ - job[p].amount],
           UNCHANGED <<earnings, raced>>
    PROVE  (\A q \in Procs : Covered(q)') /\ OverdraftTakesTwo'
<1> DEFINE u == job[p].user
           amount == job[p].amount
<1>1. TypeOK /\ Covered(p)
  BY DEF RaceInv, AccountInv
<1>2. /\ u \in Users /\ amount \in Nat
      /\ job'[p] = Idle
      /\ \A q \in Procs \ {p} : job'[q] = job[q]
  BY <1>1 DEF TypeOK, Job, RaceInv, AccountInv, Takes
<1>3. /\ balance'[u] = balance[u] - amount
      /\ \A v \in Users \ {u} : balance'[v] = balance[v]
      /\ balance[u] \in Int
  BY <1>1, <1>2 DEF TypeOK
<1>4. u \notin raced =>
        /\ balance[u] >= amount
        /\ \A q \in Procs \ {p} : ~(Takes(job[q]) /\ job[q].user = u)
  BY <1>1 DEF Covered
<1>5. Covered(p)'
  BY <1>2 DEF Covered, Idle, Takes
<1>6. ASSUME NEW q \in Procs \ {p} PROVE Covered(q)'
  <2>1. Covered(q) /\ (Takes(job[q]) => job[q].user \in Users)
    BY DEF RaceInv, AccountInv, Takes
  <2>2. \A o \in Procs : job'[o] = job[o] \/ job'[o].op = "none"
    BY <1>2 DEF Idle
  <2> QED
    BY <1>2, <1>3, <1>4, <2>1, <2>2 DEF Covered, Takes
<1>7. OverdraftTakesTwo'
  BY <1>2, <1>3, <1>4 DEF RaceInv, OverdraftTakesTwo
<1> QED
  BY <1>5, <1>6, <1>7

LEMMA WithdrawDebitCovers ==
    ASSUME PayoutAssumption, RaceInv, NEW p \in Procs, WithdrawDebit(p)
    PROVE  RaceInv'
<1>1. AccountInv'
  BY WithdrawDebitKeeps DEF RaceInv
<1>2. /\ Takes(job[p])
      /\ job' = [job EXCEPT ![p] = Idle]
      /\ balance' = [balance EXCEPT ![job[p].user] = @ - job[p].amount]
      /\ UNCHANGED <<earnings, raced>>
  BY DEF WithdrawDebit, At, Return, Takes
<1> QED
  BY <1>1, <1>2, TakerDebits DEF RaceInv

LEMMA PayCommitCovers ==
    ASSUME PayoutAssumption, RaceInv, NEW p \in Procs, PayCommit(p)
    PROVE  RaceInv'
<1>1. AccountInv'
  BY PayCommitKeeps DEF RaceInv
<1>2. /\ Takes(job[p])
      /\ job' = [job EXCEPT ![p] = Idle]
      /\ balance' = [balance EXCEPT ![job[p].user] = @ - job[p].amount]
      /\ UNCHANGED <<earnings, raced>>
  BY DEF PayCommit, At, Return, Takes
<1> QED
  BY <1>1, <1>2, TakerDebits DEF RaceInv

LEMMA PlatformDebitCovers ==
    ASSUME PayoutAssumption, RaceInv, NEW p \in Procs, PlatformDebit(p)
    PROVE  RaceInv'
<1>1. AccountInv' /\ TypeOK
  BY PlatformDebitKeeps DEF RaceInv, AccountInv
<1> DEFINE amount == job[p].amount
<1>2. /\ job[p].op = "platform" /\ amount \in Nat /\ earnings \in Int
      /\ earnings' = earnings - amount
      /\ job'[p] = Idle
      /\ \A q \in Procs \ {p} : job'[q] = job[q]
      /\ UNCHANGED <<balance, raced>>
  BY <1>1 DEF PlatformDebit, At, Return, TypeOK, Job
<1>3. NoUser \notin raced =>
        /\ earnings >= amount
        /\ \A q \in Procs \ {p} : job[q].op # "platform"
  BY <1>2 DEF RaceInv, Covered
<1>4. Covered(p)'
  BY <1>2 DEF Covered, Idle, Takes
<1>5. ASSUME NEW q \in Procs \ {p} PROVE Covered(q)'
  <2>1. Covered(q)
    BY DEF RaceInv
  <2>2. \A o \in Procs : job'[o] = job[o] \/ job'[o].op = "none"
    BY <1>2 DEF Idle
  <2> QED
    BY <1>2, <1>3, <2>1, <2>2 DEF Covered, Takes
<1>6. OverdraftTakesTwo'
  BY <1>2, <1>3 DEF RaceInv, OverdraftTakesTwo
<1> QED
  BY <1>1, <1>4, <1>5, <1>6 DEF RaceInv

-----------------------------------------------------------------------------
(* The accounts *)

(* The terms of both sums are whole numbers; and so after a step. *)
SumsTyped ==
    /\ Sent \in [Procs -> Int]
    /\ balance \in [Users -> Int]
    /\ funds \in Int
    /\ earnings \in Int
    /\ charged \in Int
    /\ booked \in Int
    /\ rounded \in Nat
    /\ SumFunction(Sent) \in Int
    /\ SumFunction(balance) \in Int

LEMMA SumsType == TypeOK => SumsTyped
<1> SUFFICES ASSUME TypeOK PROVE SumsTyped
  OBVIOUS
<1>1. Sent \in [Procs -> Int]
  BY DEF TypeOK, Job, Sent
<1>2. balance \in [Users -> Int]
  BY DEF TypeOK
<1>3. IsFiniteSet(Users) /\ IsFiniteSet(Procs)
  BY FiniteAssumption DEF FiniteAssumption
<1>4. SumFunction(Sent) \in Int /\ SumFunction(balance) \in Int
  BY <1>1, <1>2, <1>3, SumType
<1> QED
  BY <1>1, <1>2, <1>4 DEF TypeOK, SumsTyped

LEMMA SumsTypeLater == TypeOK' => SumsTyped'
  BY SumsType, PTL

(* What the claims began with *)
LEMMA InitialSum ==
    ASSUME PayoutAssumption
    PROVE  SumFunction([u \in Users |-> InitialBalance]) \in Int
<1> DEFINE first == [u \in Users |-> InitialBalance]
<1>1. first \in [Users -> Int]
  BY DEF PayoutAssumption
<1>2. IsFiniteSet(Users)
  BY FiniteAssumption DEF FiniteAssumption
<1> HIDE DEF first
<1> QED
  BY <1>1, <1>2, SumType DEF first

(* What is undebited grows with what leaves Stripe, less what leaves the   *)
(* claims and what is sent and still to be debited, but for what bookings  *)
(* move.                                                                   *)
LEMMA UndebitedMoves ==
    ASSUME PayoutAssumption, TypeOK, TypeOK'
    PROVE  /\ Undebited \in Int
           /\ Undebited' = Undebited
                    + (charged' - charged) - (funds' - funds)
                    - (booked' - booked)
                    + (SumFunction(balance') - SumFunction(balance))
                    + (earnings' - earnings)
                    - (SumFunction(Sent') - SumFunction(Sent))
<1> DEFINE first == SumFunction([u \in Users |-> InitialBalance])
<1>1. first \in Int /\ InitialFunds \in Int /\ InitialEarnings \in Int
  BY InitialSum DEF PayoutAssumption
<1>2. /\ funds \in Int /\ funds' \in Int
      /\ charged \in Int /\ charged' \in Int
      /\ booked \in Int /\ booked' \in Int
      /\ earnings \in Int /\ earnings' \in Int
      /\ SumFunction(Sent) \in Int /\ SumFunction(Sent') \in Int
      /\ SumFunction(balance) \in Int /\ SumFunction(balance') \in Int
  BY SumsType, SumsTypeLater DEF SumsTyped
<1>3. /\ Undebited = ((InitialFunds + charged) - funds)
                        - (((first + InitialEarnings) + booked)
                                - (SumFunction(balance) + earnings))
                        - SumFunction(Sent)
      /\ Undebited' = ((InitialFunds + charged') - funds')
                        - (((first + InitialEarnings) + booked')
                                - (SumFunction(balance') + earnings'))
                        - SumFunction(Sent')
  BY DEF Undebited, PaidOut, Debited, InFlight
<1> HIDE DEF first
<1> QED
  BY <1>1, <1>2, <1>3

(* A handler that moves changes what is sent by its own term. *)
LEMMA SentMoves ==
    ASSUME TypeOK, TypeOK', NEW p \in Procs,
           \A q \in Procs \ {p} : job'[q] = job[q]
    PROVE  SumFunction(Sent') - SumFunction(Sent) = Sent'[p] - Sent[p]
<1>1. IsFiniteSet(Procs)
  BY FiniteAssumption DEF FiniteAssumption
<1>2. \A q \in Procs \ {p} : Sent'[q] = Sent[q]
  BY DEF Sent
<1>3. PICK f \in [Procs -> Int], g \in [Procs -> Int] : f = Sent /\ g = Sent'
  BY SumsType, SumsTypeLater DEF SumsTyped
<1>4. \A q \in Procs \ {p} : g[q] = f[q]
  BY <1>2, <1>3
<1>5. SumFunction(g) = SumFunction(f) + g[p] - f[p]
  BY <1>1, <1>4, SumUpdate
<1>6. SumFunction(f) \in Int /\ f[p] \in Int /\ g[p] \in Int
  BY <1>1, SumType
<1> QED
  BY <1>3, <1>5, <1>6

(* One wallet that changes changes their sum by as much. *)
LEMMA BalanceMoves ==
    ASSUME TypeOK, TypeOK', NEW u \in Users,
           \A v \in Users \ {u} : balance'[v] = balance[v]
    PROVE  SumFunction(balance') - SumFunction(balance)
                = balance'[u] - balance[u]
<1>1. IsFiniteSet(Users)
  BY FiniteAssumption DEF FiniteAssumption
<1>2. PICK f \in [Users -> Int], g \in [Users -> Int] :
            f = balance /\ g = balance'
  BY SumsType, SumsTypeLater DEF SumsTyped
<1>3. \A v \in Users \ {u} : g[v] = f[v]
  BY <1>2
<1>4. SumFunction(g) = SumFunction(f) + g[u] - f[u]
  BY <1>1, <1>3, SumUpdate
<1>5. SumFunction(f) \in Int /\ f[u] \in Int /\ g[u] \in Int
  BY <1>1, SumType
<1> QED
  BY <1>2, <1>4, <1>5

(* What is undebited stays, and nothing is rounded: the books stay right. *)
LEMMA UndebitedStays ==
    ASSUME TypeOK, PayoutsAreDebited, Undebited \in Int,
           Undebited' = Undebited, rounded' = rounded, failures' = failures
    PROVE  PayoutsAreDebited'
  BY DEF TypeOK, PayoutsAreDebited

(* What is transferred is half a cent at most away from what is debited. *)
LEMMA CentsAreClose ==
    ASSUME NEW amount \in Nat, NEW sent \in InCents(amount)
    PROVE  sent \in Int /\ sent - amount <= 50 /\ amount - sent <= 50
<1>1. sent \in Int
  BY CentsAreInt
<1> QED
  BY <1>1 DEF InCents

LEMMA TransferKeepsBooks ==
    ASSUME PayoutAssumption, TypeOK, TypeOK', PayoutsAreDebited,
           NEW p \in Procs, WithdrawTransfer(p)
    PROVE  PayoutsAreDebited'
<1>1. job[p].at = "checked" /\ job[p].amount \in Nat
  BY DEF WithdrawTransfer, At, TypeOK, Job
<1>2. PICK sent \in InCents(job[p].amount) : funds' = funds - sent
  BY DEF WithdrawTransfer
<1>3. /\ job' = [job EXCEPT ![p].at = "sent"]
      /\ rounded' = rounded + 1
      /\ UNCHANGED <<balance, earnings, charged, booked, failures>>
  BY DEF WithdrawTransfer, wallets, bookings
<1>4. /\ \A q \in Procs \ {p} : job'[q] = job[q]
      /\ job'[p].at = "sent" /\ job'[p].amount = job[p].amount
  BY <1>3 DEF TypeOK, Job
<1>5. Sent'[p] = job[p].amount /\ Sent[p] = 0
  BY <1>1, <1>4 DEF Sent
<1>6. SumFunction(Sent') - SumFunction(Sent) = job[p].amount
  BY <1>1, <1>4, <1>5, SentMoves
<1>7. sent \in Int /\ sent - job[p].amount <= 50 /\ job[p].amount - sent <= 50
  BY <1>1, CentsAreClose
<1>8. /\ Undebited \in Int
      /\ Undebited' = Undebited - (funds' - funds) - job[p].amount
  <2>1. /\ funds \in Int /\ earnings \in Int /\ SumFunction(balance) \in Int
        /\ charged \in Int /\ booked \in Int
    BY SumsType DEF SumsTyped
  <2> QED
    BY <1>1, <1>2, <1>3, <1>6, <1>7, <2>1, UndebitedMoves
<1>9. funds \in Int /\ rounded \in Nat
  BY DEF TypeOK
<1> QED
  BY <1>1, <1>2, <1>3, <1>7, <1>8, <1>9 DEF PayoutsAreDebited

LEMMA WithdrawDebitKeepsBooks ==
    ASSUME PayoutAssumption, AccountInv, TypeOK', PayoutsAreDebited,
           NEW p \in Procs, WithdrawDebit(p)
    PROVE  PayoutsAreDebited'
<1>1. TypeOK
  BY DEF AccountInv
<1>2. job[p].at = "sent" /\ job[p].amount \in Nat /\ job[p].user \in Users
  BY <1>1 DEF WithdrawDebit, At, TypeOK, Job, AccountInv
<1>3. /\ job' = [job EXCEPT ![p] = Idle]
      /\ balance' = [balance EXCEPT ![job[p].user] = @ - job[p].amount]
      /\ UNCHANGED <<funds, earnings, charged, booked, rounded, failures>>
  BY DEF WithdrawDebit, Return, stripe, bookings
<1>4. /\ \A q \in Procs \ {p} : job'[q] = job[q]
      /\ job'[p] = Idle
  BY <1>1, <1>3 DEF TypeOK
<1>5. Sent'[p] = 0 /\ Sent[p] = job[p].amount
  BY <1>2, <1>4 DEF Sent, Idle
<1>6. SumFunction(Sent') - SumFunction(Sent) = 0 - job[p].amount
  BY <1>1, <1>4, <1>5, SentMoves
<1>7. SumFunction(balance') - SumFunction(balance) = 0 - job[p].amount
  <2>1. PICK u \in Users : u = job[p].user
    BY <1>2
  <2>2. /\ balance'[u] = balance[u] - job[p].amount
        /\ \A v \in Users \ {u} : balance'[v] = balance[v]
        /\ balance[u] \in Int
    BY <1>1, <1>3, <2>1 DEF TypeOK
  <2>3. SumFunction(balance') - SumFunction(balance)
            = balance'[u] - balance[u]
    BY <1>1, <2>2, BalanceMoves
  <2> QED
    BY <1>2, <2>2, <2>3
<1>8. Undebited \in Int /\ Undebited' = Undebited
  <2>1. funds \in Int /\ earnings \in Int /\ charged \in Int /\ booked \in Int
    BY <1>1 DEF TypeOK
  <2> QED
    BY <1>1, <1>2, <1>3, <1>6, <1>7, <2>1, UndebitedMoves
<1> QED
  BY <1>1, <1>3, <1>8, UndebitedStays

LEMMA PlatformSendKeepsBooks ==
    ASSUME PayoutAssumption, TypeOK, TypeOK', PayoutsAreDebited,
           NEW p \in Procs, PlatformSend(p)
    PROVE  PayoutsAreDebited'
<1>1. job[p].at = "checked" /\ job[p].amount \in Nat
  BY DEF PlatformSend, At, TypeOK, Job
<1>2. /\ job' = [job EXCEPT ![p].at = "sent"]
      /\ funds' = funds - job[p].amount
      /\ UNCHANGED <<balance, earnings, charged, booked, rounded, failures>>
  BY DEF PlatformSend, wallets, bookings
<1>3. /\ \A q \in Procs \ {p} : job'[q] = job[q]
      /\ job'[p].at = "sent" /\ job'[p].amount = job[p].amount
  BY <1>2 DEF TypeOK, Job
<1>4. Sent'[p] = job[p].amount /\ Sent[p] = 0
  BY <1>1, <1>3 DEF Sent
<1>5. SumFunction(Sent') - SumFunction(Sent) = job[p].amount
  BY <1>1, <1>3, <1>4, SentMoves
<1>6. Undebited \in Int /\ Undebited' = Undebited
  <2>1. /\ funds \in Int /\ earnings \in Int /\ SumFunction(balance) \in Int
        /\ charged \in Int /\ booked \in Int
    BY SumsType DEF SumsTyped
  <2> QED
    BY <1>1, <1>2, <1>5, <2>1, UndebitedMoves
<1> QED
  BY <1>2, <1>6, UndebitedStays

LEMMA PlatformDebitKeepsBooks ==
    ASSUME PayoutAssumption, TypeOK, TypeOK', PayoutsAreDebited,
           NEW p \in Procs, PlatformDebit(p)
    PROVE  PayoutsAreDebited'
<1>1. job[p].at = "sent" /\ job[p].amount \in Nat
  BY DEF PlatformDebit, At, TypeOK, Job
<1>2. /\ job' = [job EXCEPT ![p] = Idle]
      /\ earnings' = earnings - job[p].amount
      /\ UNCHANGED <<funds, balance, charged, booked, rounded, failures>>
  BY DEF PlatformDebit, Return, stripe, bookings
<1>3. /\ \A q \in Procs \ {p} : job'[q] = job[q]
      /\ job'[p] = Idle
  BY <1>2 DEF TypeOK
<1>4. Sent'[p] = 0 /\ Sent[p] = job[p].amount
  BY <1>1, <1>3 DEF Sent, Idle
<1>5. SumFunction(Sent') - SumFunction(Sent) = 0 - job[p].amount
  BY <1>1, <1>3, <1>4, SentMoves
<1>6. Undebited \in Int /\ Undebited' = Undebited
  <2>1. /\ funds \in Int /\ earnings \in Int /\ SumFunction(balance) \in Int
        /\ charged \in Int /\ booked \in Int
    BY SumsType DEF SumsTyped
  <2> QED
    BY <1>1, <1>2, <1>5, <2>1, UndebitedMoves
<1> QED
  BY <1>2, <1>6, UndebitedStays

(* The wallet payment debits what it books: no payout takes part in it. *)
LEMMA PayCommitKeepsBooks ==
    ASSUME PayoutAssumption, AccountInv, TypeOK', PayoutsAreDebited,
           NEW p \in Procs, PayCommit(p)
    PROVE  PayoutsAreDebited'
<1>1. TypeOK
  BY DEF AccountInv
<1>2. job[p].at = "checked" /\ job[p].amount \in Nat /\ job[p].user \in Users
  BY <1>1 DEF PayCommit, At, TypeOK, Job, AccountInv
<1>3. /\ job' = [job EXCEPT ![p] = Idle]
      /\ balance' = [balance EXCEPT ![job[p].user] = @ - job[p].amount]
      /\ booked' = booked - job[p].amount
      /\ UNCHANGED <<funds, earnings, charged, rounded, failures>>
  BY DEF PayCommit, Return, stripe
<1>4. /\ \A q \in Procs \ {p} : job'[q] = job[q]
      /\ job'[p] = Idle
  BY <1>1, <1>3 DEF TypeOK
<1>5. Sent'[p] = 0 /\ Sent[p] = 0
  BY <1>2, <1>4 DEF Sent, Idle
<1>6. SumFunction(Sent') - SumFunction(Sent) = 0
  BY <1>1, <1>4, <1>5, SentMoves
<1>7. SumFunction(balance') - SumFunction(balance) = 0 - job[p].amount
  <2>1. PICK u \in Users : u = job[p].user
    BY <1>2
  <2>2. /\ balance'[u] = balance[u] - job[p].amount
        /\ \A v \in Users \ {u} : balance'[v] = balance[v]
        /\ balance[u] \in Int
    BY <1>1, <1>3, <2>1 DEF TypeOK
  <2>3. SumFunction(balance') - SumFunction(balance)
            = balance'[u] - balance[u]
    BY <1>1, <2>2, BalanceMoves
  <2> QED
    BY <1>2, <2>2, <2>3
<1>8. Undebited \in Int /\ Undebited' = Undebited
  <2>1. funds \in Int /\ earnings \in Int /\ charged \in Int /\ booked \in Int
    BY <1>1 DEF TypeOK
  <2> QED
    BY <1>1, <1>2, <1>3, <1>6, <1>7, <2>1, UndebitedMoves
<1> QED
  BY <1>1, <1>3, <1>8, UndebitedStays

(* Jobs that stay as they are leave as much in flight. *)
LEMMA SentStays ==
    ASSUME TypeOK, UNCHANGED job
    PROVE  SumFunction(Sent') - SumFunction(Sent) = 0
<1>1. Sent' = Sent
  BY DEF Sent
<1>2. SumFunction(Sent) \in Int
  BY SumsType DEF SumsTyped
<1> QED
  BY <1>1, <1>2

(* So does what bookings credit, and a card adds to the funds only what it *)
(* is said to have charged.                                                *)
LEMMA ArrivalKeepsBooks ==
    ASSUME PayoutAssumption, TypeOK, TypeOK', PayoutsAreDebited, Arrival
    PROVE  PayoutsAreDebited'
<1>1. PICK amount \in Shares : \/ \E u \in Users : CreditWallet(u, amount)
                               \/ CreditEarnings(amount)
                               \/ ChargeCard(amount)
  BY DEF Arrival
<1>2. amount \in Int
  BY DEF PayoutAssumption
<1>3. UNCHANGED <<job, rounded, failures>>
  BY <1>1 DEF CreditWallet, CreditEarnings, ChargeCard
<1>4. SumFunction(Sent') - SumFunction(Sent) = 0
  BY <1>3, SentStays
<1>5. /\ funds \in Int /\ earnings \in Int /\ SumFunction(balance) \in Int
      /\ charged \in Int /\ booked \in Int
  BY SumsType DEF SumsTyped
<1>6. Undebited \in Int /\ Undebited' = Undebited
  <2>1. CASE \E u \in Users : CreditWallet(u, amount)
    <3>1. PICK u \in Users : CreditWallet(u, amount)
      BY <2>1
    <3>2. /\ balance'[u] = balance[u] + amount
          /\ \A v \in Users \ {u} : balance'[v] = balance[v]
          /\ balance[u] \in Int
      BY <3>1 DEF CreditWallet, TypeOK
    <3>3. SumFunction(balance') - SumFunction(balance)
                = balance'[u] - balance[u]
      BY <3>2, BalanceMoves
    <3>4. SumFunction(balance') - SumFunction(balance) = amount
      BY <1>2, <3>2, <3>3
    <3>5. booked' = booked + amount /\ UNCHANGED <<funds, earnings, charged>>
      BY <3>1 DEF CreditWallet, stripe
    <3> QED
      BY <1>2, <1>4, <1>5, <3>4, <3>5, UndebitedMoves
  <2>2. CASE CreditEarnings(amount)
    <3>1. /\ earnings' = earnings + amount /\ booked' = booked + amount
          /\ UNCHANGED <<funds, balance, charged>>
      BY <2>2 DEF CreditEarnings, stripe
    <3> QED
      BY <1>2, <1>4, <1>5, <3>1, UndebitedMoves
  <2>3. CASE ChargeCard(amount)
    <3>1. /\ funds' = funds + amount /\ charged' = charged + amount
          /\ UNCHANGED <<balance, earnings, booked>>
      BY <2>3 DEF ChargeCard, wallets
    <3> QED
      BY <1>2, <1>4, <1>5, <3>1, UndebitedMoves
  <2> QED
    BY <1>1, <2>1, <2>2, <2>3
<1> QED
  BY <1>3, <1>6, UndebitedStays

(* A handler that stops takes what it had sent out of what is still to be  *)
(* debited: what is undebited only grows, and from then on only its lower  *)
(* bound is claimed.                                                       *)
LEMMA FailKeepsBooks ==
    ASSUME PayoutAssumption, TypeOK, TypeOK', PayoutsAreDebited,
           NEW p \in Procs, Fail(p)
    PROVE  PayoutsAreDebited'
<1>1. /\ job' = [job EXCEPT ![p] = Idle]
      /\ failures' = failures + 1
      /\ UNCHANGED <<funds, balance, earnings, charged, booked, rounded>>
  BY DEF Fail, Return, stripe,
     wallets, bookings
<1>2. /\ \A q \in Procs \ {p} : job'[q] = job[q]
      /\ job'[p] = Idle
      /\ job[p].amount \in Nat
  BY <1>1 DEF TypeOK, Job
<1>3. Sent'[p] = 0 /\ Sent[p] \in Nat
  BY <1>2 DEF Sent, Idle
<1>4. SumFunction(Sent') - SumFunction(Sent) <= 0
  BY <1>2, <1>3, SentMoves
<1>5. Undebited \in Int /\ Undebited' \in Int /\ Undebited' >= Undebited
  <2>1. /\ funds \in Int /\ earnings \in Int /\ SumFunction(balance) \in Int
        /\ charged \in Int /\ booked \in Int
        /\ SumFunction(Sent) \in Int /\ SumFunction(Sent') \in Int
    BY SumsType, SumsTypeLater DEF SumsTyped
  <2> QED
    BY <1>1, <1>4, <2>1, UndebitedMoves
<1>6. rounded \in Nat /\ failures \in Nat
  BY DEF TypeOK
<1> QED
  BY <1>1, <1>5, <1>6 DEF PayoutsAreDebited

(* The other steps move no money, and no handler to or from its debit. *)
LEMMA OthersKeepBooks ==
    ASSUME PayoutAssumption, TypeOK, TypeOK', PayoutsAreDebited,
           UNCHANGED <<funds, balance, earnings, charged, booked, rounded,
                       failures>>,
           \/ UNCHANGED job
           \/ \E p \in Procs :
                /\ \A q \in Procs \ {p} : job'[q] = job[q]
                /\ job[p].at # "sent" /\ job'[p].at # "sent"
    PROVE  PayoutsAreDebited'
<1>1. \A p \in Procs : Sent'[p] = Sent[p]
  BY DEF Sent
<1>2. Sent' = Sent
  <2>1. Sent \in [Procs -> Int] /\ Sent' \in [Procs -> Int]
    BY SumsType, SumsTypeLater DEF SumsTyped
  <2> QED
    BY <1>1, <2>1
<1>3. Undebited \in Int /\ Undebited' = Undebited
  <2>1. /\ funds \in Int /\ earnings \in Int /\ SumFunction(balance) \in Int
        /\ charged \in Int /\ booked \in Int
        /\ SumFunction(Sent) \in Int
    BY SumsType DEF SumsTyped
  <2> QED
    BY <1>2, <2>1, UndebitedMoves
<1> QED
  BY <1>3, UndebitedStays

(* Every step keeps the books right. *)
LEMMA BooksStep ==
    ASSUME PayoutAssumption, AccountInv, TypeOK', PayoutsAreDebited, [Next]_vars
    PROVE  PayoutsAreDebited'
<1>1. TypeOK
  BY DEF AccountInv
<1>2. CASE UNCHANGED vars
  BY <1>1, <1>2, OthersKeepBooks DEF vars
<1>3. CASE \/ \E u \in Users : Reactivate(u) \/ Deactivate(u)
           \/ \E a \in Accounts : Onboard(a)
  BY <1>1, <1>3, OthersKeepBooks
     DEF Reactivate, Deactivate, Onboard, stripe, wallets, bookings
<1>4. CASE Arrival
  BY <1>1, <1>4, ArrivalKeepsBooks
<1>5. ASSUME NEW p \in Procs, Step(p) PROVE PayoutsAreDebited'
  <2>1. CASE \/ WithdrawTransfer(p) \/ WithdrawDebit(p)
             \/ PlatformSend(p) \/ PlatformDebit(p) \/ PayCommit(p)
             \/ Fail(p)
    BY <1>1, <2>1, TransferKeepsBooks, WithdrawDebitKeepsBooks,
       PlatformSendKeepsBooks, PlatformDebitKeepsBooks, PayCommitKeepsBooks,
       FailKeepsBooks
  <2>2. CASE \/ \E u \in Users : ConnectCheck(p, u)
             \/ \E u \in Users, amount \in Amounts : WithdrawCheck(p, u, amount)
             \/ \E u \in Users, amount \in Shares : PayCheck(p, u, amount)
             \/ \E amount \in Amounts : PlatformCheck(p, amount)
    <3>1. /\ job[p] = Idle /\ job'[p].at = "checked"
          /\ \A q \in Procs \ {p} : job'[q] = job[q]
          /\ UNCHANGED <<funds, balance, earnings, charged, booked, rounded,
                         failures>>
      BY <1>1, <2>2 DEF ConnectCheck, WithdrawCheck, PayCheck, PlatformCheck,
                        Start, TypeOK, stripe, wallets, bookings
    <3> QED
      BY <1>1, <3>1, OthersKeepBooks DEF Idle
  <2>3. CASE ConnectIssue(p)
    <3>1. /\ job[p].at = "checked" /\ job'[p].at = "issued"
          /\ \A q \in Procs \ {p} : job'[q] = job[q]
      <4>1. PICK a \in Accounts :
                job' = [job EXCEPT ![p].at = "issued", ![p].account = a]
        BY <2>3 DEF ConnectIssue
      <4>2. job \in [Procs -> Job] /\ job[p] \in Job
        BY <1>1 DEF TypeOK
      <4> QED
        BY <2>3, <4>1, <4>2 DEF ConnectIssue, At, Job
    <3>2. UNCHANGED <<funds, balance, earnings, charged, booked, rounded,
                      failures>>
      BY <2>3 DEF ConnectIssue, wallets, bookings
    <3> QED
      BY <1>1, <3>1, <3>2, OthersKeepBooks
  <2>4. CASE ConnectStore(p) \/ WithdrawRefused(p) \/ PlatformRefused(p)
                \/ PayRolledBack(p)
    <3>1. /\ job[p].at \in {"checked", "issued"} /\ job'[p] = Idle
          /\ \A q \in Procs \ {p} : job'[q] = job[q]
      BY <1>1, <2>4 DEF ConnectStore, WithdrawRefused, PlatformRefused,
                        PayRolledBack, At, Return, TypeOK
    <3>2. UNCHANGED <<funds, balance, earnings, charged, booked, rounded,
                      failures>>
      BY <2>4 DEF ConnectStore, WithdrawRefused, PlatformRefused,
                  PayRolledBack, stripe, wallets, bookings
    <3> QED
      BY <1>1, <3>1, <3>2, OthersKeepBooks DEF Idle
  <2> QED
    BY <1>5, <2>1, <2>2, <2>3, <2>4 DEF Step
<1> QED
  BY <1>2, <1>3, <1>4, <1>5 DEF Next, Step, Arrival

(* At first there is as much as there is. *)
LEMMA BooksInit == ASSUME PayoutAssumption, Init PROVE PayoutsAreDebited
<1>1. TypeOK
  BY AccountInit DEF AccountInv
<1>2. SumFunction(Sent) = 0
  <2>1. IsFiniteSet(Procs) /\ Sent \in [Procs -> Int]
    BY <1>1, SumsType, FiniteAssumption DEF SumsTyped, FiniteAssumption
  <2>2. \A p \in Procs : Sent[p] = 0
    BY DEF Init, Sent, Idle
  <2> QED
    BY <2>1, <2>2, SumOfZeros
<1> DEFINE first == SumFunction([u \in Users |-> InitialBalance])
<1>3. SumFunction(balance) = first
  BY DEF Init
<1>4. Undebited = ((InitialFunds + charged) - funds)
                    - (((first + InitialEarnings) + booked)
                            - (first + earnings))
                    - 0
  BY <1>2, <1>3 DEF Undebited, PaidOut, Debited, InFlight
<1>5. /\ first \in Int /\ InitialFunds \in Int /\ InitialEarnings \in Int
      /\ funds = InitialFunds /\ earnings = InitialEarnings
      /\ charged = 0 /\ booked = 0 /\ rounded = 0
  BY InitialSum DEF PayoutAssumption, Init
<1> HIDE DEF first
<1>6. Undebited = 0
  BY <1>4, <1>5
<1> QED
  BY <1>5, <1>6 DEF PayoutsAreDebited

-----------------------------------------------------------------------------
(* The theorems *)

(* Every step keeps the invariant; and so it is one. *)
LEMMA NextKeeps ==
    ASSUME PayoutAssumption, RaceInv, [Next]_vars
    PROVE  RaceInv' /\ Stable
<1>1. AccountInv
  BY DEF RaceInv
<1>2. CASE UNCHANGED vars
  BY <1>2 DEF vars, RaceInv, AccountInv, TypeOK, TransfersReachOwners,
              Covered, OverdraftTakesTwo, Stable
<1>3. CASE \/ \E u \in Users : Reactivate(u) \/ Deactivate(u)
           \/ \E a \in Accounts : Onboard(a)
           \/ Arrival
  BY <1>1, <1>3, WorldKeepsCover, ReactivateKeeps, DeactivateKeeps,
     OnboardKeeps, ArrivalKeeps
<1>4. ASSUME NEW p \in Procs, Step(p) PROVE RaceInv' /\ Stable
  <2>1. Stable
    BY <1>1, <1>4, ConnectCheckKeeps, ConnectIssueKeeps, ConnectStoreKeeps,
       WithdrawCheckKeeps, WithdrawTransferKeeps, WithdrawRefusedKeeps,
       WithdrawDebitKeeps, PlatformCheckKeeps, PlatformSendKeeps,
       PlatformRefusedKeeps, PlatformDebitKeeps, PayCheckKeeps,
       PayCommitKeeps, PayRolledBackKeeps, FailKeeps DEF Step
  <2>2. RaceInv'
    BY <1>4, OthersKeepCover, WithdrawCheckCovers, WithdrawDebitCovers,
       PlatformCheckCovers, PlatformDebitCovers, PayCheckCovers,
       PayCommitCovers DEF Step
  <2> QED
    BY <2>1, <2>2
<1> QED
  BY <1>2, <1>3, <1>4 DEF Next, Step, Arrival

LEMMA RaceInvariant == ASSUME PayoutAssumption PROVE Spec => []RaceInv
<1>1. Init => RaceInv
  BY RaceInit
<1>2. RaceInv /\ [Next]_vars => RaceInv'
  BY NextKeeps
<1> QED
  BY <1>1, <1>2, PTL DEF Spec

(* Tables, wallets and handlers in flight keep their types. *)
THEOREM PayoutTypeCorrect == ASSUME PayoutAssumption PROVE Spec => []TypeOK
<1>1. RaceInv => TypeOK
  BY DEF RaceInv, AccountInv
<1> QED
  BY <1>1, RaceInvariant, PTL

(* createConnectedAccount may leave accounts at Stripe that are no user's: *)
(* none of them ever receives a transfer.                                  *)
THEOREM TransfersFindOwners ==
    ASSUME PayoutAssumption PROVE Spec => []TransfersReachOwners
<1>1. RaceInv => TransfersReachOwners
  BY DEF RaceInv, AccountInv
<1> QED
  BY <1>1, RaceInvariant, PTL

(* However many payouts and payments run at once, a wallet is overdrawn    *)
(* only if two that take from it did, and so are the platform's earnings.  *)
THEOREM OverdraftNeedsTwo ==
    ASSUME PayoutAssumption PROVE Spec => []OverdraftTakesTwo
<1>1. RaceInv => OverdraftTakesTwo
  BY DEF RaceInv
<1> QED
  BY <1>1, RaceInvariant, PTL

(* However many payouts run at once, whatever bookings pay, credit and     *)
(* charge in between, and wherever a handler stops: wallets and earnings   *)
(* never lose more to payouts than left Stripe, but for the rounding, and  *)
(* while no handler stopped half-way they lose no less either.             *)
THEOREM PayoutsMeetDebits ==
    ASSUME PayoutAssumption PROVE Spec => []PayoutsAreDebited
<1>1. Init => PayoutsAreDebited
  BY BooksInit
<1>2. RaceInv => AccountInv /\ TypeOK
  BY DEF RaceInv, AccountInv
<1>3. AccountInv /\ TypeOK' /\ PayoutsAreDebited /\ [Next]_vars
            => PayoutsAreDebited'
  BY BooksStep
<1> QED
  BY <1>1, <1>2, <1>3, RaceInvariant, PTL DEF Spec

(* No step exchanges the account of a user that has one. *)
THEOREM AccountsStayPut ==
    ASSUME PayoutAssumption PROVE Spec => AccountIsStable
<1>1. RaceInv /\ [Next]_vars => [Stable]_vars
  BY NextKeeps
<1>2. [][Stable]_vars => AccountIsStable
  BY PTL DEF AccountIsStable, Stable
<1> QED
  BY <1>1, <1>2, RaceInvariant, PTL DEF Spec

=============================================================================
