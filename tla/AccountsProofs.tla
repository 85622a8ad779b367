---------------------------- MODULE AccountsProofs ----------------------------
(***************************************************************************)
(* The safety of Accounts, for any users, addresses, codes, slots and      *)
(* bounds.  Every property rests on TypeInv: the rows have their types, a  *)
(* member and a code have an address, and a handler in flight has the      *)
(* user, the address and the code that its operation is about.             *)
(***************************************************************************)
EXTENDS Accounts, TLAPS

-----------------------------------------------------------------------------
(* Types *)

Ops == SignUps \cup ByAddress \cup {"customer", "phonesend", "phoneverify"}
Places == {"start", "checked", "inserted", "billed", "linked", "stored"}

MembersAddressed ==
    \A u \in Users : user[u].state = "member" => user[u].email \in Emails

CodesAddressed ==
    \A c \in Codes : code[c].kind = "email" => code[c].email \in Emails

(* What a job of this operation, at this place, must know.                 *)
Knows(j) ==
    /\ j.op \in SignUps \cup ByAddress => j.email \in Emails
    /\ j.op \in Redeemers \cup {"verify", "phoneverify"} => j.code \in Codes
    /\ \/ j.op \in ByAddress \cup {"customer", "phonesend", "phoneverify"}
       \/ j.at \in {"inserted", "billed", "linked"}
       => j.user \in Users

JobsSound == \A p \in Procs : Knows(job[p])

TypeInv == TypeOK /\ MembersAddressed /\ CodesAddressed /\ JobsSound

LEMMA TypeInit == Init => TypeInv
<1> SUFFICES ASSUME Init PROVE TypeInv
  OBVIOUS
<1>1. PICK home \in [Users -> Emails \cup {NoEmail}] : InitMembers(home)
  BY DEF Init
<1>2. NoRow \in Row /\ NoRow.state = "none"
  BY DEF NoRow, Row
<1>3. ASSUME NEW e \in Emails
      PROVE  Member(e) \in Row /\ Member(e).email = e
  BY <1>3 DEF Member, NoRow, Row
<1>4. /\ user \in [Users -> Row] /\ MembersAddressed
      /\ wallet \subseteq Users /\ token \subseteq Users
      /\ proven \in [Users -> SUBSET Emails]
  <2>1. \A u \in Users :
            user[u] = IF home[u] # NoEmail THEN Member(home[u]) ELSE NoRow
    BY <1>1 DEF InitMembers
  <2>2. user = [u \in Users |-> user[u]]
    BY <1>1 DEF InitMembers
  <2>3. \A u \in Users :
            user[u] \in Row /\ (user[u].state = "member" => user[u].email \in Emails)
    BY <1>1, <1>2, <1>3, <2>1
  <2>4. user \in [Users -> Row]
    BY <2>2, <2>3
  <2> QED
    BY <1>1, <2>3, <2>4 DEF InitMembers, MembersAddressed
<1>5. code \in [Codes -> Ucode] /\ CodesAddressed
  BY DEF Init, Ucode, CodesAddressed
<1>6. job \in [Procs -> Job] /\ JobsSound
  BY DEF Init, Idle, Job, JobsSound, Knows, SignUps, ByAddress, Redeemers,
         Mailers
<1> QED
  BY <1>4, <1>5, <1>6, AccountsAssumption DEF Init, TypeInv, TypeOK

(* One row of users changes.                                               *)
LEMMA UserKeeps ==
    ASSUME TypeInv, NEW u \in Users, NEW r \in Row,
           r.state = "member" => r.email \in Emails,
           user' = [user EXCEPT ![u] = r]
    PROVE  user' \in [Users -> Row] /\ MembersAddressed'
BY DEF TypeInv, TypeOK, MembersAddressed

(* One code changes.                                                       *)
LEMMA CodeKeeps ==
    ASSUME TypeInv, NEW c \in Codes, NEW r \in Ucode,
           r.kind = "email" => r.email \in Emails,
           code' = [code EXCEPT ![c] = r]
    PROVE  code' \in [Codes -> Ucode] /\ CodesAddressed'
BY DEF TypeInv, TypeOK, CodesAddressed

(* A code is issued for one of the addresses there are.                    *)
LEMMA IssueKeeps ==
    ASSUME TypeInv, NEW u \in Users, NEW e \in Emails, NEW to \in Emails,
           Issue(u, e, to)
    PROVE  /\ code' \in [Codes -> Ucode] /\ CodesAddressed'
           /\ mailed' \in [Codes -> Emails \cup {NoEmail}]
<1>1. PICK c \in Codes :
            /\ code' = [code EXCEPT ![c] = [kind |-> "email", user |-> u,
                                            email |-> e]]
            /\ mailed' = [mailed EXCEPT ![c] = to]
  BY DEF Issue
<1>2. [kind |-> "email", user |-> u, email |-> e] \in Ucode
  BY DEF Ucode
<1>3. mailed \in [Codes -> Emails \cup {NoEmail}]
  BY DEF TypeInv, TypeOK
<1> QED
  BY <1>1, <1>2, <1>3, CodeKeeps

(* A handler starts, goes on, or returns.                                  *)
LEMMA StartKeeps ==
    ASSUME TypeInv, NEW p \in Procs, NEW op \in Ops,
           NEW u \in Users \cup {NoUser}, NEW e \in Emails \cup {NoEmail},
           NEW c \in Codes \cup {NoCode},
           Knows([op |-> op, at |-> "checked", user |-> u, email |-> e,
                  code |-> c]),
           Start(p, op, u, e, c)
    PROVE  job' \in [Procs -> Job] /\ JobsSound' /\ calls' \in Nat
<1> DEFINE j == [op |-> op, at |-> "checked", user |-> u, email |-> e,
                 code |-> c]
<1>1. job \in [Procs -> Job] /\ calls \in Nat /\ JobsSound
  BY DEF TypeInv, TypeOK
<1>2. j \in Job
  BY DEF Job, Ops
<1>3. job' = [job EXCEPT ![p] = j] /\ calls' \in Nat
  BY <1>1 DEF Start, Call
<1> HIDE DEF j
<1> QED
  BY <1>1, <1>2, <1>3 DEF JobsSound, j

LEMMA MoveKeeps ==
    ASSUME TypeInv, NEW p \in Procs, NEW place \in Places, MoveTo(p, place),
           place \in {"inserted", "billed", "linked"} => job[p].user \in Users
    PROVE  job' \in [Procs -> Job] /\ JobsSound'
<1> DEFINE j == [job[p] EXCEPT !.at = place]
<1>1. job \in [Procs -> Job] /\ JobsSound
  BY DEF TypeInv, TypeOK
<1>2. j \in Job
  BY <1>1 DEF Job, Places
<1>3. job' = [job EXCEPT ![p] = j]
  BY <1>1 DEF MoveTo
<1>4. Knows(j)
  BY <1>1 DEF JobsSound, Knows, Job
<1> HIDE DEF j
<1> QED
  BY <1>1, <1>2, <1>3, <1>4 DEF JobsSound

LEMMA ReturnKeeps ==
    ASSUME TypeInv, NEW p \in Procs, Return(p)
    PROVE  job' \in [Procs -> Job] /\ JobsSound'
<1>1. job \in [Procs -> Job] /\ JobsSound
  BY DEF TypeInv, TypeOK
<1>2. Idle \in Job
  BY DEF Idle, Job
<1>3. Knows(Idle)
  BY DEF Idle, Knows, SignUps, ByAddress, Redeemers, Mailers
<1> QED
  BY <1>1, <1>2, <1>3 DEF JobsSound, Return


(* One field of a row changes.                                             *)
LEMMA FieldKeeps ==
    ASSUME TypeInv, NEW u \in Users, NEW yes \in BOOLEAN,
           \/ user' = [user EXCEPT ![u].password = yes]
           \/ user' = [user EXCEPT ![u].verified = yes]
           \/ user' = [user EXCEPT ![u].billing_id = yes]
           \/ user' = [user EXCEPT ![u].two_factor = yes]
           \/ user' = [user EXCEPT ![u].is_blocked = yes]
           \/ user' = [user EXCEPT ![u].phone = yes]
           \/ user' = [user EXCEPT ![u].pinned = yes]
           \/ user' = [user EXCEPT ![u].old = yes]
    PROVE  user' \in [Users -> Row] /\ MembersAddressed'
<1>1. user \in [Users -> Row] /\ MembersAddressed
  BY DEF TypeInv, TypeOK
<1> QED
  BY <1>1 DEF MembersAddressed, Row

(* Every step keeps the types.                                             *)
LEMMA TypeStep == TypeInv /\ [Next]_vars => TypeInv'
<1> SUFFICES ASSUME TypeInv, [Next]_vars
             PROVE  TypeInv'
  OBVIOUS
<1>0. /\ TypeOK /\ MembersAddressed /\ CodesAddressed /\ JobsSound
      /\ user \in [Users -> Row]
      /\ code \in [Codes -> Ucode]
      /\ job \in [Procs -> Job]
      /\ \A p \in Procs : Knows(job[p])
  BY DEF TypeInv, TypeOK, JobsSound
<1>a. ASSUME UNCHANGED user PROVE user' \in [Users -> Row] /\ MembersAddressed'
  BY <1>0, <1>a DEF MembersAddressed
<1>b. ASSUME UNCHANGED code PROVE code' \in [Codes -> Ucode] /\ CodesAddressed'
  BY <1>0, <1>b DEF CodesAddressed
<1>c. ASSUME UNCHANGED job PROVE job' \in [Procs -> Job] /\ JobsSound'
  BY <1>0, <1>c DEF JobsSound
<1> DEFINE UserOK == user' \in [Users -> Row] /\ MembersAddressed'
           CodeOK == code' \in [Codes -> Ucode] /\ CodesAddressed'
           JobOK == job' \in [Procs -> Job] /\ JobsSound'
           RestOK == /\ wallet' \subseteq Users
                     /\ token' \subseteq Users
                     /\ batch' \subseteq Users
                     /\ mailed' \in [Codes -> Emails \cup {NoEmail}]
                     /\ proven' \in [Users -> SUBSET Emails]
                     /\ redeemed' \in [Codes -> Nat]
                     /\ reusable' \subseteq Codes
                     /\ moved' \in BOOLEAN
                     /\ stray' \in BOOLEAN
                     /\ bare' \subseteq Users
                     /\ late' \subseteq Users
                     /\ calls' \in Nat
                     /\ failures' \in Nat
<1>d. ASSUME UserOK, CodeOK, JobOK, RestOK PROVE TypeInv'
  BY <1>d DEF TypeInv, TypeOK
(* Steps that only start a handler. *)
<1>1. ASSUME NEW p \in Procs, NEW op \in SignUps, NEW e \in Emails,
             SignUp(p, op, e)
      PROVE  TypeInv'
  <2>1. JobOK /\ calls' \in Nat
    <3>1. /\ op \in Ops /\ op \notin Redeemers \cup {"verify", "phoneverify"}
          /\ op \notin ByAddress \cup {"customer", "phonesend", "phoneverify"}
      BY DEF Ops, SignUps, ByAddress, Redeemers, Mailers
    <3>2. Start(p, op, NoUser, e, NoCode)
      BY <1>1 DEF SignUp
    <3> QED
      BY <3>1, <3>2, StartKeeps DEF Knows
  <2> QED
    BY <1>0, <1>1, <1>a, <1>b, <1>d, <2>1 DEF SignUp, TypeOK, ghosts
<1>2. ASSUME NEW p \in Procs, NEW u \in Users, CustomerCheck(p, u)
      PROVE  TypeInv'
  <2>1. JobOK /\ calls' \in Nat
    BY <1>2, StartKeeps
       DEF CustomerCheck, Knows, Ops, SignUps, ByAddress, Redeemers, Mailers
  <2> QED
    BY <1>0, <1>2, <1>a, <1>b, <1>d, <2>1 DEF CustomerCheck, TypeOK, ghosts
<1>3. ASSUME NEW p \in Procs, NEW u \in Users, NEW op \in {"forgot", "resend"},
             AskByAddress(p, op, u)
      PROVE  TypeInv'
  <2>1. JobOK /\ calls' \in Nat
    BY <1>3, StartKeeps
       DEF AskByAddress, Knows, Ops, SignUps, ByAddress, Redeemers, Mailers
  <2> QED
    BY <1>0, <1>3, <1>a, <1>b, <1>d, <2>1 DEF AskByAddress, TypeOK, ghosts
<1>4. ASSUME NEW p \in Procs, NEW u \in Users, NEW e \in Emails, AskMove(p, u, e)
      PROVE  TypeInv'
  <2>1. JobOK /\ calls' \in Nat
    BY <1>4, StartKeeps
       DEF AskMove, Knows, Ops, SignUps, ByAddress, Redeemers, Mailers
  <2> QED
    BY <1>0, <1>4, <1>a, <1>b, <1>d, <2>1 DEF AskMove, TypeOK, ghosts
<1>5. ASSUME NEW p \in Procs, NEW u \in Users, NEW op \in {"reset", "verify"},
             NEW c \in Codes, PresentCode(p, op, u, c)
      PROVE  TypeInv'
  <2>1. user[u].email \in Emails
    BY <1>0, <1>5 DEF PresentCode, Exists, MembersAddressed
  <2>2. JobOK /\ calls' \in Nat
    BY <1>5, <2>1, StartKeeps
       DEF PresentCode, Knows, Ops, SignUps, ByAddress, Redeemers, Mailers
  <2>3. reusable' \subseteq Codes
    BY <1>0, <1>5 DEF PresentCode, NoteShared, TypeOK
  <2> QED
    BY <1>0, <1>5, <1>a, <1>b, <1>d, <2>2, <2>3 DEF PresentCode, TypeOK
<1>6. ASSUME NEW p \in Procs, NEW u \in Users, NEW e \in Emails,
             NEW c \in Codes, PresentMove(p, u, e, c)
      PROVE  TypeInv'
  <2>1. JobOK /\ calls' \in Nat
    BY <1>6, StartKeeps
       DEF PresentMove, Knows, Ops, SignUps, ByAddress, Redeemers, Mailers
  <2>2. reusable' \subseteq Codes
    BY <1>0, <1>6 DEF PresentMove, NoteShared, TypeOK
  <2> QED
    BY <1>0, <1>6, <1>a, <1>b, <1>d, <2>1, <2>2 DEF PresentMove, TypeOK
<1>7. ASSUME NEW p \in Procs, NEW u \in Users, ChangePassword(p, u)
      PROVE  TypeInv'
  <2>1. JobOK /\ calls' \in Nat
    BY <1>7, StartKeeps
       DEF ChangePassword, Knows, Ops, SignUps, ByAddress, Redeemers, Mailers
  <2> QED
    BY <1>0, <1>7, <1>a, <1>b, <1>d, <2>1 DEF ChangePassword, TypeOK, ghosts
<1>8. ASSUME NEW p \in Procs, NEW u \in Users, PhoneClear(p, u)
      PROVE  TypeInv'
  <2>1. JobOK /\ calls' \in Nat
    BY <1>8, StartKeeps
       DEF PhoneClear, Knows, Ops, SignUps, ByAddress, Redeemers, Mailers
  <2>2. CodeOK
    BY <1>0, <1>8 DEF PhoneClear, Ucode, CodesAddressed
  <2> QED
    BY <1>0, <1>8, <1>a, <1>d, <2>1, <2>2 DEF PhoneClear, TypeOK, ghosts
<1>9. ASSUME NEW p \in Procs, NEW u \in Users, NEW c \in Codes,
             PhoneFind(p, u, c)
      PROVE  TypeInv'
  <2>1. JobOK /\ calls' \in Nat
    BY <1>9, StartKeeps
       DEF PhoneFind, Knows, Ops, SignUps, ByAddress, Redeemers, Mailers
  <2> QED
    BY <1>0, <1>9, <1>a, <1>b, <1>d, <2>1 DEF PhoneFind, TypeOK, ghosts
(* Signing up. *)
<1>10. ASSUME NEW u \in Users, LetIn(u) PROVE TypeInv'
  BY <1>0, <1>10, <1>a, <1>b, <1>c, <1>d DEF LetIn, Call, TypeOK, ghosts
<1>11. ASSUME NEW p \in Procs, Insert(p) PROVE TypeInv'
  <2> DEFINE op == job[p].op
             e == job[p].email
  <2>1. op \in SignUps /\ e \in Emails
    BY <1>0, <1>11 DEF Insert, At, Knows
  <2>2. ASSUME Return(p), UNCHANGED <<user, proven, bare, moved>>
        PROVE  TypeInv'
    BY <1>0, <1>11, <1>a, <1>b, <1>d, <2>2, ReturnKeeps
       DEF Insert, TypeOK, counters
  <2>3. ASSUME NEW u \in Users,
               user' = [user EXCEPT ![u] = NewRow(op, e)],
               proven' = [proven EXCEPT ![u] =
                                IF op = "google" THEN {e} ELSE {}],
               NoteMove(Procs \ {p}, u, NoEmail, e),
               IF op = "create"
                  THEN bare' = bare \cup {u} /\ Return(p)
                  ELSE /\ job' = [job EXCEPT ![p].at = "inserted",
                                             ![p].user = u]
                       /\ UNCHANGED bare
        PROVE  TypeInv'
    <3>1. NewRow(op, e) \in Row /\ NewRow(op, e).email = e
      <4>1. (op = "google") \in BOOLEAN /\ (op \in {"register", "create"}) \in BOOLEAN
        OBVIOUS
      <4> QED
        BY <2>1, <4>1 DEF NewRow, NoRow, Row
    <3>2. UserOK
      BY <2>1, <2>3, <3>1, UserKeeps
    <3>3. JobOK
      <4>1. CASE op = "create"
        BY <2>3, <4>1, ReturnKeeps
      <4>2. CASE op # "create"
        <5> DEFINE j == [job[p] EXCEPT !.at = "inserted", !.user = u]
        <5>1. job' = [job EXCEPT ![p] = j]
          BY <1>0, <2>3, <4>2 DEF Job
        <5>2. j \in Job /\ j.op = op /\ j.email = e /\ j.user = u
          BY <1>0 DEF Job
        <5>3. Knows(j)
          BY <2>1, <5>2 DEF Knows, SignUps, Redeemers
        <5> HIDE DEF j
        <5> QED
          BY <1>0, <5>1, <5>2, <5>3 DEF JobsSound
      <4> QED
        BY <4>1, <4>2
    <3>4. /\ proven' \in [Users -> SUBSET Emails] /\ bare' \subseteq Users
          /\ moved' \in BOOLEAN
      BY <1>0, <2>1, <2>3 DEF TypeOK, NoteMove
    <3> QED
      BY <1>0, <1>11, <1>b, <1>d, <3>2, <3>3, <3>4
         DEF Insert, TypeOK, counters
  <2> QED
    BY <1>11, <2>2, <2>3 DEF Insert
<1>12. ASSUME NEW p \in Procs, Bill(p) PROVE TypeInv'
  <2>1. UserOK
    BY <1>12, <1>a, FieldKeeps DEF Bill, Exists
  <2>2. JobOK
    BY <1>12, MoveKeeps, ReturnKeeps DEF Bill, Exists, Places
  <2> QED
    BY <1>0, <1>12, <1>b, <1>d, <2>1, <2>2 DEF Bill, TypeOK, ghosts, counters
<1>13. ASSUME NEW p \in Procs, SendLink(p) PROVE TypeInv'
  <2>1. job[p].user \in Users /\ job[p].email \in Emails
    BY <1>0, <1>13 DEF SendLink, At, Knows, SignUps
  <2>2. CodeOK /\ mailed' \in [Codes -> Emails \cup {NoEmail}]
    BY <1>13, <2>1, IssueKeeps DEF SendLink
  <2>3. JobOK
    BY <1>13, <2>1, MoveKeeps DEF SendLink, Places
  <2> QED
    BY <1>0, <1>13, <1>a, <1>d, <2>2, <2>3 DEF SendLink, TypeOK, counters
<1>14. ASSUME NEW p \in Procs, MakeWallet(p) PROVE TypeInv'
  <2>1. JobOK
    BY <1>14, ReturnKeeps DEF MakeWallet
  <2>2. job[p].user \in Users
    BY <1>0, <1>14 DEF MakeWallet, At, Knows
  <2> QED
    BY <1>0, <1>14, <1>a, <1>b, <1>d, <2>1, <2>2
       DEF MakeWallet, TypeOK, ghosts, counters
(* Codes and what they change. *)
<1>15. ASSUME NEW p \in Procs, SendCode(p) PROVE TypeInv'
  <2>1. JobOK
    BY <1>15, ReturnKeeps DEF SendCode
  <2>2. job[p].user \in Users /\ job[p].email \in Emails
    BY <1>0, <1>15 DEF SendCode, At, Knows, ByAddress
  <2>3. CodeOK /\ mailed' \in [Codes -> Emails \cup {NoEmail}]
    <3>1. CASE UNCHANGED <<code, mailed>>
      BY <1>0, <1>b, <3>1 DEF TypeOK
    <3>2. ASSUME NEW e \in Emails, Issue(job[p].user, e, job[p].email)
          PROVE  CodeOK /\ mailed' \in [Codes -> Emails \cup {NoEmail}]
      BY <2>2, <3>2, IssueKeeps
    <3>3. Exists(job[p].user) => user[job[p].user].email \in Emails
      BY <1>0 DEF Exists, MembersAddressed
    <3> QED
      BY <1>15, <2>2, <3>1, <3>2, <3>3 DEF SendCode
  <2> QED
    BY <1>0, <1>15, <1>a, <1>d, <2>1, <2>3 DEF SendCode, TypeOK, counters
<1>16. ASSUME NEW p \in Procs, WritePassword(p) PROVE TypeInv'
  <2>1. UserOK
    BY <1>16, <1>a, FieldKeeps DEF WritePassword, Owners
  <2>2. JobOK
    BY <1>16, MoveKeeps, ReturnKeeps DEF WritePassword, Places
  <2>3. stray' \in BOOLEAN
    BY <1>0, <1>16 DEF WritePassword, TypeOK
  <2>4. redeemed' \in [Codes -> Nat]
    <3>1. \/ redeemed' = redeemed
          \/ redeemed' = [redeemed EXCEPT ![job[p].code] = @ + 1]
      BY <1>16 DEF WritePassword
    <3> QED
      BY <1>0, <3>1 DEF TypeOK
  <2> QED
    BY <1>0, <1>16, <1>b, <1>d, <2>1, <2>2, <2>3, <2>4
       DEF WritePassword, TypeOK, counters
<1>17. ASSUME NEW p \in Procs, WriteVerified(p) PROVE TypeInv'
  <2>1. UserOK
    BY <1>17, <1>a, FieldKeeps DEF WriteVerified, Exists
  <2>2. JobOK
    BY <1>17, ReturnKeeps DEF WriteVerified
  <2>3. proven' \in [Users -> SUBSET Emails] /\ late' \subseteq Users
    BY <1>0, <1>17 DEF WriteVerified, TypeOK, Exists
  <2> QED
    BY <1>0, <1>17, <1>b, <1>d, <2>1, <2>2, <2>3
       DEF WriteVerified, TypeOK, counters
<1>18. ASSUME NEW p \in Procs, WriteAddress(p) PROVE TypeInv'
  <2> DEFINE u == job[p].user
             e == job[p].email
             r == [user[u] EXCEPT !.email = e]
  <2>1. e \in Emails
    BY <1>0, <1>18 DEF WriteAddress, At, Knows, ByAddress, Redeemers
  <2>2. UserOK
    <3>1. CASE UNCHANGED user
      BY <1>a, <3>1
    <3>2. CASE u \in Users /\ user' = [user EXCEPT ![u].email = e]
      <4>1. r \in Row /\ r.email = e
        BY <1>0, <2>1, <3>2 DEF Row
      <4>2. user' = [user EXCEPT ![u] = r]
        BY <1>0, <3>2
      <4> HIDE DEF u, r, e
      <4> QED
        BY <2>1, <3>2, <4>1, <4>2, UserKeeps
    <3> QED
      BY <1>18, <3>1, <3>2 DEF WriteAddress, Exists
  <2>3. JobOK
    BY <1>18, MoveKeeps, ReturnKeeps DEF WriteAddress, Places
  <2>4. proven' \in [Users -> SUBSET Emails] /\ moved' \in BOOLEAN
    <3>1. moved' = moved \/ moved' \in BOOLEAN
      BY <1>18 DEF WriteAddress, NoteMove
    <3>2. \/ proven' = proven
          \/ proven' = [proven EXCEPT ![u] = @ \cup ({mailed[job[p].code]} \cap Emails)]
      BY <1>18 DEF WriteAddress
    <3> HIDE DEF u
    <3> QED
      BY <1>0, <3>1, <3>2 DEF TypeOK
  <2>5. redeemed' \in [Codes -> Nat]
    <3>1. \/ redeemed' = redeemed
          \/ redeemed' = [redeemed EXCEPT ![job[p].code] = @ + 1]
      BY <1>18 DEF WriteAddress
    <3> QED
      BY <1>0, <3>1 DEF TypeOK
  <2> QED
    BY <1>0, <1>18, <1>b, <1>d, <2>2, <2>3, <2>4, <2>5
       DEF WriteAddress, TypeOK, counters
<1>19. ASSUME NEW p \in Procs, DeleteCode(p) PROVE TypeInv'
  <2>1. CodeOK
    <3>1. PICK c \in Codes : code' = [code EXCEPT ![c].kind = "deleted"]
      BY <1>0, <1>19 DEF DeleteCode, At, Knows
    <3> QED
      BY <1>0, <3>1 DEF Ucode, CodesAddressed
  <2>2. JobOK
    BY <1>19, ReturnKeeps DEF DeleteCode
  <2> QED
    BY <1>0, <1>19, <1>a, <1>d, <2>1, <2>2 DEF DeleteCode, TypeOK, ghosts, counters
<1>20. ASSUME NEW p \in Procs, PhoneIssue(p) PROVE TypeInv'
  <2>1. CodeOK
    BY <1>0, <1>20 DEF PhoneIssue, Ucode, CodesAddressed, Exists
  <2>2. JobOK
    BY <1>20, ReturnKeeps DEF PhoneIssue
  <2> QED
    BY <1>0, <1>20, <1>a, <1>d, <2>1, <2>2 DEF PhoneIssue, TypeOK, ghosts, counters
<1>21. ASSUME NEW p \in Procs, PhoneClaim(p) PROVE TypeInv'
  <2>1. CodeOK
    BY <1>0, <1>21 DEF PhoneClaim, Ucode, CodesAddressed
  <2>2. JobOK
    BY <1>21, MoveKeeps, ReturnKeeps DEF PhoneClaim, Places
  <2> QED
    BY <1>0, <1>21, <1>a, <1>d, <2>1, <2>2 DEF PhoneClaim, TypeOK, ghosts, counters
<1>22. ASSUME NEW p \in Procs, PhoneStore(p) PROVE TypeInv'
  <2>1. UserOK
    BY <1>22, <1>a, FieldKeeps DEF PhoneStore, Exists
  <2>2. JobOK
    BY <1>22, ReturnKeeps DEF PhoneStore
  <2>3. redeemed' \in [Codes -> Nat]
    BY <1>0, <1>22 DEF PhoneStore, TypeOK
  <2> QED
    BY <1>0, <1>22, <1>b, <1>d, <2>1, <2>2, <2>3
       DEF PhoneStore, TypeOK, counters
(* The profile, the administrator, and time. *)
<1>23. ASSUME NEW u \in Users, NEW on \in BOOLEAN, SetTwoFactor(u, on)
       PROVE  TypeInv'
  <2>1. UserOK
    BY <1>23, FieldKeeps DEF SetTwoFactor
  <2> QED
    BY <1>0, <1>23, <1>b, <1>c, <1>d, <2>1 DEF SetTwoFactor, Call, TypeOK, ghosts
<1>24. ASSUME NEW u \in Users, UpdateBlockedStatus(u) PROVE TypeInv'
  <2>1. (~user[u].is_blocked) \in BOOLEAN
    OBVIOUS
  <2>2. UserOK
    BY <1>24, <2>1, FieldKeeps DEF UpdateBlockedStatus
  <2> QED
    BY <1>0, <1>24, <1>b, <1>c, <1>d, <2>2
       DEF UpdateBlockedStatus, Call, TypeOK, ghosts
<1>25. ASSUME NEW u \in Users, NEW e \in Emails \cup {NoEmail},
              NEW password \in BOOLEAN, AdminUpdate(u, e, password)
       PROVE  TypeInv'
  <2> DEFINE r == [user[u] EXCEPT !.email = IF e = NoEmail THEN @ ELSE e,
                                  !.password = @ \/ password]
  <2>1. user[u] \in Row /\ user[u].email \in Emails
    BY <1>0, <1>25 DEF AdminUpdate, Exists, MembersAddressed
  <2>2. (user[u].password \/ password) \in BOOLEAN
    OBVIOUS
  <2>3. r \in Row /\ r.email \in Emails
    BY <2>1, <2>2 DEF Row
  <2>4. user' = [user EXCEPT ![u] = r]
    BY <1>0, <1>25 DEF AdminUpdate
  <2> HIDE DEF r
  <2>5. UserOK
    BY <2>3, <2>4, UserKeeps
  <2>6. proven' \in [Users -> SUBSET Emails] /\ moved' \in BOOLEAN
    BY <1>0, <1>25 DEF AdminUpdate, TypeOK, NoteMove
  <2> QED
    BY <1>0, <1>25, <1>b, <1>c, <1>d, <2>5, <2>6 DEF AdminUpdate, Call, TypeOK
<1>26. ASSUME SweepSelect PROVE TypeInv'
  BY <1>0, <1>26, <1>a, <1>b, <1>c, <1>d
     DEF SweepSelect, TypeOK, ghosts, counters
<1>27. ASSUME NEW u \in Users, SweepDelete(u) PROVE TypeInv'
  <2> DEFINE r == [NoRow EXCEPT !.state = "gone", !.verified = user[u].verified]
  <2>1. r \in Row /\ r.state = "gone"
    BY <1>0 DEF Row, NoRow
  <2>2. UserOK
    <3> HIDE DEF r
    <3>1. user' = user \/ user' = [user EXCEPT ![u] = r]
      BY <1>27 DEF SweepDelete, r
    <3> QED
      BY <1>a, <2>1, <3>1, UserKeeps
  <2>3. CodeOK
    <3>1. CASE UNCHANGED code
      BY <1>b, <3>1
    <3>2. CASE code' = [c \in Codes |-> IF code[c].user = u
                                THEN [code[c] EXCEPT !.user = NoUser]
                                ELSE code[c]]
      BY <1>0, <3>2 DEF Ucode, CodesAddressed
    <3> QED
      BY <1>27, <3>1, <3>2 DEF SweepDelete
  <2>4. /\ wallet' \subseteq Users /\ batch' \subseteq Users
        /\ late' \subseteq Users /\ moved' \in BOOLEAN
    BY <1>0, <1>27 DEF SweepDelete, TypeOK, NoteMove
  <2> QED
    BY <1>0, <1>27, <1>c, <1>d, <2>2, <2>3, <2>4 DEF SweepDelete, TypeOK, counters
<1>28. ASSUME NEW u \in Users, GrowOld(u) PROVE TypeInv'
  BY <1>0, <1>28, <1>b, <1>c, <1>d, FieldKeeps
     DEF GrowOld, TypeOK, ghosts, counters
<1>29. ASSUME NEW u \in Users, Pin(u) PROVE TypeInv'
  <2>1. UserOK
    BY <1>29, FieldKeeps DEF Pin
  <2> QED
    BY <1>0, <1>29, <1>b, <1>c, <1>d, <2>1 DEF Pin, Call, TypeOK, ghosts
<1>30. ASSUME NEW p \in Procs, Fail(p) PROVE TypeInv'
  <2>1. JobOK
    BY <1>30, ReturnKeeps DEF Fail
  <2>2. reusable' \subseteq Codes
    BY <1>0, <1>30 DEF Fail, TypeOK, At, Knows
  <2>3. bare' \subseteq Users /\ failures' \in Nat
    BY <1>0, <1>30 DEF Fail, TypeOK
  <2> QED
    BY <1>0, <1>30, <1>a, <1>b, <1>d, <2>1, <2>2, <2>3 DEF Fail, TypeOK
<1>31. ASSUME SweepFails PROVE TypeInv'
  BY <1>0, <1>31, <1>a, <1>b, <1>c, <1>d DEF SweepFails, TypeOK
<1>32. CASE UNCHANGED vars
  BY <1>0, <1>32, <1>a, <1>b, <1>c, <1>d DEF vars, TypeOK, ghosts, counters
<1> HIDE DEF UserOK, CodeOK, JobOK, RestOK
<1>33. ASSUME NEW p \in Procs, SignUpRoutes(p) \/ SocialRoutes(p) PROVE TypeInv'
  BY <1>1, <1>10, <1>33
     DEF SignUpRoutes, SocialRoutes, Register, GoogleLogin, FacebookLogin,
         Owners, SignUps
<1>34. ASSUME NEW p \in Procs,
              \/ AddressRoutes(p) \/ SessionRoutes(p)
              \/ CustomerRoutes(p) \/ PhoneRoutes(p)
       PROVE  TypeInv'
  BY <1>2, <1>3, <1>4, <1>5, <1>6, <1>7, <1>8, <1>9, <1>34
     DEF AddressRoutes, SessionRoutes, CustomerRoutes, PhoneRoutes
<1>35. ASSUME NEW p \in Procs, Continue(p) PROVE TypeInv'
  BY <1>11, <1>12, <1>13, <1>14, <1>15, <1>16, <1>17, <1>18, <1>19, <1>20,
     <1>21, <1>22, <1>35
     DEF Continue
<1>36. ASSUME LoginRoutes \/ ProfileRoutes \/ AdminRoutes PROVE TypeInv'
  BY <1>1, <1>10, <1>23, <1>24, <1>25, <1>36
     DEF LoginRoutes, ProfileRoutes, AdminRoutes, Login, AdminCreate, SignUps
<1>37. ASSUME Sweep \/ Environment PROVE TypeInv'
  BY <1>26, <1>27, <1>28, <1>29, <1>30, <1>31, <1>37 DEF Sweep, Environment
<1> QED
  BY <1>32, <1>33, <1>34, <1>35, <1>36, <1>37 DEF Next

(* Every row, and every handler in flight, is of its type.                 *)
THEOREM TypesHold == Spec => []TypeInv
BY TypeInit, TypeStep, PTL DEF Spec


-----------------------------------------------------------------------------
(* Steps that leave most of it alone *)

Requests(p) ==
    \/ SignUpRoutes(p) \/ SocialRoutes(p)
    \/ AddressRoutes(p) \/ SessionRoutes(p)
    \/ CustomerRoutes(p) \/ PhoneRoutes(p)
    \/ \E e \in Emails : AdminCreate(p, e)
    \/ LoginRoutes

(* A request changes no row, and no code but in PhoneClear.                *)
LEMMA RequestsOnlyStart ==
    ASSUME NEW p \in Procs, Requests(p)
    PROVE  UNCHANGED <<user, wallet, batch, mailed, proven, redeemed, moved,
                       stray, bare, late>>
<1> USE DEF ghosts
<1>1. CASE SignUpRoutes(p) \/ SocialRoutes(p) \/ \E e \in Emails : AdminCreate(p, e)
  BY <1>1 DEF SignUpRoutes, SocialRoutes, Register, GoogleLogin, FacebookLogin,
              AdminCreate, SignUp, LetIn
<1>2. CASE AddressRoutes(p) \/ SessionRoutes(p)
  BY <1>2 DEF AddressRoutes, SessionRoutes, AskByAddress, PresentCode,
              ChangePassword, AskMove, PresentMove
<1>3. CASE CustomerRoutes(p) \/ PhoneRoutes(p) \/ LoginRoutes
  BY <1>3 DEF CustomerRoutes, PhoneRoutes, LoginRoutes, CustomerCheck,
              PhoneClear, PhoneFind, Login, LetIn
<1> QED
  BY <1>1, <1>2, <1>3 DEF Requests

(* What the properties ask of a row.                                       *)
SameRow(u) ==
    /\ user'[u].state = user[u].state
    /\ user'[u].email = user[u].email
    /\ user'[u].verified = user[u].verified
    /\ user'[u].billing_id = user[u].billing_id

Minor ==
    \/ \E p \in Procs : WritePassword(p) \/ PhoneStore(p)
    \/ \E u \in Users : \/ UpdateBlockedStatus(u) \/ GrowOld(u) \/ Pin(u)
                        \/ \E on \in BOOLEAN : SetTwoFactor(u, on)

LEMMA MinorKeeps ==
    ASSUME TypeInv, Minor
    PROVE  /\ \A u \in Users : SameRow(u)
           /\ UNCHANGED <<code, wallet, batch, mailed, proven, reusable, moved,
                          bare, late>>
<1>1. user \in [Users -> Row]
  BY DEF TypeInv, TypeOK
<1>2. \/ UNCHANGED user
      \/ \E u \in Users : \E yes \in {TRUE, FALSE, ~user[u].is_blocked} :
           \/ user' = [user EXCEPT ![u].password = yes]
           \/ user' = [user EXCEPT ![u].two_factor = yes]
           \/ user' = [user EXCEPT ![u].is_blocked = yes]
           \/ user' = [user EXCEPT ![u].phone = yes]
           \/ user' = [user EXCEPT ![u].pinned = yes]
           \/ user' = [user EXCEPT ![u].old = yes]
  BY DEF Minor, WritePassword, PhoneStore, UpdateBlockedStatus, GrowOld, Pin,
         SetTwoFactor, Owners, Exists
<1>3. \A u \in Users : SameRow(u)
  <2>1. ASSUME NEW u \in Users, NEW yes,
               \/ user' = [user EXCEPT ![u].password = yes]
               \/ user' = [user EXCEPT ![u].two_factor = yes]
               \/ user' = [user EXCEPT ![u].is_blocked = yes]
               \/ user' = [user EXCEPT ![u].phone = yes]
               \/ user' = [user EXCEPT ![u].pinned = yes]
               \/ user' = [user EXCEPT ![u].old = yes]
        PROVE  \A v \in Users : SameRow(v)
    BY <1>1, <2>1 DEF SameRow, Row
  <2> QED
    BY <1>2, <2>1 DEF SameRow
<1>4. UNCHANGED <<code, wallet, batch, mailed, proven, reusable, moved, bare,
                  late>>
  BY DEF Minor, WritePassword, PhoneStore, UpdateBlockedStatus, GrowOld, Pin,
         SetTwoFactor, ghosts
<1> QED
  BY <1>3, <1>4

(* What the steps with a name of their own in a proof have in common.      *)
LEMMA StepCases ==
    ASSUME [Next]_vars
    PROVE  \/ \E p \in Procs : Requests(p)
           \/ \E p \in Procs : \/ Insert(p) \/ Bill(p) \/ SendLink(p)
                               \/ MakeWallet(p) \/ SendCode(p)
                               \/ WriteVerified(p) \/ WriteAddress(p)
                               \/ DeleteCode(p) \/ PhoneIssue(p)
                               \/ PhoneClaim(p) \/ Fail(p)
           \/ Minor
           \/ \E u \in Users, e \in Emails \cup {NoEmail}, password \in BOOLEAN :
                    AdminUpdate(u, e, password)
           \/ SweepSelect \/ SweepFails
           \/ \E u \in Users : SweepDelete(u)
           \/ UNCHANGED vars
           \/ LoginRoutes
BY DEF Next, Requests, Continue, Minor, ProfileRoutes, AdminRoutes, Sweep,
       Environment

(* At first a row is blank, or a member's, with all that a member has.     *)
LEMMA InitRows ==
    ASSUME Init, NEW u \in Users
    PROVE  \/ user[u] = NoRow
           \/ /\ user[u].state = "member" /\ user[u].billing_id
              /\ u \in wallet
              /\ proven[u] = {user[u].email} \cap Emails
              /\ user[u].email \in Emails
              /\ \A v \in Users :
                    user[v].email = user[u].email => user[v] = NoRow \/ v = u
<1>1. PICK home \in [Users -> Emails \cup {NoEmail}] : InitMembers(home)
  BY DEF Init
<1>2. \A v \in Users :
        user[v] = IF home[v] # NoEmail THEN Member(home[v]) ELSE NoRow
  BY <1>1 DEF InitMembers
<1>3. \A e \in Emails : /\ Member(e).state = "member" /\ Member(e).billing_id
                        /\ Member(e).email = e
  BY DEF Member, NoRow
<1>4. CASE home[u] = NoEmail
  BY <1>2, <1>4
<1>5. CASE home[u] # NoEmail
  <2>1. home[u] \in Emails /\ user[u] = Member(home[u])
    BY <1>2, <1>5
  <2>2. u \in wallet /\ proven[u] = {home[u]} \cap Emails
    BY <1>1, <1>5 DEF InitMembers
  <2>3. ASSUME NEW v \in Users, user[v].email = user[u].email
        PROVE  user[v] = NoRow \/ v = u
    BY <1>1, <1>2, <1>3, <1>5, <2>1, <2>3 DEF InitMembers
  <2> QED
    BY <1>3, <2>1, <2>2, <2>3
<1> QED
  BY <1>4, <1>5

-----------------------------------------------------------------------------
(* The sweep *)

(* What the sweep has selected is there, and unverified but for the late.  *)
SweepInv ==
    /\ SweptAreUnverified
    /\ \A u \in batch : Exists(u) /\ (user[u].verified => u \in late)

LEMMA SweepStep == TypeInv /\ SweepInv /\ [Next]_vars => SweepInv'
<1> SUFFICES ASSUME TypeInv, SweepInv, [Next]_vars
             PROVE  SweepInv'
  OBVIOUS
<1>0. /\ user \in [Users -> Row]
      /\ batch \subseteq Users /\ late \subseteq Users
  BY DEF TypeInv, TypeOK
<1> USE DEF SweepInv, SweptAreUnverified, Exists
<1>1. ASSUME UNCHANGED <<batch, late>>,
             \A u \in Users :
                \/ /\ user'[u].state = user[u].state
                   /\ user'[u].verified = user[u].verified
                \/ user[u].state = "none" /\ user'[u].state = "member"
      PROVE  SweepInv'
  BY <1>0, <1>1
<1>2. ASSUME NEW p \in Procs, Insert(p) PROVE SweepInv'
  <2>1. UNCHANGED <<batch, late>>
    BY <1>2 DEF Insert
  <2>2. \/ UNCHANGED user
        \/ \E u \in Users : /\ user[u].state = "none"
                            /\ user' = [user EXCEPT ![u] =
                                            NewRow(job[p].op, job[p].email)]
    BY <1>2 DEF Insert
  <2>3. NewRow(job[p].op, job[p].email).state = "member"
    BY DEF NewRow, NoRow
  <2> QED
    BY <1>0, <1>1, <2>1, <2>2, <2>3
<1>3. ASSUME NEW p \in Procs, Bill(p) PROVE SweepInv'
  BY <1>0, <1>1, <1>3 DEF Bill, Row, ghosts
<1>4. ASSUME NEW p \in Procs, WriteVerified(p) PROVE SweepInv'
  BY <1>0, <1>4 DEF WriteVerified, Row
<1>5. ASSUME NEW p \in Procs, WriteAddress(p) PROVE SweepInv'
  BY <1>0, <1>1, <1>5 DEF WriteAddress, Row
<1>6. ASSUME NEW u \in Users, NEW e \in Emails \cup {NoEmail},
             NEW password \in BOOLEAN, AdminUpdate(u, e, password)
      PROVE  SweepInv'
  BY <1>0, <1>1, <1>6 DEF AdminUpdate, Row
<1>7. ASSUME SweepSelect PROVE SweepInv'
  BY <1>0, <1>7 DEF SweepSelect, ghosts
<1>8. ASSUME NEW u \in Users, SweepDelete(u) PROVE SweepInv'
  <2>1. Exists(u) /\ (user[u].verified => u \in late) /\ batch' = batch \ {u}
    BY <1>8 DEF SweepDelete
  <2>2. CASE /\ user' = [user EXCEPT ![u] = [NoRow EXCEPT !.state = "gone",
                                                !.verified = user[u].verified]]
             /\ UNCHANGED late
    BY <1>0, <2>1, <2>2 DEF NoRow
  <2>3. CASE late' = late \ {u} /\ UNCHANGED user
    BY <1>0, <2>1, <2>3
  <2> QED
    BY <1>8, <2>2, <2>3 DEF SweepDelete
<1>9. ASSUME SweepFails PROVE SweepInv'
  BY <1>0, <1>9 DEF SweepFails
<1>10. ASSUME Minor PROVE SweepInv'
  BY <1>1, <1>10, MinorKeeps DEF SameRow
<1>11. ASSUME NEW p \in Procs, Requests(p) PROVE SweepInv'
  BY <1>1, <1>11, RequestsOnlyStart
<1>12. ASSUME NEW p \in Procs,
              \/ SendLink(p) \/ MakeWallet(p) \/ SendCode(p) \/ DeleteCode(p)
              \/ PhoneIssue(p) \/ PhoneClaim(p) \/ Fail(p)
       PROVE  SweepInv'
  BY <1>1, <1>12
     DEF SendLink, MakeWallet, SendCode, DeleteCode, PhoneIssue, PhoneClaim,
         Fail, ghosts
<1>13. ASSUME LoginRoutes PROVE SweepInv'
  BY <1>1, <1>13 DEF LoginRoutes, Login, LetIn, ghosts
<1>14. CASE UNCHANGED vars
  BY <1>1, <1>14 DEF vars, ghosts
<1> QED
  BY <1>2, <1>3, <1>4, <1>5, <1>6, <1>7, <1>8, <1>9, <1>10, <1>11, <1>12,
     <1>13, <1>14, StepCases

(* handleDeleteUnverifiedUsers does not look again at the rows it selected *)
(* once: a verified row goes only if it was verified after that.           *)
THEOREM SweptHold == Spec => []SweptAreUnverified
<1>1. Init => SweepInv
  <2> SUFFICES ASSUME Init PROVE SweepInv
    OBVIOUS
  <2>1. \A u \in Users : user[u].state # "gone"
    <3>1. ASSUME NEW u \in Users PROVE user[u].state # "gone"
      <4>1. user[u] = NoRow \/ user[u].state = "member"
        BY InitRows
      <4> QED
        BY <4>1 DEF NoRow
    <3> QED
      BY <3>1
  <2> QED
    BY <2>1 DEF Init, SweepInv, SweptAreUnverified
<1>2. SweepInv => SweptAreUnverified
  BY DEF SweepInv
<1> QED
  BY <1>1, <1>2, SweepStep, TypesHold, PTL DEF Spec

-----------------------------------------------------------------------------
(* What a sign-up gives *)

(* A sign-up has a row once it has inserted one, and it is billed next.    *)
EquipInv ==
    /\ MembersAreEquipped
    /\ \A p \in Procs : job[p].op \in SignUps =>
            /\ job[p].at = "checked" => job[p].user = NoUser
            /\ job[p].user \in Users => user[job[p].user].state # "none"
            /\ job[p].at \in {"billed", "linked"} /\ Exists(job[p].user) =>
                    user[job[p].user].billing_id

LEMMA EquipStep == TypeInv /\ EquipInv /\ [Next]_vars => EquipInv'
<1> SUFFICES ASSUME TypeInv, EquipInv, [Next]_vars
             PROVE  EquipInv'
  OBVIOUS
<1>0. /\ user \in [Users -> Row]
      /\ job \in [Procs -> Job]
      /\ \A p \in Procs : Knows(job[p])
  BY DEF TypeInv, TypeOK, JobsSound
<1> USE AccountsAssumption DEF EquipInv, MembersAreEquipped, Exists
(* Steps that make no row, take nothing from one, and let the sign-ups be. *)
<1>1. ASSUME wallet \subseteq wallet', bare \subseteq bare',
             \A u \in Users :
                /\ user'[u].state = user[u].state
                /\ user[u].billing_id => user'[u].billing_id,
             \A p \in Procs :
                \/ job'[p] = job[p]
                \/ job[p].op \notin SignUps /\ job'[p].op \notin SignUps
      PROVE  EquipInv'
  BY <1>0, <1>1
<1>2. ASSUME NEW p \in Procs, NEW op \in Ops, NEW u \in Users \cup {NoUser},
             NEW e, NEW c, op \in SignUps => u = NoUser,
             Start(p, op, u, e, c), UNCHANGED <<user, wallet, bare>>
      PROVE  EquipInv'
  <2>1. job[p].op \notin SignUps
    BY <1>2 DEF Start, Idle, SignUps
  <2>2. \A q \in Procs : q # p => job'[q] = job[q]
    BY <1>0, <1>2 DEF Start
  <2>3. job'[p].op = op /\ job'[p].user = u /\ job'[p].at = "checked"
    BY <1>0, <1>2 DEF Start
  <2> QED
    BY <1>0, <1>2, <2>1, <2>2, <2>3
<1>3. ASSUME NEW p \in Procs, Requests(p) PROVE EquipInv'
  <2>1. UNCHANGED <<user, wallet, bare>>
    BY <1>3, RequestsOnlyStart
  <2>2. CASE UNCHANGED job
    BY <1>1, <2>1, <2>2
  <2>3. ASSUME NEW op \in Ops, NEW u \in Users \cup {NoUser},
               NEW e, NEW c, op \in SignUps => u = NoUser, Start(p, op, u, e, c)
        PROVE  EquipInv'
    BY <1>2, <2>1, <2>3
  <2>4. ASSUME NEW op \in SignUps, NEW e, SignUp(p, op, e) PROVE EquipInv'
    BY <2>3, <2>4 DEF SignUp, Ops
  <2>5. CASE \/ SignUpRoutes(p) \/ SocialRoutes(p)
             \/ \E e \in Emails : AdminCreate(p, e)
    BY <2>2, <2>4, <2>5
       DEF SignUpRoutes, SocialRoutes, Register, GoogleLogin, FacebookLogin,
           AdminCreate, LetIn, SignUps
  <2>6. CASE AddressRoutes(p) \/ SessionRoutes(p)
    <3>1. \A op \in ByAddress : op \in Ops /\ op \notin SignUps
      BY DEF Ops, SignUps, ByAddress, Mailers, Redeemers
    <3>2. ASSUME NEW op \in ByAddress, NEW u \in Users, NEW e, NEW c,
                 Start(p, op, u, e, c)
          PROVE  EquipInv'
      BY <2>3, <3>1, <3>2
    <3>3. CASE AddressRoutes(p)
      BY <3>2, <3>3 DEF AddressRoutes, AskByAddress, PresentCode, ByAddress,
                        Mailers, Redeemers
    <3>4. CASE SessionRoutes(p)
      BY <3>2, <3>4 DEF SessionRoutes, ChangePassword, AskMove, PresentMove,
                        ByAddress, Mailers, Redeemers
    <3> QED
      BY <2>6, <3>3, <3>4
  <2>7. CASE CustomerRoutes(p) \/ PhoneRoutes(p) \/ LoginRoutes
    BY <2>2, <2>3, <2>7
       DEF CustomerRoutes, PhoneRoutes, LoginRoutes, CustomerCheck,
           PhoneClear, PhoneFind, Login, LetIn, Ops, SignUps
  <2> QED
    BY <1>3, <2>5, <2>6, <2>7 DEF Requests
<1>4. ASSUME NEW p \in Procs, Insert(p) PROVE EquipInv'
  <2>1. job[p].op \in SignUps /\ job[p].at = "checked" /\ job[p].user = NoUser
    BY <1>4 DEF Insert, At
  <2>2. CASE Return(p) /\ UNCHANGED <<user, bare>>
    <3>1. UNCHANGED wallet
      BY <1>4 DEF Insert
    <3>2. \A q \in Procs : job'[q] = IF q = p THEN Idle ELSE job[q]
      BY <1>0, <2>2 DEF Return
    <3>3. Idle.op \notin SignUps
      BY DEF Idle, SignUps
    <3> QED
      BY <1>0, <2>1, <2>2, <3>1, <3>2, <3>3
  <2>3. ASSUME NEW u \in Users, user[u].state = "none",
               user' = [user EXCEPT ![u] = NewRow(job[p].op, job[p].email)],
               \/ bare' = bare \cup {u} /\ Return(p)
               \/ /\ job' = [job EXCEPT ![p].at = "inserted", ![p].user = u]
                  /\ UNCHANGED bare
        PROVE  EquipInv'
    <3>1. user'[u].state = "member" /\ \A v \in Users \ {u} : user'[v] = user[v]
      BY <1>0, <2>3 DEF NewRow, NoRow
    <3>2. UNCHANGED wallet
      BY <1>4 DEF Insert
    <3>3. \A q \in Procs \ {p} : /\ job'[q] = job[q]
                                 /\ job[q].op \in SignUps => job[q].user # u
      BY <1>0, <2>3 DEF Return
    <3>4. CASE bare' = bare \cup {u} /\ Return(p)
      <4>1. job'[p].op \notin SignUps
        BY <1>0, <3>4 DEF Return, Idle, SignUps
      <4>2. ASSUME NEW v \in Users, user'[v].state = "member"
            PROVE  \/ v \in bare'
                   \/ user'[v].billing_id /\ v \in wallet'
                   \/ \E q \in Procs : job'[q].op \in SignUps /\ job'[q].user = v
        <5>1. CASE v = u
          BY <3>4, <5>1
        <5>2. CASE v # u
          <6>1. Exists(v) /\ user'[v] = user[v] /\ (v \in bare => v \in bare')
            BY <3>1, <3>4, <4>2, <5>2
          <6>2. \A q \in Procs : job[q].user = v => job'[q] = job[q]
            BY <2>1, <3>3, <4>2
          <6> QED
            BY <3>2, <6>1, <6>2
        <5> QED
          BY <5>1, <5>2
      <4>3. ASSUME NEW q \in Procs, job'[q].op \in SignUps
            PROVE  /\ job'[q] = job[q] /\ job[q].user # u
                   /\ job[q].user \in Users => user'[job[q].user] = user[job[q].user]
        <5>1. q # p
          BY <4>1, <4>3
        <5>2. job'[q] = job[q] /\ job[q].user # u
          BY <3>3, <4>3, <5>1
        <5> QED
          BY <3>1, <5>2
      <4> QED
        BY <3>1, <4>2, <4>3
    <3>5. CASE /\ job' = [job EXCEPT ![p].at = "inserted", ![p].user = u]
               /\ UNCHANGED bare
      <4>1. /\ job'[p].op = job[p].op /\ job'[p].at = "inserted"
            /\ job'[p].user = u
        BY <1>0, <3>5 DEF Job
      <4> QED
        BY <1>0, <2>1, <3>1, <3>2, <3>3, <3>5, <4>1
    <3> QED
      BY <2>3, <3>4, <3>5
  <2> QED
    BY <1>4, <2>2, <2>3 DEF Insert
<1>5. ASSUME NEW p \in Procs, Bill(p) PROVE EquipInv'
  <2>1. UNCHANGED <<wallet, bare>>
    BY <1>5 DEF Bill, ghosts
  <2>2. \A q \in Procs \ {p} : job'[q] = job[q]
    BY <1>0, <1>5 DEF Bill, MoveTo, Return
  <2>3. CASE ~Exists(job[p].user)
    <3>1. UNCHANGED user /\ job'[p] = Idle
      BY <1>0, <1>5, <2>3 DEF Bill, Return
    <3> QED
      BY <1>0, <2>1, <2>2, <2>3, <3>1 DEF Idle, SignUps
  <2>4. CASE Exists(job[p].user)
    <3>1. /\ \A u \in Users :
                /\ user'[u].state = user[u].state
                /\ user[u].billing_id => user'[u].billing_id
          /\ user'[job[p].user].billing_id
      BY <1>0, <1>5, <2>4 DEF Bill, Row
    <3>2. /\ job'[p].op = job[p].op /\ job'[p].user = job[p].user
          /\ job'[p].at = "billed"
      BY <1>0, <1>5, <2>4 DEF Bill, MoveTo, Job
    <3> QED
      BY <1>0, <2>1, <2>2, <2>4, <3>1, <3>2
  <2> QED
    BY <2>3, <2>4
<1>6. ASSUME NEW p \in Procs, SendLink(p) PROVE EquipInv'
  <2>1. UNCHANGED <<user, wallet, bare>>
    BY <1>6 DEF SendLink
  <2>2. \A q \in Procs : /\ job'[q].op = job[q].op /\ job'[q].user = job[q].user
                         /\ job'[q] = job[q] \/ q = p
    BY <1>0, <1>6 DEF SendLink, MoveTo, Job
  <2>3. job'[p].at = "linked" /\ job[p].at = "billed"
    BY <1>0, <1>6 DEF SendLink, MoveTo, Job, At
  <2> QED
    BY <1>0, <2>1, <2>2, <2>3
<1>7. ASSUME NEW p \in Procs, MakeWallet(p) PROVE EquipInv'
  <2>1. UNCHANGED <<user, bare>>
    BY <1>7 DEF MakeWallet, ghosts
  <2>2. wallet' = wallet \cup {u \in {job[p].user} : Exists(u)}
    BY <1>7 DEF MakeWallet
  <2>3. \A q \in Procs : job'[q] = IF q = p THEN Idle ELSE job[q]
    BY <1>0, <1>7 DEF MakeWallet, Return
  <2>4. job[p].op \in SignUps => job[p].at \in {"billed", "linked"}
    BY <1>7 DEF MakeWallet, At
  <2> QED
    BY <1>0, <2>1, <2>2, <2>3, <2>4 DEF Idle, SignUps
<1>8. ASSUME NEW p \in Procs, Fail(p) PROVE EquipInv'
  <2>1. UNCHANGED <<user, wallet>>
    BY <1>8 DEF Fail
  <2>2. bare' = IF job[p].op \in SignUps THEN bare \cup ({job[p].user} \cap Users)
                                         ELSE bare
    BY <1>8 DEF Fail
  <2>3. \A q \in Procs : job'[q] = IF q = p THEN Idle ELSE job[q]
    BY <1>0, <1>8 DEF Fail, Return
  <2> QED
    BY <1>0, <2>1, <2>2, <2>3 DEF Idle, SignUps
<1>9. ASSUME NEW u \in Users, SweepDelete(u) PROVE EquipInv'
  <2>1. UNCHANGED <<job, bare>>
    BY <1>9 DEF SweepDelete
  <2>2. CASE UNCHANGED <<user, wallet>>
    BY <1>1, <2>1, <2>2
  <2>3. CASE /\ user' = [user EXCEPT ![u] = [NoRow EXCEPT !.state = "gone",
                                                !.verified = user[u].verified]]
             /\ wallet' = wallet \ {u}
    <3>1. user'[u].state = "gone" /\ \A v \in Users \ {u} : user'[v] = user[v]
      BY <1>0, <2>3 DEF NoRow
    <3> QED
      BY <1>0, <2>1, <2>3, <3>1
  <2> QED
    BY <1>9, <2>2, <2>3 DEF SweepDelete
<1>10. ASSUME NEW p \in Procs,
              \/ SendCode(p) \/ DeleteCode(p) \/ PhoneIssue(p) \/ PhoneClaim(p)
              \/ WriteVerified(p) \/ WriteAddress(p)
       PROVE  EquipInv'
  <2>1. UNCHANGED <<wallet, bare>>
    BY <1>10 DEF SendCode, DeleteCode, PhoneIssue, PhoneClaim, WriteVerified,
                 WriteAddress, ghosts
  <2>2. \A u \in Users : /\ user'[u].state = user[u].state
                         /\ user'[u].billing_id = user[u].billing_id
    BY <1>0, <1>10, SMTT(30) DEF SendCode, DeleteCode, PhoneIssue, PhoneClaim,
                 WriteVerified, WriteAddress, Row
  <2>3. \A q \in Procs : \/ job'[q] = job[q]
                         \/ job[q].op \notin SignUps /\ job'[q].op \notin SignUps
    <3>1. CASE SendCode(p) \/ DeleteCode(p)
      BY <1>0, <3>1 DEF SendCode, DeleteCode, MoveTo, Return, At, Idle, Job,
                        SignUps, Mailers, Redeemers
    <3>2. CASE PhoneIssue(p) \/ PhoneClaim(p)
      BY <1>0, <3>2 DEF PhoneIssue, PhoneClaim, MoveTo, Return, At, Idle, Job,
                        SignUps
    <3>3. CASE WriteVerified(p) \/ WriteAddress(p)
      BY <1>0, <3>3 DEF WriteVerified, WriteAddress, MoveTo, Return, At, Idle,
                        Job, SignUps
    <3> QED
      BY <1>10, <3>1, <3>2, <3>3
  <2> QED
    BY <1>1, <2>1, <2>2, <2>3
<1>11. ASSUME NEW u \in Users, NEW e \in Emails \cup {NoEmail},
              NEW password \in BOOLEAN, AdminUpdate(u, e, password)
       PROVE  EquipInv'
  BY <1>0, <1>1, <1>11 DEF AdminUpdate, Row
<1>12. ASSUME Minor PROVE EquipInv'
  <2>1. \A q \in Procs : \/ job'[q] = job[q]
                         \/ job[q].op \notin SignUps /\ job'[q].op \notin SignUps
    <3>1. \/ UNCHANGED job
          \/ \E p \in Procs : /\ job[p].op \in {"reset", "change", "phoneverify"}
                              /\ MoveTo(p, "stored") \/ Return(p)
      BY <1>12 DEF Minor, WritePassword, PhoneStore, UpdateBlockedStatus,
                   GrowOld, Pin, SetTwoFactor, At
    <3>2. ASSUME NEW p \in Procs,
                 job[p].op \in {"reset", "change", "phoneverify"},
                 MoveTo(p, "stored") \/ Return(p)
          PROVE  /\ job[p].op \notin SignUps /\ job'[p].op \notin SignUps
                 /\ \A q \in Procs \ {p} : job'[q] = job[q]
      BY <1>0, <3>2 DEF MoveTo, Return, Idle, Job, SignUps
    <3> QED
      BY <3>1, <3>2
  <2> QED
    BY <1>1, <1>12, <2>1, MinorKeeps DEF SameRow
<1>13. ASSUME SweepSelect \/ SweepFails \/ LoginRoutes PROVE EquipInv'
  BY <1>1, <1>13 DEF SweepSelect, SweepFails, LoginRoutes, Login, LetIn,
                     ghosts
<1>14. CASE UNCHANGED vars
  BY <1>1, <1>14 DEF vars, ghosts
<1> QED
  BY <1>3, <1>4, <1>5, <1>6, <1>7, <1>8, <1>9, <1>10, <1>11, <1>12, <1>13,
     <1>14, StepCases

(* register, googleLogin and facebookLogin go step by step: an account     *)
(* lacks its customer or its wallet only on the way, or when they stopped. *)
THEOREM EquippedHold == Spec => []MembersAreEquipped
<1>1. Init => EquipInv
  <2> SUFFICES ASSUME Init PROVE EquipInv
    OBVIOUS
  <2>1. \A p \in Procs : job[p].op \notin SignUps
    BY DEF Init, Idle, SignUps
  <2>2. \A u \in Users : Exists(u) => user[u].billing_id /\ u \in wallet
    BY InitRows DEF NoRow, Exists
  <2> QED
    BY <2>1, <2>2 DEF EquipInv, MembersAreEquipped
<1>2. EquipInv => MembersAreEquipped
  BY DEF EquipInv
<1> QED
  BY <1>1, <1>2, EquipStep, TypesHold, PTL DEF Spec


-----------------------------------------------------------------------------
(* Codes *)

Holders == Redeemers \cup {"verify", "phoneverify"}

(* What a code is, by the place it was sent to.                            *)
Sent(c) ==
    /\ code[c].kind \in {"none", "phone"} =>
            mailed[c] = NoEmail /\ redeemed[c] = 0
    /\ code[c].kind = "email" => mailed[c] \in Emails

HeldRight(j) ==
    /\ j.op \in Redeemers \cup {"verify"} => mailed[j.code] \in Emails
    /\ j.op = "phoneverify" => /\ mailed[j.code] = NoEmail
                               /\ code[j.code].kind \in {"phone", "deleted"}

(* A code by mail that nobody shared and no handler left behind: a used    *)
(* one is on its way out.                                                  *)
MailedOnce(c) ==
    mailed[c] \in Emails /\ c \notin reusable =>
        /\ redeemed[c] <= 1
        /\ \A p, q \in Procs :
                /\ job[p].op \in Redeemers /\ job[p].code = c
                /\ job[q].op \in Redeemers /\ job[q].code = c
                => p = q
        /\ \A p \in Procs :
                /\ job[p].op \in Redeemers /\ job[p].code = c
                /\ job[p].at = "checked"
                => redeemed[c] = 0
        /\ code[c].kind = "email" /\ redeemed[c] # 0 =>
                \E p \in Procs : /\ job[p].op \in Redeemers
                                 /\ job[p].code = c
                                 /\ job[p].at = "stored"

(* A code by text message is deleted before it is used, by one handler.    *)
TextedOnce(c) ==
    mailed[c] = NoEmail =>
        /\ redeemed[c] <= 1
        /\ \A p \in Procs :
                /\ job[p].op = "phoneverify" /\ job[p].code = c
                /\ job[p].at = "stored"
                => /\ code[c].kind = "deleted"
                   /\ redeemed[c] = 0
                   /\ \A q \in Procs : /\ job[q].op = "phoneverify"
                                       /\ job[q].code = c
                                       /\ job[q].at = "stored"
                                       => p = q

CodeInv ==
    /\ \A c \in Codes : Sent(c) /\ MailedOnce(c) /\ TextedOnce(c)
    /\ \A p \in Procs : HeldRight(job[p])

(* Codes are made for text messages, or deleted; handlers go, but none     *)
(* leaves a code it has used to the next one, unless that is noted.        *)
LEMMA CodeFrame ==
    ASSUME TypeInv, CodeInv,
           UNCHANGED <<mailed, redeemed>>, reusable \subseteq reusable',
           \A c \in Codes :
                \/ code'[c].kind = code[c].kind
                \/ code'[c].kind = "deleted"
                \/ code[c].kind = "none" /\ code'[c].kind = "phone",
           \A p \in Procs :
                \/ job'[p] = job[p]
                \/ /\ job'[p].op \notin Holders
                   /\ job[p].op \in Redeemers /\ job[p].at = "stored" =>
                        \/ job[p].code \in reusable'
                        \/ code'[job[p].code].kind = "deleted"
    PROVE  CodeInv'
<1>0. /\ mailed \in [Codes -> Emails \cup {NoEmail}]
      /\ redeemed \in [Codes -> Nat]
      /\ \A p \in Procs : Knows(job[p])
      /\ NoEmail \notin Emails
  BY AccountsAssumption DEF TypeInv, TypeOK, JobsSound
<1>1. \A p \in Procs : job'[p].op \in Holders => job'[p] = job[p]
  OBVIOUS
<1>2. \A c \in Codes : Sent(c)'
  <2>1. ASSUME NEW c \in Codes PROVE Sent(c)'
    <3>1. Sent(c)
      BY DEF CodeInv
    <3> QED
      BY <3>1 DEF Sent
  <2> QED
    BY <2>1
<1>3. \A p \in Procs : HeldRight(job[p])'
  <2>1. ASSUME NEW p \in Procs PROVE HeldRight(job[p])'
    <3>1. HeldRight(job[p]) /\ Knows(job[p])
      BY <1>0 DEF CodeInv
    <3>2. CASE job'[p].op \notin Holders
      BY <3>2 DEF HeldRight, Holders
    <3>3. CASE job'[p] = job[p] /\ job[p].op \in Holders
      <4>1. job[p].code \in Codes
        BY <3>1, <3>3 DEF Knows, Holders
      <4> QED
        BY <3>1, <3>3, <4>1 DEF HeldRight
    <3> QED
      BY <1>1, <3>2, <3>3
  <2> QED
    BY <2>1
<1>4. ASSUME NEW c \in Codes PROVE MailedOnce(c)'
  <2>1. MailedOnce(c)
    BY DEF CodeInv
  <2>2. ASSUME mailed[c] \in Emails, c \notin reusable',
               code'[c].kind = "email", redeemed[c] # 0
        PROVE  \E p \in Procs : /\ job'[p].op \in Redeemers
                                /\ job'[p].code = c
                                /\ job'[p].at = "stored"
    <3>1. code[c].kind = "email" /\ c \notin reusable
      BY <2>2
    <3>2. PICK p \in Procs : /\ job[p].op \in Redeemers
                             /\ job[p].code = c
                             /\ job[p].at = "stored"
      BY <2>1, <2>2, <3>1 DEF MailedOnce
    <3>3. job'[p] = job[p]
      BY <2>2, <3>2
    <3> QED
      BY <3>2, <3>3
  <2>3. \A p \in Procs : job'[p].op \in Redeemers => job'[p] = job[p]
    BY <1>1 DEF Holders
  <2> QED
    BY <2>1, <2>2, <2>3 DEF MailedOnce
<1>5. ASSUME NEW c \in Codes PROVE TextedOnce(c)'
  <2>1. TextedOnce(c)
    BY DEF CodeInv
  <2>2. \A p \in Procs : job'[p].op = "phoneverify" => job'[p] = job[p]
    BY <1>1 DEF Holders
  <2> QED
    BY <2>1, <2>2 DEF TextedOnce
<1> QED
  BY <1>2, <1>3, <1>4, <1>5 DEF CodeInv

(* A code is made and mailed, and a handler that held none goes on.        *)
LEMMA CodeIssued ==
    ASSUME TypeInv, CodeInv, NEW p \in Procs, NEW u, NEW e, NEW to \in Emails,
           Issue(u, e, to), UNCHANGED <<redeemed, reusable>>,
           job[p].op \notin Holders, job'[p].op \notin Holders,
           \A q \in Procs \ {p} : job'[q] = job[q]
    PROVE  CodeInv'
<1>0. /\ code \in [Codes -> Ucode]
      /\ mailed \in [Codes -> Emails \cup {NoEmail}]
      /\ redeemed \in [Codes -> Nat]
      /\ \A q \in Procs : Knows(job[q])
      /\ NoEmail \notin Emails
  BY AccountsAssumption DEF TypeInv, TypeOK, JobsSound
<1>1. PICK c \in Codes :
            /\ code[c].kind = "none"
            /\ code'[c].kind = "email" /\ mailed'[c] = to
            /\ \A d \in Codes \ {c} : /\ code'[d] = code[d]
                                      /\ mailed'[d] = mailed[d]
  BY <1>0 DEF Issue
<1>2. redeemed[c] = 0 /\ mailed[c] = NoEmail
  BY <1>1 DEF CodeInv, Sent
<1>3. \A q \in Procs : job'[q].op \in Holders => /\ job'[q] = job[q]
                                                 /\ job[q].code \in Codes \ {c}
  <2>1. ASSUME NEW q \in Procs, job'[q].op \in Holders
        PROVE  job'[q] = job[q] /\ job[q].code \in Codes \ {c}
    <3>1. job'[q] = job[q] /\ job[q].op \in Holders
      BY <2>1
    <3>2. job[q].code \in Codes
      BY <1>0, <3>1 DEF Knows, Holders
    <3>3. HeldRight(job[q])
      BY DEF CodeInv
    <3> QED
      BY <1>0, <1>1, <1>2, <3>1, <3>2, <3>3 DEF HeldRight, Holders
  <2> QED
    BY <2>1
<1>4. \A d \in Codes : Sent(d)'
  BY <1>1 DEF CodeInv, Sent
<1>5. \A q \in Procs : HeldRight(job[q])'
  <2>1. ASSUME NEW q \in Procs PROVE HeldRight(job[q])'
    <3>1. HeldRight(job[q])
      BY DEF CodeInv
    <3>2. CASE job'[q].op \notin Holders
      BY <3>2 DEF HeldRight, Holders
    <3>3. CASE job'[q].op \in Holders
      <4>1. job'[q] = job[q] /\ job[q].code \in Codes \ {c}
        BY <1>3, <3>3
      <4> QED
        BY <1>1, <3>1, <4>1 DEF HeldRight
    <3> QED
      BY <3>2, <3>3
  <2> QED
    BY <2>1
<1>6. \A q \in Procs : job[q].op \in Holders => job'[q] = job[q]
  OBVIOUS
<1>7. ASSUME NEW d \in Codes PROVE MailedOnce(d)' /\ TextedOnce(d)'
  <2>1. CASE d = c
    <3>1. MailedOnce(d)'
      BY <1>2, <1>3, <2>1 DEF MailedOnce, Holders
    <3>2. TextedOnce(d)'
      BY <1>0, <1>1, <2>1 DEF TextedOnce
    <3> QED
      BY <3>1, <3>2
  <2>2. CASE d # c
    <3>1. MailedOnce(d) /\ TextedOnce(d)
      BY DEF CodeInv
    <3>2. code'[d] = code[d] /\ mailed'[d] = mailed[d]
      BY <1>1, <2>2
    <3>3. MailedOnce(d)'
      BY <1>3, <1>6, <3>1, <3>2 DEF MailedOnce, Holders
    <3>4. TextedOnce(d)'
      BY <1>3, <3>1, <3>2 DEF TextedOnce, Holders
    <3> QED
      BY <3>3, <3>4
  <2> QED
    BY <2>1, <2>2
<1> QED
  BY <1>4, <1>5, <1>7 DEF CodeInv

(* A handler takes a code.  If it will use the code for good, another that *)
(* holds it makes it reusable.                                             *)
LEMMA CodeTaken ==
    ASSUME TypeInv, CodeInv, NEW p \in Procs, NEW op \in Holders, NEW u, NEW e,
           NEW c \in Codes, Start(p, op, u, e, c),
           UNCHANGED <<code, mailed, redeemed>>,
           code[c].kind = IF op = "phoneverify" THEN "phone" ELSE "email",
           IF op \in Redeemers THEN NoteShared(c) ELSE UNCHANGED reusable
    PROVE  CodeInv'
<1>0. /\ job \in [Procs -> Job]
      /\ redeemed \in [Codes -> Nat]
      /\ NoEmail \notin Emails
  BY AccountsAssumption DEF TypeInv, TypeOK
<1>1. /\ job'[p].op = op /\ job'[p].at = "checked" /\ job'[p].code = c
      /\ job[p].op \notin Holders
      /\ \A q \in Procs \ {p} : job'[q] = job[q]
  BY <1>0 DEF Start, Idle, Holders, Redeemers
<1>2. Sent(c)
  BY DEF CodeInv
<1>3. \A q \in Procs : HeldRight(job[q])'
  <2>1. ASSUME NEW q \in Procs PROVE HeldRight(job[q])'
    <3>1. CASE q = p
      BY <1>1, <1>2, <3>1 DEF HeldRight, Sent, Holders, Redeemers
    <3>2. CASE q # p
      BY <1>1, <3>2 DEF CodeInv, HeldRight
    <3> QED
      BY <3>1, <3>2
  <2> QED
    BY <2>1
<1>4. reusable \subseteq reusable'
  BY DEF NoteShared
<1>5. ASSUME NEW d \in Codes PROVE MailedOnce(d)'
  <2>1. MailedOnce(d)
    BY DEF CodeInv
  <2>2. \A q \in Procs : job[q].op \in Redeemers => q # p /\ job'[q] = job[q]
    BY <1>1 DEF Holders
  <2>3. CASE d = c /\ op \in Redeemers /\ d \notin reusable'
    <3>1. \A q \in Procs : ~(job[q].op \in Redeemers /\ job[q].code = c)
      BY <2>3 DEF NoteShared
    <3>2. \A q \in Procs : job'[q].op \in Redeemers /\ job'[q].code = c => q = p
      BY <1>1, <3>1
    <3>3. code[c].kind = "email"
      BY <2>3 DEF Redeemers
    <3>4. mailed[d] \in Emails /\ d \notin reusable
      BY <1>2, <1>4, <2>3, <3>3 DEF Sent
    <3>5. redeemed[d] = 0
      BY <2>1, <2>3, <3>1, <3>3, <3>4 DEF MailedOnce
    <3> QED
      BY <2>3, <3>2, <3>5 DEF MailedOnce
  <2>4. CASE ~(d = c /\ op \in Redeemers)
    <3>1. \A q \in Procs : job'[q].op \in Redeemers /\ job'[q].code = d =>
                                job'[q] = job[q]
      BY <1>1, <2>4
    <3> QED
      BY <1>4, <2>1, <2>2, <3>1 DEF MailedOnce
  <2>5. CASE d \in reusable'
    BY <2>5 DEF MailedOnce
  <2> QED
    BY <2>3, <2>4, <2>5
<1>6. ASSUME NEW d \in Codes PROVE TextedOnce(d)'
  <2>1. TextedOnce(d)
    BY DEF CodeInv
  <2>2. \A q \in Procs : job'[q].at = "stored" => job'[q] = job[q]
    BY <1>1
  <2> QED
    BY <2>1, <2>2 DEF TextedOnce
<1>7. \A d \in Codes : Sent(d)'
  BY DEF CodeInv, Sent
<1> QED
  BY <1>3, <1>5, <1>6, <1>7 DEF CodeInv

(* A handler uses its code for good.                                       *)
LEMMA CodeUsed ==
    ASSUME TypeInv, CodeInv, NEW p \in Procs,
           At(p, Redeemers, "checked"),
           redeemed' = [redeemed EXCEPT ![job[p].code] = @ + 1],
           MoveTo(p, "stored"), UNCHANGED <<code, mailed, reusable>>
    PROVE  CodeInv'
<1> DEFINE c == job[p].code
<1>0. /\ job \in [Procs -> Job]
      /\ redeemed \in [Codes -> Nat]
      /\ c \in Codes
      /\ NoEmail \notin Emails
  BY AccountsAssumption DEF TypeInv, TypeOK, JobsSound, Knows, At
<1>1. /\ \A q \in Procs : job'[q].op = job[q].op /\ job'[q].code = job[q].code
      /\ \A q \in Procs \ {p} : job'[q] = job[q]
      /\ job'[p].at = "stored" /\ job[p].at = "checked" /\ job[p].op \in Redeemers
  BY <1>0 DEF MoveTo, Job, At
<1>2. redeemed'[c] = redeemed[c] + 1 /\ \A d \in Codes \ {c} : redeemed'[d] = redeemed[d]
  BY <1>0
<1>3. mailed[c] \in Emails /\ code[c].kind \notin {"none", "phone"}
  <2>1. HeldRight(job[p]) /\ Sent(c)
    BY <1>0 DEF CodeInv
  <2> QED
    BY <1>0, <1>1, <2>1 DEF HeldRight, Sent
<1> HIDE DEF c
<1>4. \A q \in Procs : HeldRight(job[q])'
  BY <1>1 DEF CodeInv, HeldRight
<1>5. ASSUME NEW d \in Codes PROVE Sent(d)'
  <2>1. Sent(d)
    BY DEF CodeInv
  <2> QED
    BY <1>2, <1>3, <2>1 DEF Sent
<1>6. ASSUME NEW d \in Codes PROVE MailedOnce(d)'
  <2>1. MailedOnce(d)
    BY DEF CodeInv
  <2>2. CASE d = c
    <3>1. CASE d \notin reusable
      <4>1. redeemed[c] = 0
        BY <1>1, <1>3, <2>1, <2>2, <3>1 DEF MailedOnce, c
      <4>2. job'[p].op \in Redeemers /\ job'[p].code = c
        BY <1>1 DEF c
      <4>3. \A q \in Procs : job'[q].op \in Redeemers /\ job'[q].code = c => q = p
        BY <1>1, <1>3, <2>1, <2>2, <3>1 DEF MailedOnce, c
      <4> QED
        BY <1>1, <1>2, <2>2, <4>1, <4>2, <4>3 DEF MailedOnce
    <3>2. CASE d \in reusable
      BY <3>2 DEF MailedOnce
    <3> QED
      BY <3>1, <3>2
  <2>3. CASE d # c
    <3>1. \A q \in Procs : job'[q].code = d => job'[q] = job[q] /\ q # p
      BY <1>1, <2>3 DEF c
    <3>2. \A q \in Procs : job[q].code = d => job'[q] = job[q]
      BY <1>1, <2>3 DEF c
    <3> QED
      BY <1>2, <2>1, <2>3, <3>1, <3>2 DEF MailedOnce
  <2> QED
    BY <2>2, <2>3
<1>7. ASSUME NEW d \in Codes PROVE TextedOnce(d)'
  <2>1. TextedOnce(d)
    BY DEF CodeInv
  <2>2. CASE d = c
    BY <1>0, <1>3, <2>2 DEF TextedOnce
  <2>3. CASE d # c
    <3>1. \A q \in Procs : job'[q].op = "phoneverify" => job'[q] = job[q]
      BY <1>1 DEF Redeemers
    <3> QED
      BY <1>2, <2>1, <2>3, <3>1 DEF TextedOnce
  <2> QED
    BY <2>2, <2>3
<1> QED
  BY <1>4, <1>5, <1>6, <1>7 DEF CodeInv

LEMMA CodeStep == TypeInv /\ CodeInv /\ [Next]_vars => CodeInv'
<1> SUFFICES ASSUME TypeInv, CodeInv, [Next]_vars
             PROVE  CodeInv'
  OBVIOUS
<1>0. /\ code \in [Codes -> Ucode]
      /\ job \in [Procs -> Job]
      /\ redeemed \in [Codes -> Nat]
      /\ reusable \subseteq Codes
      /\ \A p \in Procs : Knows(job[p])
      /\ NoEmail \notin Emails
  BY AccountsAssumption DEF TypeInv, TypeOK, JobsSound
<1> DEFINE KindsGo == \A c \in Codes :
                \/ code'[c].kind = code[c].kind
                \/ code'[c].kind = "deleted"
                \/ code[c].kind = "none" /\ code'[c].kind = "phone"
           Goes(p) == /\ job'[p].op \notin Holders
                      /\ \A q \in Procs \ {p} : job'[q] = job[q]
           Tidy(p) == job[p].op \in Redeemers /\ job[p].at = "stored" =>
                        \/ job[p].code \in reusable'
                        \/ code'[job[p].code].kind = "deleted"
           Rest == UNCHANGED <<mailed, redeemed>> /\ reusable \subseteq reusable'
<1>a. ASSUME NEW p \in Procs, KindsGo, Goes(p), Tidy(p), Rest PROVE CodeInv'
  BY <1>a, CodeFrame
<1>b. ASSUME KindsGo, UNCHANGED job, Rest PROVE CodeInv'
  BY <1>b, CodeFrame
<1>c. ASSUME NEW p \in Procs, Return(p) PROVE Goes(p)
  BY <1>0, <1>c DEF Return, Idle, Holders, Redeemers
<1>d. ASSUME NEW p \in Procs, NEW place, MoveTo(p, place), job[p].op \notin Holders
      PROVE  Goes(p)
  BY <1>0, <1>d DEF MoveTo, Job
<1>e. ASSUME NEW p \in Procs, NEW op, op \notin Holders, NEW u, NEW e, NEW c,
             Start(p, op, u, e, c), KindsGo, Rest
      PROVE  CodeInv'
  <2>1. Goes(p)
    BY <1>0, <1>e DEF Start
  <2>2. Tidy(p)
    BY <1>e DEF Start, Idle, Redeemers
  <2> QED
    BY <1>a, <1>e, <2>1, <2>2
<1>f. UNCHANGED code => KindsGo
  OBVIOUS
<1> HIDE DEF KindsGo, Goes, Tidy, Rest
(* Requests *)
<1>1. ASSUME NEW p \in Procs, Requests(p) PROVE CodeInv'
  <2>1. UNCHANGED <<mailed, redeemed>>
    BY <1>1, RequestsOnlyStart
  <2>2. UNCHANGED reusable => Rest
    BY <2>1 DEF Rest
  <2>3. CASE UNCHANGED <<code, reusable, job>>
    BY <1>b, <1>f, <2>2, <2>3
  <2>4. CASE \/ SignUpRoutes(p) \/ SocialRoutes(p)
             \/ \E e \in Emails : AdminCreate(p, e)
    <3>1. ASSUME NEW op \in SignUps, NEW e, SignUp(p, op, e) PROVE CodeInv'
      BY <1>e, <1>f, <2>2, <3>1
         DEF SignUp, SignUps, Holders, Redeemers, ghosts
    <3>2. ASSUME NEW u \in Users, LetIn(u) PROVE CodeInv'
      BY <2>3, <3>2 DEF LetIn, ghosts
    <3> QED
      BY <2>4, <3>1, <3>2
         DEF SignUpRoutes, SocialRoutes, Register, GoogleLogin, FacebookLogin,
             AdminCreate, SignUps, Owners
  <2>5. CASE AddressRoutes(p)
    <3>1. ASSUME NEW u \in Users, NEW op \in {"forgot", "resend"},
                 AskByAddress(p, op, u)
          PROVE  CodeInv'
      BY <1>e, <1>f, <2>2, <3>1 DEF AskByAddress, Holders, Redeemers, ghosts
    <3>2. ASSUME NEW u \in Users, NEW op \in {"reset", "verify"},
                 NEW c \in Codes, PresentCode(p, op, u, c)
          PROVE  CodeInv'
      <4>1. /\ op \in Holders /\ op # "phoneverify"
            /\ op \in Redeemers <=> op = "reset"
        BY DEF Holders, Redeemers
      <4> QED
        BY <3>2, <4>1, CodeTaken DEF PresentCode, Valid
    <3> QED
      BY <2>5, <3>1, <3>2 DEF AddressRoutes
  <2>6. CASE SessionRoutes(p)
    <3>1. ASSUME NEW u \in Users, ChangePassword(p, u) PROVE CodeInv'
      BY <1>e, <1>f, <2>2, <3>1 DEF ChangePassword, Holders, Redeemers, ghosts
    <3>2. ASSUME NEW u \in Users, NEW e \in Emails, AskMove(p, u, e)
          PROVE  CodeInv'
      BY <1>e, <1>f, <2>2, <3>2 DEF AskMove, Holders, Redeemers, ghosts
    <3>3. ASSUME NEW u \in Users, NEW e \in Emails, NEW c \in Codes,
                 PresentMove(p, u, e, c)
          PROVE  CodeInv'
      <4>1. "move" \in Holders /\ "move" \in Redeemers
        BY DEF Holders, Redeemers
      <4> QED
        BY <3>3, <4>1, CodeTaken DEF PresentMove, Valid
    <3> QED
      BY <2>6, <3>1, <3>2, <3>3 DEF SessionRoutes
  <2>7. CASE CustomerRoutes(p) \/ PhoneRoutes(p) \/ LoginRoutes
    <3>1. ASSUME NEW u \in Users, CustomerCheck(p, u) PROVE CodeInv'
      BY <1>e, <1>f, <2>2, <3>1 DEF CustomerCheck, Holders, Redeemers, ghosts
    <3>2. ASSUME NEW u \in Users, PhoneClear(p, u) PROVE CodeInv'
      <4>1. KindsGo
        BY <1>0, <3>2 DEF PhoneClear, KindsGo, Ucode
      <4> QED
        BY <1>e, <2>2, <3>2, <4>1 DEF PhoneClear, Holders, Redeemers, ghosts
    <3>3. ASSUME NEW u \in Users, NEW c \in Codes, PhoneFind(p, u, c)
          PROVE  CodeInv'
      <4>1. "phoneverify" \in Holders /\ "phoneverify" \notin Redeemers
        BY DEF Holders, Redeemers
      <4> QED
        BY <3>3, <4>1, CodeTaken DEF PhoneFind, ghosts
    <3>4. ASSUME NEW u \in Users, LetIn(u) PROVE CodeInv'
      BY <2>3, <3>4 DEF LetIn, ghosts
    <3> QED
      BY <2>7, <3>1, <3>2, <3>3, <3>4
         DEF CustomerRoutes, PhoneRoutes, LoginRoutes, Login
  <2> QED
    BY <1>1, <2>4, <2>5, <2>6, <2>7 DEF Requests
(* Handlers without a code, and those that give theirs back unused *)
<1>2. ASSUME NEW p \in Procs, Insert(p) PROVE CodeInv'
  <2>1. Rest /\ KindsGo
    BY <1>2, <1>f DEF Insert, Rest
  <2>2. Tidy(p)
    BY <1>2 DEF Insert, At, Tidy
  <2>3. Goes(p)
    <3>1. CASE Return(p)
      BY <1>c, <3>1
    <3>2. ASSUME NEW u, job' = [job EXCEPT ![p].at = "inserted", ![p].user = u]
          PROVE  Goes(p)
      BY <1>0, <1>2, <3>2
         DEF Goes, Insert, At, Job, SignUps, Holders, Redeemers
    <3> QED
      BY <1>2, <3>1, <3>2 DEF Insert
  <2> QED
    BY <1>a, <2>1, <2>2, <2>3
<1>3. ASSUME NEW p \in Procs, Bill(p) PROVE CodeInv'
  <2>1. Rest /\ KindsGo
    BY <1>3, <1>f DEF Bill, Rest, ghosts
  <2>2. job[p].op \notin Holders
    BY <1>3 DEF Bill, At, Holders, Redeemers
  <2>3. Tidy(p) /\ Goes(p)
    BY <1>3, <1>c, <1>d, <2>2 DEF Bill, Tidy, Holders
  <2> QED
    BY <1>a, <2>1, <2>3
<1>4. ASSUME NEW p \in Procs, MakeWallet(p) \/ WriteVerified(p) PROVE CodeInv'
  <2>1. Rest /\ KindsGo
    BY <1>4, <1>f DEF MakeWallet, WriteVerified, Rest, ghosts
  <2>2. Tidy(p) /\ Goes(p)
    BY <1>4, <1>c DEF MakeWallet, WriteVerified, At, Tidy
  <2> QED
    BY <1>a, <2>1, <2>2
<1>5. ASSUME NEW p \in Procs, PhoneIssue(p) PROVE CodeInv'
  <2>1. KindsGo
    <3>1. CASE UNCHANGED code
      BY <1>f, <3>1
    <3>2. ASSUME NEW c \in Codes, NEW u, code[c].kind = "none",
                 code' = [code EXCEPT ![c] = [kind |-> "phone", user |-> u,
                                              email |-> NoEmail]]
          PROVE  KindsGo
      BY <1>0, <3>2 DEF KindsGo
    <3> QED
      BY <1>5, <3>1, <3>2 DEF PhoneIssue
  <2>2. Rest /\ Tidy(p) /\ Goes(p)
    BY <1>5, <1>c DEF PhoneIssue, At, Rest, Tidy, ghosts
  <2> QED
    BY <1>a, <2>1, <2>2
<1>6. ASSUME NEW p \in Procs, Fail(p) PROVE CodeInv'
  <2>1. KindsGo /\ Goes(p)
    BY <1>6, <1>c, <1>f DEF Fail
  <2>2. Rest /\ Tidy(p)
    BY <1>6 DEF Fail, Rest, Tidy, At
  <2> QED
    BY <1>a, <2>1, <2>2
(* Handlers that make or use a code *)
<1>7. ASSUME NEW p \in Procs, SendLink(p) PROVE CodeInv'
  <2>1. job[p].op \notin Holders /\ job[p].email \in Emails
    BY <1>0, <1>7 DEF SendLink, At, Knows, Holders, Redeemers, SignUps
  <2>2. Goes(p)
    BY <1>7, <1>d, <2>1 DEF SendLink
  <2> QED
    BY <1>7, <2>1, <2>2, CodeIssued DEF SendLink, Goes
<1>8. ASSUME NEW p \in Procs, SendCode(p) PROVE CodeInv'
  <2>1. job[p].op \notin Holders /\ job[p].email \in Emails
    BY <1>0, <1>8 DEF SendCode, At, Knows, Holders, Redeemers, ByAddress,
                      Mailers
  <2>2. Goes(p)
    BY <1>8, <1>c DEF SendCode
  <2>3. CASE UNCHANGED <<code, mailed>>
    BY <1>8, <1>a, <1>f, <2>1, <2>2, <2>3 DEF SendCode, Rest, Tidy, Holders
  <2>4. ASSUME NEW u, NEW e, Issue(u, e, job[p].email) PROVE CodeInv'
    BY <1>8, <2>1, <2>2, <2>4, CodeIssued DEF SendCode, Goes
  <2> QED
    BY <1>8, <2>3, <2>4 DEF SendCode
<1>9. ASSUME NEW p \in Procs, WritePassword(p) \/ WriteAddress(p)
      PROVE  CodeInv'
  <2>1. UNCHANGED <<code, mailed, reusable>> /\ job[p].at = "checked"
    BY <1>9 DEF WritePassword, WriteAddress, At
  <2>2. CASE Return(p) /\ UNCHANGED redeemed
    <3>1. Rest /\ KindsGo /\ Tidy(p)
      BY <1>f, <2>1, <2>2 DEF Rest, Tidy
    <3> QED
      BY <1>a, <1>c, <2>2, <3>1
  <2>3. CASE /\ job[p].op \in Redeemers /\ MoveTo(p, "stored")
             /\ redeemed' = [redeemed EXCEPT ![job[p].code] = @ + 1]
    BY <2>1, <2>3, CodeUsed DEF At
  <2> QED
    BY <1>9, <2>2, <2>3 DEF WritePassword, WriteAddress, At, Redeemers
<1>10. ASSUME NEW p \in Procs, DeleteCode(p) PROVE CodeInv'
  <2>1. job[p].code \in Codes
    BY <1>0, <1>10 DEF DeleteCode, At, Knows
  <2>2. code'[job[p].code].kind = "deleted" /\ KindsGo
    BY <1>0, <1>10, <2>1 DEF DeleteCode, KindsGo, Ucode
  <2>3. Rest /\ Tidy(p) /\ Goes(p)
    BY <1>10, <1>c, <2>2 DEF DeleteCode, Rest, Tidy, ghosts
  <2> QED
    BY <1>a, <2>2, <2>3
(* Codes by text message *)
<1>11. ASSUME NEW p \in Procs, PhoneClaim(p) PROVE CodeInv'
  <2> DEFINE c == job[p].code
  <2>1. c \in Codes /\ job[p].op = "phoneverify" /\ job[p].at = "checked"
    BY <1>0, <1>11 DEF PhoneClaim, At, Knows
  <2>2. UNCHANGED <<mailed, redeemed, reusable>>
    BY <1>11 DEF PhoneClaim, ghosts
  <2>3. CASE Return(p) /\ UNCHANGED code
    BY <1>a, <1>c, <1>f, <2>1, <2>2, <2>3 DEF Rest, Tidy
  <2>4. CASE /\ code[c].kind = "phone"
             /\ code' = [code EXCEPT ![c].kind = "deleted"]
             /\ MoveTo(p, "stored")
    <3>1. mailed[c] = NoEmail /\ redeemed[c] = 0
      BY <2>1, <2>4 DEF CodeInv, Sent
    <3>2. /\ code'[c].kind = "deleted"
          /\ \A d \in Codes \ {c} : code'[d] = code[d]
      BY <1>0, <2>1, <2>4 DEF Ucode
    <3>3. /\ job'[p].op = "phoneverify" /\ job'[p].code = c
          /\ job'[p].at = "stored"
          /\ \A q \in Procs \ {p} : job'[q] = job[q]
      BY <1>0, <2>1, <2>4 DEF MoveTo, Job
    <3> HIDE DEF c
    <3>4. \A q \in Procs : HeldRight(job[q])'
      <4>1. ASSUME NEW q \in Procs PROVE HeldRight(job[q])'
        <5>1. HeldRight(job[q])
          BY DEF CodeInv
        <5>2. CASE q = p
          BY <2>1, <2>2, <3>1, <3>2, <3>3, <5>2 DEF HeldRight, Redeemers
        <5>3. CASE q # p
          <6>1. job'[q] = job[q]
            BY <3>3, <5>3
          <6>2. job[q].op = "phoneverify" => job[q].code \in Codes
            BY <1>0 DEF Knows
          <6> QED
            BY <2>2, <3>2, <5>1, <6>1, <6>2 DEF HeldRight
        <5> QED
          BY <5>2, <5>3
      <4> QED
        BY <4>1
    <3>5. ASSUME NEW d \in Codes PROVE Sent(d)' /\ MailedOnce(d)'
      <4>1. Sent(d) /\ MailedOnce(d)
        BY DEF CodeInv
      <4>2. Sent(d)'
        BY <2>2, <3>2, <4>1 DEF Sent
      <4>3. \A q \in Procs : job'[q].op \in Redeemers \/ job[q].op \in Redeemers
                                => job'[q] = job[q]
        BY <2>1, <3>3 DEF Redeemers
      <4>4. MailedOnce(d)'
        <5>1. CASE d = c
          BY <1>0, <2>2, <3>1, <5>1 DEF MailedOnce
        <5>2. CASE d # c
          BY <2>2, <3>2, <4>1, <4>3, <5>2 DEF MailedOnce
        <5> QED
          BY <5>1, <5>2
      <4> QED
        BY <4>2, <4>4
    <3>6. ASSUME NEW d \in Codes PROVE TextedOnce(d)'
      <4>1. TextedOnce(d)
        BY DEF CodeInv
      <4>2. CASE d = c
        <5>1. \A q \in Procs : /\ job'[q].op = "phoneverify"
                               /\ job'[q].code = c /\ job'[q].at = "stored"
                               => q = p
          <6>1. ASSUME NEW q \in Procs \ {p}, job[q].op = "phoneverify",
                       job[q].code = c, job[q].at = "stored"
                PROVE  FALSE
            <7>1. code[c].kind = "deleted"
              BY <3>1, <4>1, <4>2, <6>1 DEF TextedOnce
            <7> QED
              BY <2>4, <7>1
          <6> QED
            BY <3>3, <6>1
        <5> QED
          BY <2>2, <3>1, <3>2, <4>2, <5>1 DEF TextedOnce
      <4>3. CASE d # c
        <5>1. \A q \in Procs : job'[q].code = d => job'[q] = job[q]
          BY <3>3, <4>3
        <5> QED
          BY <2>2, <3>2, <4>1, <4>3, <5>1 DEF TextedOnce
      <4> QED
        BY <4>2, <4>3
    <3> QED
      BY <3>4, <3>5, <3>6 DEF CodeInv
  <2> QED
    BY <1>11, <2>3, <2>4 DEF PhoneClaim
<1>12. ASSUME NEW p \in Procs, PhoneStore(p) PROVE CodeInv'
  <2> DEFINE c == job[p].code
  <2>1. c \in Codes /\ job[p].op = "phoneverify" /\ job[p].at = "stored"
    BY <1>0, <1>12 DEF PhoneStore, At, Knows
  <2>2. UNCHANGED <<code, mailed, reusable>> /\ Return(p)
    BY <1>12 DEF PhoneStore
  <2>3. CASE UNCHANGED redeemed
    <3>1. Rest /\ KindsGo /\ Tidy(p)
      BY <1>f, <2>1, <2>2, <2>3 DEF Rest, Tidy, Redeemers
    <3> QED
      BY <1>a, <1>c, <2>2, <3>1
  <2>4. CASE redeemed' = [redeemed EXCEPT ![c] = @ + 1]
    <3>1. mailed[c] = NoEmail /\ code[c].kind = "deleted" /\ redeemed[c] = 0
      <4>1. HeldRight(job[p]) /\ TextedOnce(c)
        BY <2>1 DEF CodeInv
      <4> QED
        BY <2>1, <4>1 DEF HeldRight, TextedOnce
    <3>2. \A q \in Procs : job'[q].op \in Holders => job'[q] = job[q] /\ q # p
      BY <1>0, <2>2 DEF Return, Idle, Holders, Redeemers
    <3>3. \A q \in Procs : job[q].op \in Redeemers => job'[q] = job[q]
      BY <1>0, <2>1, <2>2 DEF Return, Redeemers
    <3>4. redeemed'[c] = 1 /\ \A d \in Codes \ {c} : redeemed'[d] = redeemed[d]
      BY <1>0, <2>1, <2>4, <3>1
    <3> HIDE DEF c
    <3>5. \A q \in Procs : HeldRight(job[q])'
      <4>1. ASSUME NEW q \in Procs PROVE HeldRight(job[q])'
        <5>1. HeldRight(job[q])
          BY DEF CodeInv
        <5> QED
          BY <2>2, <3>2, <5>1 DEF HeldRight, Holders
      <4> QED
        BY <4>1
    <3>6. ASSUME NEW d \in Codes PROVE Sent(d)' /\ MailedOnce(d)' /\ TextedOnce(d)'
      <4>1. Sent(d) /\ MailedOnce(d) /\ TextedOnce(d)
        BY DEF CodeInv
      <4>2. CASE d = c
        <5>1. Sent(d)' /\ MailedOnce(d)'
          BY <1>0, <2>2, <3>1, <4>2 DEF Sent, MailedOnce
        <5>2. \A q \in Procs : ~(/\ job'[q].op = "phoneverify"
                                 /\ job'[q].code = c
                                 /\ job'[q].at = "stored")
          <6>1. ASSUME NEW q \in Procs \ {p}, job[q].op = "phoneverify",
                       job[q].code = c, job[q].at = "stored"
                PROVE  FALSE
            BY <2>1, <3>1, <4>1, <4>2, <6>1 DEF TextedOnce, c
          <6> QED
            BY <3>2, <6>1 DEF Holders
        <5>3. TextedOnce(d)'
          BY <3>4, <4>2, <5>2 DEF TextedOnce
        <5> QED
          BY <5>1, <5>3
      <4>3. CASE d # c
        <5>1. redeemed'[d] = redeemed[d]
          BY <3>4, <4>3
        <5>2. Sent(d)' /\ MailedOnce(d)'
          BY <2>2, <3>2, <3>3, <4>1, <5>1 DEF Sent, MailedOnce, Holders
        <5>3. TextedOnce(d)'
          BY <2>2, <3>2, <4>1, <5>1 DEF TextedOnce, Holders
        <5> QED
          BY <5>2, <5>3
      <4> QED
        BY <4>2, <4>3
    <3> QED
      BY <3>5, <3>6 DEF CodeInv
  <2> QED
    BY <1>12, <2>3, <2>4 DEF PhoneStore
(* The rest *)
<1>13. ASSUME \/ SweepSelect \/ SweepFails \/ LoginRoutes
              \/ \E u \in Users : \/ UpdateBlockedStatus(u) \/ GrowOld(u) \/ Pin(u)
                                  \/ \E on \in BOOLEAN : SetTwoFactor(u, on)
              \/ \E u \in Users, e \in Emails \cup {NoEmail},
                    password \in BOOLEAN : AdminUpdate(u, e, password)
       PROVE  CodeInv'
  <2>1. UNCHANGED <<code, job, mailed, redeemed, reusable>>
    BY <1>13 DEF SweepSelect, SweepFails, LoginRoutes, Login, LetIn,
                 UpdateBlockedStatus, GrowOld, Pin, SetTwoFactor, AdminUpdate,
                 ghosts
  <2> QED
    BY <1>b, <1>f, <2>1 DEF Rest
<1>14. ASSUME NEW u \in Users, SweepDelete(u) PROVE CodeInv'
  <2>1. UNCHANGED <<job, mailed, redeemed, reusable>>
    BY <1>14 DEF SweepDelete
  <2>2. KindsGo
    BY <1>0, <1>14 DEF SweepDelete, KindsGo, Ucode
  <2> QED
    BY <1>b, <2>1, <2>2 DEF Rest
<1>15. CASE UNCHANGED vars
  BY <1>b, <1>f, <1>15 DEF vars, ghosts, Rest
<1> QED
  BY <1>1, <1>2, <1>3, <1>4, <1>5, <1>6, <1>7, <1>8, <1>9, <1>10, <1>11, <1>12,
     <1>13, <1>14, <1>15, StepCases DEF Minor

LEMMA CodeInit == Init => CodeInv
<1> SUFFICES ASSUME Init PROVE CodeInv
  OBVIOUS
<1>1. \A c \in Codes : /\ code[c].kind = "none" /\ mailed[c] = NoEmail
                       /\ redeemed[c] = 0
  BY DEF Init
<1>2. \A p \in Procs : job[p].op = "none"
  BY DEF Init, Idle
<1> QED
  BY <1>1, <1>2, AccountsAssumption
     DEF CodeInv, Sent, MailedOnce, TextedOnce, HeldRight, Redeemers

(* resetPassword and changeEmail delete their code after the write it      *)
(* guards: one is used twice only when two handlers held it or one stopped *)
(* in between.  verifyPhoneNumber deletes it before, and cannot.           *)
THEOREM CodesHold == Spec => []CodesWorkOnce
<1>1. TypeInv /\ CodeInv => CodesWorkOnce
  <2> SUFFICES ASSUME TypeInv, CodeInv, NEW c \in Codes, redeemed[c] > 1
               PROVE  c \in reusable /\ mailed[c] \in Emails
    BY DEF CodesWorkOnce
  <2>1. redeemed[c] \in Nat /\ mailed[c] \in Emails \cup {NoEmail}
    BY DEF TypeInv, TypeOK
  <2> QED
    BY <2>1 DEF CodeInv, MailedOnce, TextedOnce
<1> QED
  BY <1>1, CodeInit, CodeStep, TypesHold, PTL DEF Spec


-----------------------------------------------------------------------------
(* Addresses *)

(* What a handler that goes by an address relies on, as long as no address *)
(* changes hands under it.                                                 *)
Relies(j) ==
    /\ j.op \in {"forgot", "resend", "reset", "verify", "change"} =>
            Exists(j.user) /\ user[j.user].email = j.email
    /\ j.op \in Redeemers \cup {"verify"} => mailed[j.code] = j.email

AddrInv ==
    /\ \A u, v \in Users :
            Exists(u) /\ Exists(v) /\ user[u].email = user[v].email => u = v
    /\ AddressedRight
    /\ VerifiedAddressesProven
    /\ ~moved => \A p \in Procs : Relies(job[p])

(* Rows that do not change who they are, and handlers that rely on no more *)
(* than before.                                                            *)
LEMMA AddrFrame ==
    ASSUME TypeInv, CodeInv, AddrInv, ~moved' => ~moved /\ UNCHANGED stray,
           \A u \in Users : /\ user'[u].state = user[u].state
                            /\ user'[u].email = user[u].email
                            /\ user'[u].verified = user[u].verified,
           UNCHANGED <<mailed, proven>>,
           \A c \in Codes : code'[c].kind = "email" =>
                code[c].kind = "email" /\ code'[c].email = code[c].email,
           \A p \in Procs :
                \/ job'[p] = job[p]
                \/ job'[p].op \notin ByAddress
                \/ /\ job'[p].op = job[p].op /\ job'[p].user = job[p].user
                   /\ job'[p].email = job[p].email /\ job'[p].code = job[p].code
                \/ ~moved => Relies(job'[p])
    PROVE  AddrInv'
<1>1. \A u \in Users : Exists(u)' <=> Exists(u)
  BY DEF Exists
<1>2. AddressedRight' /\ VerifiedAddressesProven'
  BY <1>1 DEF AddrInv, AddressedRight, VerifiedAddressesProven
<1>3. ASSUME ~moved', NEW p \in Procs PROVE Relies(job[p])'
  <2>1. ~moved /\ Relies(job[p])
    BY <1>3 DEF AddrInv
  <2>2. CASE job'[p].op \notin ByAddress
    BY <2>2 DEF Relies, ByAddress, Mailers, Redeemers
  <2>3. CASE job'[p] = job[p]
    BY <2>1, <2>3 DEF Relies, Exists
  <2>4. CASE /\ job'[p].op = job[p].op /\ job'[p].user = job[p].user
             /\ job'[p].email = job[p].email /\ job'[p].code = job[p].code
    BY <2>1, <2>4 DEF Relies, Exists
  <2>5. CASE Relies(job'[p])
    BY <2>5 DEF Relies, Exists
  <2> QED
    BY <2>1, <2>2, <2>3, <2>4, <2>5
<1>4. \A u, v \in Users :
            Exists(u)' /\ Exists(v)' /\ user'[u].email = user'[v].email => u = v
  BY <1>1 DEF AddrInv
<1> QED
  BY <1>2, <1>3, <1>4 DEF AddrInv

(* A code is mailed to the address it is stored for.                       *)
LEMMA AddrIssued ==
    ASSUME TypeInv, CodeInv, AddrInv, NEW p \in Procs, NEW u,
           NEW e, NEW to, ~moved => e = to,
           Issue(u, e, to), UNCHANGED <<user, proven, moved, stray>>,
           \A q \in Procs \ {p} : job'[q] = job[q],
           job'[p].op \notin ByAddress
    PROVE  AddrInv'
<1>0. /\ code \in [Codes -> Ucode]
      /\ mailed \in [Codes -> Emails \cup {NoEmail}]
      /\ \A q \in Procs : Knows(job[q])
      /\ NoEmail \notin Emails
  BY AccountsAssumption DEF TypeInv, TypeOK, JobsSound
<1>1. PICK c \in Codes :
            /\ code[c].kind = "none" /\ code'[c].email = e /\ mailed'[c] = to
            /\ \A d \in Codes \ {c} : /\ code'[d] = code[d]
                                      /\ mailed'[d] = mailed[d]
  BY <1>0 DEF Issue
<1>2. \A u1 \in Users : Exists(u1)' <=> Exists(u1)
  BY DEF Exists
<1>3. VerifiedAddressesProven' /\ AddressedRight'
  BY <1>1, <1>2 DEF AddrInv, AddressedRight, VerifiedAddressesProven
<1>4. ASSUME ~moved', NEW q \in Procs PROVE Relies(job[q])'
  <2>1. CASE q = p
    BY <2>1 DEF Relies, ByAddress, Mailers, Redeemers
  <2>2. CASE q # p
    <3>1. Relies(job[q]) /\ job'[q] = job[q] /\ HeldRight(job[q])
      BY <1>4, <2>2 DEF AddrInv, CodeInv
    <3>2. job[q].op \in Redeemers \cup {"verify"} => job[q].code \in Codes \ {c}
      <4>1. Sent(c)
        BY DEF CodeInv
      <4> QED
        BY <1>0, <1>1, <3>1, <4>1 DEF Knows, HeldRight, Sent
    <3> QED
      BY <1>1, <3>1, <3>2 DEF Relies, Exists
  <2> QED
    BY <2>1, <2>2
<1>5. \A v, w \in Users :
            Exists(v)' /\ Exists(w)' /\ user'[v].email = user'[w].email => v = w
  BY <1>2 DEF AddrInv
<1> QED
  BY <1>3, <1>4, <1>5 DEF AddrInv

(* A row takes an address that is free, or goes, and the handlers that had *)
(* looked it up are noted.  A verified row has proven what it takes.       *)
LEMMA AddrMoved ==
    ASSUME TypeInv, CodeInv, AddrInv, NEW p, NEW u \in Users, NEW r,
           user' = [user EXCEPT ![u] = r],
           r.state = "member" => Owners(r.email) \subseteq {u},
           ~moved' => /\ ~moved /\ UNCHANGED stray
                      /\ \A q \in Procs \ {p} :
                            job[q].op \in ByAddress => job[q].user # u
                      /\ r.state = "member" /\ r.verified =>
                            r.email \in proven'[u],
           \A v \in Users \ {u} : proven'[v] = proven[v],
           UNCHANGED mailed,
           \A c \in Codes : code'[c].kind = "email" =>
                code[c].kind = "email" /\ code'[c].email = code[c].email,
           \A q \in Procs \ {p} : job'[q] = job[q],
           p \in Procs => \/ job'[p].op \notin ByAddress
                          \/ /\ job'[p].op = "move" /\ job[p].op = "move"
                             /\ job'[p].email = job[p].email
                             /\ job'[p].code = job[p].code
    PROVE  AddrInv'
<1>0. user \in [Users -> Row]
  BY DEF TypeInv, TypeOK
<1>1. user'[u] = r /\ \A v \in Users \ {u} : user'[v] = user[v]
  BY <1>0
<1>2. \A v, w \in Users :
            Exists(v)' /\ Exists(w)' /\ user'[v].email = user'[w].email => v = w
  <2>1. ASSUME NEW v \in Users, NEW w \in Users, Exists(v)', Exists(w)',
               user'[v].email = user'[w].email, v # w
        PROVE  FALSE
    <3>1. CASE v = u
      BY <1>1, <2>1, <3>1 DEF Exists, Owners
    <3>2. CASE w = u
      BY <1>1, <2>1, <3>2 DEF Exists, Owners
    <3>3. CASE v # u /\ w # u
      BY <1>1, <2>1, <3>3 DEF Exists, AddrInv
    <3> QED
      BY <3>1, <3>2, <3>3
  <2> QED
    BY <2>1
<1>3. AddressedRight'
  BY DEF AddrInv, AddressedRight
<1>4. VerifiedAddressesProven'
  BY <1>1 DEF AddrInv, VerifiedAddressesProven, Exists
<1>5. ASSUME ~moved', NEW q \in Procs PROVE Relies(job[q])'
  <2>1. Relies(job[q])
    BY <1>5 DEF AddrInv
  <2>2. CASE q # p
    BY <1>1, <1>5, <2>1, <2>2
       DEF Relies, Exists, ByAddress, Mailers, Redeemers
  <2>3. CASE q = p
    BY <2>1, <2>3 DEF Relies, ByAddress, Mailers, Redeemers
  <2> QED
    BY <2>2, <2>3
<1> QED
  BY <1>2, <1>3, <1>4, <1>5 DEF AddrInv

LEMMA AddrStep == TypeInv /\ CodeInv /\ AddrInv /\ [Next]_vars => AddrInv'
<1> SUFFICES ASSUME TypeInv, CodeInv, AddrInv, [Next]_vars
             PROVE  AddrInv'
  OBVIOUS
<1>0. /\ user \in [Users -> Row]
      /\ code \in [Codes -> Ucode]
      /\ job \in [Procs -> Job]
      /\ proven \in [Users -> SUBSET Emails]
      /\ MembersAddressed
      /\ \A p \in Procs : Knows(job[p])
  BY DEF TypeInv, TypeOK, JobsSound
<1> DEFINE Lapses == \A c \in Codes : code'[c].kind = "email" =>
                        code[c].kind = "email" /\ code'[c].email = code[c].email
           Goes(p) == /\ \A q \in Procs \ {p} : job'[q] = job[q]
                      /\ \/ job'[p].op \notin ByAddress
                         \/ /\ job'[p].op = job[p].op
                            /\ job'[p].user = job[p].user
                            /\ job'[p].email = job[p].email
                            /\ job'[p].code = job[p].code
                         \/ ~moved => Relies(job'[p])
           Same == /\ \A u \in Users : /\ user'[u].state = user[u].state
                                       /\ user'[u].email = user[u].email
                                       /\ user'[u].verified = user[u].verified
                   /\ UNCHANGED <<mailed, proven, moved, stray>>
<1>a. ASSUME NEW p \in Procs, Lapses, Goes(p), Same PROVE AddrInv'
  BY <1>a, AddrFrame
<1>b. ASSUME UNCHANGED <<code, job>>, Same PROVE AddrInv'
  BY <1>b, AddrFrame
<1>c. ASSUME NEW p \in Procs, Return(p)
      PROVE  Goes(p) /\ job'[p].op \notin ByAddress
  BY <1>0, <1>c DEF Return, Idle, ByAddress, Mailers, Redeemers
<1>d. ASSUME NEW p \in Procs, NEW place, MoveTo(p, place) PROVE Goes(p)
  BY <1>0, <1>d DEF MoveTo, Job
<1>e. UNCHANGED code => Lapses
  OBVIOUS
<1>f. UNCHANGED <<user, mailed, proven, moved, stray>> => Same
  OBVIOUS
<1>g. ASSUME NEW p \in Procs, NEW op, NEW u, NEW e, NEW c,
             Start(p, op, u, e, c),
             \/ op \notin ByAddress
             \/ ~moved => Relies([op |-> op, at |-> "checked", user |-> u,
                                  email |-> e, code |-> c])
      PROVE  Goes(p)
  <2> DEFINE j == [op |-> op, at |-> "checked", user |-> u, email |-> e,
                   code |-> c]
  <2>1. job' = [job EXCEPT ![p] = j] /\ j.op = op
    BY <1>g DEF Start
  <2>2. j.op \notin ByAddress \/ (~moved => Relies(j))
    BY <1>g
  <2> HIDE DEF j
  <2> QED
    BY <1>0, <2>1, <2>2
<1> HIDE DEF Lapses, Goes, Same
(* Requests *)
<1>1. ASSUME NEW p \in Procs, Requests(p) PROVE AddrInv'
  <2>1. Same
    BY <1>1, <1>f, RequestsOnlyStart
  <2>2. ASSUME UNCHANGED <<code, job>> PROVE AddrInv'
    BY <1>b, <2>1, <2>2
  <2>3. ASSUME NEW op, NEW u, NEW e, NEW c, Lapses,
               Start(p, op, u, e, c),
               \/ op \notin ByAddress
               \/ ~moved => Relies([op |-> op, at |-> "checked", user |-> u,
                                    email |-> e, code |-> c])
        PROVE  AddrInv'
    BY <1>a, <1>g, <2>1, <2>3
  <2>4. ASSUME NEW u \in Users, LetIn(u) PROVE AddrInv'
    BY <2>2, <2>4 DEF LetIn
  <2>5. CASE \/ SignUpRoutes(p) \/ SocialRoutes(p)
             \/ \E e \in Emails : AdminCreate(p, e)
    <3>1. ASSUME NEW op \in SignUps, NEW e, SignUp(p, op, e) PROVE AddrInv'
      <4>1. op \notin ByAddress
        BY DEF SignUps, ByAddress, Mailers, Redeemers
      <4> QED
        BY <1>e, <2>3, <3>1, <4>1 DEF SignUp
    <3> QED
      BY <2>4, <2>5, <3>1
         DEF SignUpRoutes, SocialRoutes, Register, GoogleLogin, FacebookLogin,
             AdminCreate, SignUps, Owners
  <2>6. CASE AddressRoutes(p)
    <3>1. ASSUME NEW u \in Users, NEW op \in {"forgot", "resend"},
                 AskByAddress(p, op, u)
          PROVE  AddrInv'
      <4>1. Relies([op |-> op, at |-> "checked", user |-> u,
                    email |-> user[u].email, code |-> NoCode])
        BY <3>1 DEF AskByAddress, Relies, Redeemers
      <4> QED
        BY <1>e, <2>3, <3>1, <4>1 DEF AskByAddress
    <3>2. ASSUME NEW u \in Users, NEW op \in {"reset", "verify"},
                 NEW c \in Codes, PresentCode(p, op, u, c)
          PROVE  AddrInv'
      <4>1. ~moved => Relies([op |-> op, at |-> "checked", user |-> u,
                              email |-> user[u].email, code |-> c])
        BY <3>2 DEF PresentCode, Valid, AddrInv, AddressedRight, Relies
      <4> QED
        BY <1>e, <2>3, <3>2, <4>1 DEF PresentCode
    <3> QED
      BY <2>6, <3>1, <3>2 DEF AddressRoutes
  <2>7. CASE SessionRoutes(p)
    <3>1. ASSUME NEW u \in Users, ChangePassword(p, u) PROVE AddrInv'
      <4>1. Relies([op |-> "change", at |-> "checked", user |-> u,
                    email |-> user[u].email, code |-> NoCode])
        BY <3>1 DEF ChangePassword, Relies, Redeemers
      <4> QED
        BY <1>e, <2>3, <3>1, <4>1 DEF ChangePassword
    <3>2. ASSUME NEW u \in Users, NEW e \in Emails, AskMove(p, u, e)
          PROVE  AddrInv'
      <4>1. Relies([op |-> "address", at |-> "checked", user |-> u,
                    email |-> e, code |-> NoCode])
        BY DEF Relies, Redeemers
      <4> QED
        BY <1>e, <2>3, <3>2, <4>1 DEF AskMove
    <3>3. ASSUME NEW u \in Users, NEW e \in Emails, NEW c \in Codes,
                 PresentMove(p, u, e, c)
          PROVE  AddrInv'
      <4>1. ~moved => Relies([op |-> "move", at |-> "checked", user |-> u,
                              email |-> e, code |-> c])
        BY <3>3 DEF PresentMove, Valid, AddrInv, AddressedRight, Relies
      <4> QED
        BY <1>e, <2>3, <3>3, <4>1 DEF PresentMove
    <3> QED
      BY <2>7, <3>1, <3>2, <3>3 DEF SessionRoutes
  <2>8. CASE CustomerRoutes(p) \/ PhoneRoutes(p) \/ LoginRoutes
    <3>1. /\ "customer" \notin ByAddress /\ "phonesend" \notin ByAddress
          /\ "phoneverify" \notin ByAddress
      BY DEF ByAddress, Mailers, Redeemers
    <3>2. ASSUME NEW u \in Users, CustomerCheck(p, u) PROVE AddrInv'
      BY <1>e, <2>3, <3>1, <3>2 DEF CustomerCheck
    <3>3. ASSUME NEW u \in Users, PhoneClear(p, u) PROVE AddrInv'
      <4>1. Lapses
        BY <1>0, <3>3 DEF PhoneClear, Lapses, Ucode
      <4> QED
        BY <2>3, <3>1, <3>3, <4>1 DEF PhoneClear
    <3>4. ASSUME NEW u \in Users, NEW c \in Codes, PhoneFind(p, u, c)
          PROVE  AddrInv'
      BY <1>e, <2>3, <3>1, <3>4 DEF PhoneFind
    <3> QED
      BY <2>4, <2>8, <3>2, <3>3, <3>4
         DEF CustomerRoutes, PhoneRoutes, LoginRoutes, Login
  <2> QED
    BY <1>1, <2>5, <2>6, <2>7, <2>8 DEF Requests
(* Steps that change no address and prove none *)
<1>2. ASSUME NEW p \in Procs, Bill(p) PROVE AddrInv'
  <2>1. Same
    BY <1>0, <1>2 DEF Bill, Same, Row, ghosts
  <2>2. Goes(p) /\ Lapses
    BY <1>2, <1>c, <1>d, <1>e DEF Bill
  <2> QED
    BY <1>a, <2>1, <2>2
<1>3. ASSUME NEW p \in Procs, MakeWallet(p) \/ Fail(p) PROVE AddrInv'
  <2>1. Same /\ Goes(p) /\ Lapses
    BY <1>3, <1>c, <1>e, <1>f DEF MakeWallet, Fail, ghosts
  <2> QED
    BY <1>a, <2>1
<1>4. ASSUME NEW p \in Procs, DeleteCode(p) \/ PhoneIssue(p) \/ PhoneClaim(p)
      PROVE  AddrInv'
  <2>1. Same
    BY <1>4, <1>f DEF DeleteCode, PhoneIssue, PhoneClaim, ghosts
  <2>2. Goes(p)
    BY <1>4, <1>c, <1>d DEF DeleteCode, PhoneIssue, PhoneClaim
  <2>3. Lapses
    <3>1. CASE UNCHANGED code
      BY <1>e, <3>1
    <3>2. ASSUME NEW c \in Codes,
                 \/ code' = [code EXCEPT ![c].kind = "deleted"]
                 \/ \E u : code' = [code EXCEPT ![c] =
                        [kind |-> "phone", user |-> u, email |-> NoEmail]]
          PROVE  Lapses
      BY <1>0, <3>2 DEF Lapses, Ucode
    <3>3. job[p].op \in Redeemers \cup {"phoneverify"} => job[p].code \in Codes
      BY <1>0 DEF Knows
    <3> QED
      BY <1>4, <3>1, <3>2, <3>3 DEF DeleteCode, PhoneIssue, PhoneClaim, At
  <2> QED
    BY <1>a, <2>1, <2>2, <2>3
<1>5. ASSUME NEW p \in Procs, PhoneStore(p) PROVE AddrInv'
  <2>1. Same
    BY <1>5, MinorKeeps DEF Minor, SameRow, Same, PhoneStore
  <2> QED
    BY <1>5, <1>a, <1>c, <1>e, <2>1 DEF PhoneStore
<1>6. ASSUME \/ SweepSelect \/ SweepFails \/ LoginRoutes PROVE AddrInv'
  BY <1>6, <1>b, <1>f DEF SweepSelect, SweepFails, LoginRoutes, Login, LetIn,
                          ghosts
<1>7. ASSUME NEW u \in Users, \/ UpdateBlockedStatus(u) \/ GrowOld(u) \/ Pin(u)
                              \/ \E on \in BOOLEAN : SetTwoFactor(u, on)
      PROVE  AddrInv'
  <2>1. UNCHANGED <<code, job, stray>>
    BY <1>7 DEF UpdateBlockedStatus, GrowOld, Pin, SetTwoFactor, ghosts
  <2>2. Same
    BY <1>7, <2>1, MinorKeeps DEF Minor, SameRow, Same
  <2> QED
    BY <1>b, <2>1, <2>2
(* Codes on their way *)
<1>8. ASSUME NEW p \in Procs, SendLink(p) PROVE AddrInv'
  <2>1. job'[p].op \notin ByAddress /\ \A q \in Procs \ {p} : job'[q] = job[q]
    BY <1>0, <1>8
       DEF SendLink, MoveTo, At, Job, ByAddress, Mailers, Redeemers
  <2> QED
    BY <1>8, <2>1, AddrIssued DEF SendLink
<1>9. ASSUME NEW p \in Procs, SendCode(p) PROVE AddrInv'
  <2> DEFINE u == job[p].user
             e == IF job[p].op = "address" THEN job[p].email ELSE user[u].email
  <2>1. /\ job'[p].op \notin ByAddress
        /\ \A q \in Procs \ {p} : job'[q] = job[q]
    BY <1>0, <1>9 DEF SendCode, Return, Idle, ByAddress, Mailers, Redeemers
  <2>2. CASE UNCHANGED <<code, mailed>>
    BY <1>9, <1>a, <1>c, <1>e, <1>f, <2>2 DEF SendCode
  <2>3. CASE Issue(u, e, job[p].email)
    <3>1. ~moved => e = job[p].email
      BY <1>9 DEF SendCode, At, Mailers, AddrInv, Relies
    <3> HIDE DEF e
    <3> QED
      BY <1>9, <2>1, <2>3, <3>1, AddrIssued DEF SendCode
  <2> QED
    BY <1>9, <2>2, <2>3 DEF SendCode
(* Passwords and marks *)
<1>10. ASSUME NEW p \in Procs, WritePassword(p) PROVE AddrInv'
  <2>1. \A u \in Users : SameRow(u)
    BY <1>10, MinorKeeps DEF Minor
  <2>2. UNCHANGED <<mailed, proven, moved>>
    BY <1>10 DEF WritePassword
  <2>3. ~moved => UNCHANGED stray
    <3>1. ASSUME ~moved, NEW u \in Owners(job[p].email) PROVE u = job[p].user
      <4>1. /\ Exists(job[p].user)
            /\ user[job[p].user].email = job[p].email
        BY <1>10, <3>1 DEF WritePassword, At, AddrInv, Relies
      <4> QED
        BY <3>1, <4>1 DEF Owners, Exists, AddrInv
    <3>2. stray \in BOOLEAN
      BY DEF TypeInv, TypeOK
    <3> QED
      BY <1>10, <3>1, <3>2 DEF WritePassword
  <2>4. Goes(p) /\ Lapses
    BY <1>10, <1>c, <1>d, <1>e DEF WritePassword
  <2> QED
    BY <2>1, <2>2, <2>3, <2>4, AddrFrame DEF SameRow, Goes, Lapses
<1>11. ASSUME NEW p \in Procs, WriteVerified(p) PROVE AddrInv'
  <2> DEFINE u == job[p].user
  <2>1. UNCHANGED <<code, mailed, moved, stray>> /\ Goes(p)
    BY <1>11, <1>c DEF WriteVerified
  <2>2. CASE UNCHANGED <<user, proven>>
    BY <1>a, <1>e, <1>f, <2>1, <2>2
  <2>3. CASE /\ Exists(u)
             /\ user' = [user EXCEPT ![u].verified = TRUE]
             /\ proven' = [proven EXCEPT ![u] =
                                @ \cup ({mailed[job[p].code]} \cap Emails)]
    <3>1. u \in Users /\ Owners(user[u].email) \subseteq {u}
      BY <2>3 DEF Exists, Owners, AddrInv
    <3>2. ~moved => user[u].email \in proven'[u]
      <4>1. ~moved => mailed[job[p].code] = user[u].email
        BY <1>11 DEF WriteVerified, At, AddrInv, Relies
      <4>2. user[u].email \in Emails
        BY <1>0, <2>3 DEF Exists, MembersAddressed
      <4> QED
        BY <1>0, <2>3, <3>1, <4>1, <4>2
    <3>3. /\ \A v \in Users : /\ Exists(v)' <=> Exists(v)
                              /\ user'[v].email = user[v].email
          /\ \A v \in Users \ {u} : /\ user'[v] = user[v]
                                    /\ proven'[v] = proven[v]
      BY <1>0, <2>3, <3>1 DEF Exists, Row
    <3> HIDE DEF u
    <3>4. VerifiedAddressesProven'
      BY <2>1, <3>2, <3>3 DEF VerifiedAddressesProven, AddrInv
    <3>5. AddressedRight'
      BY <2>1 DEF AddressedRight, AddrInv
    <3>6. ASSUME ~moved', NEW q \in Procs PROVE Relies(job[q])'
      <4>1. Relies(job[q]) /\ ~moved
        BY <2>1, <3>6 DEF AddrInv
      <4>2. CASE q = p
        BY <1>11, <1>c, <4>2 DEF WriteVerified, Relies, ByAddress, Mailers,
                                 Redeemers
      <4>3. CASE q # p
        BY <2>1, <3>3, <4>1, <4>3 DEF Goes, Relies, Exists
      <4> QED
        BY <4>2, <4>3
    <3>7. \A v, w \in Users :
            Exists(v)' /\ Exists(w)' /\ user'[v].email = user'[w].email => v = w
      BY <3>3 DEF AddrInv
    <3> QED
      BY <3>4, <3>5, <3>6, <3>7 DEF AddrInv
  <2> QED
    BY <1>11, <2>2, <2>3 DEF WriteVerified
(* Rows that come, move and go *)
<1>12. ASSUME NEW p \in Procs, Insert(p) PROVE AddrInv'
  <2> DEFINE op == job[p].op
             e == job[p].email
             r == NewRow(op, e)
  <2>1. UNCHANGED <<code, mailed, stray>>
    BY <1>12 DEF Insert
  <2>2. CASE Return(p) /\ UNCHANGED <<user, proven, moved>>
    BY <1>a, <1>c, <1>e, <1>f, <2>1, <2>2
  <2>3. ASSUME Free(e), NEW u \in Users, user[u].state = "none",
               user' = [user EXCEPT ![u] = r],
               proven' = [proven EXCEPT ![u] =
                                IF op = "google" THEN {e} ELSE {}],
               NoteMove(Procs \ {p}, u, NoEmail, e),
               \/ Return(p)
               \/ job' = [job EXCEPT ![p].at = "inserted", ![p].user = u]
        PROVE  AddrInv'
    <3>1. r.email = e /\ (r.verified => op = "google")
      BY DEF NewRow, NoRow
    <3>2. /\ \A q \in Procs \ {p} : job'[q] = job[q]
          /\ job'[p].op \notin ByAddress
      <4>1. CASE Return(p)
        BY <1>0, <1>c, <4>1 DEF Return
      <4>2. CASE job' = [job EXCEPT ![p].at = "inserted", ![p].user = u]
        BY <1>0, <1>12, <4>2, ZenonT(60)
           DEF Insert, At, Job, SignUps, ByAddress, Mailers, Redeemers
      <4> QED
        BY <2>3, <4>1, <4>2
    <3>3. ~moved' => /\ ~moved
                     /\ \A q \in Procs \ {p} :
                            job[q].op \in ByAddress => job[q].user # u
      BY <2>3 DEF NoteMove
    <3>4. r.verified => e \in proven'[u]
      BY <1>0, <2>3, <3>1
    <3>5. \A v \in Users \ {u} : proven'[v] = proven[v]
      BY <1>0, <2>3
    <3> HIDE DEF r
    <3> QED
      BY <2>1, <2>3, <3>1, <3>2, <3>3, <3>4, <3>5, AddrMoved, ZenonT(60) DEF Free
  <2> QED
    BY <1>12, <2>2, <2>3 DEF Insert
<1>13. ASSUME NEW p \in Procs, WriteAddress(p) PROVE AddrInv'
  <2> DEFINE u == job[p].user
             e == job[p].email
             c == job[p].code
             r == [user[u] EXCEPT !.email = e]
  <2>1. UNCHANGED <<code, mailed, stray>>
    BY <1>13 DEF WriteAddress
  <2>2. CASE Return(p) /\ UNCHANGED <<user, proven, moved>>
    BY <1>a, <1>c, <1>e, <1>f, <2>1, <2>2
  <2>3. CASE /\ Exists(u) /\ Owners(e) \subseteq {u}
             /\ user' = [user EXCEPT ![u].email = e]
             /\ proven' = [proven EXCEPT ![u] = @ \cup ({mailed[c]} \cap Emails)]
             /\ NoteMove(Procs \ {p}, u, user[u].email, e)
             /\ MoveTo(p, "stored")
    <3>1. u \in Users /\ e \in Emails /\ job[p].op = "move"
      BY <1>0, <1>13, <2>3 DEF WriteAddress, At, Knows, ByAddress, Redeemers,
                               Exists
    <3>2. user' = [user EXCEPT ![u] = r] /\ r.email = e
      BY <1>0, <2>3, <3>1 DEF Row
    <3>3. /\ \A q \in Procs \ {p} : job'[q] = job[q]
          /\ job'[p].op = "move" /\ job'[p].email = e /\ job'[p].code = c
      BY <1>0, <2>3, <3>1 DEF MoveTo, Job
    <3>4. ~moved' => /\ ~moved
                     /\ \A q \in Procs \ {p} :
                            job[q].op \in ByAddress => job[q].user # u
      BY <2>3 DEF NoteMove
    <3>5. ~moved => e \in proven'[u]
      <4>1. ~moved => mailed[c] = e
        BY <3>1 DEF AddrInv, Relies, Redeemers
      <4> QED
        BY <1>0, <2>3, <3>1, <4>1
    <3>6. \A v \in Users \ {u} : proven'[v] = proven[v]
      BY <1>0, <2>3
    <3>7. /\ Owners(r.email) \subseteq {u}
          /\ job'[p].email = job[p].email /\ job'[p].code = job[p].code
      BY <2>3, <3>2, <3>3
    <3> HIDE DEF u, e, c, r
    <3> QED
      BY <2>1, <3>1, <3>2, <3>3, <3>4, <3>5, <3>6, <3>7, AddrMoved
  <2> QED
    BY <1>13, <2>2, <2>3 DEF WriteAddress
<1>14. ASSUME NEW u \in Users, NEW e \in Emails \cup {NoEmail},
              NEW password \in BOOLEAN, AdminUpdate(u, e, password)
       PROVE  AddrInv'
  <2>1. UNCHANGED <<code, job, mailed, stray>>
    BY <1>14 DEF AdminUpdate
  <2>2. CASE e = NoEmail
    <3>1. {e} \cap Emails = {}
      BY <2>2, AccountsAssumption
    <3>2. Same
      BY <1>0, <1>14, <2>1, <2>2, <3>1 DEF AdminUpdate, Same, Row
    <3> QED
      BY <1>b, <2>1, <3>2
  <2>3. CASE e # NoEmail
    <3> DEFINE r == user'[u]
    <3>1. /\ user' = [user EXCEPT ![u] = r] /\ r.email = e
          /\ \A v \in Users \ {u} : proven'[v] = proven[v]
          /\ e \in proven'[u]
      BY <1>0, <1>14, <2>3 DEF AdminUpdate, Row
    <3>2. Owners(e) \subseteq {u}
      BY <1>14, <2>3 DEF AdminUpdate, Free
    <3>3. ~moved' => /\ ~moved
                     /\ \A q \in Procs : job[q].op \in ByAddress =>
                                                job[q].user # u
      BY <1>14, <2>3 DEF AdminUpdate, NoteMove
    <3>4. PICK p : p \notin Procs
      BY NoSetContainsEverything
    <3> HIDE DEF r
    <3> QED
      BY <2>1, <3>1, <3>2, <3>3, <3>4, AddrMoved
  <2> QED
    BY <2>2, <2>3
<1>15. ASSUME NEW u \in Users, SweepDelete(u) PROVE AddrInv'
  <2>1. UNCHANGED <<job, mailed, proven, stray>>
    BY <1>15 DEF SweepDelete
  <2>2. CASE UNCHANGED <<user, code, moved>>
    BY <1>b, <1>f, <2>1, <2>2
  <2>3. CASE /\ user' = [user EXCEPT ![u] = [NoRow EXCEPT !.state = "gone",
                                                !.verified = user[u].verified]]
             /\ code' = [c \in Codes |-> IF code[c].user = u
                                            THEN [code[c] EXCEPT !.user = NoUser]
                                            ELSE code[c]]
             /\ NoteMove(Procs, u, user[u].email, NoEmail)
    <3> DEFINE r == [NoRow EXCEPT !.state = "gone",
                                  !.verified = user[u].verified]
    <3>1. user' = [user EXCEPT ![u] = r] /\ r.state = "gone"
      BY <2>3 DEF NoRow
    <3>2. ~moved' => /\ ~moved
                     /\ \A q \in Procs : job[q].op \in ByAddress =>
                                                job[q].user # u
      BY <2>3 DEF NoteMove
    <3>3. Lapses
      BY <1>0, <2>3 DEF Lapses, Ucode
    <3>4. PICK p : p \notin Procs
      BY NoSetContainsEverything
    <3> HIDE DEF r
    <3> QED
      BY <2>1, <3>1, <3>2, <3>3, <3>4, AddrMoved DEF Lapses
  <2> QED
    BY <1>15, <2>2, <2>3 DEF SweepDelete
<1>16. CASE UNCHANGED vars
  BY <1>b, <1>f, <1>16 DEF vars, ghosts
<1> QED
  BY <1>1, <1>2, <1>3, <1>4, <1>5, <1>6, <1>7, <1>8, <1>9, <1>10, <1>11,
     <1>12, <1>13, <1>14, <1>15, <1>16, StepCases DEF Minor

LEMMA AddrInit == Init => AddrInv
<1> SUFFICES ASSUME Init PROVE AddrInv
  OBVIOUS
<1>1. \A u \in Users : Exists(u) =>
            /\ user[u].email \in proven[u]
            /\ \A v \in Users : Exists(v) /\ user[v].email = user[u].email
                                    => u = v
  <2>1. ASSUME NEW u \in Users, Exists(u)
        PROVE  /\ user[u].email \in proven[u]
               /\ \A v \in Users : Exists(v) /\ user[v].email = user[u].email
                                    => u = v
    BY <2>1, InitRows DEF Exists, NoRow
  <2> QED
    BY <2>1
<1>2. /\ \A p \in Procs : job[p].op = "none"
      /\ \A c \in Codes : code[c].kind = "none"
      /\ stray = FALSE
  BY DEF Init, Idle
<1> QED
  BY <1>1, <1>2 DEF AddrInv, AddressedRight, VerifiedAddressesProven, Relies,
                    Redeemers

(* createToken reads the row again, and resetPassword and changePassword   *)
(* write by address: both reach what their caller checked, unless an       *)
(* address changed hands in between.                                       *)
THEOREM AddressesHold == Spec => []AddressedRight
<1>1. AddrInv => AddressedRight
  BY DEF AddrInv
<1> QED
  BY <1>1, AddrInit, CodeInit, AddrStep, CodeStep, TypesHold, PTL DEF Spec

(* The mark that verifyEmail sets stays true: changeEmail takes a code     *)
(* that was sent to the new address.                                       *)
THEOREM MarksHold == Spec => []VerifiedAddressesProven
<1>1. AddrInv => VerifiedAddressesProven
  BY DEF AddrInv
<1> QED
  BY <1>1, AddrInit, CodeInit, AddrStep, CodeStep, TypesHold, PTL DEF Spec

===============================================================================
