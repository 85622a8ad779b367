-------------------------------- MODULE Accounts --------------------------------
(***************************************************************************)
(* Who is a member: AuthService, its controller and strategies,            *)
(* UserRepository, UcodeRepository, the administrator's user service,      *)
(* WalletService.createCustomer, and the cron that deletes the accounts    *)
(* whose address was never verified.                                       *)
(*                                                                         *)
(* A handler in flight is a job: the await it has reached and its local    *)
(* variables.  Lookups that follow each other without a write between them *)
(* are one step, except where the second reads again what the first read.  *)
(* Codes are unguessable and never drawn twice.  That they expire is left  *)
(* out: to every handler, an expired code is one that nobody presents.     *)
(***************************************************************************)
EXTENDS Naturals

CONSTANTS
    Users,              \* ids of rows, never used twice
    Emails,
    NoEmail,
    NoUser,
    Codes,              \* rows of ucodes
    NoCode,
    Procs,              \* slots for handlers in flight
    MaxCalls,           \* bound: requests that reach the server
    MaxFailures         \* bound: handlers that stop half-way

ASSUME AccountsAssumption ==
    /\ NoEmail \notin Emails
    /\ NoUser \notin Users
    /\ NoCode \notin Codes
    /\ MaxCalls \in Nat
    /\ MaxFailures \in Nat

VARIABLES
    user,               \* the users table
    code,               \* the ucodes table
    wallet,             \* users that a row of wallets belongs to
    token,              \* users a JWT was signed for; it does not expire
    batch,              \* what is left of the sweep's selection
    job,                \* the handlers in flight
    (* Ghosts. *)
    mailed,             \* where each code was sent
    proven,             \* addresses each account has shown to be its own
    redeemed,           \* how often each code changed a row it guards for good
    reusable,           \* codes two handlers held, or one left undeleted
    moved,              \* an address changed hands under a running handler
    stray,              \* a password was written to another account
    bare,               \* accounts whose sign-up does not equip them
    late,               \* verified after the sweep had selected them
    (* Counters behind the bounds. *)
    calls, failures

ghosts == <<mailed, proven, redeemed, reusable, moved, stray, bare, late>>
counters == <<calls, failures>>
vars == <<user, code, wallet, token, batch, job, ghosts, counters>>

SignUps == {"register", "google", "facebook", "create"}
Mailers == {"forgot", "resend", "address"}
Redeemers == {"reset", "move"}
ByAddress == Mailers \cup Redeemers \cup {"verify", "change"}

Row == [state : {"none", "member", "gone"},
        email : Emails \cup {NoEmail},
        verified : BOOLEAN,
        is_blocked : BOOLEAN,
        password : BOOLEAN,
        billing_id : BOOLEAN,
        facebook_id : Emails \cup {NoEmail},    \* the profile, by its address
        two_factor : BOOLEAN,
        phone : BOOLEAN,
        pinned : BOOLEAN,                       \* rows that restrict its deletion
        old : BOOLEAN]                          \* created ten minutes ago

NoRow == [state |-> "none", email |-> NoEmail, verified |-> FALSE,
          is_blocked |-> FALSE, password |-> FALSE, billing_id |-> FALSE,
          facebook_id |-> NoEmail, two_factor |-> FALSE, phone |-> FALSE,
          pinned |-> FALSE, old |-> FALSE]

Ucode == [kind : {"none", "email", "phone", "deleted"},
          user : Users \cup {NoUser},
          email : Emails \cup {NoEmail}]

Job == [op : SignUps \cup ByAddress \cup
                {"none", "customer", "phonesend", "phoneverify"},
        at : {"start", "checked", "inserted", "billed", "linked", "stored"},
        user : Users \cup {NoUser},
        email : Emails \cup {NoEmail},
        code : Codes \cup {NoCode}]

Idle == [op |-> "none", at |-> "start", user |-> NoUser, email |-> NoEmail,
         code |-> NoCode]

TypeOK ==
    /\ user \in [Users -> Row]
    /\ code \in [Codes -> Ucode]
    /\ wallet \subseteq Users
    /\ token \subseteq Users
    /\ batch \subseteq Users
    /\ job \in [Procs -> Job]
    /\ mailed \in [Codes -> Emails \cup {NoEmail}]
    /\ proven \in [Users -> SUBSET Emails]
    /\ redeemed \in [Codes -> Nat]
    /\ reusable \subseteq Codes
    /\ moved \in BOOLEAN
    /\ stray \in BOOLEAN
    /\ bare \subseteq Users
    /\ late \subseteq Users
    /\ calls \in Nat
    /\ failures \in Nat

(* A member of some standing: registered, verified, equipped, logged in.   *)
Member(e) ==
    [NoRow EXCEPT !.state = "member", !.email = e, !.verified = TRUE,
                  !.password = TRUE, !.billing_id = TRUE, !.old = TRUE]

(* Any users may be members already: home is where their mail goes.        *)
InitMembers(home) ==
    LET members == {u \in Users : home[u] # NoEmail}
    IN  /\ \A u, v \in members : home[u] = home[v] => u = v
        /\ user = [u \in Users |-> IF u \in members THEN Member(home[u])
                                                    ELSE NoRow]
        /\ proven = [u \in Users |-> {home[u]} \cap Emails]
        /\ wallet = members
        /\ token = members

Init ==
    /\ \E home \in [Users -> Emails \cup {NoEmail}] : InitMembers(home)
    /\ code = [c \in Codes |-> [kind |-> "none", user |-> NoUser,
                                email |-> NoEmail]]
    /\ batch = {}
    /\ job = [p \in Procs |-> Idle]
    /\ mailed = [c \in Codes |-> NoEmail]
    /\ redeemed = [c \in Codes |-> 0]
    /\ reusable = {}
    /\ moved = FALSE
    /\ stray = FALSE
    /\ bare = {}
    /\ late = {}
    /\ calls = 0
    /\ failures = 0

-----------------------------------------------------------------------------
(* Handlers, and lookups of the repositories *)

(* One more request. *)
Call == calls < MaxCalls /\ calls' = calls + 1

Start(p, op, u, e, c) ==
    /\ job[p] = Idle
    /\ Call
    /\ job' = [job EXCEPT ![p] = [op |-> op, at |-> "checked", user |-> u,
                                  email |-> e, code |-> c]]

At(p, ops, place) == job[p].op \in ops /\ job[p].at = place

MoveTo(p, place) == job' = [job EXCEPT ![p].at = place]

Return(p) == job' = [job EXCEPT ![p] = Idle]

Exists(u) == u \in Users /\ user[u].state = "member"

(* UserRepository.exist and getUserByEmail: at most one row.               *)
Owners(e) == {u \in Users : Exists(u) /\ user[u].email = e}
Free(e) == Owners(e) = {}

(* JwtStrategy.validate refuses the token of a blocked row, and accepts    *)
(* that of a row which is no longer there.                                 *)
Authenticated(u) == u \in token /\ ~user[u].is_blocked

(* Mutant: the address of the code is not compared. *)
ValidAnyAddress(c, e) == code[c].kind = "email"

(* UcodeRepository.validateToken: whose code it was is not looked at.      *)
Valid(c, e) == code[c].kind = "email" /\ code[c].email = e

(* A row's address changes, from f to e, while one of the other handlers   *)
(* has looked up the row or either address.                                *)
NoteMove(others, u, f, e) ==
    moved' = (moved \/ \E q \in others :
                            /\ job[q].op \in ByAddress
                            /\ \/ job[q].user = u
                               \/ job[q].email \in {e, f} \cap Emails)

-----------------------------------------------------------------------------
(* Signing up *)

(* A sign-up begins: no row has been found. *)
SignUp(p, op, e) ==
    /\ Start(p, op, NoUser, e, NoCode)
    /\ UNCHANGED <<user, code, wallet, token, batch, ghosts, failures>>

(* A row has been found, and is let in unless it is blocked.               *)
LetIn(u) ==
    /\ ~user[u].is_blocked
    /\ token' = token \cup {u}
    /\ Call
    /\ UNCHANGED <<user, code, wallet, batch, job, ghosts, failures>>

(* register wants a new address; googleLogin takes an old one as well.     *)
Register(p, e) == Free(e) /\ SignUp(p, "register", e)

GoogleLogin(p, e) ==
    \/ Free(e) /\ SignUp(p, "google", e)
    \/ \E u \in Owners(e) : LetIn(u)

(* facebookLogin looks for the profile, not for its address.               *)
FacebookLogin(p, e) ==
    LET known == {u \in Users : Exists(u) /\ user[u].facebook_id = e}
    IN  \/ known = {} /\ SignUp(p, "facebook", e)
        \/ \E u \in known : LetIn(u)

(* The administrator's create does not look.                               *)
AdminCreate(p, e) == SignUp(p, "create", e)

NewRow(op, e) ==
    [NoRow EXCEPT !.state = "member",
                  !.email = e,
                  !.verified = (op = "google"),
                  !.password = op \in {"register", "create"},
                  !.facebook_id = IF op = "facebook" THEN e ELSE NoEmail]

(* UserRepository.createUser: it looks for the address again, and the      *)
(* column is unique.  Without a new row the callers fail on user.data.     *)
Insert(p) ==
    /\ At(p, SignUps, "checked")
    /\ LET op == job[p].op
           e == job[p].email
       IN  \/ /\ ~Free(e)
              /\ Return(p)
              /\ UNCHANGED <<user, proven, bare, moved>>
           \/ /\ Free(e)
              /\ \E u \in Users :
                    /\ user[u].state = "none"
                    /\ user' = [user EXCEPT ![u] = NewRow(op, e)]
                    /\ proven' = [proven EXCEPT ![u] =
                                    IF op = "google" THEN {e} ELSE {}]
                    /\ NoteMove(Procs \ {p}, u, NoEmail, e)
                    /\ IF op = "create"
                          THEN bare' = bare \cup {u} /\ Return(p)
                          ELSE /\ job' = [job EXCEPT ![p].at = "inserted",
                                                     ![p].user = u]
                               /\ UNCHANGED bare
    /\ UNCHANGED <<code, wallet, token, batch, mailed, redeemed, reusable,
                   stray, late, counters>>

(* StripePayment.createCustomer, then billing_id.                          *)
Bill(p) ==
    /\ \/ At(p, {"register", "google", "facebook"}, "inserted")
       \/ At(p, {"customer"}, "checked")
    /\ IF Exists(job[p].user)
          THEN /\ user' = [user EXCEPT ![job[p].user].billing_id = TRUE]
               /\ MoveTo(p, "billed")
          ELSE Return(p) /\ UNCHANGED user
    /\ UNCHANGED <<code, wallet, token, batch, ghosts, counters>>

(* A new row of ucodes for u, sent to the address `to'.                    *)
Issue(u, e, to) ==
    \E c \in Codes :
        /\ code[c].kind = "none"
        /\ code' = [code EXCEPT ![c] = [kind |-> "email", user |-> u,
                                        email |-> e]]
        /\ mailed' = [mailed EXCEPT ![c] = to]

(* register: createVerificationToken and sendVerificationLink.             *)
SendLink(p) ==
    /\ At(p, {"register"}, "billed")
    /\ Issue(job[p].user, job[p].email, job[p].email)
    /\ MoveTo(p, "linked")
    /\ UNCHANGED <<user, wallet, token, batch, proven, redeemed, reusable,
                   moved, stray, bare, late, counters>>

(* Mutant: a Google account gets no wallet. *)
MakeWalletNotForGoogle(p) ==
    /\ \/ At(p, {"register"}, "linked")
       \/ At(p, {"google", "facebook", "customer"}, "billed")
    /\ wallet' = IF job[p].op = "google" THEN wallet
                                         ELSE wallet \cup {job[p].user}
    /\ token' = IF job[p].op \in {"google", "facebook"}
                   THEN token \cup {job[p].user} ELSE token
    /\ Return(p)
    /\ UNCHANGED <<user, code, batch, ghosts, counters>>

(* createUserWallet, and the answer: the social sign-ups return a token.   *)
(* A wallet that is already there fails sign-ups; createCustomer looks.    *)
MakeWallet(p) ==
    /\ \/ At(p, {"register"}, "linked")
       \/ At(p, {"google", "facebook", "customer"}, "billed")
    /\ wallet' = wallet \cup {u \in {job[p].user} : Exists(u)}
    /\ token' = IF /\ job[p].op \in {"google", "facebook"}
                   /\ job[p].user \notin wallet
                   THEN token \cup {job[p].user} ELSE token
    /\ Return(p)
    /\ UNCHANGED <<user, code, batch, ghosts, counters>>

(* WalletService.createCustomer for an account without a customer.         *)
CustomerCheck(p, u) ==
    /\ Exists(u)
    /\ ~user[u].billing_id
    /\ Start(p, "customer", u, NoEmail, NoCode)
    /\ UNCHANGED <<user, code, wallet, token, batch, ghosts, failures>>

-----------------------------------------------------------------------------
(* Logging in *)

(* validateUser, and login.  LocalStrategy passes no second factor on, so  *)
(* an account that asks for one is refused.                                *)
Login(u) ==
    /\ Exists(u)
    /\ user[u].verified
    /\ user[u].password
    /\ ~user[u].two_factor
    /\ LetIn(u)

-----------------------------------------------------------------------------
(* Codes by mail *)

(* forgotPassword, resendVerificationEmail: the row of the address; a      *)
(* blocked one may ask for another verification.                           *)
AskByAddress(p, op, u) ==
    /\ Exists(u)
    /\ user[u].email \in Emails
    /\ op = "forgot" => ~user[u].is_blocked
    /\ Start(p, op, u, user[u].email, NoCode)
    /\ UNCHANGED <<user, code, wallet, token, batch, ghosts, failures>>

(* requestEmailChange: the new address is not looked up.                   *)
AskMove(p, u, e) ==
    /\ Exists(u)
    /\ Start(p, "address", u, e, NoCode)
    /\ UNCHANGED <<user, code, wallet, token, batch, ghosts, failures>>

(* Mutant: the code is stored for the current address in every case. *)
SendCodeForCurrent(p) ==
    /\ At(p, Mailers, "checked")
    /\ LET u == job[p].user
       IN  IF Exists(u)
              THEN Issue(u, user[u].email, job[p].email)
              ELSE UNCHANGED <<code, mailed>>
    /\ Return(p)
    /\ UNCHANGED <<user, wallet, token, batch, proven, redeemed, reusable,
                   moved, stray, bare, late, counters>>

(* createToken reads the row again and stores its address, or the one it   *)
(* was given; the mail goes to the address of the call.                    *)
SendCode(p) ==
    /\ At(p, Mailers, "checked")
    /\ LET u == job[p].user
       IN  IF Exists(u)
              THEN Issue(u, IF job[p].op = "address" THEN job[p].email
                                                     ELSE user[u].email,
                         job[p].email)
              ELSE UNCHANGED <<code, mailed>>
    /\ Return(p)
    /\ UNCHANGED <<user, wallet, token, batch, proven, redeemed, reusable,
                   moved, stray, bare, late, counters>>

(* A handler that will change something for good takes a code that another *)
(* one is still working with.                                              *)
NoteShared(c) ==
    reusable' = IF \E q \in Procs : job[q].op \in Redeemers /\ job[q].code = c
                   THEN reusable \cup {c} ELSE reusable

(* resetPassword, verifyEmail: the row of the address, and the code.       *)
PresentCode(p, op, u, c) ==
    /\ Exists(u)
    /\ ~user[u].is_blocked
    /\ Valid(c, user[u].email)
    /\ Start(p, op, u, user[u].email, c)
    /\ IF op = "reset" THEN NoteShared(c) ELSE UNCHANGED reusable
    /\ UNCHANGED <<user, code, wallet, token, batch, mailed, proven, redeemed,
                   moved, stray, bare, late, failures>>

(* changeEmail: the row of the session, and the code.                      *)
PresentMove(p, u, e, c) ==
    /\ Exists(u)
    /\ Valid(c, e)
    /\ Start(p, "move", u, e, c)
    /\ NoteShared(c)
    /\ UNCHANGED <<user, code, wallet, token, batch, mailed, proven, redeemed,
                   moved, stray, bare, late, failures>>

(* resetPassword and changePassword write to the row of the address.       *)
WritePassword(p) ==
    /\ At(p, {"reset", "change"}, "checked")
    /\ LET e == job[p].email
           c == job[p].code
       IN  \/ /\ Free(e)
              /\ Return(p)
              /\ UNCHANGED <<user, stray, redeemed>>
           \/ \E u \in Owners(e) :
                /\ user' = [user EXCEPT ![u].password = TRUE]
                /\ stray' = (stray \/ u # job[p].user)
                /\ IF job[p].op = "reset"
                      THEN /\ redeemed' = [redeemed EXCEPT ![c] = @ + 1]
                           /\ MoveTo(p, "stored")
                      ELSE Return(p) /\ UNCHANGED redeemed
    /\ UNCHANGED <<code, wallet, token, batch, mailed, proven, reusable, moved,
                   bare, late, counters>>

(* verifyEmail writes to the row it found, and leaves the code.            *)
WriteVerified(p) ==
    /\ At(p, {"verify"}, "checked")
    /\ LET u == job[p].user
       IN  IF Exists(u)
              THEN /\ user' = [user EXCEPT ![u].verified = TRUE]
                   /\ proven' = [proven EXCEPT ![u] =
                                    @ \cup ({mailed[job[p].code]} \cap Emails)]
                   /\ late' = IF u \in batch /\ ~user[u].verified
                                 THEN late \cup {u} ELSE late
              ELSE UNCHANGED <<user, proven, late>>
    /\ Return(p)
    /\ UNCHANGED <<code, wallet, token, batch, mailed, redeemed, reusable,
                   moved, stray, bare, counters>>

(* changeEmail writes the address, which must be free; verified stays.     *)
WriteAddress(p) ==
    /\ At(p, {"move"}, "checked")
    /\ LET u == job[p].user
           e == job[p].email
           c == job[p].code
       IN  IF Exists(u) /\ Owners(e) \subseteq {u}
              THEN /\ user' = [user EXCEPT ![u].email = e]
                   /\ proven' = [proven EXCEPT ![u] =
                                    @ \cup ({mailed[c]} \cap Emails)]
                   /\ redeemed' = [redeemed EXCEPT ![c] = @ + 1]
                   /\ NoteMove(Procs \ {p}, u, user[u].email, e)
                   /\ MoveTo(p, "stored")
              ELSE /\ Return(p)
                   /\ UNCHANGED <<user, proven, redeemed, moved>>
    /\ UNCHANGED <<code, wallet, token, batch, mailed, reusable, stray, bare,
                   late, counters>>

(* Mutant: the deletion is commented out, as it is in verifyEmail. *)
DeleteCodeCommented(p) ==
    /\ At(p, Redeemers, "stored")
    /\ Return(p)
    /\ UNCHANGED <<user, code, wallet, token, batch, ghosts, counters>>

(* deleteToken, after resetPassword and changeEmail.                       *)
DeleteCode(p) ==
    /\ At(p, Redeemers, "stored")
    /\ code' = [code EXCEPT ![job[p].code].kind = "deleted"]
    /\ Return(p)
    /\ UNCHANGED <<user, wallet, token, batch, ghosts, counters>>

(* changePassword: the row of the session, and its old password.           *)
ChangePassword(p, u) ==
    /\ Exists(u)
    /\ user[u].password
    /\ user[u].email \in Emails
    /\ Start(p, "change", u, user[u].email, NoCode)
    /\ UNCHANGED <<user, code, wallet, token, batch, ghosts, failures>>

-----------------------------------------------------------------------------
(* Codes by text message, for a user and a number: one number per user *)

(* createPhoneNumberVerificationToken deletes the user's codes ...         *)
PhoneClear(p, u) ==
    /\ Start(p, "phonesend", u, NoEmail, NoCode)
    /\ code' = [c \in Codes |->
                  IF code[c].kind = "phone" /\ code[c].user = u
                     THEN [code[c] EXCEPT !.kind = "deleted"] ELSE code[c]]
    /\ UNCHANGED <<user, wallet, token, batch, ghosts, failures>>

(* ... and creates one, for a user that is still there.                    *)
PhoneIssue(p) ==
    /\ At(p, {"phonesend"}, "checked")
    /\ IF Exists(job[p].user)
          THEN \E c \in Codes :
                /\ code[c].kind = "none"
                /\ code' = [code EXCEPT ![c] = [kind |-> "phone",
                                                user |-> job[p].user,
                                                email |-> NoEmail]]
          ELSE UNCHANGED code
    /\ Return(p)
    /\ UNCHANGED <<user, wallet, token, batch, ghosts, counters>>

(* validatePhoneNumberVerificationToken finds a code ...                   *)
PhoneFind(p, u, c) ==
    /\ code[c].kind = "phone"
    /\ code[c].user = u
    /\ Start(p, "phoneverify", u, NoEmail, c)
    /\ UNCHANGED <<user, code, wallet, token, batch, ghosts, failures>>

(* ... deletes it by its id, which fails when it is gone ...               *)
PhoneClaim(p) ==
    /\ At(p, {"phoneverify"}, "checked")
    /\ IF code[job[p].code].kind = "phone"
          THEN /\ code' = [code EXCEPT ![job[p].code].kind = "deleted"]
               /\ MoveTo(p, "stored")
          ELSE Return(p) /\ UNCHANGED code
    /\ UNCHANGED <<user, wallet, token, batch, ghosts, counters>>

(* ... and verifyPhoneNumber writes the number.                            *)
PhoneStore(p) ==
    /\ At(p, {"phoneverify"}, "stored")
    /\ IF Exists(job[p].user)
          THEN /\ user' = [user EXCEPT ![job[p].user].phone = TRUE]
               /\ redeemed' = [redeemed EXCEPT ![job[p].code] = @ + 1]
          ELSE UNCHANGED <<user, redeemed>>
    /\ Return(p)
    /\ UNCHANGED <<code, wallet, token, batch, mailed, proven, reusable, moved,
                   stray, bare, late, counters>>

-----------------------------------------------------------------------------
(* The second factor, and the administrator *)

(* enable2FA does not ask for a secret; disable2FA clears it.              *)
SetTwoFactor(u, on) ==
    /\ Exists(u)
    /\ user[u].two_factor # on
    /\ Call
    /\ user' = [user EXCEPT ![u].two_factor = on]
    /\ UNCHANGED <<code, wallet, token, batch, job, ghosts, failures>>

(* UserService.updateBlockedStatus.                                        *)
UpdateBlockedStatus(u) ==
    /\ Exists(u)
    /\ Call
    /\ user' = [user EXCEPT ![u].is_blocked = ~@]
    /\ UNCHANGED <<code, wallet, token, batch, job, ghosts, failures>>

(* UserService.update, with a password, an address or both: the address    *)
(* must be new, and is taken on the administrator's word.                  *)
AdminUpdate(u, e, password) ==
    /\ Exists(u)
    /\ e # NoEmail => Free(e)
    /\ Call
    /\ user' = [user EXCEPT ![u].email = IF e = NoEmail THEN @ ELSE e,
                            ![u].password = @ \/ password]
    /\ proven' = [proven EXCEPT ![u] = @ \cup ({e} \cap Emails)]
    /\ IF e = NoEmail THEN UNCHANGED moved
                      ELSE NoteMove(Procs, u, user[u].email, e)
    /\ UNCHANGED <<code, wallet, token, batch, job, mailed, redeemed, reusable,
                   stray, bare, late, failures>>

-----------------------------------------------------------------------------
(* The sweep: handleDeleteUnverifiedUsers *)

(* Mutant: the sweep selects by age alone. *)
SweepSelectByAge ==
    /\ batch = {}
    /\ batch' = {u \in Users : Exists(u) /\ user[u].old}
    /\ batch' # {}
    /\ UNCHANGED <<user, code, wallet, token, job, ghosts, counters>>

(* The rows selected once, at the start.                                   *)
SweepSelect ==
    /\ batch = {}
    /\ batch' = {u \in Users : /\ Exists(u)
                               /\ ~user[u].verified
                               /\ user[u].old}
    /\ batch' # {}
    /\ UNCHANGED <<user, code, wallet, token, job, ghosts, counters>>

(* One transaction per row, which does not look at the row again.  Codes   *)
(* and the wallet stay, without their user; a card, a payment account or a *)
(* review that refers to the row makes the transaction fail.               *)
SweepDelete(u) ==
    /\ u \in batch
    /\ batch' = batch \ {u}
    /\ IF Exists(u) /\ ~user[u].pinned
          THEN /\ user' = [user EXCEPT ![u] =
                             [NoRow EXCEPT !.state = "gone",
                                           !.verified = user[u].verified]]
               /\ code' = [c \in Codes |->
                             IF code[c].user = u
                                THEN [code[c] EXCEPT !.user = NoUser]
                                ELSE code[c]]
               /\ wallet' = wallet \ {u}
               /\ NoteMove(Procs, u, user[u].email, NoEmail)
               /\ UNCHANGED late
          ELSE /\ late' = late \ {u}
               /\ UNCHANGED <<user, code, wallet, moved>>
    /\ UNCHANGED <<token, job, mailed, proven, redeemed, reusable, stray, bare,
                   counters>>

-----------------------------------------------------------------------------
(* Time, the other modules, and failures *)

(* Ten minutes pass.  No sign-up takes that long, and nothing asks how old *)
(* a verified row is.                                                      *)
GrowOld(u) ==
    /\ Exists(u)
    /\ ~user[u].verified
    /\ ~user[u].old
    /\ ~\E p \in Procs : job[p].op \in SignUps /\ job[p].user = u
    /\ user' = [user EXCEPT ![u].old = TRUE]
    /\ UNCHANGED <<code, wallet, token, batch, job, ghosts, counters>>

(* A card is saved, or a payment account connected, for the account.       *)
Pin(u) ==
    /\ Exists(u)
    /\ ~user[u].pinned
    /\ Call
    /\ user' = [user EXCEPT ![u].pinned = TRUE]
    /\ UNCHANGED <<code, wallet, token, batch, job, ghosts, failures>>

(* A handler stops: an await is rejected, or the server restarts.          *)
Fail(p) ==
    /\ job[p] # Idle
    /\ failures < MaxFailures
    /\ failures' = failures + 1
    /\ bare' = IF job[p].op \in SignUps THEN bare \cup ({job[p].user} \cap Users)
                                        ELSE bare
    /\ reusable' = IF At(p, Redeemers, "stored")
                      THEN reusable \cup {job[p].code} ELSE reusable
    /\ Return(p)
    /\ UNCHANGED <<user, code, wallet, token, batch, mailed, proven, redeemed,
                   moved, stray, late, calls>>

(* The server restarts during a sweep.                                     *)
SweepFails ==
    /\ batch # {}
    /\ failures < MaxFailures
    /\ failures' = failures + 1
    /\ batch' = {}
    /\ late' = {u \in late : ~Exists(u)}
    /\ UNCHANGED <<user, code, wallet, token, job, mailed, proven, redeemed,
                   reusable, moved, stray, bare, calls>>

-----------------------------------------------------------------------------
(* The routes of AuthController: what needs no session ... *)

SignUpRoutes(p) == \E e \in Emails : Register(p, e)

LoginRoutes == \E u \in Users : Login(u)

SocialRoutes(p) == \E e \in Emails : GoogleLogin(p, e) \/ FacebookLogin(p, e)

AddressRoutes(p) ==
    \E u \in Users :
        \/ \E op \in {"forgot", "resend"} : AskByAddress(p, op, u)
        \/ \E op \in {"reset", "verify"}, c \in Codes : PresentCode(p, op, u, c)

(* ... and what does. *)
SessionRoutes(p) ==
    \E u \in Users :
        /\ Authenticated(u)
        /\ \/ ChangePassword(p, u)
           \/ \E e \in Emails : AskMove(p, u, e)
           \/ \E e \in Emails, c \in Codes : PresentMove(p, u, e, c)

CustomerRoutes(p) ==
    \E u \in Users : Authenticated(u) /\ CustomerCheck(p, u)

PhoneRoutes(p) ==
    \E u \in Users :
        /\ Authenticated(u)
        /\ \/ PhoneClear(p, u)
           \/ \E c \in Codes : PhoneFind(p, u, c)

ProfileRoutes ==
    \E u \in Users :
        /\ Authenticated(u)
        /\ \E on \in BOOLEAN : SetTwoFactor(u, on)

AdminRoutes ==
    \/ \E u \in Users :
        \/ UpdateBlockedStatus(u)
        \/ \E e \in Emails, password \in BOOLEAN : AdminUpdate(u, e, password)
        \/ ~user[u].password /\ AdminUpdate(u, NoEmail, TRUE)
    \/ \E p \in Procs, e \in Emails : AdminCreate(p, e)

Continue(p) ==
    \/ Insert(p) \/ Bill(p) \/ SendLink(p) \/ MakeWallet(p)
    \/ SendCode(p) \/ WritePassword(p) \/ WriteVerified(p) \/ WriteAddress(p)
    \/ DeleteCode(p)
    \/ PhoneIssue(p) \/ PhoneClaim(p) \/ PhoneStore(p)

Sweep == SweepSelect \/ \E u \in Users : SweepDelete(u)

Environment ==
    \/ \E u \in Users : GrowOld(u) \/ (Authenticated(u) /\ Pin(u))
    \/ \E p \in Procs : Fail(p)
    \/ SweepFails

Next ==
    \/ \E p \in Procs :
        \/ SignUpRoutes(p) \/ SocialRoutes(p)
        \/ AddressRoutes(p) \/ SessionRoutes(p)
        \/ CustomerRoutes(p) \/ PhoneRoutes(p)
        \/ Continue(p)
    \/ LoginRoutes
    \/ ProfileRoutes
    \/ AdminRoutes
    \/ Sweep
    \/ Environment

Spec == Init /\ [][Next]_vars

-----------------------------------------------------------------------------
(* As long as no address changes hands under a running handler, an account *)
(* marked verified has shown that its current address is its own: with a   *)
(* code sent there, through Google, or on an administrator's word.  The    *)
(* mark survives changeEmail, and codes carry no purpose.                  *)
VerifiedAddressesProven ==
    ~moved => \A u \in Users :
                Exists(u) /\ user[u].verified => user[u].email \in proven[u]

(* Under the same condition a code is stored for the address it was sent   *)
(* to, though createToken reads the row again, and a password goes to the  *)
(* account that was checked, though it is written by address.              *)
AddressedRight ==
    ~moved => /\ ~stray
              /\ \A c \in Codes : code[c].kind = "email" =>
                                        mailed[c] = code[c].email

(* A code resets a password or changes an address once, unless two         *)
(* handlers held it at the same time or one stopped before deleting it; a  *)
(* code for a number works once even then, since deleting it claims it.    *)
CodesWorkOnce ==
    \A c \in Codes :
        redeemed[c] > 1 => c \in reusable /\ mailed[c] \in Emails

(* An account is left without its Stripe customer or its wallet only if    *)
(* its sign-up stopped half-way or an administrator created it.            *)
MembersAreEquipped ==
    \A u \in Users :
        Exists(u) => \/ u \in bare
                     \/ user[u].billing_id /\ u \in wallet
                     \/ \E p \in Procs :
                            job[p].op \in SignUps /\ job[p].user = u

(* The sweep deletes no account whose address was verified before it was   *)
(* selected: one that is gone was never verified, or only after that.  An  *)
(* account somebody had logged in to through Google or Facebook may be     *)
(* among them, since finding an account does not verify it.                *)
SweptAreUnverified ==
    \A u \in Users :
        user[u].state = "gone" /\ user[u].verified => u \in late

===============================================================================
