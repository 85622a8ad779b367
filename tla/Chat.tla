---------------------------------- MODULE Chat ----------------------------------
(***************************************************************************)
(* Conversations, messages and presence: ConversationService,              *)
(* MessageService, MessageGateway, ChatRepository, and what the cron that  *)
(* sweeps accounts does to conversations.                                  *)
(*                                                                         *)
(* The gateway keeps its two maps in memory and changes them without       *)
(* waiting; what it writes to users.availability arrives later, in any     *)
(* order.  The handlers of the services run as jobs, from one await to the *)
(* next.  Messages are numbered as the database creates them.              *)
(***************************************************************************)
EXTENDS Naturals

CONSTANTS
    Users, NoUser,
    Sockets, NoSocket,  \* ids of connections, never used twice
    Names,              \* what clients join calls as
    Topics, NoTopic,    \* pairs of a package and a trip
    Convs, NoConv,      \* ids of conversations, never used twice
    Procs,              \* slots for handlers in flight
    MaxMsgs,            \* bound: messages
    MaxCalls,           \* bound: requests and events that reach the server
    MaxFaults           \* bound: restarts, and writes that are rejected

ASSUME ChatAssumption ==
    /\ NoUser \notin Users
    /\ NoSocket \notin Sockets
    /\ NoTopic \notin Topics
    /\ NoConv \notin Convs
    /\ MaxMsgs \in Nat
    /\ MaxCalls \in Nat
    /\ MaxFaults \in Nat

VARIABLES
    (* The gateway. *)
    socket,             \* connections, and whose they are
    clients,            \* userId -> socketId
    activeUsers,        \* username -> socketId
    writes,             \* writes of availability on their way
    (* The database. *)
    members,            \* users there is an account of
    availability,       \* users.availability
    conv,               \* the conversations table
    msg,                \* the messages table
    created,            \* number of messages created
    sweep,              \* the conversations the cron has selected
    job,                \* the handlers in flight
    (* Ghosts. *)
    disturbed,          \* users whose availability may be wrong for now
    left,               \* closed sockets that may have left a name behind
    beside,             \* messages still being filed when each was created
    unfiled,            \* messages whose handler stopped before filing them
    seen,               \* messages their receiver was shown
    slipped,            \* created while their receiver's list was read
    acked,              \* set back by a client after they were read
    (* Counters behind the bounds. *)
    calls, faults

gateway == <<socket, clients, activeUsers, writes, members, availability>>
presence == <<disturbed, left>>
chatted == <<beside, unfiled, seen, slipped, acked>>
vars == <<gateway, conv, msg, created, sweep, job, presence, chatted, calls,
          faults>>

Msgs == 1..MaxMsgs
NoMsg == 0

Status == {"PENDING", "SENT", "DELIVERED", "READ"}

Message == [conv : Convs \cup {NoConv}, sender : Users \cup {NoUser},
            receiver : Users \cup {NoUser}, status : Status, is_read : BOOLEAN]
NoMessage == [conv |-> NoConv, sender |-> NoUser, receiver |-> NoUser,
              status |-> "PENDING", is_read |-> FALSE]

Conversation == [state : {"none", "live", "gone"},
                 topic : Topics \cup {NoTopic},
                 creator : Users \cup {NoUser},
                 participant : Users \cup {NoUser},
                 last : 0..MaxMsgs]     \* last_message_id
NoConversation == [state |-> "none", topic |-> NoTopic, creator |-> NoUser,
                   participant |-> NoUser, last |-> NoMsg]

(* One between u and v about t that nobody has written in.                 *)
Opened(t, u, v) ==
    [NoConversation EXCEPT !.state = "live", !.topic = t, !.creator = u,
                           !.participant = v]

Job == [op : {"none", "create", "send", "list"},
        at : {"start", "checked", "stored"},
        user : Users \cup {NoUser},
        other : Users \cup {NoUser},
        topic : Topics \cup {NoTopic},
        conv : Convs \cup {NoConv},
        msg : 0..MaxMsgs]
Idle == [op |-> "none", at |-> "start", user |-> NoUser, other |-> NoUser,
         topic |-> NoTopic, conv |-> NoConv, msg |-> NoMsg]

TypeOK ==
    /\ socket \in [Sockets -> [state : {"unused", "open", "closed"},
                               user : Users \cup {NoUser}]]
    /\ clients \in [Users -> Sockets \cup {NoSocket}]
    /\ activeUsers \in [Names -> Sockets \cup {NoSocket}]
    /\ writes \subseteq [socket : Sockets, status : {"online", "offline"}]
    /\ members \subseteq Users
    /\ availability \in [Users -> {"online", "offline"}]
    /\ conv \in [Convs -> Conversation]
    /\ msg \in [Msgs -> Message]
    /\ created \in 0..MaxMsgs
    /\ sweep \subseteq Convs
    /\ job \in [Procs -> Job]
    /\ disturbed \subseteq Users
    /\ left \subseteq Sockets
    /\ beside \in [Msgs -> SUBSET Msgs]
    /\ unfiled \subseteq Msgs
    /\ seen \subseteq Msgs
    /\ slipped \subseteq Msgs
    /\ acked \subseteq Msgs
    /\ calls \in Nat
    /\ faults \in Nat

Live(c) == c \in Convs /\ conv[c].state = "live"

(* The server starts: nobody is connected, and there may be conversations  *)
(* that nobody has written in.                                             *)
Init ==
    /\ socket = [s \in Sockets |-> [state |-> "unused", user |-> NoUser]]
    /\ clients = [u \in Users |-> NoSocket]
    /\ activeUsers = [n \in Names |-> NoSocket]
    /\ writes = {}
    /\ members = Users
    /\ availability = [u \in Users |-> "offline"]
    /\ conv \in [Convs -> {NoConversation} \cup
                    {Opened(t, u, v) : t \in Topics, u \in Users, v \in Users}]
    /\ \A c, d \in Convs : Live(c) /\ Live(d) /\ conv[c].topic = conv[d].topic
                            => c = d
    /\ msg = [m \in Msgs |-> NoMessage]
    /\ created = 0
    /\ sweep = {}
    /\ job = [p \in Procs |-> Idle]
    /\ disturbed = {}
    /\ left = {}
    /\ beside = [m \in Msgs |-> {}]
    /\ unfiled = {}
    /\ seen = {}
    /\ slipped = {}
    /\ acked = {}
    /\ calls = 0
    /\ faults = 0

-----------------------------------------------------------------------------
(* Helpers *)

Call == calls < MaxCalls /\ calls' = calls + 1
Fault == faults < MaxFaults /\ faults' = faults + 1

Open(s) == socket[s].state = "open"
OpenOf(u) == {s \in Sockets : Open(s) /\ socket[s].user = u}
WritesOf(u) == {w \in writes : socket[w.socket].user = u}

MsgsOf(c) == {m \in Msgs : msg[m].conv = c}
Parties(c) == {conv[c].creator, conv[c].participant}
Whole(c) == conv[c].topic # NoTopic /\ NoUser \notin Parties(c)

Start(p, op, u, v, t, c) ==
    /\ job[p] = Idle
    /\ Call
    /\ job' = [job EXCEPT ![p] = [op |-> op, at |-> "checked", user |-> u,
                                  other |-> v, topic |-> t, conv |-> c,
                                  msg |-> NoMsg]]

At(p, op, place) == job[p].op = op /\ job[p].at = place

Return(p) == job' = [job EXCEPT ![p] = Idle]

(* Conversations go, and their messages with them (onDelete: Cascade).     *)
Delete(cs) ==
    /\ conv' = [c \in Convs |-> IF c \in cs
                                   THEN [NoConversation EXCEPT !.state = "gone"]
                                   ELSE conv[c]]
    /\ msg' = [m \in Msgs |-> IF msg[m].conv \in cs THEN NoMessage ELSE msg[m]]

-----------------------------------------------------------------------------
(* The gateway *)

(* handleConnection: the maps at once, availability later.                 *)
HandleConnection(u, s) ==
    /\ socket[s].state = "unused"
    /\ Call
    /\ socket' = [socket EXCEPT ![s] = [state |-> "open", user |-> u]]
    /\ clients' = [clients EXCEPT ![u] = s]
    /\ writes' = writes \cup {[socket |-> s, status |-> "online"]}
    /\ disturbed' = IF \E w \in WritesOf(u) : w.status = "offline"
                       THEN disturbed \cup {u} ELSE disturbed \ {u}
    /\ UNCHANGED <<activeUsers, members, availability, conv, msg, created, sweep,
                   job, left, chatted, faults>>

NamesOf(s) == {n \in Names : activeUsers[n] = s}

(* The newest socket of a user's closes.  With an older one still open, or *)
(* a write of "online" still on its way, availability may end up wrong;    *)
(* else the write of "offline" puts it right.                              *)
NoteLeave(s, pending) ==
    LET u == socket[s].user
    IN  disturbed' =
            IF clients[u] # s THEN disturbed
            ELSE IF /\ OpenOf(u) = {s}
                    /\ \A w \in pending :
                            w.status = "online" => socket[w.socket].user # u
                    THEN disturbed \ {u} ELSE disturbed \cup {u}

(* Mutant: any socket of the user's will do. *)
FoundAny(s) == clients[socket[s].user] # NoSocket

(* handleDisconnect looks the socket up among the values of clients, where *)
(* it is unless a later one of the same user has replaced it.              *)
Found(s) == clients[socket[s].user] = s

(* Mutant: the name stays in activeUsers. *)
LeaveKeepsName(s, pending) ==
    /\ socket' = [socket EXCEPT ![s].state = "closed"]
    /\ clients' = IF Found(s)
                     THEN [clients EXCEPT ![socket[s].user] = NoSocket]
                     ELSE clients
    /\ left' = IF ~Found(s) \/ \E m, n \in NamesOf(s) : m # n
                  THEN left \cup {s} ELSE left
    /\ writes' = IF Found(s)
                    THEN pending \cup {[socket |-> s, status |-> "offline"]}
                    ELSE pending
    /\ NoteLeave(s, pending)
    /\ UNCHANGED activeUsers

(* It is closed.  Not found, nothing else happens; else the user goes,     *)
(* with one name, and is offline once that is written.                     *)
Leave(s, pending) ==
    /\ socket' = [socket EXCEPT ![s].state = "closed"]
    /\ IF Found(s)
          THEN /\ clients' = [clients EXCEPT ![socket[s].user] = NoSocket]
               /\ IF NamesOf(s) = {}
                     THEN UNCHANGED activeUsers
                     ELSE \E n \in NamesOf(s) :
                            activeUsers' = [activeUsers EXCEPT ![n] = NoSocket]
               /\ left' = IF \E m, n \in NamesOf(s) : m # n
                             THEN left \cup {s} ELSE left
               /\ writes' = pending \cup {[socket |-> s, status |-> "offline"]}
          ELSE /\ left' = left \cup {s}
               /\ writes' = pending
               /\ UNCHANGED <<clients, activeUsers>>
    /\ NoteLeave(s, pending)

HandleDisconnect(s) ==
    /\ Open(s)
    /\ Leave(s, writes)
    /\ UNCHANGED <<members, availability, conv, msg, created, sweep, job, chatted,
                   calls, faults>>

(* ChatRepository.updateUserStatus arrives, and finds the user or not.     *)
UpdateUserStatus(w) ==
    /\ w \in writes
    /\ writes' = writes \ {w}
    /\ LET u == socket[w.socket].user
       IN  availability' = IF u \in members
                              THEN [availability EXCEPT ![u] = w.status]
                              ELSE availability
    /\ UNCHANGED <<socket, clients, activeUsers, members, conv, msg, created, sweep,
                   job, presence, chatted, calls, faults>>

(* It is rejected.  handleConnection catches that and disconnects the      *)
(* socket, if it is still open; a write of "offline" is not repeated.      *)
StatusRejected(w) ==
    /\ w \in writes
    /\ Fault
    /\ IF w.status = "online" /\ Open(w.socket)
          THEN Leave(w.socket, writes \ {w})
          ELSE /\ writes' = writes \ {w}
               /\ LET u == socket[w.socket].user
                  IN  disturbed' = IF /\ w.status = "offline"
                                      /\ WritesOf(u) = {w}
                                      /\ availability[u] = "online"
                                     THEN disturbed \cup {u} ELSE disturbed
               /\ UNCHANGED <<socket, clients, activeUsers, left>>
    /\ UNCHANGED <<members, availability, conv, msg, created, sweep, job, chatted,
                   calls>>

(* 'join': a client takes a name for calls, also one that is taken.        *)
HandleJoin(s, n) ==
    /\ Open(s)
    /\ Call
    /\ activeUsers' = [activeUsers EXCEPT ![n] = s]
    /\ UNCHANGED <<socket, clients, writes, members, availability, conv, msg,
                   created, sweep, job, presence, chatted, faults>>

(* Where 'sendMessage', 'typing' and 'stopTyping' go, and where 'call',    *)
(* 'answer', 'iceCandidate' and 'endCall' go: nowhere, or to one socket.   *)
MessageRoute(u) == {clients[u]} \cap Sockets
CallRoute(n) == {activeUsers[n]} \cap Sockets

-----------------------------------------------------------------------------
(* Conversations *)

(* create finds none of these two on this package and trip ...             *)
CreateCheck(p, u, v, t) ==
    /\ {u, v} \subseteq members
    /\ ~\E c \in Convs : /\ Live(c)
                         /\ conv[c].topic = t
                         /\ Parties(c) = {u, v}
    /\ Start(p, "create", u, v, t, NoConv)
    /\ UNCHANGED <<gateway, conv, msg, created, sweep, presence, chatted,
                   faults>>

(* Mutant: package and trip are not unique together. *)
CreateInsertAnyway(p) ==
    /\ At(p, "create", "checked")
    /\ \E c \in Convs :
            /\ conv[c].state = "none"
            /\ conv' = [conv EXCEPT ![c] =
                            Opened(job[p].topic, job[p].user, job[p].other)]
    /\ Return(p)
    /\ UNCHANGED <<gateway, msg, created, sweep, presence, chatted, calls,
                   faults>>

(* ... and inserts one, unless one of them has gone; the two columns are   *)
(* unique together, so that of two callers at once, or of another pair,    *)
(* the second is told an error.                                            *)
CreateInsert(p) ==
    /\ At(p, "create", "checked")
    /\ IF \/ ~{job[p].user, job[p].other} \subseteq members
          \/ \E c \in Convs : Live(c) /\ conv[c].topic = job[p].topic
          THEN UNCHANGED conv
          ELSE \E c \in Convs :
                /\ conv[c].state = "none"
                /\ conv' = [conv EXCEPT ![c] =
                                Opened(job[p].topic, job[p].user, job[p].other)]
    /\ Return(p)
    /\ UNCHANGED <<gateway, msg, created, sweep, presence, chatted, calls,
                   faults>>

(* remove, for the administrator.                                          *)
Remove(c) ==
    /\ Live(c)
    /\ Call
    /\ Delete({c})
    /\ UNCHANGED <<gateway, created, sweep, job, presence, chatted, faults>>

(* The package or the trip is deleted (onDelete: SetNull).                 *)
LosesTopic(c) ==
    /\ Live(c)
    /\ conv[c].topic # NoTopic
    /\ Call
    /\ conv' = [conv EXCEPT ![c].topic = NoTopic]
    /\ UNCHANGED <<gateway, msg, created, sweep, job, presence, chatted,
                   faults>>

(* The sweep of accounts deletes a user; what names the user names nobody. *)
LosesUser(u) ==
    /\ u \in members
    /\ Call
    /\ members' = members \ {u}
    /\ LET Without(v) == IF v = u THEN NoUser ELSE v
       IN  /\ conv' = [c \in Convs |-> [conv[c] EXCEPT !.creator = Without(@),
                                                      !.participant = Without(@)]]
           /\ msg' = [m \in Msgs |-> [msg[m] EXCEPT !.sender = Without(@),
                                                   !.receiver = Without(@)]]
    /\ UNCHANGED <<socket, clients, activeUsers, writes, availability, created,
                   sweep, job, presence, chatted, faults>>

(* handleDeleteUnverifiedUsers selects the conversations that lack one ... *)
SweepSelect ==
    /\ sweep = {}
    /\ sweep' = {c \in Convs : Live(c) /\ ~Whole(c)}
    /\ sweep' # {}
    /\ UNCHANGED <<gateway, conv, msg, created, job, presence, chatted, calls,
                   faults>>

(* ... and deletes them, after the attachments of their messages.          *)
SweepDelete ==
    /\ sweep # {}
    /\ Delete(sweep)
    /\ sweep' = {}
    /\ UNCHANGED <<gateway, created, job, presence, chatted, calls, faults>>

-----------------------------------------------------------------------------
(* Messages *)

(* create: the conversation, and whom the message is for: the participant  *)
(* if the creator sends, else the creator ...                              *)
SendCheck(p, u, c) ==
    /\ u \in members
    /\ Live(c)
    /\ Start(p, "send", u, IF conv[c].creator = u THEN conv[c].participant
                                                  ELSE conv[c].creator,
             NoTopic, c)
    /\ UNCHANGED <<gateway, conv, msg, created, sweep, presence, chatted,
                   faults>>

(* ... the message, unless the conversation or one of them has gone ...    *)
SendInsert(p) ==
    /\ At(p, "send", "checked")
    /\ LET c == job[p].conv
           m == created + 1
       IN  IF ~Live(c) \/ ~({job[p].user, job[p].other} \ {NoUser}) \subseteq members
              THEN Return(p) /\ UNCHANGED <<msg, created, beside, slipped>>
              ELSE /\ m \in Msgs
                   /\ created' = m
                   /\ msg' = [msg EXCEPT ![m] =
                                [NoMessage EXCEPT !.conv = c,
                                                  !.sender = job[p].user,
                                                  !.receiver = job[p].other]]
                   /\ job' = [job EXCEPT ![p].at = "stored", ![p].msg = m]
                   /\ beside' = [beside EXCEPT ![m] =
                        {job[q].msg : q \in {r \in Procs \ {p} :
                                                At(r, "send", "stored")}}]
                   /\ slipped' =
                        IF \E q \in Procs : /\ At(q, "list", "checked")
                                            /\ job[q].conv = c
                                            /\ job[q].user = job[p].other
                           THEN slipped \cup {m} ELSE slipped
    /\ UNCHANGED <<gateway, conv, sweep, presence, unfiled, seen, acked, calls,
                   faults>>

(* Mutant: the first message stays the last. *)
SendFileOnce(p) ==
    /\ At(p, "send", "stored")
    /\ LET c == job[p].conv
       IN  conv' = IF Live(c) /\ conv[c].last = NoMsg
                      THEN [conv EXCEPT ![c].last = job[p].msg] ELSE conv
    /\ Return(p)
    /\ UNCHANGED <<gateway, msg, created, sweep, presence, chatted, calls,
                   faults>>

(* ... and last_message_id, whatever stands there by now.                  *)
SendFile(p) ==
    /\ At(p, "send", "stored")
    /\ LET c == job[p].conv
       IN  conv' = IF Live(c) THEN [conv EXCEPT ![c].last = job[p].msg]
                              ELSE conv
    /\ Return(p)
    /\ UNCHANGED <<gateway, msg, created, sweep, presence, chatted, calls,
                   faults>>

ToRead(u, c) == {m \in MsgsOf(c) : msg[m].receiver = u /\ msg[m].status # "READ"}

(* Mutant: only the message that was found is marked. *)
MarkReadFirst(ms) ==
    LET first == {m \in ms : \A n \in ms : m <= n}
    IN  /\ msg' = [m \in Msgs |-> IF m \in first
                                     THEN [msg[m] EXCEPT !.status = "READ"]
                                     ELSE msg[m]]
        /\ acked' = acked \ ms
        /\ slipped' = slipped \ ms

(* updateMany of markMessagesAsRead.                                       *)
MarkRead(ms) ==
    /\ msg' = [m \in Msgs |-> IF m \in ms THEN [msg[m] EXCEPT !.status = "READ"]
                                          ELSE msg[m]]
    /\ acked' = acked \ ms
    /\ slipped' = slipped \ ms

(* markMessagesAsRead on its own, from the controller.                     *)
MarkMessagesAsRead(u, c) ==
    /\ u \in members
    /\ Live(c)
    /\ ToRead(u, c) # {}
    /\ Call
    /\ MarkRead(ToRead(u, c))
    /\ UNCHANGED <<gateway, conv, created, sweep, job, presence, beside, unfiled,
                   seen, faults>>

(* findAll: one of the two asks, and the messages to him are marked ...    *)
ListMark(p, u, c) ==
    /\ Live(c)
    /\ u \in Parties(c)
    /\ Start(p, "list", u, NoUser, NoTopic, c)
    /\ MarkRead(ToRead(u, c))
    /\ UNCHANGED <<gateway, conv, created, sweep, presence, beside, unfiled,
                   seen, faults>>

(* ... and then all messages there are by now are shown.                   *)
ListShow(p) ==
    /\ At(p, "list", "checked")
    /\ seen' = seen \cup {m \in MsgsOf(job[p].conv) :
                                msg[m].receiver = job[p].user}
    /\ Return(p)
    /\ UNCHANGED <<gateway, conv, msg, created, sweep, presence, beside, unfiled,
                   slipped, acked, calls, faults>>

(* markAsRead sets is_read; the count of unread messages asks for status.  *)
MarkAsRead(m) ==
    /\ msg[m].conv # NoConv
    /\ ~msg[m].is_read
    /\ Call
    /\ msg' = [msg EXCEPT ![m].is_read = TRUE]
    /\ UNCHANGED <<gateway, conv, created, sweep, job, presence, chatted,
                   faults>>

(* 'updateMessageStatus': a client reports any status, in any order.       *)
UpdateMessageStatus(m, status) ==
    /\ msg[m].conv # NoConv
    /\ msg[m].status # status
    /\ Call
    /\ msg' = [msg EXCEPT ![m].status = status]
    /\ acked' = IF status = "READ" THEN acked \ {m} ELSE acked \cup {m}
    /\ slipped' = IF status = "READ" THEN slipped \ {m} ELSE slipped
    /\ UNCHANGED <<gateway, conv, created, sweep, job, presence, beside, unfiled,
                   seen, faults>>

(* ConversationService.findAll: the conversations u is shown.              *)
Inbox(u) == {c \in Convs : Live(c) /\ u \in Parties(c)}

(* unreadMessageCount: conversations with a message to u that is not READ. *)
Unread(u) == {c \in Convs : ToRead(u, c) # {}}

-----------------------------------------------------------------------------
(* The server restarts: connections, maps, writes and handlers are gone.   *)
Restart ==
    /\ Fault
    /\ socket' = [s \in Sockets |-> IF Open(s)
                                       THEN [socket[s] EXCEPT !.state = "closed"]
                                       ELSE socket[s]]
    /\ clients' = [u \in Users |-> NoSocket]
    /\ activeUsers' = [n \in Names |-> NoSocket]
    /\ writes' = {}
    /\ disturbed' = Users
    /\ unfiled' = unfiled \cup {job[p].msg : p \in {q \in Procs :
                                                At(q, "send", "stored")}}
    /\ job' = [p \in Procs |-> Idle]
    /\ sweep' = {}
    /\ UNCHANGED <<members, availability, conv, msg, created, left, beside, seen,
                   slipped, acked, calls>>

Gateway ==
    \/ \E u \in Users, s \in Sockets : HandleConnection(u, s)
    \/ \E s \in Sockets : HandleDisconnect(s)
    \/ \E w \in writes : UpdateUserStatus(w) \/ StatusRejected(w)
    \/ \E s \in Sockets, n \in Names : HandleJoin(s, n)
    \/ \E m \in Msgs : \E status \in Status \ {"PENDING"} :
            UpdateMessageStatus(m, status)

ConversationRoutes ==
    \/ \E p \in Procs, u, v \in Users, t \in Topics : CreateCheck(p, u, v, t)
    \/ \E c \in Convs : Remove(c)

MessageRoutes ==
    \/ \E u \in Users, c \in Convs :
        \/ \E p \in Procs : SendCheck(p, u, c) \/ ListMark(p, u, c)
        \/ MarkMessagesAsRead(u, c)
    \/ \E m \in Msgs : MarkAsRead(m)

Continue(p) == CreateInsert(p) \/ SendInsert(p) \/ SendFile(p) \/ ListShow(p)

Next ==
    \/ Gateway
    \/ ConversationRoutes
    \/ MessageRoutes
    \/ \E p \in Procs : Continue(p)
    \/ \E c \in Convs : LosesTopic(c)
    \/ \E u \in Users : LosesUser(u)
    \/ SweepSelect
    \/ SweepDelete
    \/ Restart

Spec == Init /\ [][Next]_vars

-----------------------------------------------------------------------------
(* Once nothing of a user's is on its way, the user is shown online exactly *)
(* when connected, with as many sockets as may be; unless two opposite      *)
(* writes were on their way at once, or the newest socket closed before an  *)
(* older one, or the last write of "offline" was rejected, or the server    *)
(* restarted, and then until a socket next opens or closes on its own.      *)
PresenceSettles ==
    \A u \in members :
        WritesOf(u) = {} /\ u \notin disturbed =>
            (availability[u] = "online" <=> OpenOf(u) # {})

(* What is sent to a user goes to an open socket of that user, and a call  *)
(* to an open socket, unless the socket that took the name was closed      *)
(* after another of its user had replaced it, or had taken two names.      *)
RoutesAreLive ==
    /\ \A u \in Users : MessageRoute(u) \subseteq OpenOf(u)
    /\ \A n \in Names : \A s \in CallRoute(n) : Open(s) \/ s \in left

(* The last message of a conversation is one of its messages, and one that *)
(* is newer was created while the last was still being filed, or is itself *)
(* still being filed, or its handler was stopped.                          *)
LastMessageIsLatest ==
    \A c \in Convs : Live(c) =>
        /\ conv[c].last # NoMsg => conv[c].last \in MsgsOf(c)
        /\ \A m \in MsgsOf(c) :
                m > conv[c].last =>
                    \/ conv[c].last \in beside[m]
                    \/ m \in unfiled
                    \/ \E p \in Procs : At(p, "send", "stored")
                                            /\ job[p].msg = m

(* What a user's count of unread messages counts is in the user's list of  *)
(* conversations; and only messages the user has not been shown count, or  *)
(* that were set back by a client, or that were created between the        *)
(* marking and the reading of the user's own list.                         *)
UnreadIsNew ==
    \A u \in Users :
        /\ Unread(u) \subseteq Inbox(u)
        /\ \A c \in Unread(u) :
            \A m \in ToRead(u, c) : m \in seen => m \in acked \cup slipped

(* A package and a trip have one conversation, however many ask at once.   *)
OneConversationPerTopic ==
    \A c, d \in Convs :
        /\ Live(c) /\ Live(d)
        /\ conv[c].topic = conv[d].topic /\ conv[c].topic # NoTopic
        => c = d

===============================================================================
