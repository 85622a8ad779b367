------------------------------ MODULE ChatProofs ------------------------------
(***************************************************************************)
(* The safety of Chat, for any users, sockets, names, conversations, slots *)
(* and bounds: types, routes, presence, the uniqueness of conversations,   *)
(* their last message, and what counts as unread.                          *)
(***************************************************************************)
EXTENDS Chat, TLAPS

-----------------------------------------------------------------------------
(* Types *)

Socket == [state : {"unused", "open", "closed"}, user : Users \cup {NoUser}]
Write == [socket : Sockets, status : {"online", "offline"}]

(* A socket that was opened is somebody's, and only those are written for. *)
SocketsOwned ==
    /\ \A s \in Sockets : socket[s].state # "unused" => socket[s].user \in Users
    /\ \A w \in writes : socket[w.socket].state # "unused"

(* What a job of this operation, at this place, must know.                 *)
Knows(j) ==
    /\ j.op \in {"send", "list"} => j.conv \in Convs /\ j.user \in Users
    /\ j.op = "send" /\ j.at = "stored" => j.msg \in Msgs

JobsSound == \A p \in Procs : Knows(job[p])

TypeInv == TypeOK /\ SocketsOwned /\ JobsSound

GatewayOK ==
    /\ socket \in [Sockets -> Socket]
    /\ clients \in [Users -> Sockets \cup {NoSocket}]
    /\ activeUsers \in [Names -> Sockets \cup {NoSocket}]
    /\ writes \subseteq Write
    /\ members \subseteq Users
    /\ availability \in [Users -> {"online", "offline"}]
    /\ disturbed \subseteq Users
    /\ left \subseteq Sockets
    /\ SocketsOwned

MessagesOK ==
    /\ conv \in [Convs -> Conversation]
    /\ msg \in [Msgs -> Message]
    /\ created \in 0..MaxMsgs
    /\ sweep \subseteq Convs
    /\ beside \in [Msgs -> SUBSET Msgs]
    /\ unfiled \subseteq Msgs
    /\ seen \subseteq Msgs
    /\ slipped \subseteq Msgs
    /\ acked \subseteq Msgs

JobsOK == job \in [Procs -> Job] /\ JobsSound

CountersOK == calls \in Nat /\ faults \in Nat

LEMMA TypeParts ==
    TypeInv <=> GatewayOK /\ MessagesOK /\ JobsOK /\ CountersOK
BY DEF TypeInv, TypeOK, GatewayOK, MessagesOK, JobsOK, CountersOK, Socket,
       Write

LEMMA TypePartsNext ==
    TypeInv' <=> GatewayOK' /\ MessagesOK' /\ JobsOK' /\ CountersOK'
BY DEF TypeInv, TypeOK, GatewayOK, MessagesOK, JobsOK, CountersOK, Socket,
       Write

LEMMA Blanks ==
    /\ Idle \in Job /\ Knows(Idle) /\ Idle.op = "none"
    /\ NoMessage \in Message /\ NoMessage.conv = NoConv
    /\ NoConversation \in Conversation /\ NoConversation.state = "none"
    /\ NoConversation.last = NoMsg
BY ChatAssumption
   DEF Idle, Job, Knows, NoMessage, Message, Status, NoConversation,
       Conversation, NoMsg

LEMMA TypeInit == Init => TypeInv
<1> SUFFICES ASSUME Init PROVE TypeInv
  OBVIOUS
<1>1. GatewayOK
  BY DEF Init, GatewayOK, SocketsOwned, Socket
<1>2. conv \in [Convs -> Conversation]
  <2>1. ASSUME NEW t \in Topics, NEW u \in Users, NEW v \in Users
        PROVE  Opened(t, u, v) \in Conversation
    BY Blanks DEF Opened, Conversation
  <2>2. {Opened(t, u, v) : t \in Topics, u \in Users, v \in Users}
            \subseteq Conversation
    BY <2>1
  <2> QED
    BY <2>2, Blanks DEF Init
<1>3. MessagesOK
  <2>1. msg \in [Msgs -> Message] /\ beside \in [Msgs -> SUBSET Msgs]
    BY Blanks DEF Init
  <2>2. created \in 0..MaxMsgs
    <3>1. created = 0
      BY DEF Init
    <3> QED
      BY <3>1, ChatAssumption
  <2> QED
    BY <1>2, <2>1, <2>2 DEF Init, MessagesOK
<1>4. JobsOK
  BY Blanks DEF Init, JobsOK, JobsSound
<1> QED
  BY <1>1, <1>3, <1>4, TypeParts DEF Init, CountersOK

(* Handlers start, go on and return.                                       *)
LEMMA JobKeeps ==
    ASSUME JobsOK, NEW p \in Procs, NEW j \in Job, Knows(j),
           job' = [job EXCEPT ![p] = j]
    PROVE  JobsOK'
BY DEF JobsOK, JobsSound

LEMMA ReturnKeeps ==
    ASSUME JobsOK, NEW p \in Procs, Return(p)
    PROVE  JobsOK'
BY JobKeeps, Blanks DEF Return

LEMMA StartKeeps ==
    ASSUME JobsOK, CountersOK, UNCHANGED faults, NEW p \in Procs,
           NEW op \in {"create", "send", "list"}, NEW u \in Users,
           NEW v \in Users \cup {NoUser}, NEW t \in Topics \cup {NoTopic},
           NEW c \in Convs \cup {NoConv},
           op \in {"send", "list"} => c \in Convs,
           Start(p, op, u, v, t, c)
    PROVE  JobsOK' /\ CountersOK'
<1> DEFINE j == [op |-> op, at |-> "checked", user |-> u, other |-> v,
                 topic |-> t, conv |-> c, msg |-> NoMsg]
<1>1. j \in Job
  BY ChatAssumption DEF Job, NoMsg
<1>2. Knows(j)
  BY DEF Knows
<1>3. job' = [job EXCEPT ![p] = j] /\ calls' = calls + 1
  BY DEF Start, Call
<1>4. CountersOK'
  BY <1>3 DEF CountersOK
<1> HIDE DEF j
<1> QED
  BY <1>1, <1>2, <1>3, <1>4, JobKeeps

(* Conversations go.                                                       *)
LEMMA DeleteKeeps ==
    ASSUME MessagesOK, NEW cs \in SUBSET Convs, Delete(cs),
           UNCHANGED <<created, sweep, chatted>>
    PROVE  MessagesOK'
<1>1. [NoConversation EXCEPT !.state = "gone"] \in Conversation
  BY ChatAssumption DEF NoConversation, Conversation, NoMsg
<1>2. conv' \in [Convs -> Conversation]
  BY <1>1 DEF MessagesOK, Delete
<1>3. msg' \in [Msgs -> Message]
  BY Blanks DEF MessagesOK, Delete
<1> QED
  BY <1>2, <1>3 DEF MessagesOK, chatted

LEMMA MarkKeeps ==
    ASSUME MessagesOK, NEW ms \in SUBSET Msgs, MarkRead(ms),
           UNCHANGED <<conv, created, sweep, beside, unfiled, seen>>
    PROVE  MessagesOK'
<1>1. msg' \in [Msgs -> Message]
  BY DEF MessagesOK, MarkRead, Message, Status
<1> QED
  BY <1>1 DEF MessagesOK, MarkRead

(* Every step keeps the types.                                             *)
(* A socket that is closed leaves the gateway typed. *)
LEMMA LeaveKeeps ==
    ASSUME GatewayOK, NEW s \in Sockets, Open(s), NEW pending \in SUBSET writes,
           Leave(s, pending), UNCHANGED <<members, availability>>
    PROVE  GatewayOK'
<1> DEFINE u == socket[s].user
<1>1. u \in Users
  BY DEF Open, GatewayOK, SocketsOwned
<1>2. [socket |-> s, status |-> "offline"] \in Write
  BY DEF Write
<1>3. /\ socket' = [socket EXCEPT ![s].state = "closed"]
      /\ \/ clients' = clients
         \/ clients' = [clients EXCEPT ![u] = NoSocket]
      /\ \/ activeUsers' = activeUsers
         \/ \E n \in Names : activeUsers' = [activeUsers EXCEPT ![n] = NoSocket]
      /\ writes' \subseteq writes \cup {[socket |-> s, status |-> "offline"]}
      /\ left' \subseteq left \cup {s}
  BY DEF Leave, NamesOf
<1>4. disturbed' \subseteq disturbed \cup {u}
  BY DEF Leave, NoteLeave
<1>5. socket' \in [Sockets -> Socket]
  BY <1>3 DEF GatewayOK, Socket
<1>6. \A t \in Sockets : /\ socket'[t].user = socket[t].user
                         /\ socket'[t].state = IF t = s THEN "closed"
                                               ELSE socket[t].state
  BY <1>3 DEF GatewayOK, Socket
<1> HIDE DEF u
<1>7. SocketsOwned'
  BY <1>1, <1>2, <1>3, <1>6 DEF GatewayOK, SocketsOwned, Write, Open
<1> QED
  BY <1>1, <1>2, <1>3, <1>4, <1>5, <1>7 DEF GatewayOK

LEMMA TypeStep == TypeInv /\ [Next]_vars => TypeInv'
<1> SUFFICES ASSUME TypeInv, [Next]_vars
             PROVE  TypeInv'
  OBVIOUS
<1>0. GatewayOK /\ MessagesOK /\ JobsOK /\ CountersOK
  BY TypeParts
<1>a. UNCHANGED <<gateway, presence>> => GatewayOK'
  BY <1>0 DEF GatewayOK, SocketsOwned, gateway, presence
<1>b. UNCHANGED <<conv, msg, created, sweep, chatted>> => MessagesOK'
  BY <1>0 DEF MessagesOK, chatted
<1>c. UNCHANGED job => JobsOK'
  BY <1>0 DEF JobsOK, JobsSound
<1>d. UNCHANGED <<calls, faults>> => CountersOK'
  BY <1>0 DEF CountersOK
<1>e. Call /\ UNCHANGED faults => CountersOK'
  BY <1>0 DEF CountersOK, Call
<1>f. Fault /\ UNCHANGED calls => CountersOK'
  BY <1>0 DEF CountersOK, Fault
(* The gateway *)
<1>1. ASSUME NEW u \in Users, NEW s \in Sockets, HandleConnection(u, s)
      PROVE  TypeInv'
  <2>1. [state |-> "open", user |-> u] \in Socket
    BY DEF Socket
  <2>2. [socket |-> s, status |-> "online"] \in Write
    BY DEF Write
  <2>3. /\ socket' = [socket EXCEPT ![s] = [state |-> "open", user |-> u]]
        /\ clients' = [clients EXCEPT ![u] = s]
        /\ writes' = writes \cup {[socket |-> s, status |-> "online"]}
        /\ disturbed' \subseteq disturbed \cup {u}
        /\ UNCHANGED <<activeUsers, members, availability, left>>
    BY <1>1 DEF HandleConnection
  <2>4. GatewayOK'
    BY <1>0, <2>1, <2>2, <2>3 DEF GatewayOK, SocketsOwned, Write
  <2>5. MessagesOK' /\ JobsOK' /\ CountersOK'
    BY <1>1, <1>b, <1>c, <1>e DEF HandleConnection
  <2> QED
    BY <2>4, <2>5, TypePartsNext
<1>2. ASSUME NEW s \in Sockets, HandleDisconnect(s) PROVE TypeInv'
  <2>1. GatewayOK'
    BY <1>0, <1>2, LeaveKeeps DEF HandleDisconnect
  <2>2. MessagesOK' /\ JobsOK' /\ CountersOK'
    BY <1>2, <1>b, <1>c, <1>d DEF HandleDisconnect
  <2> QED
    BY <2>1, <2>2, TypePartsNext
<1>3. ASSUME NEW w \in writes, UpdateUserStatus(w) PROVE TypeInv'
  <2>1. w.status \in {"online", "offline"}
    BY <1>0, <1>3 DEF GatewayOK, Write
  <2>2. GatewayOK'
    BY <1>0, <1>3, <2>1
       DEF UpdateUserStatus, GatewayOK, SocketsOwned, presence
  <2>3. MessagesOK' /\ JobsOK' /\ CountersOK'
    BY <1>3, <1>b, <1>c, <1>d DEF UpdateUserStatus
  <2> QED
    BY <2>2, <2>3, TypePartsNext
<1>22. ASSUME NEW w \in writes, StatusRejected(w) PROVE TypeInv'
  <2>1. GatewayOK'
    <3>1. w.socket \in Sockets /\ socket[w.socket].user \in Users
      BY <1>0 DEF GatewayOK, Write, SocketsOwned
    <3>2. CASE w.status = "online" /\ Open(w.socket)
      <4>1. Leave(w.socket, writes \ {w}) /\ UNCHANGED <<members, availability>>
        BY <1>22, <3>2 DEF StatusRejected
      <4> QED
        BY <1>0, <3>1, <3>2, <4>1, LeaveKeeps
    <3>3. CASE ~(w.status = "online" /\ Open(w.socket))
      <4>1. /\ writes' = writes \ {w}
            /\ disturbed' \subseteq disturbed \cup {socket[w.socket].user}
            /\ UNCHANGED <<socket, clients, activeUsers, left, members,
                           availability>>
        BY <1>22, <3>3 DEF StatusRejected
      <4> QED
        BY <1>0, <3>1, <4>1 DEF GatewayOK, SocketsOwned
    <3> QED
      BY <3>2, <3>3
  <2>2. MessagesOK' /\ JobsOK' /\ CountersOK'
    BY <1>22, <1>b, <1>c, <1>f DEF StatusRejected
  <2> QED
    BY <2>1, <2>2, TypePartsNext
<1>4. ASSUME NEW s \in Sockets, NEW n \in Names, HandleJoin(s, n)
      PROVE  TypeInv'
  <2>1. GatewayOK'
    BY <1>0, <1>4 DEF HandleJoin, GatewayOK, SocketsOwned, presence
  <2>2. MessagesOK' /\ JobsOK' /\ CountersOK'
    BY <1>4, <1>b, <1>c, <1>e DEF HandleJoin
  <2> QED
    BY <2>1, <2>2, TypePartsNext
<1>5. ASSUME NEW m \in Msgs, NEW status \in Status,
             UpdateMessageStatus(m, status)
      PROVE  TypeInv'
  <2>1. msg' \in [Msgs -> Message]
    BY <1>0, <1>5 DEF UpdateMessageStatus, MessagesOK, Message
  <2>2. MessagesOK'
    BY <1>0, <1>5, <2>1 DEF UpdateMessageStatus, MessagesOK
  <2> QED
    BY <1>5, <1>a, <1>c, <1>e, <2>2, TypePartsNext DEF UpdateMessageStatus
(* Conversations *)
<1>6. ASSUME NEW p \in Procs, NEW u \in Users, NEW v \in Users,
             NEW t \in Topics, CreateCheck(p, u, v, t)
      PROVE  TypeInv'
  BY <1>0, <1>6, <1>a, <1>b, StartKeeps, TypePartsNext DEF CreateCheck
<1>7. ASSUME NEW p \in Procs, CreateInsert(p) PROVE TypeInv'
  <2> DEFINE r == Opened(job[p].topic, job[p].user, job[p].other)
  <2>1. r \in Conversation
    BY <1>0, Blanks DEF JobsOK, Job, Opened, Conversation
  <2>2. UNCHANGED conv \/ \E c \in Convs : conv' = [conv EXCEPT ![c] = r]
    BY <1>7 DEF CreateInsert
  <2> HIDE DEF r
  <2>3. conv' \in [Convs -> Conversation]
    BY <1>0, <2>1, <2>2 DEF MessagesOK
  <2>4. MessagesOK'
    BY <1>0, <1>7, <2>3 DEF CreateInsert, MessagesOK, chatted
  <2> QED
    BY <1>0, <1>7, <1>a, <1>d, <2>4, ReturnKeeps, TypePartsNext
       DEF CreateInsert
<1>8. ASSUME NEW c \in Convs, Remove(c) PROVE TypeInv'
  <2>1. MessagesOK'
    BY <1>0, <1>8, DeleteKeeps DEF Remove
  <2> QED
    BY <1>8, <1>a, <1>c, <1>e, <2>1, TypePartsNext DEF Remove
<1>9. ASSUME NEW c \in Convs, LosesTopic(c) PROVE TypeInv'
  <2>1. conv' \in [Convs -> Conversation]
    BY <1>0, <1>9 DEF LosesTopic, MessagesOK, Conversation
  <2>2. MessagesOK'
    BY <1>0, <1>9, <2>1 DEF LosesTopic, MessagesOK, chatted
  <2> QED
    BY <1>9, <1>a, <1>c, <1>e, <2>2, TypePartsNext DEF LosesTopic
<1>10. ASSUME NEW u \in Users, LosesUser(u) PROVE TypeInv'
  <2>1. conv' \in [Convs -> Conversation]
    BY <1>0, <1>10, ZenonT(60) DEF LosesUser, MessagesOK, Conversation
  <2>2. msg' \in [Msgs -> Message]
    <3>1. \A m \in Msgs : msg'[m] \in Message
      <4>1. ASSUME NEW m \in Msgs PROVE msg'[m] \in Message
        BY <1>0, <1>10, <4>1, ZenonT(60) DEF LosesUser, MessagesOK, Message
      <4> QED
        BY <4>1
    <3>2. msg' = [m \in Msgs |-> msg'[m]]
      BY <1>10 DEF LosesUser
    <3> QED
      BY <3>1, <3>2
  <2>3. MessagesOK'
    BY <1>0, <1>10, <2>1, <2>2 DEF LosesUser, MessagesOK, chatted
  <2>4. GatewayOK'
    BY <1>0, <1>10 DEF LosesUser, GatewayOK, SocketsOwned, presence
  <2> QED
    BY <1>10, <1>c, <1>e, <2>3, <2>4, TypePartsNext DEF LosesUser
<1>11. ASSUME SweepSelect PROVE TypeInv'
  <2>1. MessagesOK'
    BY <1>0, <1>11 DEF SweepSelect, MessagesOK, chatted
  <2> QED
    BY <1>11, <1>a, <1>c, <1>d, <2>1, TypePartsNext DEF SweepSelect
<1>12. ASSUME SweepDelete PROVE TypeInv'
  <2>1. conv' \in [Convs -> Conversation] /\ msg' \in [Msgs -> Message]
    <3>1. [NoConversation EXCEPT !.state = "gone"] \in Conversation
      BY ChatAssumption DEF NoConversation, Conversation, NoMsg
    <3> QED
      BY <1>0, <1>12, <3>1, Blanks DEF SweepDelete, Delete, MessagesOK
  <2>2. MessagesOK'
    BY <1>0, <1>12, <2>1 DEF SweepDelete, MessagesOK, chatted
  <2> QED
    BY <1>12, <1>a, <1>c, <1>d, <2>2, TypePartsNext DEF SweepDelete
(* Messages *)
<1>13. ASSUME NEW p \in Procs, NEW u \in Users, NEW c \in Convs,
              SendCheck(p, u, c)
       PROVE  TypeInv'
  <2>1. conv[c].creator \in Users \cup {NoUser}
        /\ conv[c].participant \in Users \cup {NoUser}
    BY <1>0 DEF MessagesOK, Conversation
  <2> QED
    BY <1>0, <1>13, <1>a, <1>b, <2>1, StartKeeps, TypePartsNext DEF SendCheck
<1>14. ASSUME NEW p \in Procs, SendInsert(p) PROVE TypeInv'
  <2> DEFINE m == created + 1
             r == [NoMessage EXCEPT !.conv = job[p].conv,
                        !.sender = job[p].user, !.receiver = job[p].other]
             j == [job[p] EXCEPT !.at = "stored", !.msg = m]
  <2>1. GatewayOK' /\ CountersOK'
    BY <1>14, <1>a, <1>d DEF SendInsert
  <2>2. CASE Return(p) /\ UNCHANGED <<msg, created, beside, slipped>>
    <3>1. MessagesOK'
      BY <1>14, <1>b, <2>2 DEF SendInsert, chatted
    <3> QED
      BY <1>0, <2>1, <2>2, <3>1, ReturnKeeps, TypePartsNext
  <2>3. CASE /\ m \in Msgs
             /\ created' = m
             /\ msg' = [msg EXCEPT ![m] = r]
             /\ job' = [job EXCEPT ![p].at = "stored", ![p].msg = m]
             /\ beside' = [beside EXCEPT ![m] =
                    {job[q].msg : q \in {x \in Procs \ {p} :
                                            At(x, "send", "stored")}}]
             /\ slipped' \subseteq slipped \cup {m}
    <3>1. r \in Message
      BY <1>0 DEF JobsOK, Job, NoMessage, Message, Status
    <3>2. j \in Job /\ Knows(j)
      <4>1. job[p] \in Job /\ Knows(job[p]) /\ job[p].op = "send"
        BY <1>0, <1>14 DEF JobsOK, JobsSound, SendInsert, At
      <4>2. m \in 0..MaxMsgs
        BY <2>3 DEF Msgs
      <4>3. j \in Job
        BY <4>1, <4>2 DEF Job
      <4>4. /\ j.op = job[p].op /\ j.conv = job[p].conv
            /\ j.user = job[p].user /\ j.msg = m
        BY <4>1 DEF Job
      <4> QED
        BY <2>3, <4>1, <4>3, <4>4 DEF Knows
    <3>3. job' = [job EXCEPT ![p] = j]
      BY <1>0, <2>3 DEF JobsOK, Job
    <3>4. JobsOK'
      <4> HIDE DEF j
      <4> QED
        BY <1>0, <3>2, <3>3, JobKeeps
    <3>5. {job[q].msg : q \in {x \in Procs \ {p} : At(x, "send", "stored")}}
            \subseteq Msgs
      BY <1>0 DEF JobsOK, JobsSound, Knows, At
    <3>6. beside' \in [Msgs -> SUBSET Msgs]
      BY <1>0, <2>3, <3>5 DEF MessagesOK
    <3>7. msg' \in [Msgs -> Message] /\ created' \in 0..MaxMsgs
      <4> HIDE DEF r
      <4> QED
        BY <1>0, <2>3, <3>1 DEF MessagesOK, Msgs
    <3>8. slipped' \subseteq Msgs
      BY <1>0, <2>3 DEF MessagesOK
    <3>9. MessagesOK'
      BY <1>0, <1>14, <3>6, <3>7, <3>8 DEF SendInsert, MessagesOK
    <3> QED
      BY <2>1, <3>4, <3>9, TypePartsNext
  <2>4. slipped' \subseteq slipped \cup {m} \/ UNCHANGED slipped
    BY <1>14 DEF SendInsert
  <2> QED
    BY <1>14, <2>2, <2>3, <2>4 DEF SendInsert
<1>15. ASSUME NEW p \in Procs, SendFile(p) PROVE TypeInv'
  <2>1. job[p].msg \in 0..MaxMsgs
    BY <1>0 DEF JobsOK, Job
  <2>2. conv' \in [Convs -> Conversation]
    BY <1>0, <1>15, <2>1 DEF SendFile, MessagesOK, Conversation, Live
  <2>3. MessagesOK'
    BY <1>0, <1>15, <2>2 DEF SendFile, MessagesOK, chatted
  <2> QED
    BY <1>0, <1>15, <1>a, <1>d, <2>3, ReturnKeeps, TypePartsNext DEF SendFile
<1>16. ASSUME NEW u \in Users, NEW c \in Convs, MarkMessagesAsRead(u, c)
       PROVE  TypeInv'
  <2>1. MessagesOK'
    <3>1. ToRead(u, c) \subseteq Msgs
      BY DEF ToRead, MsgsOf
    <3> QED
      BY <1>0, <1>16, <3>1, MarkKeeps DEF MarkMessagesAsRead
  <2> QED
    BY <1>16, <1>a, <1>c, <1>e, <2>1, TypePartsNext DEF MarkMessagesAsRead
<1>17. ASSUME NEW p \in Procs, NEW u \in Users, NEW c \in Convs,
              ListMark(p, u, c)
       PROVE  TypeInv'
  <2>1. MessagesOK'
    <3>1. ToRead(u, c) \subseteq Msgs
      BY DEF ToRead, MsgsOf
    <3> QED
      BY <1>0, <1>17, <3>1, MarkKeeps DEF ListMark
  <2>2. JobsOK' /\ CountersOK'
    BY <1>0, <1>17, StartKeeps DEF ListMark
  <2> QED
    BY <1>17, <1>a, <2>1, <2>2, TypePartsNext DEF ListMark
<1>18. ASSUME NEW p \in Procs, ListShow(p) PROVE TypeInv'
  <2>1. MessagesOK'
    BY <1>0, <1>18 DEF ListShow, MessagesOK, MsgsOf
  <2> QED
    BY <1>0, <1>18, <1>a, <1>d, <2>1, ReturnKeeps, TypePartsNext DEF ListShow
<1>19. ASSUME NEW m \in Msgs, MarkAsRead(m) PROVE TypeInv'
  <2>1. TRUE \in BOOLEAN
    OBVIOUS
  <2>2. msg' \in [Msgs -> Message]
    BY <1>0, <1>19, <2>1 DEF MarkAsRead, MessagesOK, Message
  <2>3. MessagesOK'
    BY <1>0, <1>19, <2>2 DEF MarkAsRead, MessagesOK, chatted
  <2> QED
    BY <1>19, <1>a, <1>c, <1>e, <2>3, TypePartsNext DEF MarkAsRead
(* The server *)
<1>20. ASSUME Restart PROVE TypeInv'
  <2>1. \A s \in Sockets : /\ socket'[s] \in Socket
                           /\ socket'[s].user = socket[s].user
                           /\ socket'[s].state # "unused" =>
                                    socket[s].state # "unused"
    BY <1>0, <1>20 DEF Restart, GatewayOK, Open, Socket
  <2>2. socket' \in [Sockets -> Socket]
    <3>1. socket' = [s \in Sockets |-> socket'[s]]
      BY <1>20 DEF Restart
    <3> QED
      BY <2>1, <3>1
  <2>3. GatewayOK'
    BY <1>0, <1>20, <2>1, <2>2 DEF Restart, GatewayOK, SocketsOwned
  <2>4. {job[p].msg : p \in {q \in Procs : At(q, "send", "stored")}} \subseteq Msgs
    BY <1>0 DEF JobsOK, JobsSound, Knows, At
  <2>5. MessagesOK'
    BY <1>0, <1>20, <2>4 DEF Restart, MessagesOK
  <2>6. JobsOK' /\ CountersOK'
    BY <1>0, <1>20, Blanks
       DEF Restart, Fault, JobsOK, JobsSound, CountersOK
  <2> QED
    BY <2>3, <2>5, <2>6, TypePartsNext
<1>21. CASE UNCHANGED vars
  BY <1>21, <1>a, <1>b, <1>c, <1>d, TypePartsNext DEF vars
<1> QED
  BY <1>1, <1>2, <1>3, <1>4, <1>5, <1>6, <1>7, <1>8, <1>9, <1>10, <1>11,
     <1>12, <1>13, <1>14, <1>15, <1>16, <1>17, <1>18, <1>19, <1>20, <1>21,
     <1>22
     DEF Next, Gateway, ConversationRoutes, MessageRoutes, Continue

(* The tables, the maps of the gateway and the handlers in flight keep     *)
(* their types.                                                            *)
THEOREM TypesHold == Spec => []TypeInv
BY TypeInit, TypeStep, PTL DEF Spec


-----------------------------------------------------------------------------
(* One conversation about a topic *)

LEMMA TopicStep ==
    TypeInv /\ OneConversationPerTopic /\ [Next]_vars => OneConversationPerTopic'
<1> SUFFICES ASSUME TypeInv, OneConversationPerTopic, [Next]_vars
             PROVE  OneConversationPerTopic'
  OBVIOUS
<1>0. conv \in [Convs -> Conversation] /\ job \in [Procs -> Job]
  BY DEF TypeInv, TypeOK
<1>1. ASSUME \A c \in Convs : conv'[c].state = "live" =>
                /\ conv[c].state = "live"
                /\ conv'[c].topic \in {conv[c].topic, NoTopic}
      PROVE  OneConversationPerTopic'
  BY <1>1 DEF OneConversationPerTopic, Live
<1>2. UNCHANGED conv => OneConversationPerTopic'
  BY <1>1
<1>3. ASSUME NEW p \in Procs, CreateInsert(p) PROVE OneConversationPerTopic'
  <2>1. CASE UNCHANGED conv
    BY <1>2, <2>1
  <2>2. ASSUME NEW c \in Convs,
               ~\E d \in Convs : Live(d) /\ conv[d].topic = job[p].topic,
               conv' = [conv EXCEPT ![c] =
                            Opened(job[p].topic, job[p].user, job[p].other)]
        PROVE  OneConversationPerTopic'
    <3>1. conv'[c].topic = job[p].topic /\ \A d \in Convs \ {c} : conv'[d] = conv[d]
      BY <1>0, <2>2 DEF Opened, NoConversation
    <3> QED
      BY <2>2, <3>1 DEF OneConversationPerTopic, Live
  <2> QED
    BY <1>3, <2>1, <2>2 DEF CreateInsert
<1>4. ASSUME NEW cs, Delete(cs) PROVE OneConversationPerTopic'
  BY <1>0, <1>1, <1>4 DEF Delete, NoConversation
<1>5. ASSUME NEW c \in Convs, LosesTopic(c) PROVE OneConversationPerTopic'
  BY <1>0, <1>1, <1>5 DEF LosesTopic, Conversation
<1>6. ASSUME NEW u \in Users, LosesUser(u) PROVE OneConversationPerTopic'
  BY <1>0, <1>1, <1>6 DEF LosesUser, Conversation
<1>7. ASSUME NEW p \in Procs, SendFile(p) PROVE OneConversationPerTopic'
  BY <1>0, <1>1, <1>7 DEF SendFile, Live, Conversation
<1>8. CASE Gateway
  BY <1>2, <1>8 DEF Gateway, HandleConnection, HandleDisconnect,
                    UpdateUserStatus, StatusRejected, HandleJoin,
                    UpdateMessageStatus
<1>9. CASE ConversationRoutes
  BY <1>2, <1>4, <1>9 DEF ConversationRoutes, CreateCheck, Remove
<1>10. CASE MessageRoutes
  BY <1>2, <1>10 DEF MessageRoutes, SendCheck, ListMark, MarkMessagesAsRead,
                     MarkAsRead
<1>11. ASSUME NEW p \in Procs, SendInsert(p) \/ ListShow(p)
       PROVE  OneConversationPerTopic'
  BY <1>2, <1>11 DEF SendInsert, ListShow
<1>12. CASE SweepSelect \/ SweepDelete \/ Restart
  BY <1>2, <1>4, <1>12 DEF SweepSelect, SweepDelete, Restart
<1>13. CASE UNCHANGED vars
  BY <1>2, <1>13 DEF vars
<1> QED
  BY <1>3, <1>5, <1>6, <1>7, <1>8, <1>9, <1>10, <1>11, <1>12, <1>13
     DEF Next, Continue

(* ConversationService.create looks and then inserts; what it looks for is *)
(* less than what is unique, and the insertion decides.                    *)
THEOREM TopicsHold == Spec => []OneConversationPerTopic
<1>1. Init => OneConversationPerTopic
  BY DEF Init, OneConversationPerTopic
<1> QED
  BY <1>1, TopicStep, TypesHold, PTL DEF Spec

-----------------------------------------------------------------------------
(* The gateway *)

(* The steps that change what the gateway or the table knows of users.     *)
GatewaySteps ==
    \/ \E u \in Users, s \in Sockets : HandleConnection(u, s)
    \/ \E s \in Sockets : HandleDisconnect(s)
    \/ \E w \in writes : UpdateUserStatus(w) \/ StatusRejected(w)
    \/ \E s \in Sockets, n \in Names : HandleJoin(s, n)
    \/ \E u \in Users : LosesUser(u)
    \/ Restart

LEMMA OtherSteps ==
    ASSUME [Next]_vars
    PROVE  GatewaySteps \/ UNCHANGED <<gateway, presence>>
<1>1. CASE Gateway
  BY <1>1 DEF Gateway, GatewaySteps, UpdateMessageStatus
<1>2. CASE ConversationRoutes \/ MessageRoutes
  BY <1>2 DEF ConversationRoutes, CreateCheck, Remove, MessageRoutes, SendCheck,
              ListMark, MarkMessagesAsRead, MarkAsRead
<1>3. ASSUME NEW p \in Procs, Continue(p)
      PROVE  UNCHANGED <<gateway, presence>>
  BY <1>3 DEF Continue, CreateInsert, SendInsert, SendFile, ListShow
<1>4. CASE \/ SweepSelect \/ SweepDelete
           \/ \E c \in Convs : LosesTopic(c)
  BY <1>4 DEF SweepSelect, SweepDelete, LosesTopic
<1>5. CASE UNCHANGED vars
  BY <1>5 DEF vars
<1> QED
  BY <1>1, <1>2, <1>3, <1>4, <1>5 DEF Next, GatewaySteps

(* The maps name open sockets, each under its own user.                    *)
RouteInv ==
    /\ \A u \in Users : clients[u] \in Sockets =>
            Open(clients[u]) /\ socket[clients[u]].user = u
    /\ \A n \in Names : activeUsers[n] \in Sockets =>
            Open(activeUsers[n]) \/ activeUsers[n] \in left

LEMMA RouteInit == Init => RouteInv
BY ChatAssumption DEF Init, RouteInv

(* A socket that is closed leaves both maps, but for a second name. *)
LEMMA LeaveRoutes ==
    ASSUME TypeInv, RouteInv, NEW s \in Sockets, Open(s), NEW pending,
           Leave(s, pending)
    PROVE  RouteInv'
<1>0. /\ socket \in [Sockets -> Socket]
      /\ clients \in [Users -> Sockets \cup {NoSocket}]
      /\ activeUsers \in [Names -> Sockets \cup {NoSocket}]
      /\ NoSocket \notin Sockets
  BY ChatAssumption DEF TypeInv, TypeOK, Socket
<1> USE DEF RouteInv, Open
<1> DEFINE u == socket[s].user
<1>1. /\ socket'[s].user = u
      /\ \A t \in Sockets \ {s} : socket'[t] = socket[t]
  BY <1>0 DEF Leave, Socket
<1>2. \A v \in Users : clients'[v] = IF clients[v] = s THEN NoSocket
                                                       ELSE clients[v]
  <2>1. \A v \in Users : clients[v] = s => v = u
    BY <1>0
  <2>2. u \in Users
    BY DEF TypeInv, SocketsOwned
  <2> QED
    BY <1>0, <2>1, <2>2 DEF Leave, Found
<1>3. /\ left \subseteq left'
      /\ \A n \in Names : /\ activeUsers'[n] \in {activeUsers[n], NoSocket}
                          /\ activeUsers'[n] = s => s \in left'
  <2>1. CASE clients[u] # s
    BY <2>1 DEF Leave, Found
  <2>2. CASE clients[u] = s /\ NamesOf(s) = {}
    BY <1>0, <2>2 DEF Leave, Found, NamesOf
  <2>3. CASE clients[u] = s /\ NamesOf(s) # {}
    <3>1. PICK n \in NamesOf(s) :
                  activeUsers' = [activeUsers EXCEPT ![n] = NoSocket]
      BY <2>3 DEF Leave, Found
    <3>2. left' = IF \E i, j \in NamesOf(s) : i # j
                     THEN left \cup {s} ELSE left
      BY <2>3 DEF Leave, Found
    <3> QED
      BY <1>0, <3>1, <3>2 DEF NamesOf
  <2> QED
    BY <2>1, <2>2, <2>3
<1> HIDE DEF u
<1> QED
  BY <1>0, <1>1, <1>2, <1>3

LEMMA RouteStep == TypeInv /\ RouteInv /\ [Next]_vars => RouteInv'
<1> SUFFICES ASSUME TypeInv, RouteInv, [Next]_vars
             PROVE  RouteInv'
  OBVIOUS
<1>0. /\ socket \in [Sockets -> Socket]
      /\ clients \in [Users -> Sockets \cup {NoSocket}]
      /\ activeUsers \in [Names -> Sockets \cup {NoSocket}]
      /\ NoSocket \notin Sockets
  BY ChatAssumption DEF TypeInv, TypeOK, Socket
<1> USE DEF RouteInv, Open
<1>1. ASSUME UNCHANGED <<socket, clients, activeUsers, left>> PROVE RouteInv'
  BY <1>1
<1>2. ASSUME NEW u \in Users, NEW s \in Sockets, HandleConnection(u, s)
      PROVE  RouteInv'
  <2>1. /\ socket'[s].state = "open" /\ socket'[s].user = u
        /\ \A t \in Sockets \ {s} : socket'[t] = socket[t]
        /\ clients'[u] = s /\ \A v \in Users \ {u} : clients'[v] = clients[v]
        /\ UNCHANGED <<activeUsers, left>>
        /\ socket[s].state = "unused"
    BY <1>0, <1>2 DEF HandleConnection
  <2> QED
    BY <1>0, <2>1
<1>3. ASSUME NEW s \in Sockets, HandleDisconnect(s) PROVE RouteInv'
  BY <1>3, LeaveRoutes DEF HandleDisconnect
<1>4. ASSUME NEW w \in writes, UpdateUserStatus(w) PROVE RouteInv'
  BY <1>1, <1>4 DEF UpdateUserStatus, presence
<1>9. ASSUME NEW w \in writes, StatusRejected(w) PROVE RouteInv'
  <2>1. w.socket \in Sockets
    BY DEF TypeInv, TypeOK
  <2> QED
    BY <1>1, <1>9, <2>1, LeaveRoutes DEF StatusRejected
<1>5. ASSUME NEW s \in Sockets, NEW n \in Names, HandleJoin(s, n)
      PROVE  RouteInv'
  BY <1>0, <1>5 DEF HandleJoin, presence
<1>6. ASSUME NEW u \in Users, LosesUser(u) PROVE RouteInv'
  BY <1>1, <1>6 DEF LosesUser, presence
<1>7. ASSUME Restart PROVE RouteInv'
  BY <1>0, <1>7 DEF Restart
<1>8. CASE UNCHANGED <<gateway, presence>>
  BY <1>1, <1>8 DEF gateway, presence
<1> QED
  BY <1>2, <1>3, <1>4, <1>5, <1>6, <1>7, <1>8, <1>9, OtherSteps DEF GatewaySteps

(* handleDisconnect takes the socket out of both maps, but for the names   *)
(* it does not look for.                                                   *)
THEOREM RoutesHold == Spec => []RoutesAreLive
<1>1. TypeInv /\ RouteInv => RoutesAreLive
  BY DEF TypeInv, TypeOK, RouteInv, RoutesAreLive, MessageRoute, CallRoute,
         OpenOf, Open
<1> QED
  BY <1>1, RouteInit, RouteStep, TypesHold, PTL DEF Spec

(* What a user nothing has disturbed is shown as: online when connected,   *)
(* and then clients has one of his open sockets.  What is on its way says  *)
(* so, and when the table does not, something is: when connected, what the *)
(* socket in clients had written.                                          *)
Shown(u) == IF OpenOf(u) # {} THEN "online" ELSE "offline"
Online(s) == [socket |-> s, status |-> "online"]

SettledFor(u) ==
    /\ OpenOf(u) # {} => clients[u] \in OpenOf(u)
    /\ \A w \in WritesOf(u) : w.status = Shown(u)
    /\ u \in members /\ availability[u] # Shown(u) =>
            /\ WritesOf(u) # {}
            /\ OpenOf(u) # {} => Online(clients[u]) \in writes

PresenceInv == \A u \in Users \ disturbed : SettledFor(u)

(* Nothing that concerns the user has changed. *)
LEMMA PresenceStill ==
    ASSUME NEW v \in Users, SettledFor(v),
           OpenOf(v)' = OpenOf(v), WritesOf(v)' = WritesOf(v),
           OpenOf(v) # {} => (Online(clients[v]) \in writes
                                => Online(clients[v]) \in writes'),
           clients'[v] = clients[v], availability'[v] = availability[v],
           members' \subseteq members
    PROVE  SettledFor(v)'
BY DEF SettledFor, Shown, Online

(* A socket is closed, by itself or because its own write of "online" was  *)
(* rejected: its user is settled again if nothing disturbs him.            *)
LEMMA LeaveSettles ==
    ASSUME TypeInv, RouteInv, NEW v \in Users, v \notin disturbed',
           v \notin disturbed => SettledFor(v),
           NEW s \in Sockets, Open(s), NEW pending \in SUBSET writes,
           \A w \in writes \ pending : w = Online(s),
           Leave(s, pending), UNCHANGED <<members, availability>>
    PROVE  SettledFor(v)'
<1>0. /\ socket \in [Sockets -> Socket]
      /\ clients \in [Users -> Sockets \cup {NoSocket}]
      /\ writes \subseteq Write
      /\ availability \in [Users -> {"online", "offline"}]
      /\ NoSocket \notin Sockets
  BY ChatAssumption DEF TypeInv, TypeOK, Socket, Write
<1>1. PICK u \in Users : u = socket[s].user
  BY DEF TypeInv, SocketsOwned, Open
<1> DEFINE new == [socket |-> s, status |-> "offline"]
<1>2. /\ socket'[s].state = "closed" /\ socket'[s].user = u
      /\ socket[s].state = "open"
      /\ \A t \in Sockets \ {s} : socket'[t] = socket[t]
  BY <1>0, <1>1 DEF Leave, Socket, Open
<1>3. OpenOf(v)' = OpenOf(v) \ {s} /\ (s \in OpenOf(v) <=> v = u)
  BY <1>1, <1>2 DEF OpenOf, Open
<1>4. \A w \in Write : socket'[w.socket].user = socket[w.socket].user
  BY <1>1, <1>2 DEF Write
<1>5. /\ clients[u] = s => /\ writes' = pending \cup {new}
                           /\ clients' = [clients EXCEPT ![u] = NoSocket]
      /\ clients[u] # s => writes' = pending /\ clients' = clients
  BY <1>1 DEF Leave, Found
<1>6. \A w \in writes \ pending : w.socket = s /\ w.status = "online"
  BY DEF Online
<1>7. CASE v # u
  <2>1. WritesOf(v)' = WritesOf(v)
    BY <1>0, <1>1, <1>2, <1>4, <1>5, <1>6, <1>7 DEF WritesOf
  <2>2. clients'[v] = clients[v]
    BY <1>0, <1>5, <1>7
  <2>3. v \notin disturbed
    BY <1>1, <1>7 DEF Leave, NoteLeave
  <2>4. OpenOf(v) # {} /\ Online(clients[v]) \in writes
            => Online(clients[v]) \in writes'
    BY <1>3, <1>5, <1>6, <1>7, <2>3 DEF SettledFor, Online
  <2> QED
    BY <1>3, <1>7, <2>1, <2>2, <2>3, <2>4, PresenceStill
<1>8. CASE v = u /\ clients[u] # s
  <2>1. v \notin disturbed /\ SettledFor(v)
    BY <1>1, <1>8 DEF Leave, NoteLeave
  <2>2. clients[v] \in OpenOf(v) \ {s} /\ OpenOf(v)' # {}
    BY <1>3, <1>8, <2>1 DEF SettledFor
  <2>3. WritesOf(v)' \subseteq WritesOf(v)
    BY <1>0, <1>4, <1>5, <1>8 DEF WritesOf
  <2>4. Online(clients[v]) \in writes => Online(clients[v]) \in writes'
    BY <1>5, <1>6, <1>8, <2>2 DEF Online
  <2>5. Online(clients[v]) \in writes' => Online(clients[v]) \in WritesOf(v)'
    <3>1. clients[v] \in Sockets /\ socket'[clients[v]].user = v
      BY <1>2, <2>2 DEF OpenOf
    <3>2. Online(clients[v]).socket = clients[v]
      BY DEF Online
    <3> QED
      BY <3>1, <3>2 DEF WritesOf
  <2>6. Shown(v)' = "online" /\ Shown(v) = "online"
    BY <2>2 DEF Shown
  <2> QED
    BY <1>3, <1>5, <1>8, <2>1, <2>2, <2>3, <2>4, <2>5, <2>6 DEF SettledFor
<1>9. CASE v = u /\ clients[u] = s
  <2>1. /\ OpenOf(u) = {s}
        /\ \A w \in pending : w.status = "online" => socket[w.socket].user # u
    BY <1>1, <1>9 DEF Leave, NoteLeave
  <2>2. OpenOf(v)' = {} /\ Shown(v)' = "offline"
    BY <1>3, <1>9, <2>1 DEF Shown
  <2>3. new \in WritesOf(v)'
    BY <1>2, <1>5, <1>9 DEF WritesOf
  <2>4. ASSUME NEW w \in WritesOf(v)' PROVE w.status = "offline"
    <3>1. w \in writes' /\ socket'[w.socket].user = u
      BY <1>9, <2>4 DEF WritesOf
    <3>2. CASE w = new
      BY <3>2
    <3>3. CASE w \in pending
      <4>1. w \in Write /\ socket[w.socket].user = u
        BY <1>0, <1>4, <3>1, <3>3
      <4> QED
        BY <2>1, <3>3, <4>1 DEF Write
    <3> QED
      BY <1>5, <1>9, <3>1, <3>2, <3>3
  <2> QED
    BY <2>2, <2>3, <2>4 DEF SettledFor
<1> QED
  BY <1>7, <1>8, <1>9

LEMMA PresenceStep ==
    TypeInv /\ RouteInv /\ PresenceInv /\ [Next]_vars => PresenceInv'
<1> SUFFICES ASSUME TypeInv, RouteInv, PresenceInv, [Next]_vars,
                    NEW v \in Users, v \notin disturbed'
             PROVE  SettledFor(v)'
  BY DEF PresenceInv
<1>0. /\ socket \in [Sockets -> Socket]
      /\ clients \in [Users -> Sockets \cup {NoSocket}]
      /\ writes \subseteq Write
      /\ availability \in [Users -> {"online", "offline"}]
      /\ NoSocket \notin Sockets
      /\ \A w \in writes : socket[w.socket].state # "unused"
  BY ChatAssumption DEF TypeInv, TypeOK, Socket, Write, SocketsOwned
<1>a. v \notin disturbed => SettledFor(v)
  BY DEF PresenceInv
<1>b. ASSUME OpenOf(v)' = OpenOf(v), WritesOf(v)' = WritesOf(v),
             writes \subseteq writes', clients'[v] = clients[v],
             availability'[v] = availability[v], members' \subseteq members,
             v \notin disturbed
      PROVE  SettledFor(v)'
  BY <1>a, <1>b, PresenceStill
<1>1. ASSUME NEW u \in Users, NEW s \in Sockets, HandleConnection(u, s)
      PROVE  SettledFor(v)'
  <2> DEFINE new == [socket |-> s, status |-> "online"]
  <2>1. /\ socket[s].state = "unused"
        /\ socket'[s].state = "open" /\ socket'[s].user = u
        /\ \A t \in Sockets \ {s} : socket'[t] = socket[t]
        /\ clients'[u] = s /\ \A x \in Users \ {u} : clients'[x] = clients[x]
        /\ writes' = writes \cup {new}
        /\ UNCHANGED <<members, availability>>
    BY <1>0, <1>1 DEF HandleConnection
  <2>2. disturbed' = IF \E w \in WritesOf(u) : w.status = "offline"
                        THEN disturbed \cup {u} ELSE disturbed \ {u}
    BY <1>1 DEF HandleConnection
  <2>3. \A w \in writes : w.socket \in Sockets \ {s}
    BY <1>0, <2>1 DEF Write
  <2>4. OpenOf(v)' = IF v = u THEN OpenOf(v) \cup {s} ELSE OpenOf(v)
    BY <2>1 DEF OpenOf, Open
  <2>5. WritesOf(v)' = IF v = u THEN WritesOf(v) \cup {new} ELSE WritesOf(v)
    BY <2>1, <2>3 DEF WritesOf
  <2>6. CASE v = u
    <3>1. \A w \in WritesOf(v) : w.status = "online"
      BY <1>0, <2>2, <2>6 DEF WritesOf, Write
    <3>2. Shown(v)' = "online" /\ s \in OpenOf(v)' /\ clients'[v] = s
      BY <2>1, <2>4, <2>6 DEF Shown
    <3>3. new \in WritesOf(v)' /\ Online(clients[v])' = new /\ new \in writes'
      BY <2>1, <2>5, <2>6 DEF Online
    <3> QED
      BY <2>5, <2>6, <3>1, <3>2, <3>3 DEF SettledFor
  <2>7. CASE v # u
    BY <1>b, <2>1, <2>2, <2>4, <2>5, <2>7
  <2> QED
    BY <2>6, <2>7
<1>2. ASSUME NEW s \in Sockets, HandleDisconnect(s) PROVE SettledFor(v)'
  BY <1>a, <1>2, LeaveSettles DEF HandleDisconnect
<1>3. ASSUME NEW w \in writes, UpdateUserStatus(w) PROVE SettledFor(v)'
  <2>0. PICK u \in Users : u = socket[w.socket].user
    BY DEF TypeInv, TypeOK, SocketsOwned
  <2>1. /\ writes' = writes \ {w}
        /\ UNCHANGED <<socket, clients, members, disturbed>>
    BY <1>3 DEF UpdateUserStatus, presence
  <2>2. availability' = IF u \in members
                           THEN [availability EXCEPT ![u] = w.status]
                           ELSE availability
    BY <1>3, <2>0 DEF UpdateUserStatus
  <2>3. OpenOf(v)' = OpenOf(v) /\ WritesOf(v)' = WritesOf(v) \ {w}
    BY <2>1 DEF OpenOf, Open, WritesOf
  <2>4. CASE v # u
    <3>1. w \notin WritesOf(v)
      BY <2>0, <2>4 DEF WritesOf
    <3>2. OpenOf(v) # {} => socket[clients[v]].user = v
      BY <1>a, <2>1 DEF SettledFor, OpenOf
    <3>3. OpenOf(v) # {} => Online(clients[v]) # w
      BY <2>0, <2>4, <3>2 DEF Online
    <3> QED
      BY <1>0, <1>a, <2>1, <2>2, <2>3, <2>4, <3>1, <3>3, PresenceStill
  <2>5. CASE v = u
    <3>1. w \in WritesOf(v) /\ SettledFor(v)
      BY <1>a, <2>0, <2>1, <2>5 DEF WritesOf
    <3>2. v \in members => availability'[v] = Shown(v)
      BY <1>0, <2>2, <2>5, <3>1 DEF SettledFor
    <3>3. Shown(v)' = Shown(v)
      BY <2>3 DEF Shown
    <3> QED
      BY <2>1, <2>3, <3>1, <3>2, <3>3 DEF SettledFor
  <2> QED
    BY <2>4, <2>5
<1>8. ASSUME NEW w \in writes, StatusRejected(w) PROVE SettledFor(v)'
  <2>0. PICK u \in Users : u = socket[w.socket].user
    BY DEF TypeInv, TypeOK, SocketsOwned
  <2>1. UNCHANGED <<members, availability>> /\ w \in Write
    BY <1>0, <1>8 DEF StatusRejected
  <2>2. CASE w.status = "online" /\ Open(w.socket)
    <3>1. PICK s \in Sockets : s = w.socket
      BY <2>1 DEF Write
    <3>2. Leave(s, writes \ {w}) /\ Open(s)
      BY <1>8, <2>2, <3>1 DEF StatusRejected
    <3>3. w = Online(s)
      BY <2>1, <2>2, <3>1 DEF Write, Online
    <3> QED
      BY <1>a, <2>1, <3>2, <3>3, LeaveSettles
  <2>3. CASE ~(w.status = "online" /\ Open(w.socket))
    <3>1. /\ writes' = writes \ {w}
          /\ disturbed' = IF /\ w.status = "offline"
                             /\ WritesOf(u) = {w}
                             /\ availability[u] = "online"
                            THEN disturbed \cup {u} ELSE disturbed
          /\ UNCHANGED <<socket, clients>>
      BY <1>8, <2>0, <2>3 DEF StatusRejected
    <3>2. SettledFor(v)
      BY <1>a, <3>1
    <3>3. OpenOf(v)' = OpenOf(v) /\ WritesOf(v)' = WritesOf(v) \ {w}
      BY <3>1 DEF OpenOf, Open, WritesOf
    <3>4. OpenOf(v) # {} => Online(clients[v]) # w
      BY <2>3, <3>2 DEF SettledFor, OpenOf, Online
    <3>5. CASE v # u
      <4>1. w \notin WritesOf(v)
        BY <2>0, <3>5 DEF WritesOf
      <4> QED
        BY <2>1, <3>1, <3>2, <3>3, <3>4, <4>1, PresenceStill
    <3>6. CASE v = u
      <4>1. w \in WritesOf(v) /\ w.status = Shown(v)
        BY <2>0, <3>2, <3>6 DEF WritesOf, SettledFor
      <4>2. CASE OpenOf(v) # {}
        <5>1. Online(clients[v]) \in writes
                => Online(clients[v]) \in WritesOf(v)'
          <6>1. clients[v] \in OpenOf(v)
            BY <3>2, <4>2 DEF SettledFor
          <6>2. Online(clients[v]).socket = clients[v]
            BY DEF Online
          <6> QED
            BY <3>1, <3>4, <4>2, <6>1, <6>2 DEF WritesOf, OpenOf
        <5> QED
          BY <2>1, <3>1, <3>2, <3>3, <3>4, <4>2, <5>1
             DEF SettledFor, Shown, Online
      <4>3. CASE OpenOf(v) = {}
        <5>1. w.status = "offline"
          BY <4>1, <4>3 DEF Shown
        <5>2. availability[v] = "offline" \/ WritesOf(v) \ {w} # {}
          BY <1>0, <3>1, <3>6, <4>1, <5>1
        <5> QED
          BY <2>1, <3>2, <3>3, <4>3, <5>2 DEF SettledFor, Shown
      <4> QED
        BY <4>2, <4>3
    <3> QED
      BY <3>5, <3>6
  <2> QED
    BY <2>2, <2>3
<1>4. ASSUME NEW s \in Sockets, NEW n \in Names, HandleJoin(s, n)
      PROVE  SettledFor(v)'
  BY <1>4, <1>b DEF HandleJoin, presence, OpenOf, Open, WritesOf
<1>5. ASSUME NEW u \in Users, LosesUser(u) PROVE SettledFor(v)'
  BY <1>5, <1>b DEF LosesUser, presence, OpenOf, Open, WritesOf
<1>6. ASSUME Restart PROVE SettledFor(v)'
  BY <1>6 DEF Restart
<1>7. CASE UNCHANGED <<gateway, presence>>
  BY <1>7, <1>b DEF gateway, presence, OpenOf, Open, WritesOf
<1> QED
  BY <1>1, <1>2, <1>3, <1>4, <1>5, <1>6, <1>7, <1>8, OtherSteps DEF GatewaySteps

(* The writes of availability arrive in any order, or are rejected: but    *)
(* for the exceptions PresenceSettles names, what the user is shown as     *)
(* settles to whether a socket of his is open.                             *)
THEOREM PresenceHolds == Spec => []PresenceSettles
<1>1. Init => PresenceInv
  <2> SUFFICES ASSUME Init, NEW u \in Users PROVE SettledFor(u)
    BY DEF PresenceInv
  <2>1. OpenOf(u) = {}
    BY DEF Init, OpenOf, Open
  <2>2. WritesOf(u) = {} /\ availability[u] = "offline"
    BY DEF Init, WritesOf
  <2> QED
    BY <2>1, <2>2 DEF SettledFor, Shown
<1>2. TypeInv /\ PresenceInv => PresenceSettles
  BY DEF TypeInv, TypeOK, PresenceInv, PresenceSettles, SettledFor, Shown
<1> QED
  BY <1>1, <1>2, RouteInit, RouteStep, PresenceStep, TypesHold, PTL DEF Spec


-----------------------------------------------------------------------------
(* Messages *)

Stored(p) == At(p, "send", "stored")

(* Read, or put back by a client, or missed by the list.                   *)
Told(m) == msg[m].status = "READ" \/ m \in acked \cup slipped

(* The two of a conversation, or nobody.                                   *)
Two(r) == {r.creator, r.participant, NoUser}

(* A message is in a conversation that is there, for one of its two, and   *)
(* was shown only after it was created.                                    *)
MsgsPlaced ==
    /\ \A m \in Msgs : msg[m].conv # NoConv =>
            /\ m <= created
            /\ conv[msg[m].conv].state = "live"
            /\ msg[m].receiver \in Two(conv[msg[m].conv])
    /\ \A m \in seen : m <= created

(* What handlers in flight hold.                                           *)
HandlersPlaced ==
    /\ \A p \in Procs : job[p].op = "send" =>
            /\ conv[job[p].conv].state # "none"
            /\ conv[job[p].conv].state = "live" =>
                    \/ job[p].other \in Two(conv[job[p].conv])
                    \/ job[p].other \notin members
    /\ \A p \in Procs : Stored(p) =>
            /\ job[p].msg <= created
            /\ msg[job[p].msg].conv \in {job[p].conv, NoConv}
            /\ conv[job[p].conv].state = "live" =>
                    msg[job[p].msg].conv = job[p].conv
            /\ \A q \in Procs : Stored(q) /\ job[q].msg = job[p].msg => p = q

(* A message created while another was being filed remembers it.           *)
FiledBeside ==
    \A p \in Procs : \A m \in Msgs :
        Stored(p) /\ msg[m].conv # NoConv /\ m > job[p].msg =>
            job[p].msg \in beside[m]

(* Who has asked for the list has nothing new in it by his own fault.      *)
ListsMarked ==
    \A p \in Procs : \A m \in Msgs :
        /\ At(p, "list", "checked")
        /\ msg[m].conv = job[p].conv /\ msg[m].receiver = job[p].user
        => Told(m)

ShownAreRead ==
    \A m \in Msgs :
        m \in seen /\ msg[m].conv # NoConv /\ msg[m].receiver # NoUser =>
            Told(m)

MessageInv ==
    /\ MsgsPlaced
    /\ HandlersPlaced
    /\ FiledBeside
    /\ ListsMarked
    /\ ShownAreRead
    /\ LastMessageIsLatest

(* What a step that creates no message and files none may do, user u, if   *)
(* it is one, being lost.  Conversations open and go, ...                  *)
ConvsMove(u) ==
    \A c \in Convs :
        /\ conv'[c].state = "none" => conv[c].state = "none"
        /\ conv'[c].state = "live" =>
            \/ /\ conv[c].state = "live" /\ conv'[c].last = conv[c].last
               /\ \A x \in Two(conv[c]) : x # u => x \in Two(conv'[c])
            \/ conv[c].state = "none" /\ conv'[c].last = NoMsg

(* ... their messages go with them, and the others keep what was told, ... *)
MsgsMove(u) ==
    \A m \in Msgs :
        \/ /\ msg'[m].conv = NoConv
           /\ msg[m].conv # NoConv => conv'[msg[m].conv].state # "live"
        \/ /\ msg[m].conv # NoConv /\ msg'[m].conv = msg[m].conv
           /\ conv'[msg[m].conv].state = "live"
           /\ msg'[m].receiver = IF msg[m].receiver = u
                                    THEN NoUser ELSE msg[m].receiver
           /\ Told(m) => Told(m)'

(* ... what is shown has been told, ...                                    *)
ShowsMove ==
    \A m \in seen' : m \in seen \/ (m \in Msgs /\ m <= created /\ Told(m)')

(* ... and handlers start, return, or stop, which is noted where they were *)
(* to file a message.                                                      *)
JobsMove ==
    \A p \in Procs :
        \/ job'[p] = job[p]
        \/ /\ job'[p].op \notin {"send", "list"}
           /\ Stored(p) => job[p].msg \in unfiled'
        \/ /\ ~Stored(p) /\ job'[p].op = "send" /\ job'[p].at = "checked"
           /\ job'[p].conv \in Convs /\ UNCHANGED conv
           /\ conv[job'[p].conv].state = "live"
           /\ job'[p].other \in Two(conv[job'[p].conv])
        \/ /\ ~Stored(p) /\ job'[p].op = "list"
           /\ \A m \in Msgs : /\ msg'[m].conv = job'[p].conv
                              /\ msg'[m].receiver = job'[p].user
                              => Told(m)'

(* Such steps keep the invariant.                                          *)
LEMMA MessageFrame ==
    ASSUME TypeInv, MessageInv, NEW u, u \notin members', members' \subseteq members,
           UNCHANGED <<created, beside>>, unfiled \subseteq unfiled',
           ConvsMove(u), MsgsMove(u), ShowsMove, JobsMove
    PROVE  MessageInv'
<1> USE DEF ConvsMove, MsgsMove, ShowsMove, JobsMove
<1>0. /\ conv \in [Convs -> Conversation] /\ msg \in [Msgs -> Message]
      /\ job \in [Procs -> Job] /\ created \in 0..MaxMsgs
      /\ seen \subseteq Msgs
      /\ \A p \in Procs : Knows(job[p])
      /\ NoConv \notin Convs /\ NoUser \notin Users
  BY ChatAssumption DEF TypeInv, TypeOK, JobsSound
<1>1. MsgsPlaced /\ HandlersPlaced /\ FiledBeside /\ ListsMarked /\ ShownAreRead
      /\ LastMessageIsLatest
  BY DEF MessageInv
(* A message there is now was there before, and so was its conversation. *)
<1>2. ASSUME NEW m \in Msgs, msg'[m].conv # NoConv
      PROVE  /\ msg'[m].conv = msg[m].conv /\ msg[m].conv \in Convs
             /\ conv[msg[m].conv].state = "live" /\ conv'[msg[m].conv].state = "live"
             /\ msg'[m].receiver = IF msg[m].receiver = u
                                      THEN NoUser ELSE msg[m].receiver
             /\ Told(m) => Told(m)'
             /\ m <= created
  <2>1. msg[m].conv # NoConv /\ msg[m].conv \in Convs
    BY <1>0, <1>2 DEF Message
  <2> QED
    BY <1>1, <1>2, <2>1 DEF MsgsPlaced
<1>3. \A p \in Procs : Stored(p)' => job'[p] = job[p] /\ Stored(p)
  BY DEF Stored, At
<1>4. MsgsPlaced'
  <2>1. ASSUME NEW m \in Msgs, msg'[m].conv # NoConv
        PROVE  /\ m <= created' /\ conv'[msg'[m].conv].state = "live"
               /\ msg'[m].receiver \in Two(conv'[msg'[m].conv])
    <3>1. PICK c \in Convs : c = msg[m].conv
      BY <1>2, <2>1
    <3>2. conv'[c].state = "live" /\ conv[c].state = "live" /\ msg'[m].conv = c
      BY <1>2, <2>1, <3>1
    <3>3. \A x \in Two(conv[c]) : x # u => x \in Two(conv'[c])
      BY <3>2
    <3>4. msg[m].receiver \in Two(conv[c])
      BY <1>1, <2>1, <1>2, <3>1 DEF MsgsPlaced
    <3>5. NoUser \in Two(conv'[c])
      BY DEF Two
    <3>6. msg'[m].receiver \in Two(conv'[c])
      BY <1>2, <2>1, <3>3, <3>4, <3>5
    <3> QED
      BY <1>2, <2>1, <3>2, <3>6
  <2>2. \A m \in seen' : m <= created
    BY <1>1 DEF MsgsPlaced
  <2> QED
    BY <2>1, <2>2 DEF MsgsPlaced
<1>5. HandlersPlaced'
  <2>1. ASSUME NEW p \in Procs, job'[p].op = "send"
        PROVE  /\ conv'[job'[p].conv].state # "none"
               /\ conv'[job'[p].conv].state = "live" =>
                    \/ job'[p].other \in Two(conv'[job'[p].conv])
                    \/ job'[p].other \notin members'
    <3>1. CASE job'[p] = job[p]
      <4>1. job[p].op = "send"
        BY <2>1, <3>1
      <4>2. job[p].conv \in Convs
        BY <1>0, <4>1 DEF Knows
      <4>3. PICK c \in Convs : c = job[p].conv
        BY <4>2
      <4>4. /\ conv[c].state # "none"
            /\ conv[c].state = "live" =>
                    job[p].other \in Two(conv[c]) \/ job[p].other \notin members
        BY <1>1, <4>1, <4>3 DEF HandlersPlaced
      <4>5. conv'[c].state # "none"
        BY <4>4
      <4>6. ASSUME conv'[c].state = "live"
            PROVE  job[p].other \in Two(conv'[c]) \/ job[p].other \notin members'
        <5>1. /\ conv[c].state = "live"
              /\ \A x \in Two(conv[c]) : x # u => x \in Two(conv'[c])
          BY <4>4, <4>6
        <5> QED
          BY <4>4, <5>1
      <4> QED
        BY <3>1, <4>3, <4>5, <4>6
    <3>2. CASE /\ UNCHANGED conv
               /\ conv[job'[p].conv].state = "live"
               /\ job'[p].other \in Two(conv[job'[p].conv])
      BY <3>2
    <3> QED
      BY <2>1, <3>1, <3>2
  <2>2. ASSUME NEW p \in Procs, Stored(p)'
        PROVE  /\ job'[p].msg <= created'
               /\ msg'[job'[p].msg].conv \in {job'[p].conv, NoConv}
               /\ conv'[job'[p].conv].state = "live" =>
                        msg'[job'[p].msg].conv = job'[p].conv
               /\ \A q \in Procs : Stored(q)' /\ job'[q].msg = job'[p].msg => p = q
    <3>1. job'[p] = job[p] /\ Stored(p)
      BY <1>3, <2>2
    <3>2. job[p].conv \in Convs /\ job[p].msg \in Msgs
      BY <1>0, <3>1 DEF Knows, Stored, At
    <3>3. PICK c \in Convs : c = job[p].conv
      BY <3>2
    <3>4. PICK m \in Msgs : m = job[p].msg
      BY <3>2
    <3>5. /\ m <= created /\ msg[m].conv \in {c, NoConv}
          /\ conv[c].state = "live" => msg[m].conv = c
          /\ \A q \in Procs : Stored(q) /\ job[q].msg = m => p = q
      BY <1>1, <3>1, <3>3, <3>4 DEF HandlersPlaced
    <3>6. conv[c].state # "none"
      BY <1>1, <3>1, <3>3 DEF HandlersPlaced, Stored, At
    <3>7. msg'[m].conv \in {c, NoConv}
      BY <3>5
    <3>8. conv'[c].state = "live" => msg'[m].conv = c
      BY <1>0, <3>5, <3>6
    <3>9. \A q \in Procs : Stored(q)' /\ job'[q].msg = m => p = q
      BY <1>3, <3>5
    <3> QED
      BY <3>1, <3>3, <3>4, <3>5, <3>7, <3>8, <3>9
  <2> QED
    BY <2>1, <2>2 DEF HandlersPlaced
<1>6. FiledBeside'
  BY <1>1, <1>2, <1>3 DEF FiledBeside
<1>7. ListsMarked'
  <2> SUFFICES ASSUME NEW p \in Procs, NEW m \in Msgs, At(p, "list", "checked")',
                      msg'[m].conv = job'[p].conv, msg'[m].receiver = job'[p].user
               PROVE  Told(m)'
    BY DEF ListsMarked
  <2>1. CASE job'[p] = job[p]
    <3>1. job[p].conv \in Convs /\ job[p].user \in Users
      BY <1>0, <2>1 DEF Knows, At
    <3>2. msg[m].conv = job[p].conv /\ msg[m].receiver = job[p].user
          /\ (Told(m) => Told(m)')
      BY <1>0, <1>2, <2>1, <3>1
    <3> QED
      BY <1>1, <2>1, <3>2 DEF ListsMarked, At
  <2>2. CASE job'[p] # job[p]
    BY <2>2 DEF At
  <2> QED
    BY <2>1, <2>2
<1>8. ShownAreRead'
  BY <1>1, <1>2 DEF ShownAreRead
<1>9. LastMessageIsLatest'
  <2> SUFFICES ASSUME NEW c \in Convs, Live(c)'
               PROVE  /\ conv'[c].last # NoMsg => conv'[c].last \in MsgsOf(c)'
                      /\ \A m \in MsgsOf(c)' :
                            m > conv'[c].last =>
                                \/ conv'[c].last \in beside[m]
                                \/ m \in unfiled'
                                \/ \E p \in Procs : Stored(p)' /\ job'[p].msg = m
    BY DEF LastMessageIsLatest, Stored
  <2>0. conv'[c].state = "live"
    BY DEF Live
  <2>1. c # NoConv
    BY <1>0
  <2>2. \A m \in MsgsOf(c)' : m \in MsgsOf(c)
    BY <1>2, <2>1 DEF MsgsOf
  <2>3. CASE conv[c].state = "none"
    <3>1. MsgsOf(c)' = {}
      BY <1>2, <2>1, <2>2, <2>3 DEF MsgsOf, Live
    <3> QED
      BY <2>3, <3>1 DEF Live
  <2>4. CASE conv[c].state = "live"
    <3>1. Live(c) /\ conv'[c].last = conv[c].last
      BY <2>4 DEF Live
    <3>2. conv[c].last # NoMsg => conv[c].last \in MsgsOf(c)'
      <4>1. conv[c].last # NoMsg => conv[c].last \in MsgsOf(c)
        BY <1>1, <3>1 DEF LastMessageIsLatest
      <4>2. \A m \in Msgs : msg[m].conv = c => msg'[m].conv = c
        BY <2>1, <2>0
      <4> QED
        BY <4>1, <4>2 DEF MsgsOf
    <3>3. ASSUME NEW p \in Procs, Stored(p)
          PROVE  \/ job[p].msg \in unfiled'
                 \/ Stored(p)' /\ job'[p].msg = job[p].msg
      BY <3>3 DEF Stored, At
    <3> QED
      BY <1>1, <2>2, <3>1, <3>2, <3>3 DEF LastMessageIsLatest, Stored
  <2> QED
    BY <2>3, <2>4 DEF Live
<1> QED
  BY <1>4, <1>5, <1>6, <1>7, <1>8, <1>9 DEF MessageInv

(* What does not change moves as it may.                                   *)
LEMMA Still ==
    ASSUME TypeInv, MsgsPlaced
    PROVE  /\ NoUser \notin members
           /\ UNCHANGED conv => ConvsMove(NoUser)
           /\ UNCHANGED <<conv, msg, slipped, acked>> => MsgsMove(NoUser)
           /\ UNCHANGED seen => ShowsMove
           /\ UNCHANGED job => JobsMove
<1>1. NoUser \notin members
  BY ChatAssumption DEF TypeInv, TypeOK
<1>2. UNCHANGED conv => ConvsMove(NoUser)
  BY DEF ConvsMove
<1>3. UNCHANGED <<conv, msg, slipped, acked>> => MsgsMove(NoUser)
  BY DEF MsgsMove, MsgsPlaced, Told
<1>4. UNCHANGED seen => ShowsMove
  BY DEF ShowsMove
<1>5. UNCHANGED job => JobsMove
  BY DEF JobsMove
<1> QED
  BY <1>1, <1>2, <1>3, <1>4, <1>5

(* Only handlers move.                                                     *)
LEMMA OnlyHandlers ==
    ASSUME TypeInv, MessageInv, JobsMove,
           UNCHANGED <<members, conv, msg, created, chatted>>
    PROVE  MessageInv'
<1>1. MsgsPlaced
  BY DEF MessageInv
<1> QED
  BY <1>1, Still, MessageFrame DEF chatted

LEMMA StartMoves ==
    ASSUME TypeInv, NEW p \in Procs, NEW op, NEW u, NEW v, NEW t, NEW c,
           Start(p, op, u, v, t, c)
    PROVE  /\ job'[p].op = op /\ job'[p].at = "checked" /\ job'[p].user = u
           /\ job'[p].other = v /\ job'[p].conv = c
           /\ \A q \in Procs \ {p} : job'[q] = job[q]
           /\ ~Stored(p)
<1>1. job \in [Procs -> Job]
  BY DEF TypeInv, TypeOK
<1>2. job[p].op = "none"
  BY Blanks DEF Start
<1> QED
  BY <1>1, <1>2 DEF Start, Stored, At

LEMMA ReturnMoves ==
    ASSUME TypeInv, NEW p \in Procs, ~Stored(p), Return(p)
    PROVE  JobsMove
<1>1. job \in [Procs -> Job]
  BY DEF TypeInv, TypeOK
<1> QED
  BY <1>1, Blanks DEF Return, JobsMove

(* Conversations go with their messages.                                   *)
LEMMA DeleteMoves ==
    ASSUME TypeInv, MessageInv, NEW cs \in SUBSET Convs, Delete(cs), UNCHANGED job,
           UNCHANGED <<members, created, chatted>>
    PROVE  MessageInv'
<1>1. MsgsPlaced /\ conv \in [Convs -> Conversation] /\ msg \in [Msgs -> Message]
      /\ NoConv \notin Convs
  BY ChatAssumption DEF MessageInv, TypeInv, TypeOK
<1>2. \A c \in Convs : conv'[c] = IF c \in cs
                                     THEN [NoConversation EXCEPT !.state = "gone"]
                                     ELSE conv[c]
  BY DEF Delete
<1>3. [NoConversation EXCEPT !.state = "gone"].state = "gone"
  BY DEF NoConversation
<1>4. \A m \in Msgs : msg'[m] = IF msg[m].conv \in cs THEN NoMessage ELSE msg[m]
  BY DEF Delete
<1>5. ConvsMove(NoUser)
  BY <1>2, <1>3 DEF ConvsMove
<1>6. MsgsMove(NoUser)
  <2>1. ASSUME NEW m \in Msgs, msg[m].conv \in cs
        PROVE  msg'[m].conv = NoConv /\ conv'[msg[m].conv].state # "live"
    BY <1>2, <1>3, <1>4, <2>1, Blanks
  <2>2. ASSUME NEW m \in Msgs, msg[m].conv \notin cs, msg[m].conv # NoConv
        PROVE  msg'[m] = msg[m] /\ conv'[msg[m].conv].state = "live"
    <3>1. msg[m].conv \in Convs
      BY <1>1, <2>2 DEF Message
    <3> QED
      BY <1>1, <1>2, <1>4, <2>2, <3>1 DEF MsgsPlaced
  <2>3. \A m \in Msgs : Told(m) /\ msg'[m] = msg[m] => Told(m)'
    BY DEF Told, chatted
  <2>4. ASSUME NEW m \in Msgs, msg[m].conv = NoConv
        PROVE  msg'[m].conv = NoConv
    BY <1>1, <1>4, <2>4
  <2> QED
    BY <2>1, <2>2, <2>3, <2>4 DEF MsgsMove
<1> QED
  BY <1>1, <1>5, <1>6, Still, MessageFrame DEF chatted

(* Marking messages as read tells them, and changes nothing else of them.  *)
LEMMA MarkMoves ==
    ASSUME TypeInv, MsgsPlaced, NEW ms \in SUBSET Msgs, MarkRead(ms), UNCHANGED conv
    PROVE  /\ MsgsMove(NoUser)
           /\ \A m \in ms : Told(m)'
           /\ \A m \in Msgs : /\ msg'[m].conv = msg[m].conv
                              /\ msg'[m].receiver = msg[m].receiver
           /\ \A m \in Msgs : Told(m) => Told(m)'
<1>1. msg \in [Msgs -> Message]
  BY DEF TypeInv, TypeOK
<1>2. \A m \in Msgs : /\ msg'[m].conv = msg[m].conv
                      /\ msg'[m].receiver = msg[m].receiver
                      /\ m \in ms => msg'[m].status = "READ"
                      /\ m \notin ms => msg'[m].status = msg[m].status
  BY <1>1 DEF MarkRead, Message
<1>3. \A m \in Msgs : (m \in ms => Told(m)') /\ (Told(m) => Told(m)')
  BY <1>2 DEF Told, MarkRead
<1>4. MsgsMove(NoUser)
  BY <1>2, <1>3 DEF MsgsMove, MsgsPlaced
<1> QED
  BY <1>2, <1>3, <1>4


LEMMA MessageInit == Init => MessageInv
<1> SUFFICES ASSUME Init PROVE MessageInv
  OBVIOUS
<1>1. /\ \A m \in Msgs : msg[m].conv = NoConv
      /\ \A p \in Procs : job[p].op = "none"
      /\ seen = {} /\ created = 0
  BY Blanks DEF Init
<1>2. MsgsPlaced /\ HandlersPlaced /\ FiledBeside /\ ListsMarked /\ ShownAreRead
  BY <1>1 DEF MsgsPlaced, HandlersPlaced, FiledBeside, ListsMarked, ShownAreRead,
              Stored, At
<1>3. \A c \in Convs : conv[c].last = NoMsg
  <2>1. conv \in [Convs -> {NoConversation} \cup
                    {Opened(t, u, v) : t \in Topics, u \in Users, v \in Users}]
    BY DEF Init
  <2>2. \A t \in Topics, u \in Users, v \in Users : Opened(t, u, v).last = NoMsg
    BY Blanks DEF Opened, NoConversation
  <2> QED
    BY <2>1, <2>2, Blanks
<1>4. \A c \in Convs : MsgsOf(c) = {}
  BY <1>1, ChatAssumption DEF MsgsOf
<1>5. LastMessageIsLatest
  BY <1>3, <1>4 DEF LastMessageIsLatest
<1> QED
  BY <1>2, <1>5 DEF MessageInv

(* A message is stored, for one of the two of its conversation; the        *)
(* handlers that are still filing one are noted beside it.                 *)
LEMMA MessageStored ==
    ASSUME TypeInv, MessageInv, NEW p \in Procs, NEW c \in Convs, NEW m \in Msgs,
           At(p, "send", "checked"), c = job[p].conv, m = created + 1,
           conv[c].state = "live",
           job[p].other # NoUser => job[p].other \in members,
           created' = m,
           msg' = [msg EXCEPT ![m] = [NoMessage EXCEPT !.conv = c,
                                            !.sender = job[p].user,
                                            !.receiver = job[p].other]],
           job' = [job EXCEPT ![p].at = "stored", ![p].msg = m],
           beside' = [beside EXCEPT ![m] =
                {job[q].msg : q \in {r \in Procs \ {p} : At(r, "send", "stored")}}],
           slipped' = IF \E q \in Procs : /\ At(q, "list", "checked")
                                          /\ job[q].conv = c
                                          /\ job[q].user = job[p].other
                         THEN slipped \cup {m} ELSE slipped,
           UNCHANGED <<conv, members, unfiled, seen, acked>>
    PROVE  MessageInv'
<1> DEFINE r == [NoMessage EXCEPT !.conv = c, !.sender = job[p].user,
                                  !.receiver = job[p].other]
<1>0. /\ conv \in [Convs -> Conversation] /\ msg \in [Msgs -> Message]
      /\ job \in [Procs -> Job] /\ created \in Nat /\ beside \in [Msgs -> SUBSET Msgs]
      /\ seen \subseteq Msgs
      /\ \A q \in Procs : Knows(job[q])
      /\ NoConv \notin Convs
  BY ChatAssumption DEF TypeInv, TypeOK, JobsSound
<1>1. MsgsPlaced /\ HandlersPlaced /\ FiledBeside /\ ListsMarked /\ ShownAreRead
      /\ LastMessageIsLatest
  BY DEF MessageInv
<1>2. r.conv = c /\ r.receiver = job[p].other
  BY DEF NoMessage
<1>3. msg'[m] = r /\ \A n \in Msgs \ {m} : msg'[n] = msg[n]
  BY <1>0
<1> HIDE DEF r
<1>4. /\ job'[p].op = "send" /\ job'[p].at = "stored" /\ job'[p].msg = m
      /\ job'[p].conv = c /\ job'[p].other = job[p].other
      /\ \A q \in Procs \ {p} : job'[q] = job[q]
  BY <1>0 DEF At, Job
<1>5. c # NoConv /\ msg[m].conv = NoConv /\ m \notin seen
  BY <1>0, <1>1 DEF MsgsPlaced
<1>6. job[p].other \in Two(conv[c])
  BY <1>1 DEF HandlersPlaced, At, Two
<1>7. \A q \in Procs : Stored(q)' <=> q = p \/ Stored(q)
  BY <1>4 DEF Stored, At
<1>8. ~Stored(p) /\ \A q \in Procs : Stored(q) => job[q].msg <= created /\ job[q].msg \in Nat
  BY <1>0, <1>1 DEF Stored, At, HandlersPlaced, Knows, Msgs
<1>9. \A n \in Msgs \ {m} : Told(n) => Told(n)'
  BY <1>3 DEF Told
<1>10. MsgsPlaced'
  BY <1>0, <1>1, <1>2, <1>3, <1>6 DEF MsgsPlaced, Msgs
<1>11. HandlersPlaced'
  <2>1. ASSUME NEW q \in Procs, job'[q].op = "send"
        PROVE  /\ conv[job'[q].conv].state # "none"
               /\ conv[job'[q].conv].state = "live" =>
                    \/ job'[q].other \in Two(conv[job'[q].conv])
                    \/ job'[q].other \notin members
    BY <1>1, <1>4, <1>6, <2>1, ZenonT(60) DEF HandlersPlaced
  <2>2. ASSUME NEW q \in Procs, Stored(q)'
        PROVE  /\ job'[q].msg <= created'
               /\ msg'[job'[q].msg].conv \in {job'[q].conv, NoConv}
               /\ conv[job'[q].conv].state = "live" =>
                        msg'[job'[q].msg].conv = job'[q].conv
               /\ \A x \in Procs : Stored(x)' /\ job'[x].msg = job'[q].msg => q = x
    <3>1. CASE q = p
      <4>1. \A x \in Procs \ {p} : Stored(x)' => job'[x].msg # m
        BY <1>0, <1>4, <1>7, <1>8
      <4> QED
        BY <1>0, <1>2, <1>3, <1>4, <3>1, <4>1
    <3>2. CASE q # p
      <4>1. Stored(q) /\ job'[q] = job[q]
        BY <1>4, <1>7, <2>2, <3>2
      <4>2. job[q].msg \in Msgs /\ job[q].msg # m
        BY <1>0, <1>8, <4>1 DEF Stored, At, Knows
      <4>3. /\ job[q].msg <= created
            /\ msg[job[q].msg].conv \in {job[q].conv, NoConv}
            /\ conv[job[q].conv].state = "live" =>
                    msg[job[q].msg].conv = job[q].conv
            /\ \A x \in Procs : Stored(x) /\ job[x].msg = job[q].msg => q = x
        BY <1>1, <4>1 DEF HandlersPlaced
      <4>4. \A x \in Procs : Stored(x)' /\ job'[x].msg = job[q].msg => q = x
        BY <1>4, <1>7, <4>2, <4>3
      <4>5. job[q].msg <= created'
        BY <1>0, <1>8, <4>1
      <4> QED
        BY <1>3, <4>1, <4>2, <4>3, <4>4, <4>5
    <3> QED
      BY <3>1, <3>2
  <2> QED
    BY <2>1, <2>2 DEF HandlersPlaced
<1>12. FiledBeside'
  <2> SUFFICES ASSUME NEW q \in Procs, NEW n \in Msgs, Stored(q)',
                      msg'[n].conv # NoConv, n > job'[q].msg
               PROVE  job'[q].msg \in beside'[n]
    BY DEF FiledBeside
  <2>1. CASE q = p
    <3>1. n > m
      BY <1>4, <2>1
    <3>2. n <= created
      BY <1>0, <1>1, <1>3, <3>1 DEF MsgsPlaced, Msgs
    <3> QED
      BY <1>0, <3>1, <3>2 DEF Msgs
  <2>2. CASE q # p /\ n = m
    BY <1>0, <1>4, <1>7, <2>2 DEF Stored
  <2>3. CASE q # p /\ n # m
    BY <1>0, <1>1, <1>3, <1>4, <1>7, <2>3 DEF FiledBeside
  <2> QED
    BY <2>1, <2>2, <2>3
<1>13. ListsMarked'
  <2> SUFFICES ASSUME NEW q \in Procs, NEW n \in Msgs, At(q, "list", "checked")',
                      msg'[n].conv = job'[q].conv, msg'[n].receiver = job'[q].user
               PROVE  Told(n)'
    BY DEF ListsMarked
  <2>1. q # p /\ job'[q] = job[q] /\ At(q, "list", "checked")
    BY <1>4 DEF At
  <2>2. CASE n = m
    BY <1>2, <1>3, <2>1, <2>2 DEF Told
  <2>3. CASE n # m
    BY <1>1, <1>3, <1>9, <2>1, <2>3 DEF ListsMarked
  <2> QED
    BY <2>2, <2>3
<1>14. ShownAreRead'
  BY <1>1, <1>3, <1>5, <1>9 DEF ShownAreRead
<1>15. LastMessageIsLatest'
  <2> SUFFICES ASSUME NEW d \in Convs, conv[d].state = "live"
               PROVE  /\ conv[d].last # NoMsg => conv[d].last \in MsgsOf(d)'
                      /\ \A n \in MsgsOf(d)' :
                            n > conv[d].last =>
                                \/ conv[d].last \in beside'[n]
                                \/ n \in unfiled
                                \/ \E q \in Procs : Stored(q)' /\ job'[q].msg = n
    BY DEF LastMessageIsLatest, Stored, Live
  <2>1. /\ conv[d].last # NoMsg => conv[d].last \in MsgsOf(d)
        /\ \A n \in MsgsOf(d) :
                n > conv[d].last =>
                    \/ conv[d].last \in beside[n]
                    \/ n \in unfiled
                    \/ \E q \in Procs : Stored(q) /\ job[q].msg = n
    BY <1>1 DEF LastMessageIsLatest, Stored, Live
  <2>2. d # NoConv
    BY <1>0
  <2>3. \A n \in Msgs : msg[n].conv = d => n # m /\ msg'[n].conv = d
    BY <1>3, <1>5, <2>2
  <2>4. \A n \in MsgsOf(d)' : n = m \/ n \in MsgsOf(d)
    BY <1>3 DEF MsgsOf
  <2>5. \A n \in MsgsOf(d) : n \in Msgs \ {m}
    BY <2>3 DEF MsgsOf
  <2>6. \A q \in Procs : Stored(q) => Stored(q)' /\ job'[q].msg = job[q].msg
    BY <1>4, <1>7, <1>8
  <2>7. conv[d].last # NoMsg => conv[d].last \in MsgsOf(d)'
    BY <2>1, <2>3 DEF MsgsOf
  <2>8. ASSUME NEW n \in MsgsOf(d)', n > conv[d].last
        PROVE  \/ conv[d].last \in beside'[n]
               \/ n \in unfiled
               \/ \E q \in Procs : Stored(q)' /\ job'[q].msg = n
    <3>1. CASE n = m
      BY <1>4, <1>7, <3>1
    <3>2. CASE n # m
      <4>1. n \in MsgsOf(d) /\ n \in Msgs \ {m}
        BY <2>4, <2>5, <3>2
      <4>2. beside'[n] = beside[n]
        BY <1>0, <4>1
      <4> QED
        BY <2>1, <2>6, <2>8, <4>1, <4>2
    <3> QED
      BY <3>1, <3>2
  <2> QED
    BY <2>7, <2>8
<1> QED
  BY <1>10, <1>11, <1>12, <1>13, <1>14, <1>15 DEF MessageInv

(* A message is filed as the last.  One that is newer, and is there, was   *)
(* created while this one was being filed.                                 *)
LEMMA MessageFiled ==
    ASSUME TypeInv, MessageInv, NEW p \in Procs, SendFile(p)
    PROVE  MessageInv'
<1>0. /\ conv \in [Convs -> Conversation] /\ msg \in [Msgs -> Message]
      /\ job \in [Procs -> Job] /\ NoConv \notin Convs
      /\ \A q \in Procs : Knows(job[q])
  BY ChatAssumption DEF TypeInv, TypeOK, JobsSound
<1>1. MsgsPlaced /\ HandlersPlaced /\ FiledBeside /\ ListsMarked /\ ShownAreRead
      /\ LastMessageIsLatest
  BY DEF MessageInv
<1>2. Stored(p) /\ job[p].conv \in Convs /\ job[p].msg \in Msgs
  BY <1>0 DEF SendFile, Stored, At, Knows
<1>3. PICK c \in Convs : c = job[p].conv
  BY <1>2
<1>4. /\ conv' = IF conv[c].state = "live"
                    THEN [conv EXCEPT ![c].last = job[p].msg] ELSE conv
      /\ Return(p)
      /\ UNCHANGED <<members, msg, created, chatted>>
  BY <1>3 DEF SendFile, Live, gateway
<1>5. job'[p].op = "none" /\ \A q \in Procs \ {p} : job'[q] = job[q]
  BY <1>0, <1>4, Blanks DEF Return
<1>6. \A q \in Procs : /\ Stored(q)' => q # p /\ job'[q] = job[q] /\ Stored(q)
                       /\ Stored(q) /\ q # p => Stored(q)' /\ job'[q] = job[q]
  BY <1>5 DEF Stored, At
<1>7. \A d \in Convs :
        /\ conv'[d].state = conv[d].state /\ Two(conv'[d]) = Two(conv[d])
        /\ conv'[d].last = IF d = c /\ conv[c].state = "live"
                              THEN job[p].msg ELSE conv[d].last
  BY <1>0, <1>4 DEF Conversation, Two
<1>8. \A m \in Msgs : Told(m)' <=> Told(m)
  BY <1>4 DEF Told, chatted
<1>9. MsgsPlaced'
  <2>1. \A m \in Msgs : msg[m].conv # NoConv => msg[m].conv \in Convs
    BY <1>0 DEF Message
  <2> QED
    BY <1>1, <1>4, <1>7, <2>1 DEF MsgsPlaced, chatted
<1>10. HandlersPlaced'
  <2>1. ASSUME NEW q \in Procs, job'[q].op = "send"
        PROVE  /\ conv'[job'[q].conv].state # "none"
               /\ conv'[job'[q].conv].state = "live" =>
                    \/ job'[q].other \in Two(conv'[job'[q].conv])
                    \/ job'[q].other \notin members'
    <3>1. job'[q] = job[q] /\ job[q].conv \in Convs
      BY <1>0, <1>5, <2>1 DEF Knows
    <3> QED
      BY <1>1, <1>4, <1>7, <2>1, <3>1 DEF HandlersPlaced
  <2>2. ASSUME NEW q \in Procs, Stored(q)'
        PROVE  /\ job'[q].msg <= created'
               /\ msg'[job'[q].msg].conv \in {job'[q].conv, NoConv}
               /\ conv'[job'[q].conv].state = "live" =>
                        msg'[job'[q].msg].conv = job'[q].conv
               /\ \A x \in Procs : Stored(x)' /\ job'[x].msg = job'[q].msg => q = x
    <3>1. job'[q] = job[q] /\ Stored(q) /\ job[q].conv \in Convs
      BY <1>0, <1>6, <2>2 DEF Stored, At, Knows
    <3> QED
      BY <1>1, <1>4, <1>6, <1>7, <3>1 DEF HandlersPlaced
  <2> QED
    BY <2>1, <2>2 DEF HandlersPlaced
<1>11. FiledBeside'
  BY <1>1, <1>4, <1>6 DEF FiledBeside, chatted
<1>12. ListsMarked'
  BY <1>1, <1>4, <1>5, <1>8 DEF ListsMarked, At
<1>13. ShownAreRead'
  BY <1>1, <1>4, <1>8 DEF ShownAreRead, chatted
<1>14. LastMessageIsLatest'
  <2> SUFFICES ASSUME NEW d \in Convs, conv[d].state = "live"
               PROVE  /\ conv'[d].last # NoMsg => conv'[d].last \in MsgsOf(d)
                      /\ \A n \in MsgsOf(d) :
                            n > conv'[d].last =>
                                \/ conv'[d].last \in beside[n]
                                \/ n \in unfiled
                                \/ \E q \in Procs : Stored(q)' /\ job'[q].msg = n
    BY <1>4, <1>7 DEF LastMessageIsLatest, Stored, Live, MsgsOf, chatted
  <2>1. /\ conv[d].last # NoMsg => conv[d].last \in MsgsOf(d)
        /\ \A n \in MsgsOf(d) :
                n > conv[d].last =>
                    \/ conv[d].last \in beside[n]
                    \/ n \in unfiled
                    \/ \E q \in Procs : Stored(q) /\ job[q].msg = n
    BY <1>1 DEF LastMessageIsLatest, Stored, Live
  <2>2. CASE d = c
    <3>1. conv'[d].last = job[p].msg /\ msg[job[p].msg].conv = d
      BY <1>1, <1>2, <1>3, <1>7, <2>2 DEF HandlersPlaced
    <3>2. \A n \in MsgsOf(d) : n > job[p].msg => job[p].msg \in beside[n]
      BY <1>0, <1>1, <1>2 DEF FiledBeside, MsgsOf
    <3> QED
      BY <1>2, <3>1, <3>2 DEF MsgsOf
  <2>3. CASE d # c
    <3>1. conv'[d].last = conv[d].last
      BY <1>7, <2>3
    <3>2. \A n \in MsgsOf(d) : msg[n].conv # NoConv /\ msg[n].conv # c
      BY <1>0, <2>3 DEF MsgsOf
    <3>3. msg[job[p].msg].conv \in {c, NoConv}
      BY <1>1, <1>2, <1>3 DEF HandlersPlaced
    <3>4. \A n \in MsgsOf(d) : n # job[p].msg
      BY <3>2, <3>3
    <3>5. \A q \in Procs : \A n \in MsgsOf(d) :
                Stored(q) /\ job[q].msg = n => Stored(q)' /\ job'[q].msg = n
      BY <1>6, <3>4
    <3> QED
      BY <2>1, <3>1, <3>5
  <2> QED
    BY <2>2, <2>3
<1> QED
  BY <1>9, <1>10, <1>11, <1>12, <1>13, <1>14 DEF MessageInv


(* Every step keeps the invariant.                                         *)
LEMMA MessageStep == TypeInv /\ MessageInv /\ [Next]_vars => MessageInv'
<1> SUFFICES ASSUME TypeInv, MessageInv, [Next]_vars
             PROVE  MessageInv'
  OBVIOUS
<1>0. /\ conv \in [Convs -> Conversation] /\ msg \in [Msgs -> Message]
      /\ job \in [Procs -> Job] /\ created \in 0..MaxMsgs
      /\ members \subseteq Users /\ sweep \subseteq Convs
      /\ NoConv \notin Convs /\ NoUser \notin Users
      /\ \A p \in Procs : Knows(job[p])
  BY ChatAssumption DEF TypeInv, TypeOK, JobsSound
<1>a. MsgsPlaced /\ HandlersPlaced /\ ListsMarked /\ ShownAreRead
  BY DEF MessageInv
<1>b. UNCHANGED job => JobsMove
  BY <1>a, Still
<1>c. UNCHANGED <<members, conv, msg, created, chatted, job>> => MessageInv'
  BY <1>b, OnlyHandlers
(* The gateway *)
<1>1. ASSUME NEW m \in Msgs, NEW status \in Status, UpdateMessageStatus(m, status)
      PROVE  MessageInv'
  <2>1. /\ msg' = [msg EXCEPT ![m].status = status]
        /\ acked' = IF status = "READ" THEN acked \ {m} ELSE acked \cup {m}
        /\ slipped' = IF status = "READ" THEN slipped \ {m} ELSE slipped
        /\ UNCHANGED <<members, conv, created, job, beside, unfiled, seen>>
    BY <1>1 DEF UpdateMessageStatus, gateway
  <2>2. \A n \in Msgs : /\ msg'[n].conv = msg[n].conv
                        /\ msg'[n].receiver = msg[n].receiver
                        /\ msg'[n].status = IF n = m THEN status ELSE msg[n].status
    BY <1>0, <2>1 DEF Message
  <2>3. \A n \in Msgs : Told(n) => Told(n)'
    BY <2>1, <2>2 DEF Told
  <2>4. MsgsMove(NoUser)
    BY <1>a, <2>1, <2>2, <2>3 DEF MsgsMove, MsgsPlaced
  <2> QED
    BY <1>a, <2>1, <2>4, Still, MessageFrame
<1>2. CASE Gateway
  <2>1. ASSUME NEW u \in Users, NEW s \in Sockets, HandleConnection(u, s)
        PROVE  MessageInv'
    BY <1>c, <2>1 DEF HandleConnection
  <2>2. ASSUME NEW s \in Sockets, HandleDisconnect(s) PROVE MessageInv'
    BY <1>c, <2>2 DEF HandleDisconnect
  <2>3. ASSUME NEW w \in writes, UpdateUserStatus(w) \/ StatusRejected(w)
        PROVE  MessageInv'
    BY <1>c, <2>3 DEF UpdateUserStatus, StatusRejected
  <2>4. ASSUME NEW s \in Sockets, NEW n \in Names, HandleJoin(s, n)
        PROVE  MessageInv'
    BY <1>c, <2>4 DEF HandleJoin
  <2> QED
    BY <1>1, <1>2, <2>1, <2>2, <2>3, <2>4 DEF Gateway
(* Conversations *)
<1>3. ASSUME NEW p \in Procs, NEW u \in Users, NEW v \in Users, NEW t \in Topics,
             CreateCheck(p, u, v, t)
      PROVE  MessageInv'
  <2>1. Start(p, "create", u, v, t, NoConv)
        /\ UNCHANGED <<members, conv, msg, created, chatted>>
    BY <1>3 DEF CreateCheck, gateway
  <2>2. JobsMove
    BY <2>1, StartMoves DEF JobsMove
  <2> QED
    BY <2>1, <2>2, OnlyHandlers
<1>4. ASSUME NEW p \in Procs, CreateInsert(p) PROVE MessageInv'
  <2>1. ~Stored(p) /\ Return(p) /\ UNCHANGED <<members, msg, created, chatted>>
    BY <1>4 DEF CreateInsert, Stored, At, gateway
  <2>2. JobsMove
    BY <2>1, ReturnMoves
  <2>3. CASE UNCHANGED conv
    BY <2>1, <2>2, <2>3, OnlyHandlers
  <2>4. ASSUME NEW c \in Convs, conv[c].state = "none",
               conv' = [conv EXCEPT ![c] =
                            Opened(job[p].topic, job[p].user, job[p].other)]
        PROVE  MessageInv'
    <3>1. /\ conv'[c].state = "live" /\ conv'[c].last = NoMsg
          /\ \A d \in Convs \ {c} : conv'[d] = conv[d]
      BY <1>0, <2>4 DEF Opened, NoConversation
    <3>2. ConvsMove(NoUser)
      BY <2>4, <3>1 DEF ConvsMove
    <3>3. \A m \in Msgs : msg[m].conv # NoConv => conv'[msg[m].conv].state = "live"
      BY <1>0, <1>a, <3>1 DEF MsgsPlaced, Message
    <3>4. MsgsMove(NoUser)
      BY <2>1, <3>3 DEF MsgsMove, Told, chatted
    <3> QED
      BY <1>a, <2>1, <2>2, <3>2, <3>4, Still, MessageFrame DEF chatted
  <2> QED
    BY <1>4, <2>3, <2>4 DEF CreateInsert
<1>5. ASSUME NEW c \in Convs, Remove(c) PROVE MessageInv'
  BY <1>5, DeleteMoves DEF Remove, gateway
<1>6. ASSUME NEW c \in Convs, LosesTopic(c) PROVE MessageInv'
  <2>1. /\ conv' = [conv EXCEPT ![c].topic = NoTopic]
        /\ UNCHANGED <<members, msg, created, job, chatted>>
    BY <1>6 DEF LosesTopic, gateway
  <2>2. \A d \in Convs : /\ conv'[d].state = conv[d].state
                         /\ conv'[d].last = conv[d].last
                         /\ Two(conv'[d]) = Two(conv[d])
    BY <1>0, <2>1 DEF Conversation, Two
  <2>3. ConvsMove(NoUser)
    BY <2>2 DEF ConvsMove
  <2>4. \A m \in Msgs : msg[m].conv # NoConv => conv'[msg[m].conv].state = "live"
    BY <1>0, <1>a, <2>2 DEF MsgsPlaced, Message
  <2>5. MsgsMove(NoUser)
    BY <2>1, <2>4 DEF MsgsMove, Told, chatted
  <2> QED
    BY <1>a, <1>b, <2>1, <2>3, <2>5, Still, MessageFrame DEF chatted
<1>7. ASSUME NEW u \in Users, LosesUser(u) PROVE MessageInv'
  <2> DEFINE Without(v) == IF v = u THEN NoUser ELSE v
  <2>1. /\ members' = members \ {u}
        /\ UNCHANGED <<created, job, chatted>>
        /\ conv' = [c \in Convs |-> [conv[c] EXCEPT !.creator = Without(@),
                                                   !.participant = Without(@)]]
        /\ msg' = [m \in Msgs |-> [msg[m] EXCEPT !.sender = Without(@),
                                                !.receiver = Without(@)]]
    BY <1>7 DEF LosesUser
  <2>2. ASSUME NEW c \in Convs
        PROVE  /\ conv'[c].state = conv[c].state /\ conv'[c].last = conv[c].last
               /\ conv'[c].creator = Without(conv[c].creator)
               /\ conv'[c].participant = Without(conv[c].participant)
    <3>1. conv[c] \in Conversation
      BY <1>0
    <3> QED
      BY <2>1, <3>1 DEF Conversation
  <2>3. ASSUME NEW m \in Msgs
        PROVE  /\ msg'[m].conv = msg[m].conv /\ msg'[m].status = msg[m].status
               /\ msg'[m].receiver = Without(msg[m].receiver)
    <3>1. msg[m] \in Message
      BY <1>0
    <3> QED
      BY <2>1, <3>1 DEF Message
  <2>4. ConvsMove(u)
    BY <2>2 DEF ConvsMove, Two
  <2>5. \A m \in Msgs : msg[m].conv # NoConv => conv'[msg[m].conv].state = "live"
    BY <1>0, <1>a, <2>2 DEF MsgsPlaced, Message
  <2>6. MsgsMove(u)
    BY <2>1, <2>3, <2>5 DEF MsgsMove, Told, chatted
  <2>7. u \notin members' /\ members' \subseteq members
    BY <2>1
  <2>8. ShowsMove
    BY <2>1, <1>a, Still DEF chatted
  <2> QED
    BY <1>b, <2>1, <2>4, <2>6, <2>7, <2>8, MessageFrame DEF chatted
<1>8. ASSUME SweepSelect PROVE MessageInv'
  BY <1>8, <1>c DEF SweepSelect, gateway
<1>9. ASSUME SweepDelete PROVE MessageInv'
  BY <1>0, <1>9, DeleteMoves DEF SweepDelete, gateway
(* Messages *)
<1>10. ASSUME NEW p \in Procs, NEW u \in Users, NEW c \in Convs, SendCheck(p, u, c)
       PROVE  MessageInv'
  <2> DEFINE v == IF conv[c].creator = u THEN conv[c].participant
                                         ELSE conv[c].creator
  <2>1. /\ conv[c].state = "live" /\ Start(p, "send", u, v, NoTopic, c)
        /\ UNCHANGED <<members, conv, msg, created, chatted>>
    BY <1>10 DEF SendCheck, Live, gateway
  <2>2. v \in Two(conv[c])
    BY DEF Two
  <2> HIDE DEF v
  <2>3. JobsMove
    BY <2>1, <2>2, StartMoves DEF JobsMove
  <2> QED
    BY <2>1, <2>3, OnlyHandlers
<1>11. ASSUME NEW p \in Procs, SendInsert(p) PROVE MessageInv'
  <2>1. At(p, "send", "checked") /\ ~Stored(p)
        /\ UNCHANGED <<members, conv, unfiled, seen, acked>>
    BY <1>11 DEF SendInsert, Stored, At, gateway
  <2>2. CASE Return(p) /\ UNCHANGED <<msg, created, beside, slipped>>
    <3>1. JobsMove
      BY <2>1, <2>2, ReturnMoves
    <3> QED
      BY <2>1, <2>2, <3>1, OnlyHandlers DEF chatted
  <2>3. CASE ~(Return(p) /\ UNCHANGED <<msg, created, beside, slipped>>)
    BY <1>11, <2>1, <2>3, MessageStored DEF SendInsert, Live
  <2> QED
    BY <2>2, <2>3
<1>12. ASSUME NEW p \in Procs, NEW u \in Users, NEW c \in Convs, ListMark(p, u, c)
       PROVE  MessageInv'
  <2>1. /\ Start(p, "list", u, NoUser, NoTopic, c) /\ MarkRead(ToRead(u, c))
        /\ UNCHANGED <<members, conv, created, beside, unfiled, seen>>
    BY <1>12 DEF ListMark, gateway
  <2>2. ToRead(u, c) \in SUBSET Msgs
    BY DEF ToRead, MsgsOf
  <2>3. /\ MsgsMove(NoUser)
        /\ \A m \in ToRead(u, c) : Told(m)'
        /\ \A m \in Msgs : /\ msg'[m].conv = msg[m].conv
                           /\ msg'[m].receiver = msg[m].receiver
        /\ \A m \in Msgs : Told(m) => Told(m)'
    BY <1>a, <2>1, <2>2, MarkMoves
  <2>4. ASSUME NEW m \in Msgs, msg'[m].conv = c, msg'[m].receiver = u
        PROVE  Told(m)'
    <3>1. m \in ToRead(u, c) \/ Told(m)
      BY <2>3, <2>4 DEF ToRead, MsgsOf, Told
    <3> QED
      BY <2>3, <3>1
  <2>5. JobsMove
    BY <2>1, <2>4, StartMoves DEF JobsMove
  <2> QED
    BY <1>a, <2>1, <2>3, <2>5, Still, MessageFrame
<1>13. ASSUME NEW u \in Users, NEW c \in Convs, MarkMessagesAsRead(u, c)
       PROVE  MessageInv'
  <2>1. /\ MarkRead(ToRead(u, c))
        /\ UNCHANGED <<members, conv, created, job, beside, unfiled, seen>>
    BY <1>13 DEF MarkMessagesAsRead, gateway
  <2>2. ToRead(u, c) \in SUBSET Msgs
    BY DEF ToRead, MsgsOf
  <2>3. MsgsMove(NoUser)
    BY <1>a, <2>1, <2>2, MarkMoves
  <2> QED
    BY <1>a, <1>b, <2>1, <2>3, Still, MessageFrame
<1>14. ASSUME NEW m \in Msgs, MarkAsRead(m) PROVE MessageInv'
  <2>1. /\ msg' = [msg EXCEPT ![m].is_read = TRUE]
        /\ UNCHANGED <<members, conv, created, job, chatted>>
    BY <1>14 DEF MarkAsRead, gateway
  <2>2. \A n \in Msgs : /\ msg'[n].conv = msg[n].conv
                        /\ msg'[n].receiver = msg[n].receiver
                        /\ msg'[n].status = msg[n].status
    BY <1>0, <2>1 DEF Message
  <2>3. MsgsMove(NoUser)
    BY <1>a, <2>1, <2>2 DEF MsgsMove, MsgsPlaced, Told, chatted
  <2> QED
    BY <1>a, <1>b, <2>1, <2>3, Still, MessageFrame DEF chatted
<1>15. ASSUME NEW p \in Procs, ListShow(p) PROVE MessageInv'
  <2>1. /\ At(p, "list", "checked")
        /\ seen' = seen \cup {m \in MsgsOf(job[p].conv) :
                                    msg[m].receiver = job[p].user}
        /\ Return(p) /\ ~Stored(p)
        /\ UNCHANGED <<members, conv, msg, created, beside, unfiled, slipped, acked>>
    BY <1>15 DEF ListShow, Stored, At, gateway
  <2>2. JobsMove
    BY <2>1, ReturnMoves
  <2>3. job[p].conv # NoConv
    BY <1>0, <2>1 DEF Knows, At
  <2>4. ShowsMove
    BY <1>a, <2>1, <2>3 DEF ShowsMove, MsgsOf, ListsMarked, MsgsPlaced, Told
  <2> QED
    BY <1>a, <2>1, <2>2, <2>4, Still, MessageFrame
<1>16. ASSUME Restart PROVE MessageInv'
  <2>1. /\ unfiled' = unfiled \cup {job[p].msg : p \in {q \in Procs : Stored(q)}}
        /\ job' = [p \in Procs |-> Idle]
        /\ UNCHANGED <<members, conv, msg, created, beside, seen, slipped, acked>>
    BY <1>16 DEF Restart, Stored
  <2>2. JobsMove
    BY <2>1, Blanks DEF JobsMove
  <2> QED
    BY <1>a, <2>1, <2>2, Still, MessageFrame
<1>17. CASE UNCHANGED vars
  BY <1>17, <1>c DEF vars, gateway
<1> QED
  BY <1>2, <1>3, <1>4, <1>5, <1>6, <1>7, <1>8, <1>9, <1>10, <1>11, <1>12, <1>13,
     <1>14, <1>15, <1>16, <1>17, MessageFiled
     DEF Next, ConversationRoutes, MessageRoutes, Continue

(* last_message_id is a message of its conversation, and only one that was *)
(* being filed, or whose handler was stopped, is newer.                    *)
THEOREM LastHolds == Spec => []LastMessageIsLatest
<1>1. MessageInv => LastMessageIsLatest
  BY DEF MessageInv
<1> QED
  BY <1>1, TypeInit, TypeStep, MessageInit, MessageStep, PTL DEF Spec

(* What counts as unread is listed, and is new to whom it counts for, but  *)
(* for what a client put back or what came while the list was read.        *)
THEOREM UnreadHolds == Spec => []UnreadIsNew
<1>1. ASSUME TypeInv, MessageInv PROVE UnreadIsNew
  <2> SUFFICES ASSUME NEW u \in Users, NEW c \in Unread(u)
               PROVE  /\ c \in Inbox(u)
                      /\ \A m \in ToRead(u, c) : m \in seen => m \in acked \cup slipped
    BY DEF UnreadIsNew
  <2>1. c \in Convs /\ NoConv \notin Convs /\ NoUser # u
    BY ChatAssumption DEF Unread
  <2>2. \A m \in ToRead(u, c) : /\ m \in Msgs /\ msg[m].conv = c
                                /\ msg[m].receiver = u /\ msg[m].status # "READ"
    BY DEF ToRead, MsgsOf
  <2>3. PICK n \in Msgs : msg[n].conv = c /\ msg[n].receiver = u
    BY <2>2 DEF Unread
  <2>4. conv[c].state = "live" /\ u \in Two(conv[c])
    BY <1>1, <2>1, <2>3 DEF MessageInv, MsgsPlaced
  <2>5. c \in Inbox(u)
    BY <2>1, <2>4 DEF Inbox, Live, Parties, Two
  <2>6. \A m \in ToRead(u, c) : m \in seen => m \in acked \cup slipped
    BY <1>1, <2>1, <2>2 DEF MessageInv, ShownAreRead, Told
  <2> QED
    BY <2>5, <2>6
<1> QED
  BY <1>1, TypeInit, TypeStep, MessageInit, MessageStep, PTL DEF Spec

===============================================================================
