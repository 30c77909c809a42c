------------------------------ MODULE Gateway ------------------------------
(***************************************************************************)
(* Login and presence in the instant-messaging system: the login of the    *)
(* user service (code/server/user/source/user_server.hpp), the sessions    *)
(* and login marks it shares with the gateway in redis                     *)
(* (common/data_redis.hpp), the gateway's two maps of long connections     *)
(* (gateway/source/connection.hpp) and its handlers                        *)
(* (gateway/source/gateway_server.hpp).                                    *)
(*                                                                         *)
(* Three kinds of threads meet: brpc workers of the user service, the one  *)
(* thread that runs every websocket handler, and the threads of the HTTP   *)
(* server.  An action is one redis command or one critical section of the  *)
(* connection maps.  Both services may die at any time and are started     *)
(* again; redis stays.                                                     *)
(*                                                                         *)
(* A client logs in over HTTP, opens a websocket and sends its session id  *)
(* on it once.  It may open another one with the same id later.            *)
(***************************************************************************)
EXTENDS Naturals, FiniteSets

CONSTANTS User, Worker, Thread,
          Ssid,          \* the uuids of login sessions; an id nobody refers to
                         \* any more stands for a fresh one
          Conn,          \* connections that exist at one time
          None,
          MAX_RESTARTS   \* TLC's bound on deaths of a service

ASSUME GatewayAssumption == None \notin User \cup Ssid \cup Conn /\ MAX_RESTARTS \in Nat

VARIABLES session, status,        \* redis: the user of a session, the marked users
          login,                  \* requests in the user service
          held,                   \* session ids that a running client holds
          sock, token, heard,     \* websockets: state, the id its client sends,
                                  \* whether that message was handled
          uid_connections, conn_clients, closing,  \* the gateway
          http,                   \* a request that still has users to notify
          who,                    \* history: who was let in on a connection
          raced, stranded,        \* history: see below
          restarts

redis == <<session, status>>
websockets == <<sock, token, heard>>
maps == <<uid_connections, conn_clients, closing>>
vars == <<redis, login, held, websockets, maps, http, who, raced, stranded, restarts>>

NoLogin == [pc |-> "idle", uid |-> None, ssid |-> None]
NoNotice == [left |-> {}, conn |-> None, to |-> None]
NoClient == [uid |-> None, ssid |-> None]
NotClosing == [conn |-> None, step |-> "idle"]

Init ==
  /\ session = [s \in Ssid |-> None]
  /\ status = {}
  /\ login = [w \in Worker |-> NoLogin]
  /\ held = {}
  /\ sock = [c \in Conn |-> "none"]
  /\ token = [c \in Conn |-> None]
  /\ heard = [c \in Conn |-> FALSE]
  /\ uid_connections = [u \in User |-> None]
  /\ conn_clients = [c \in Conn |-> NoClient]
  /\ closing = NotClosing
  /\ http = [t \in Thread |-> NoNotice]
  /\ who = [c \in Conn |-> None]
  /\ raced = {}
  /\ stranded = {}
  /\ restarts = 0

Registered(c) == conn_clients[c] # NoClient
LoggingIn(w, u) == login[w].pc # "idle" /\ login[w].uid = u
SessionsOf(u) == {s \in Ssid : session[s] = u}

Fresh(s) ==
  /\ session[s] = None
  /\ s \notin held
  /\ \A c \in Conn : token[c] # s /\ conn_clients[c].ssid # s
  /\ \A w \in Worker : login[w].ssid # s

(* Somebody may still take away the mark of u: a login or a registered     *)
(* connection of u is on its way to the gateway's close handler, or a      *)
(* client can connect with a session of u.                                 *)
Owned(u) ==
  \/ \E w \in Worker : LoggingIn(w, u)
  \/ \E c \in Conn : conn_clients[c].uid = u /\ closing # [conn |-> c, step |-> "maps"]
  \/ \E s \in SessionsOf(u) :
       s \in held \/ \E c \in Conn : token[c] = s /\ ~ heard[c]

(* After a failure: marks that have lost everybody who could remove them.  *)
(* (It comes last in an action: it reads the new values.)                  *)
Strand == stranded' = stranded \cup {u \in status : ~ Owned(u)'}

-----------------------------------------------------------------------------
(* The user service                                                        *)

(* UserLogin with the right password finds no mark; with one it is refused *)
(* and nothing changes.  Two logins of a user race when both look before   *)
(* one of them has set the mark.                                           *)
UserLogin(w, u) ==
  /\ login[w] = NoLogin
  /\ u \notin status
  /\ login' = [login EXCEPT ![w] = [pc |-> "checked", uid |-> u, ssid |-> None]]
  /\ raced' = raced \cup
       {v \in {u} : \E other \in Worker : login[other].pc \in {"checked", "stored"}
                                            /\ login[other].uid = u}
  /\ UNCHANGED <<redis, held, websockets, maps, http, who, stranded, restarts>>

SessionAppend(w, s) ==
  /\ login[w].pc = "checked"
  /\ Fresh(s)
  /\ session' = [session EXCEPT ![s] = login[w].uid]
  /\ login' = [login EXCEPT ![w].pc = "stored", ![w].ssid = s]
  /\ UNCHANGED <<status, held, websockets, maps, http, who, raced, stranded, restarts>>

StatusAppend(w) ==
  /\ login[w].pc = "stored"
  /\ status' = status \cup {login[w].uid}
  /\ login' = [login EXCEPT ![w].pc = "marked"]
  /\ UNCHANGED <<session, held, websockets, maps, http, who, raced, stranded, restarts>>

LoginAnswer(w) ==
  /\ login[w].pc = "marked"
  /\ held' = held \cup {login[w].ssid}
  /\ login' = [login EXCEPT ![w] = NoLogin]
  /\ UNCHANGED <<redis, websockets, maps, http, who, raced, stranded, restarts>>

(* The client is gone before the answer arrives. *)
AnswerLost(w) ==
  /\ login[w].pc = "marked"
  /\ login' = [login EXCEPT ![w] = NoLogin]
  /\ UNCHANGED <<redis, held, websockets, maps, http, who, raced, restarts>>
  /\ Strand

(* A session without a mark that is left behind counts as a race: the user *)
(* can log in once more.                                                   *)
UserServiceRestart ==
  /\ restarts < MAX_RESTARTS
  /\ restarts' = restarts + 1
  /\ \E w \in Worker : login[w] # NoLogin
  /\ login' = [w \in Worker |-> NoLogin]
  /\ raced' = raced \cup {u \in User : \E w \in Worker :
                            login[w].pc = "stored" /\ login[w].uid = u}
  /\ UNCHANGED <<redis, held, websockets, maps, http, who>>
  /\ Strand

-----------------------------------------------------------------------------
(* Clients and the network                                                 *)

Unused(c) == sock[c] = "none" /\ \A t \in Thread : http[t].conn # c

Connect(c, s) ==
  /\ s \in held
  /\ Unused(c)
  /\ sock' = [sock EXCEPT ![c] = "open"]
  /\ token' = [token EXCEPT ![c] = s]
  /\ heard' = [heard EXCEPT ![c] = FALSE]
  /\ who' = [who EXCEPT ![c] = None]
  /\ UNCHANGED <<redis, login, held, maps, http, raced, stranded, restarts>>

(* A connection breaks or its client closes it. *)
SocketDies(c) ==
  /\ sock[c] = "open"
  /\ sock' = [sock EXCEPT ![c] = "dead"]
  /\ UNCHANGED <<redis, login, held, token, heard, maps, http, who, raced, stranded, restarts>>

ClientQuits(s) ==
  /\ s \in held
  /\ held' = held \ {s}
  /\ sock' = [c \in Conn |-> IF sock[c] = "open" /\ token[c] = s THEN "dead" ELSE sock[c]]
  /\ UNCHANGED <<redis, login, token, heard, maps, http, who, raced, restarts>>
  /\ Strand

-----------------------------------------------------------------------------
(* The websocket thread of the gateway: one handler at a time.             *)

Gone(c) ==
  /\ sock' = [sock EXCEPT ![c] = "none"]
  /\ token' = [token EXCEPT ![c] = None]
  /\ heard' = [heard EXCEPT ![c] = FALSE]

\* variant: the two strings change places
InsertConnSwapped(c, u, s) ==
  /\ uid_connections' =
       IF uid_connections[u] = None THEN [uid_connections EXCEPT ![u] = c] ELSE uid_connections
  /\ conn_clients' =
       IF Registered(c) THEN conn_clients
       ELSE [conn_clients EXCEPT ![c] = [uid |-> s, ssid |-> u]]

(* Connection::insert: neither map overwrites an entry. *)
InsertConn(c, u, s) ==
  /\ uid_connections' =
       IF uid_connections[u] = None THEN [uid_connections EXCEPT ![u] = c] ELSE uid_connections
  /\ conn_clients' =
       IF Registered(c) THEN conn_clients
       ELSE [conn_clients EXCEPT ![c] = [uid |-> u, ssid |-> s]]

(* onMessage: the session id decides whether the connection is entered or  *)
(* closed.  A message that arrived before the connection broke is handled. *)
OnMessage(c) ==
  LET u == session[token[c]] IN
  /\ closing = NotClosing
  /\ sock[c] \in {"open", "dead"}
  /\ ~ heard[c]
  /\ heard' = [heard EXCEPT ![c] = TRUE]
  /\ \/ /\ u # None
        /\ InsertConn(c, u, token[c])
        /\ who' = [who EXCEPT ![c] = u]
        /\ raced' = raced \cup {v \in {u} : \E d \in Conn : conn_clients[d].uid = u}
        /\ UNCHANGED sock
     \/ /\ u = None
        /\ sock' = [sock EXCEPT ![c] = "dead"]
        /\ UNCHANGED <<uid_connections, conn_clients, who, raced>>
  /\ UNCHANGED <<redis, login, held, token, closing, http, stranded, restarts>>

(* onClose of a connection that is not in the maps: nothing to clean up.   *)
OnCloseUnknown(c) ==
  /\ closing = NotClosing
  /\ sock[c] = "dead"
  /\ ~ Registered(c)
  /\ Gone(c)
  /\ UNCHANGED <<redis, login, held, maps, http, who, raced, restarts>>
  /\ Strand

\* variant: the session is left in redis
OnCloseKeepsSession(c) ==
  /\ closing = NotClosing
  /\ sock[c] = "dead"
  /\ Registered(c)
  /\ closing' = [conn |-> c, step |-> "status"]
  /\ UNCHANGED <<redis, login, held, websockets, uid_connections,
                 conn_clients, http, who, raced, stranded, restarts>>

OnClose(c) ==
  /\ closing = NotClosing
  /\ sock[c] = "dead"
  /\ Registered(c)
  /\ session' = [session EXCEPT ![conn_clients[c].ssid] = None]
  /\ closing' = [conn |-> c, step |-> "status"]
  /\ UNCHANGED <<status, login, held, websockets, uid_connections,
                 conn_clients, http, who, raced, stranded, restarts>>

\* variant: the mark stays
StatusRemoveForgotten ==
  /\ closing.step = "status"
  /\ closing' = [closing EXCEPT !.step = "maps"]
  /\ UNCHANGED <<redis, login, held, websockets, uid_connections, stranded,
                 conn_clients, http, who, raced, restarts>>

StatusRemove ==
  LET u == conn_clients[closing.conn].uid IN
  /\ closing.step = "status"
  /\ status' = status \ {u}
  /\ stranded' = stranded \ {u}
  /\ closing' = [closing EXCEPT !.step = "maps"]
  /\ UNCHANGED <<session, login, held, websockets, uid_connections,
                 conn_clients, http, who, raced, restarts>>

\* variant: the user's entry stays
RemoveConnOnly ==
  LET c == closing.conn IN
  /\ closing.step = "maps"
  /\ conn_clients' = [conn_clients EXCEPT ![c] = NoClient]
  /\ closing' = NotClosing
  /\ Gone(c)
  /\ UNCHANGED <<redis, login, held, uid_connections, http, who, raced, stranded, restarts>>

(* Connection::remove takes the user's entry away whatever it holds. *)
RemoveConn ==
  LET c == closing.conn IN
  /\ closing.step = "maps"
  /\ uid_connections' = [uid_connections EXCEPT ![conn_clients[c].uid] = None]
  /\ conn_clients' = [conn_clients EXCEPT ![c] = NoClient]
  /\ closing' = NotClosing
  /\ Gone(c)
  /\ UNCHANGED <<redis, login, held, http, who, raced, stranded, restarts>>

GatewayDies ==
  /\ restarts < MAX_RESTARTS
  /\ restarts' = restarts + 1
  /\ uid_connections' = [u \in User |-> None]
  /\ conn_clients' = [c \in Conn |-> NoClient]
  /\ closing' = NotClosing
  /\ sock' = [c \in Conn |-> "none"]
  /\ token' = [c \in Conn |-> None]
  /\ heard' = [c \in Conn |-> FALSE]
  /\ http' = [t \in Thread |-> NoNotice]
  /\ UNCHANGED <<redis, login, held, who, raced>>
  /\ Strand

GatewayRestart == GatewayDies

-----------------------------------------------------------------------------
(* HTTP handlers.  Each looks its client up by the session id, forwards    *)
(* the request and, when that succeeded, notifies users who are connected. *)
(* A refused or failed request changes nothing here; nor do the handlers   *)
(* that only forward.                                                      *)

Serves(t, s) == http[t] = NoNotice /\ s \in held /\ session[s] # None

NotifyAll(t, users) ==
  /\ http' = [http EXCEPT ![t].left = users]
  /\ UNCHANGED <<redis, login, held, websockets, maps, who, raced, stranded, restarts>>

FriendAdd(t, s, respondent) == Serves(t, s) /\ NotifyAll(t, {respondent})

(* The applicant is told the result; of a new session both are told. *)
FriendAddProcess(t, s, applicant, agree) ==
  Serves(t, s) /\ NotifyAll(t, {applicant} \cup {u \in {session[s]} : agree})

(* The applicant's data could not be fetched, but the test looks at the    *)
(* data of the other user: a null pointer is used and the process ends.    *)
FriendAddProcessAborts(t, s) ==
  Serves(t, s) /\ uid_connections[session[s]] # None /\ GatewayDies

FriendRemove(t, s, peer) == Serves(t, s) /\ NotifyAll(t, {peer})

ChatSessionCreate(t, s, members) == Serves(t, s) /\ NotifyAll(t, members)

NewMessage(t, s, targets) == Serves(t, s) /\ NotifyAll(t, targets \ {session[s]})

(* Connection::connection *)
FindConn(t, u) ==
  /\ u \in http[t].left
  /\ http[t].conn = None
  /\ http' = [http EXCEPT ![t] = [left |-> @.left \ {u},
                                  conn |-> uid_connections[u],
                                  to   |-> IF uid_connections[u] = None THEN None ELSE u]]
  /\ UNCHANGED <<redis, login, held, websockets, maps, who, raced, stranded, restarts>>

(* On a connection that broke meanwhile send returns an error nobody reads. *)
Send(t) ==
  /\ http[t].conn # None
  /\ http' = [http EXCEPT ![t].conn = None, ![t].to = None]
  /\ UNCHANGED <<redis, login, held, websockets, maps, who, raced, stranded, restarts>>

-----------------------------------------------------------------------------
UserServiceStep ==
  \/ \E w \in Worker, u \in User : UserLogin(w, u)
  \/ \E w \in Worker, s \in Ssid : SessionAppend(w, s)
  \/ \E w \in Worker : StatusAppend(w) \/ LoginAnswer(w) \/ AnswerLost(w)
  \/ UserServiceRestart

ClientStep ==
  \/ \E c \in Conn, s \in Ssid : Connect(c, s)
  \/ \E c \in Conn : SocketDies(c)
  \/ \E s \in Ssid : ClientQuits(s)

WebsocketStep ==
  \/ \E c \in Conn : OnMessage(c) \/ OnCloseUnknown(c) \/ OnClose(c)
  \/ StatusRemove
  \/ RemoveConn

HttpStep ==
  \E t \in Thread :
    \/ \E s \in Ssid, u \in User : FriendAdd(t, s, u) \/ FriendRemove(t, s, u)
    \/ \E s \in Ssid, u \in User, agree \in BOOLEAN : FriendAddProcess(t, s, u, agree)
    \/ \E s \in Ssid : FriendAddProcessAborts(t, s)
    \/ \E s \in Ssid, users \in SUBSET User :
         ChatSessionCreate(t, s, users) \/ NewMessage(t, s, users)
    \/ \E u \in User : FindConn(t, u)
    \/ Send(t)

Next == UserServiceStep \/ ClientStep \/ WebsocketStep \/ GatewayRestart \/ HttpStep

Spec == Init /\ [][Next]_vars

-----------------------------------------------------------------------------
TypeOK ==
  /\ session \in [Ssid -> User \cup {None}]
  /\ status \subseteq User
  /\ login \in [Worker -> [pc : {"idle", "checked", "stored", "marked"},
                           uid : User \cup {None}, ssid : Ssid \cup {None}]]
  /\ held \subseteq Ssid
  /\ sock \in [Conn -> {"none", "open", "dead"}]
  /\ token \in [Conn -> Ssid \cup {None}]
  /\ heard \in [Conn -> BOOLEAN]
  /\ uid_connections \in [User -> Conn \cup {None}]
  /\ conn_clients \in [Conn -> [uid : User \cup {None}, ssid : Ssid \cup {None}]]
  /\ closing \in [conn : Conn \cup {None}, step : {"idle", "status", "maps"}]
  /\ http \in [Thread -> [left : SUBSET User, conn : Conn \cup {None},
                          to : User \cup {None}]]
  /\ who \in [Conn -> User \cup {None}]
  /\ raced \subseteq User
  /\ stranded \subseteq User
  /\ restarts \in 0 .. MAX_RESTARTS

(* The two maps agree: an entry of a user is a connection of that user     *)
(* (connection.hpp:22, 56).                                                *)
EntryHasClient == \A u \in User :
  uid_connections[u] # None => conn_clients[uid_connections[u]].uid = u

(* A user whose logins and connections never overlapped is reached over    *)
(* the connection on which they were let in.                               *)
Reachable == \A c \in Conn :
  Registered(c) /\ conn_clients[c].uid \notin raced => uid_connections[conn_clients[c].uid] = c

(* A notification goes to a connection of the user it is meant for, also   *)
(* when the connection is closed between lookup and send.                  *)
NoticeForAddressee == \A t \in Thread :
  http[t].conn # None => who[http[t].conn] = http[t].to

ConnectionsAgree == EntryHasClient /\ Reachable /\ NoticeForAddressee

(* A user is logged in at one place: redis has one session of theirs at    *)
(* most, unless two logins or two connections of theirs overlapped or the  *)
(* user service died between its two writes (user_server.hpp:135).         *)
OneSession == \A u \in User : u \notin raced => Cardinality(SessionsOf(u)) <= 1

(* A user who is marked as logged in, and therefore refused, has somebody  *)
(* who can take the mark away, unless a service died or a client left      *)
(* before the gateway knew it (gateway_server.hpp:128, 140).               *)
MarkIsOwned == \A u \in status : Owned(u) \/ u \in stranded

=============================================================================
