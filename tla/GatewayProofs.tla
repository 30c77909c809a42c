---------------------------- MODULE GatewayProofs ----------------------------
(***************************************************************************)
(* Proofs about Gateway, for any numbers of users, workers, threads,       *)
(* session ids, connections and deaths of a service.                       *)
(*                                                                         *)
(* A session id has one owner for as long as anybody refers to it: a       *)
(* login that has not been answered, a client, a connection (LoginsSound,  *)
(* OwnersSound).  A user whose logins and connections never overlapped is  *)
(* in one place after another (Orderly): the look at the marks finds no    *)
(* session, a session comes with a mark or a login that will set it, and   *)
(* the connection that is being closed takes the only session with it.     *)
(***************************************************************************)
EXTENDS Gateway, FiniteSetTheorems, TLAPS

(* A connection has a session id from the moment it is made; it is         *)
(* registered under that id when its message has been handled.             *)
ClientsSound == \A c \in Conn :
  /\ sock[c] = "none" => token[c] = None /\ ~ heard[c] /\ ~ Registered(c)
  /\ sock[c] # "none" => token[c] \in Ssid
  /\ Registered(c) =>
       /\ heard[c]
       /\ conn_clients[c].uid \in User
       /\ conn_clients[c].ssid = token[c]

(* The close handler is at work on a registered connection that is dead. *)
ClosingSound ==
  \/ closing = NotClosing
  \/ /\ closing.conn \in Conn /\ closing.step \in {"status", "maps"}
     /\ Registered(closing.conn) /\ sock[closing.conn] = "dead"

HasSession(w) == login[w].pc \in {"stored", "marked"}

(* The session of a login is nobody else's until the answer. *)
LoginsSound == \A w \in Worker :
  /\ login[w].pc = "idle" => login[w] = NoLogin
  /\ login[w].pc # "idle" => login[w].uid \in User
  /\ HasSession(w) =>
       LET s == login[w].ssid
       IN  /\ s \in Ssid /\ session[s] = login[w].uid
           /\ s \notin held
           /\ \A c \in Conn : token[c] # s
           /\ \A v \in Worker : v # w => login[v].ssid # s

(* The session of a connection is gone or that of its user, and            *)
(* connections with the same session are of the same user.                 *)
OwnersSound == \A c \in Conn : Registered(c) =>
  /\ session[token[c]] \in {None, conn_clients[c].uid}
  /\ \A d \in Conn : Registered(d) /\ token[d] = token[c] =>
       conn_clients[d].uid = conn_clients[c].uid

(* A connection that a thread will write to was let in; it is not used     *)
(* again until the thread is done with it.                                 *)
NoticesSound == \A t \in Thread :
  http[t].conn # None => heard[http[t].conn] \/ sock[http[t].conn] = "none"

LetInAs == \A c \in Conn : Registered(c) => who[c] = conn_clients[c].uid

Entering(w, u) == login[w].pc \in {"checked", "stored"} /\ login[w].uid = u

Orderly(u) ==
  /\ \A r, s \in SessionsOf(u) : r = s
  /\ SessionsOf(u) # {} =>
       u \in status \/ \E w \in Worker : login[w].pc = "stored" /\ login[w].uid = u
  /\ \A w \in Worker : login[w].pc = "checked" /\ login[w].uid = u =>
       SessionsOf(u) = {} /\ u \notin status
  /\ \A v, w \in Worker : Entering(v, u) /\ Entering(w, u) => v = w
  /\ \A c \in Conn : conn_clients[c].uid = u =>
       /\ uid_connections[u] = c
       /\ closing # [conn |-> c, step |-> "maps"] => u \in status
       /\ closing.conn # c => session[token[c]] = u
       /\ closing = [conn |-> c, step |-> "status"] => SessionsOf(u) = {}

IInv ==
  /\ TypeOK
  /\ ClientsSound /\ ClosingSound /\ LoginsSound /\ OwnersSound
  /\ EntryHasClient /\ LetInAs /\ NoticesSound /\ NoticeForAddressee
  /\ \A u \in User \ raced : Orderly(u)
  /\ MarkIsOwned

-----------------------------------------------------------------------------
(* The variables that an action leaves alone keep what depends on them.    *)

LEMMA ClientsStay ==
  ASSUME ClientsSound, ClosingSound, UNCHANGED <<websockets, conn_clients, closing>>
  PROVE  ClientsSound' /\ ClosingSound'
  BY DEF ClientsSound, ClosingSound, websockets, Registered

LEMMA LoginsStay ==
  ASSUME LoginsSound, UNCHANGED <<session, login, held, token>>
  PROVE  LoginsSound'
  BY DEF LoginsSound, HasSession

LEMMA OwnersStay ==
  ASSUME OwnersSound, UNCHANGED <<session, token, conn_clients>>
  PROVE  OwnersSound'
  BY DEF OwnersSound, Registered

LEMMA MapsStay ==
  ASSUME EntryHasClient, LetInAs, UNCHANGED <<uid_connections, conn_clients, who>>
  PROVE  EntryHasClient' /\ LetInAs'
  BY DEF EntryHasClient, LetInAs, Registered

LEMMA NoticesStay ==
  ASSUME NoticesSound, NoticeForAddressee, UNCHANGED <<http, sock, heard, who>>
  PROVE  NoticesSound' /\ NoticeForAddressee'
  BY DEF NoticesSound, NoticeForAddressee

LEMMA OrderStays ==
  ASSUME \A u \in User \ raced : Orderly(u), raced \subseteq raced',
         UNCHANGED <<session, status, login, token, uid_connections, conn_clients, closing>>
  PROVE  (\A u \in User \ raced : Orderly(u))'
  <1> SUFFICES ASSUME NEW u \in User \ raced  PROVE Orderly(u)'
    OBVIOUS
  <1>1. Orderly(u)  OBVIOUS
  <1>2. SessionsOf(u)' = SessionsOf(u)  BY DEF SessionsOf
  <1> QED  BY <1>1, <1>2 DEF Orderly, Entering

(* Whoever can take the mark away still can. *)
LEMMA OwnersRemain ==
  ASSUME NEW x, SessionsOf(x)' = SessionsOf(x), held' = held,
         \A w \in Worker : LoggingIn(w, x) => LoggingIn(w, x)',
         \A c \in Conn : closing' # [conn |-> c, step |-> "maps"],
         \A c \in Conn : conn_clients[c].uid = x /\ closing # [conn |-> c, step |-> "maps"] =>
           conn_clients'[c].uid = x,
         \A c \in Conn : ~ heard[c] => ~ heard'[c] /\ token'[c] = token[c]
  PROVE  Owned(x) => Owned(x)'
  <1>1. CASE \E w \in Worker : LoggingIn(w, x)  BY <1>1 DEF Owned
  <1>2. CASE \E c \in Conn : conn_clients[c].uid = x /\ closing # [conn |-> c, step |-> "maps"]
    BY <1>2 DEF Owned
  <1>3. CASE \E s \in SessionsOf(x) : s \in held \/ \E c \in Conn : token[c] = s /\ ~ heard[c]
    BY <1>3 DEF Owned
  <1> QED  BY <1>1, <1>2, <1>3 DEF Owned

LEMMA MarksStay ==
  ASSUME MarkIsOwned,
         UNCHANGED <<session, status, login, held, token, heard, conn_clients, closing, stranded>>
  PROVE  MarkIsOwned'
  <1> SUFFICES ASSUME NEW u \in status  PROVE Owned(u)' \/ u \in stranded
    BY DEF MarkIsOwned
  <1>1. Owned(u) \/ u \in stranded  BY DEF MarkIsOwned
  <1>2. SessionsOf(u)' = SessionsOf(u)  BY DEF SessionsOf
  <1>3. Owned(u) => Owned(u)'  BY <1>2 DEF Owned, LoggingIn
  <1> QED  BY <1>1, <1>3

(* An action that looks at the marks last misses none. *)
LEMMA StrandFindsThem ==
  ASSUME MarkIsOwned, status' = status, Strand
  PROVE  MarkIsOwned'
  <1> SUFFICES ASSUME NEW u \in status  PROVE Owned(u)' \/ u \in stranded'
    BY DEF MarkIsOwned
  <1> QED  BY DEF Strand

-----------------------------------------------------------------------------
LEMMA InitInvariant == Init => IInv
  <1> SUFFICES ASSUME Init  PROVE IInv
    OBVIOUS
  <1>1. /\ NoLogin \in [pc : {"idle", "checked", "stored", "marked"},
                        uid : User \cup {None}, ssid : Ssid \cup {None}]
        /\ NoClient \in [uid : User \cup {None}, ssid : Ssid \cup {None}]
        /\ NotClosing \in [conn : Conn \cup {None}, step : {"idle", "status", "maps"}]
        /\ NoNotice \in [left : SUBSET User, conn : Conn \cup {None}, to : User \cup {None}]
        /\ 0 \in 0 .. MAX_RESTARTS
    BY GatewayAssumption DEF NoLogin, NoClient, NotClosing, NoNotice
  <1>2. TypeOK  BY <1>1 DEF Init, TypeOK
  <1>3. \A c \in Conn : ~ Registered(c) /\ conn_clients[c].uid = None
    BY DEF Init, Registered, NoClient
  <1>4. \A w \in Worker : login[w] = NoLogin /\ login[w].pc = "idle"
    BY DEF Init, NoLogin
  <1>5. \A u \in User : SessionsOf(u) = {} /\ u # None
    BY GatewayAssumption DEF Init, SessionsOf
  <1>6. ClientsSound /\ ClosingSound
    BY <1>3 DEF Init, ClientsSound, ClosingSound
  <1>7. LoginsSound  BY <1>4 DEF LoginsSound, HasSession
  <1>8. OwnersSound /\ EntryHasClient /\ LetInAs
    BY <1>3 DEF Init, OwnersSound, EntryHasClient, LetInAs
  <1>9. NoticesSound /\ NoticeForAddressee
    BY DEF Init, NoticesSound, NoticeForAddressee, NoNotice
  <1>10. \A u \in User \ raced : Orderly(u)
    BY <1>3, <1>4, <1>5 DEF Orderly, Entering
  <1>11. MarkIsOwned  BY DEF Init, MarkIsOwned
  <1> QED  BY <1>2, <1>6, <1>7, <1>8, <1>9, <1>10, <1>11 DEF IInv

-----------------------------------------------------------------------------
(* The HTTP threads.                                                       *)

LEMMA NoticeTypes ==
  ASSUME IInv
  PROVE  http \in [Thread -> [left : SUBSET User, conn : Conn \cup {None}, to : User \cup {None}]]
  BY DEF IInv, TypeOK

LEMMA OnlyNotices ==
  ASSUME IInv, TypeOK', NoticesSound', NoticeForAddressee',
         UNCHANGED <<redis, login, held, websockets, maps, who, raced, stranded>>
  PROVE  IInv'
  <1>1. /\ session' = session /\ status' = status /\ sock' = sock /\ token' = token
        /\ heard' = heard /\ uid_connections' = uid_connections
        /\ conn_clients' = conn_clients /\ closing' = closing
    BY DEF redis, websockets, maps
  <1>2. ClientsSound' /\ ClosingSound'  BY <1>1, ClientsStay DEF IInv
  <1>3. LoginsSound'  BY <1>1, LoginsStay DEF IInv
  <1>4. OwnersSound'  BY <1>1, OwnersStay DEF IInv
  <1>5. EntryHasClient' /\ LetInAs'  BY <1>1, MapsStay DEF IInv
  <1>6. (\A u \in User \ raced : Orderly(u))'  BY <1>1, OrderStays DEF IInv
  <1>7. MarkIsOwned'  BY <1>1, MarksStay DEF IInv
  <1> QED  BY <1>2, <1>3, <1>4, <1>5, <1>6, <1>7 DEF IInv

LEMMA NotifyAllKeeps ==
  ASSUME IInv, NEW t \in Thread, NEW users \in SUBSET User, http[t] = NoNotice,
         NotifyAll(t, users)
  PROVE  IInv'
  <1>1. /\ http' = [http EXCEPT ![t].left = users]
        /\ UNCHANGED <<redis, login, held, websockets, maps, who, raced, stranded, restarts>>
    BY DEF NotifyAll
  <1>2. UNCHANGED <<session, status, sock, token, heard, uid_connections, conn_clients, closing>>
    BY <1>1 DEF redis, websockets, maps
  <1>3. http' \in [Thread -> [left : SUBSET User, conn : Conn \cup {None}, to : User \cup {None}]]
    BY <1>1, NoticeTypes
  <1>4. TypeOK'  BY <1>1, <1>2, <1>3 DEF IInv, TypeOK
  <1>5. \A x \in Thread : http'[x].conn = http[x].conn /\ http'[x].to = http[x].to
    BY <1>1, NoticeTypes
  <1>6. NoticesSound' /\ NoticeForAddressee'
    BY <1>1, <1>2, <1>5 DEF IInv, NoticesSound, NoticeForAddressee
  <1> QED  BY <1>1, <1>4, <1>6, OnlyNotices

(* What is found under a user's name is a connection of theirs. *)
LEMMA FindConnKeeps ==
  ASSUME IInv, NEW t \in Thread, NEW u \in User, FindConn(t, u)
  PROVE  IInv'
  <1>1. /\ http' = [http EXCEPT ![t] = [left |-> @.left \ {u},
                                      conn |-> uid_connections[u],
                                      to   |-> IF uid_connections[u] = None THEN None ELSE u]]
        /\ UNCHANGED <<redis, login, held, websockets, maps, who, raced, stranded, restarts>>
    BY DEF FindConn
  <1>2. UNCHANGED <<session, status, sock, token, heard, uid_connections, conn_clients, closing>>
    BY <1>1 DEF redis, websockets, maps
  <1>3. /\ http[t].left \ {u} \in SUBSET User /\ uid_connections[u] \in Conn \cup {None}
        /\ (IF uid_connections[u] = None THEN None ELSE u) \in User \cup {None}
    BY DEF IInv, TypeOK
  <1>4. http' \in [Thread -> [left : SUBSET User, conn : Conn \cup {None}, to : User \cup {None}]]
    BY <1>1, <1>3, NoticeTypes
  <1>5. TypeOK'  BY <1>1, <1>2, <1>4 DEF IInv, TypeOK
  <1>6. /\ http'[t].conn = uid_connections[u]
        /\ uid_connections[u] # None => http'[t].to = u
        /\ \A x \in Thread : x # t => http'[x] = http[x]
    BY <1>1, NoticeTypes
  <1>7. ASSUME uid_connections[u] # None
        PROVE  who[uid_connections[u]] = u /\ heard[uid_connections[u]]
    <2> DEFINE c == uid_connections[u]
    <2>1. c \in Conn  BY <1>3, <1>7
    <2>2. conn_clients[c].uid = u  BY <1>7 DEF IInv, EntryHasClient
    <2>3. Registered(c)  BY <2>2, GatewayAssumption DEF Registered, NoClient
    <2> QED  BY <2>1, <2>2, <2>3 DEF IInv, LetInAs, ClientsSound
  <1>8. NoticesSound' /\ NoticeForAddressee'
    <2> SUFFICES ASSUME NEW x \in Thread, http'[x].conn # None
                 PROVE  /\ heard[http'[x].conn] \/ sock[http'[x].conn] = "none"
                        /\ who[http'[x].conn] = http'[x].to
      BY <1>1, <1>2 DEF NoticesSound, NoticeForAddressee
    <2>1. CASE x = t  BY <2>1, <1>6, <1>7
    <2>2. CASE x # t  BY <2>2, <1>6 DEF IInv, NoticesSound, NoticeForAddressee
    <2> QED  BY <2>1, <2>2
  <1> QED  BY <1>1, <1>5, <1>8, OnlyNotices

LEMMA SendKeeps ==
  ASSUME IInv, NEW t \in Thread, Send(t)
  PROVE  IInv'
  <1>1. /\ http' = [http EXCEPT ![t].conn = None, ![t].to = None]
        /\ UNCHANGED <<redis, login, held, websockets, maps, who, raced, stranded, restarts>>
    BY DEF Send
  <1>2. UNCHANGED <<session, status, sock, token, heard, uid_connections, conn_clients, closing>>
    BY <1>1 DEF redis, websockets, maps
  <1>3. http' \in [Thread -> [left : SUBSET User, conn : Conn \cup {None}, to : User \cup {None}]]
    BY <1>1, NoticeTypes
  <1>4. TypeOK'  BY <1>1, <1>2, <1>3 DEF IInv, TypeOK
  <1>5. /\ http'[t].conn = None
        /\ \A x \in Thread : x # t => http'[x] = http[x]
    BY <1>1, NoticeTypes
  <1>6. NoticesSound' /\ NoticeForAddressee'
    BY <1>1, <1>2, <1>5 DEF IInv, NoticesSound, NoticeForAddressee
  <1> QED  BY <1>1, <1>4, <1>6, OnlyNotices

(* A death of the gateway takes every connection along and leaves redis as *)
(* it is.                                                                  *)
LEMMA GatewayDiesKeeps ==
  ASSUME IInv, GatewayDies
  PROVE  IInv'
  <1>1. /\ restarts < MAX_RESTARTS /\ restarts' = restarts + 1
        /\ uid_connections' = [u \in User |-> None]
        /\ conn_clients' = [c \in Conn |-> NoClient]
        /\ closing' = NotClosing
        /\ sock' = [c \in Conn |-> "none"]
        /\ token' = [c \in Conn |-> None]
        /\ heard' = [c \in Conn |-> FALSE]
        /\ http' = [t \in Thread |-> NoNotice]
        /\ session' = session /\ status' = status
        /\ login' = login /\ held' = held /\ who' = who /\ raced' = raced
        /\ Strand
    BY DEF GatewayDies, redis
  <1>2. restarts' \in 0 .. MAX_RESTARTS
    BY <1>1, GatewayAssumption DEF IInv, TypeOK
  <1>3. stranded' \subseteq User  BY <1>1 DEF Strand, IInv, TypeOK
  <1>4. /\ NoClient \in [uid : User \cup {None}, ssid : Ssid \cup {None}]
        /\ NotClosing \in [conn : Conn \cup {None}, step : {"idle", "status", "maps"}]
        /\ NoNotice \in [left : SUBSET User, conn : Conn \cup {None}, to : User \cup {None}]
    BY DEF NoClient, NotClosing, NoNotice
  <1>5. TypeOK'  BY <1>1, <1>2, <1>3, <1>4 DEF IInv, TypeOK
  <1>6. \A c \in Conn : ~ Registered(c)' /\ conn_clients'[c].uid = None
    BY <1>1 DEF Registered, NoClient
  <1>7. ClientsSound' /\ ClosingSound'
    BY <1>1, <1>6 DEF ClientsSound, ClosingSound
  <1>8. LoginsSound'
    BY <1>1, GatewayAssumption DEF IInv, LoginsSound, HasSession
  <1>9. OwnersSound' /\ EntryHasClient' /\ LetInAs'
    BY <1>1, <1>6 DEF OwnersSound, EntryHasClient, LetInAs
  <1>10. NoticesSound' /\ NoticeForAddressee'
    BY <1>1 DEF NoticesSound, NoticeForAddressee, NoNotice
  <1>11. (\A u \in User \ raced : Orderly(u))'
    <2> SUFFICES ASSUME NEW u \in User \ raced  PROVE Orderly(u)'
      BY <1>1
    <2>1. Orderly(u)  BY DEF IInv
    <2>2. SessionsOf(u)' = SessionsOf(u)  BY <1>1 DEF SessionsOf
    <2> QED  BY <2>1, <2>2, <1>1, <1>6, GatewayAssumption DEF Orderly, Entering
  <1>12. MarkIsOwned'  BY <1>1, StrandFindsThem DEF IInv
  <1> QED  BY <1>5, <1>7, <1>8, <1>9, <1>10, <1>11, <1>12 DEF IInv

LEMMA HttpStepKeeps ==
  ASSUME IInv, HttpStep
  PROVE  IInv'
  <1> PICK t \in Thread :
        \/ \E s \in Ssid, u \in User : FriendAdd(t, s, u) \/ FriendRemove(t, s, u)
        \/ \E s \in Ssid, u \in User, agree \in BOOLEAN : FriendAddProcess(t, s, u, agree)
        \/ \E s \in Ssid : FriendAddProcessAborts(t, s)
        \/ \E s \in Ssid, users \in SUBSET User :
             ChatSessionCreate(t, s, users) \/ NewMessage(t, s, users)
        \/ \E u \in User : FindConn(t, u)
        \/ Send(t)
    BY DEF HttpStep
  <1>1. CASE \E s \in Ssid, u \in User : FriendAdd(t, s, u) \/ FriendRemove(t, s, u)
    BY <1>1, NotifyAllKeeps DEF FriendAdd, FriendRemove, Serves
  <1>2. ASSUME NEW s \in Ssid, NEW u \in User, NEW agree \in BOOLEAN,
               FriendAddProcess(t, s, u, agree)
        PROVE  IInv'
    <2>1. session[s] \in User  BY <1>2 DEF FriendAddProcess, Serves, IInv, TypeOK
    <2>2. {u} \cup {v \in {session[s]} : agree} \in SUBSET User  BY <2>1
    <2> QED  BY <1>2, <2>2, NotifyAllKeeps DEF FriendAddProcess, Serves
  <1>3. CASE \E s \in Ssid : FriendAddProcessAborts(t, s)
    BY <1>3, GatewayDiesKeeps DEF FriendAddProcessAborts
  <1>4. CASE \E s \in Ssid, users \in SUBSET User :
               ChatSessionCreate(t, s, users) \/ NewMessage(t, s, users)
    BY <1>4, NotifyAllKeeps DEF ChatSessionCreate, NewMessage, Serves
  <1>5. CASE \E u \in User : FindConn(t, u)  BY <1>5, FindConnKeeps
  <1>6. CASE Send(t)  BY <1>6, SendKeeps
  <1> QED  BY <1>1, <1>2, <1>3, <1>4, <1>5, <1>6

-----------------------------------------------------------------------------
(* The user service.                                                       *)

LEMMA LoginTypes ==
  ASSUME IInv
  PROVE  /\ login \in [Worker -> [pc : {"idle", "checked", "stored", "marked"},
                                 uid : User \cup {None}, ssid : Ssid \cup {None}]]
         /\ NoLogin \in [pc : {"idle", "checked", "stored", "marked"},
                        uid : User \cup {None}, ssid : Ssid \cup {None}]
         /\ NoLogin.pc = "idle" /\ NoLogin.uid = None /\ NoLogin.ssid = None
         /\ None \notin User /\ None \notin Ssid /\ None \notin Conn
  <1>1. login \in [Worker -> [pc : {"idle", "checked", "stored", "marked"},
                             uid : User \cup {None}, ssid : Ssid \cup {None}]]
    BY DEF IInv, TypeOK
  <1> QED  BY <1>1, GatewayAssumption DEF NoLogin

LEMMA RedisTypes ==
  ASSUME IInv
  PROVE  /\ session \in [Ssid -> User \cup {None}]
         /\ status \subseteq User /\ held \subseteq Ssid
         /\ raced \subseteq User /\ stranded \subseteq User
  BY DEF IInv, TypeOK

LEMMA UserLoginKeeps ==
  ASSUME IInv, NEW w \in Worker, NEW u \in User, UserLogin(w, u)
  PROVE  IInv'
  <1>1. /\ login[w] = NoLogin /\ u \notin status
        /\ login' = [login EXCEPT ![w] = [pc |-> "checked", uid |-> u, ssid |-> None]]
        /\ raced' = raced \cup
             {v \in {u} : \E other \in Worker : login[other].pc \in {"checked", "stored"}
                                                  /\ login[other].uid = u}
        /\ UNCHANGED <<redis, held, websockets, maps, http, who, stranded, restarts>>
    BY DEF UserLogin
  <1>2. UNCHANGED <<session, status, sock, token, heard, uid_connections, conn_clients, closing>>
    BY <1>1 DEF redis, websockets, maps
  <1>3. /\ login'[w].pc = "checked" /\ login'[w].uid = u /\ login'[w].ssid = None
        /\ login[w].pc = "idle"
        /\ \A v \in Worker : v # w => login'[v] = login[v]
        /\ login' \in [Worker -> [pc : {"idle", "checked", "stored", "marked"},
                                 uid : User \cup {None}, ssid : Ssid \cup {None}]]
    BY <1>1, LoginTypes
  <1>4. raced \subseteq raced' /\ raced' \subseteq raced \cup {u} /\ raced' \subseteq User
    BY <1>1, RedisTypes
  <1>5. TypeOK'  BY <1>1, <1>2, <1>3, <1>4 DEF IInv, TypeOK
  <1>6. ClientsSound' /\ ClosingSound'  BY <1>1, <1>2, ClientsStay DEF IInv
  <1>7. LoginsSound'
    <2> SUFFICES ASSUME NEW v \in Worker
        PROVE  /\ login'[v].pc = "idle" => login'[v] = NoLogin
               /\ login'[v].pc # "idle" => login'[v].uid \in User
               /\ login'[v].pc \in {"stored", "marked"} =>
                    /\ login'[v].ssid \in Ssid /\ session[login'[v].ssid] = login'[v].uid
                    /\ login'[v].ssid \notin held
                    /\ \A c \in Conn : token[c] # login'[v].ssid
                    /\ \A x \in Worker : x # v => login'[x].ssid # login'[v].ssid
      BY <1>1, <1>2 DEF LoginsSound, HasSession
    <2>1. CASE v = w  BY <2>1, <1>3
    <2>2. CASE v # w
      <3>1. login'[v] = login[v]  BY <2>2, <1>3
      <3>2. login[v].ssid \in Ssid => login'[w].ssid # login[v].ssid  BY <1>3, LoginTypes
      <3> QED  BY <3>1, <3>2, <1>3 DEF IInv, LoginsSound, HasSession
    <2> QED  BY <2>1, <2>2
  <1>8. OwnersSound'  BY <1>2, OwnersStay DEF IInv
  <1>9. EntryHasClient' /\ LetInAs'  BY <1>1, <1>2, MapsStay DEF IInv
  <1>10. NoticesSound' /\ NoticeForAddressee'  BY <1>1, <1>2, NoticesStay DEF IInv
  <1>11. (\A x \in User \ raced : Orderly(x))'
    <2> SUFFICES ASSUME NEW x \in User \ raced'  PROVE Orderly(x)'
      OBVIOUS
    <2>1. Orderly(x)  BY <1>4 DEF IInv
    <2>2. SessionsOf(x)' = SessionsOf(x)  BY <1>2 DEF SessionsOf
    <2>3. CASE x # u
      <3>1. \A v \in Worker : login'[v].pc \in {"checked", "stored"} /\ login'[v].uid = x =>
              login[v].pc = login'[v].pc /\ login[v].uid = x
        BY <2>3, <1>3
      <3>2. \A v \in Worker : login[v].pc = "stored" => login'[v] = login[v]
        BY <1>3
      <3> QED  BY <2>1, <2>2, <3>1, <3>2, <1>2 DEF Orderly, Entering
    <2>4. CASE x = u
      <3>1. \A v \in Worker : ~ (login[v].pc \in {"checked", "stored"} /\ login[v].uid = u)
        BY <2>4, <1>1
      <3>2. \A v \in Worker : login'[v].pc \in {"checked", "stored"} /\ login'[v].uid = u => v = w
        BY <3>1, <1>3
      <3>3. SessionsOf(u) = {}  BY <2>1, <2>4, <3>1, <1>1 DEF Orderly
      <3> QED  BY <2>1, <2>2, <2>4, <3>2, <3>3, <1>1, <1>2 DEF Orderly, Entering
    <2> QED  BY <2>3, <2>4
  <1>12. MarkIsOwned'
    <2> SUFFICES ASSUME NEW x \in status  PROVE Owned(x)' \/ x \in stranded
      BY <1>1, <1>2 DEF MarkIsOwned
    <2>1. Owned(x) \/ x \in stranded  BY DEF IInv, MarkIsOwned
    <2>2. SessionsOf(x)' = SessionsOf(x)  BY <1>2 DEF SessionsOf
    <2>3. \A v \in Worker : login[v].pc # "idle" => login'[v] = login[v]  BY <1>3
    <2>4. Owned(x) => Owned(x)'  BY <2>2, <2>3, <1>1, <1>2 DEF Owned, LoggingIn
    <2> QED  BY <2>1, <2>4
  <1> QED  BY <1>5, <1>6, <1>7, <1>8, <1>9, <1>10, <1>11, <1>12 DEF IInv

(* A login that found no mark found no session of a user who never had two *)
(* logins or connections at a time.                                        *)
LEMMA SessionAppendKeeps ==
  ASSUME IInv, NEW w \in Worker, NEW s \in Ssid, SessionAppend(w, s)
  PROVE  IInv'
  <1> PICK u \in User : u = login[w].uid /\ u # None
    BY LoginTypes DEF SessionAppend, IInv, LoginsSound
  <1>1. /\ login[w].pc = "checked" /\ session[s] = None /\ s \notin held
        /\ \A c \in Conn : token[c] # s
        /\ \A v \in Worker : login[v].ssid # s
        /\ session' = [session EXCEPT ![s] = u]
        /\ login' = [login EXCEPT ![w].pc = "stored", ![w].ssid = s]
        /\ UNCHANGED <<status, held, websockets, maps, http, who, raced, stranded, restarts>>
    BY DEF SessionAppend, Fresh
  <1>2. UNCHANGED <<status, sock, token, heard, uid_connections, conn_clients, closing>>
    BY <1>1 DEF websockets, maps
  <1>3. /\ login'[w].pc = "stored" /\ login'[w].uid = u /\ login'[w].ssid = s
        /\ \A v \in Worker : v # w => login'[v] = login[v]
        /\ \A v \in Worker : login'[v].uid = login[v].uid
        /\ login' \in [Worker -> [pc : {"idle", "checked", "stored", "marked"},
                                 uid : User \cup {None}, ssid : Ssid \cup {None}]]
    BY <1>1, LoginTypes
  <1>5. /\ session' \in [Ssid -> User \cup {None}]
        /\ session'[s] = u /\ \A r \in Ssid : r # s => session'[r] = session[r]
    BY <1>1, RedisTypes
  <1>6. /\ SessionsOf(u)' = SessionsOf(u) \cup {s}
        /\ \A x \in User : x # u => SessionsOf(x)' = SessionsOf(x)
    BY <1>1, <1>5, LoginTypes DEF SessionsOf
  <1>7. TypeOK'  BY <1>1, <1>2, <1>3, <1>5 DEF IInv, TypeOK
  <1>8. ClientsSound' /\ ClosingSound'  BY <1>1, <1>2, ClientsStay DEF IInv
  <1>9. LoginsSound'
    <2> SUFFICES ASSUME NEW v \in Worker
        PROVE  /\ login'[v].pc = "idle" => login'[v] = NoLogin
               /\ login'[v].pc # "idle" => login'[v].uid \in User
               /\ login'[v].pc \in {"stored", "marked"} =>
                    /\ login'[v].ssid \in Ssid /\ session'[login'[v].ssid] = login'[v].uid
                    /\ login'[v].ssid \notin held
                    /\ \A c \in Conn : token[c] # login'[v].ssid
                    /\ \A x \in Worker : x # v => login'[x].ssid # login'[v].ssid
      BY <1>1, <1>2 DEF LoginsSound, HasSession
    <2>1. CASE v = w  BY <2>1, <1>1, <1>3, <1>5
    <2>2. CASE v # w
      <3>1. login'[v] = login[v] /\ login[v].ssid # s  BY <2>2, <1>1, <1>3
      <3>2. login[v].ssid \in Ssid => session'[login[v].ssid] = session[login[v].ssid]
        BY <3>1, <1>5
      <3>3. \A x \in Worker : login[x].ssid # login[v].ssid => login'[x].ssid # login[v].ssid
        BY <3>1, <1>3
      <3> QED  BY <3>1, <3>2, <3>3 DEF IInv, LoginsSound, HasSession
    <2> QED  BY <2>1, <2>2
  <1>10. OwnersSound'
    <2>1. \A c \in Conn : Registered(c) => token[c] \in Ssid /\ token[c] # s
      BY <1>1 DEF IInv, ClientsSound
    <2>2. \A c \in Conn : Registered(c) => session'[token[c]] = session[token[c]]
      BY <2>1, <1>5
    <2> QED  BY <2>2, <1>2 DEF IInv, OwnersSound, Registered
  <1>11. EntryHasClient' /\ LetInAs'  BY <1>1, <1>2, MapsStay DEF IInv
  <1>12. NoticesSound' /\ NoticeForAddressee'  BY <1>1, <1>2, NoticesStay DEF IInv
  <1>13. (\A x \in User \ raced : Orderly(x))'
    <2> SUFFICES ASSUME NEW x \in User \ raced  PROVE Orderly(x)'
      BY <1>1
    <2>1. Orderly(x)  BY DEF IInv
    <2>2. \A c \in Conn : conn_clients[c].uid = x => token[c] \in Ssid /\ token[c] # s
      BY <1>1, LoginTypes DEF IInv, ClientsSound, Registered, NoClient
    <2>3. CASE x # u
      <3>1. SessionsOf(x)' = SessionsOf(x)  BY <2>3, <1>6
      <3>2. \A v \in Worker : login'[v].uid = x => v # w /\ login'[v] = login[v]
        BY <2>3, <1>3
      <3>3. \A v \in Worker : login[v].uid = x => v # w /\ login'[v] = login[v]
        BY <2>3, <1>3
      <3>4. \A c \in Conn : conn_clients[c].uid = x => session'[token[c]] = session[token[c]]
        BY <2>2, <1>5
      <3> QED  BY <2>1, <3>1, <3>2, <3>3, <3>4, <1>2 DEF Orderly, Entering
    <2>4. CASE x = u
      <3>1. SessionsOf(u) = {} /\ u \notin status
        BY <2>1, <2>4, <1>1 DEF Orderly
      <3>2. \A v \in Worker : login[v].pc \in {"checked", "stored"} /\ login[v].uid = u => v = w
        BY <2>1, <2>4, <1>1 DEF Orderly, Entering
      <3>3. \A v \in Worker : login'[v].pc \in {"checked", "stored"} /\ login'[v].uid = u =>
              v = w /\ login'[v].pc = "stored"
        BY <3>2, <1>3
      <3>4. \A c \in Conn : conn_clients[c].uid = u =>
              /\ uid_connections[u] = c
              /\ closing = [conn |-> c, step |-> "maps"] /\ closing.conn = c
              /\ closing # [conn |-> c, step |-> "status"]
        BY <2>1, <2>4, <3>1 DEF Orderly
      <3>5. SessionsOf(u)' = {s}  BY <3>1, <1>6
      <3> QED  BY <2>4, <3>3, <3>4, <3>5, <1>2, <1>3 DEF Orderly, Entering
    <2> QED  BY <2>3, <2>4
  <1>14. MarkIsOwned'
    <2> SUFFICES ASSUME NEW x \in status  PROVE Owned(x)' \/ x \in stranded
      BY <1>1, <1>2 DEF MarkIsOwned
    <2>1. Owned(x) \/ x \in stranded  BY DEF IInv, MarkIsOwned
    <2>2. SessionsOf(x) \subseteq SessionsOf(x)'
      <3>1. x \in User  BY RedisTypes
      <3> QED  BY <3>1, <1>6
    <2>3. \A v \in Worker : LoggingIn(v, x) => LoggingIn(v, x)'
      BY <1>1, <1>3 DEF LoggingIn
    <2>4. Owned(x) => Owned(x)'  BY <2>2, <2>3, <1>1, <1>2 DEF Owned
    <2> QED  BY <2>1, <2>4
  <1> QED  BY <1>7, <1>8, <1>9, <1>10, <1>11, <1>12, <1>13, <1>14 DEF IInv

LEMMA StatusAppendKeeps ==
  ASSUME IInv, NEW w \in Worker, StatusAppend(w)
  PROVE  IInv'
  <1> PICK u \in User : u = login[w].uid
    BY LoginTypes DEF StatusAppend, IInv, LoginsSound
  <1>1. /\ login[w].pc = "stored" /\ status' = status \cup {u}
        /\ login' = [login EXCEPT ![w].pc = "marked"]
        /\ UNCHANGED <<session, held, websockets, maps, http, who, raced, stranded, restarts>>
    BY DEF StatusAppend
  <1>2. UNCHANGED <<sock, token, heard, uid_connections, conn_clients, closing>>
    BY <1>1 DEF websockets, maps
  <1>3. /\ login'[w].pc = "marked"
        /\ \A v \in Worker : v # w => login'[v] = login[v]
        /\ \A v \in Worker : login'[v].uid = login[v].uid /\ login'[v].ssid = login[v].ssid
        /\ login' \in [Worker -> [pc : {"idle", "checked", "stored", "marked"},
                                 uid : User \cup {None}, ssid : Ssid \cup {None}]]
    BY <1>1, LoginTypes
  <1>4. status' \subseteq User  BY <1>1, RedisTypes
  <1>5. TypeOK'  BY <1>1, <1>2, <1>3, <1>4 DEF IInv, TypeOK
  <1>6. ClientsSound' /\ ClosingSound'  BY <1>1, <1>2, ClientsStay DEF IInv
  <1>7. LoginsSound'
    <2>1. \A v \in Worker : login'[v].pc = "idle" => v # w /\ login[v].pc = "idle"
      BY <1>3
    <2>2. \A v \in Worker : login'[v].pc \in {"stored", "marked"} => login[v].pc \in {"stored", "marked"}
      BY <1>1, <1>3
    <2> QED
      BY <2>1, <2>2, <1>1, <1>2, <1>3 DEF IInv, LoginsSound, HasSession
  <1>8. OwnersSound'  BY <1>1, <1>2, OwnersStay DEF IInv
  <1>9. EntryHasClient' /\ LetInAs'  BY <1>1, <1>2, MapsStay DEF IInv
  <1>10. NoticesSound' /\ NoticeForAddressee'  BY <1>1, <1>2, NoticesStay DEF IInv
  <1>11. (\A x \in User \ raced : Orderly(x))'
    <2> SUFFICES ASSUME NEW x \in User \ raced  PROVE Orderly(x)'
      BY <1>1
    <2>1. Orderly(x)  BY DEF IInv
    <2>2. SessionsOf(x)' = SessionsOf(x)  BY <1>1 DEF SessionsOf
    <2>3. \A v \in Worker : login'[v].pc \in {"checked", "stored"} => v # w /\ login'[v] = login[v]
      BY <1>3
    <2>4. CASE x # u
      <3>1. \A v \in Worker : login[v].uid = x => login'[v] = login[v]  BY <2>4, <1>3
      <3>2. x \in status' <=> x \in status  BY <2>4, <1>1
      <3> QED  BY <2>1, <2>2, <2>3, <3>1, <3>2, <1>1, <1>2 DEF Orderly, Entering
    <2>5. CASE x = u
      <3>1. \A v \in Worker : ~ (login'[v].pc \in {"checked", "stored"} /\ login'[v].uid = u)
        BY <2>1, <2>3, <2>5, <1>1 DEF Orderly, Entering
      <3>2. u \in status'  BY <1>1
      <3> QED  BY <2>1, <2>2, <2>5, <3>1, <3>2, <1>1, <1>2 DEF Orderly, Entering
    <2> QED  BY <2>4, <2>5
  <1>12. MarkIsOwned'
    <2> SUFFICES ASSUME NEW x \in status'  PROVE Owned(x)' \/ x \in stranded
      BY <1>1 DEF MarkIsOwned
    <2>1. CASE x = u
      <3>1. login'[w].pc # "idle" /\ login'[w].uid = u  BY <1>3
      <3> QED  BY <2>1, <3>1 DEF Owned, LoggingIn
    <2>2. CASE x \in status
      <3>1. Owned(x) \/ x \in stranded  BY <2>2 DEF IInv, MarkIsOwned
      <3>2. SessionsOf(x)' = SessionsOf(x)  BY <1>1 DEF SessionsOf
      <3>3. \A v \in Worker : LoggingIn(v, x) => LoggingIn(v, x)'
        BY <1>3 DEF LoggingIn
      <3>4. Owned(x) => Owned(x)'  BY <3>2, <3>3, <1>1, <1>2 DEF Owned
      <3> QED  BY <3>1, <3>4
    <2> QED  BY <2>1, <2>2, <1>1
  <1> QED  BY <1>5, <1>6, <1>7, <1>8, <1>9, <1>10, <1>11, <1>12 DEF IInv

(* A login that is over leaves everybody else as they are. *)
LEMMA LoginEnds ==
  ASSUME IInv, NEW w \in Worker, login[w].pc = "marked",
         login' = [login EXCEPT ![w] = NoLogin],
         held' = held \/ held' = held \cup {login[w].ssid},
         UNCHANGED <<redis, websockets, maps, http, who, raced, restarts>>,
         stranded' \subseteq User, MarkIsOwned'
  PROVE  IInv'
  <1>1. UNCHANGED <<session, status, sock, token, heard, uid_connections, conn_clients, closing>>
    BY DEF redis, websockets, maps
  <1>2. /\ login'[w] = NoLogin
        /\ \A v \in Worker : v # w => login'[v] = login[v]
        /\ login' \in [Worker -> [pc : {"idle", "checked", "stored", "marked"},
                                 uid : User \cup {None}, ssid : Ssid \cup {None}]]
    BY LoginTypes
  <1>3. login[w].ssid \in Ssid /\ \A v \in Worker : v # w => login[v].ssid # login[w].ssid
    BY DEF IInv, LoginsSound, HasSession
  <1>4. held' \subseteq Ssid  BY <1>3, RedisTypes
  <1>5. TypeOK'  BY <1>1, <1>2, <1>4 DEF IInv, TypeOK
  <1>6. ClientsSound' /\ ClosingSound'  BY <1>1, ClientsStay DEF IInv
  <1>7. LoginsSound'
    <2> SUFFICES ASSUME NEW v \in Worker
        PROVE  /\ login'[v].pc = "idle" => login'[v] = NoLogin
               /\ login'[v].pc # "idle" => login'[v].uid \in User
               /\ login'[v].pc \in {"stored", "marked"} =>
                    /\ login'[v].ssid \in Ssid /\ session[login'[v].ssid] = login'[v].uid
                    /\ login'[v].ssid \notin held'
                    /\ \A c \in Conn : token[c] # login'[v].ssid
                    /\ \A x \in Worker : x # v => login'[x].ssid # login'[v].ssid
      BY <1>1 DEF LoginsSound, HasSession
    <2>1. CASE v = w  BY <2>1, <1>2, LoginTypes
    <2>2. CASE v # w
      <3>1. login'[v] = login[v] /\ login[v].ssid # login[w].ssid  BY <2>2, <1>2, <1>3
      <3>2. login[v].ssid \in Ssid => login'[w].ssid # login[v].ssid  BY <1>2, LoginTypes
      <3>3. \A x \in Worker : x # w => login'[x].ssid = login[x].ssid  BY <1>2
      <3> QED  BY <3>1, <3>2, <3>3 DEF IInv, LoginsSound, HasSession
    <2> QED  BY <2>1, <2>2
  <1>8. OwnersSound'  BY <1>1, OwnersStay DEF IInv
  <1>9. EntryHasClient' /\ LetInAs'  BY <1>1, MapsStay DEF IInv
  <1>10. NoticesSound' /\ NoticeForAddressee'  BY <1>1, NoticesStay DEF IInv
  <1>11. (\A x \in User \ raced : Orderly(x))'
    <2> SUFFICES ASSUME NEW x \in User \ raced  PROVE Orderly(x)'
      OBVIOUS
    <2>1. Orderly(x)  BY DEF IInv
    <2>2. SessionsOf(x)' = SessionsOf(x)  BY <1>1 DEF SessionsOf
    <2>3. \A v \in Worker : login'[v].pc \in {"checked", "stored"} => login'[v] = login[v]
      BY <1>2, LoginTypes
    <2>4. \A v \in Worker : login[v].pc = "stored" => login'[v] = login[v]
      BY <1>2
    <2> QED  BY <2>1, <2>2, <2>3, <2>4, <1>1 DEF Orderly, Entering
  <1> QED  BY <1>5, <1>6, <1>7, <1>8, <1>9, <1>10, <1>11 DEF IInv

LEMMA LoginAnswerKeeps ==
  ASSUME IInv, NEW w \in Worker, LoginAnswer(w)
  PROVE  IInv'
  <1>1. /\ login[w].pc = "marked" /\ held' = held \cup {login[w].ssid}
        /\ login' = [login EXCEPT ![w] = NoLogin]
        /\ UNCHANGED <<redis, websockets, maps, http, who, raced, stranded, restarts>>
    BY DEF LoginAnswer
  <1>2. UNCHANGED <<session, status, sock, token, heard, uid_connections, conn_clients, closing>>
    BY <1>1 DEF redis, websockets, maps
  <1>3. \A v \in Worker : v # w => login'[v] = login[v]  BY <1>1, LoginTypes
  <1>4. login[w].ssid \in Ssid /\ session[login[w].ssid] = login[w].uid
    BY <1>1 DEF IInv, LoginsSound, HasSession
  <1>5. MarkIsOwned'
    <2> SUFFICES ASSUME NEW x \in status  PROVE Owned(x)' \/ x \in stranded
      BY <1>1, <1>2 DEF MarkIsOwned
    <2>1. Owned(x) \/ x \in stranded  BY DEF IInv, MarkIsOwned
    <2>2. SessionsOf(x)' = SessionsOf(x)  BY <1>2 DEF SessionsOf
    <2>3. CASE login[w].uid = x
      <3>1. login[w].ssid \in SessionsOf(x) /\ login[w].ssid \in held'
        BY <2>3, <1>1, <1>4 DEF SessionsOf
      <3> QED  BY <3>1, <2>2 DEF Owned
    <2>4. CASE login[w].uid # x
      <3>1. \A v \in Worker : LoggingIn(v, x) => LoggingIn(v, x)'
        BY <2>4, <1>3 DEF LoggingIn
      <3>2. Owned(x) => Owned(x)'  BY <3>1, <2>2, <1>1, <1>2 DEF Owned
      <3> QED  BY <3>2, <2>1
    <2> QED  BY <2>3, <2>4
  <1>6. stranded' \subseteq User  BY <1>1, RedisTypes
  <1> QED  BY <1>1, <1>5, <1>6, LoginEnds

LEMMA StrandedAreUsers ==
  ASSUME IInv, Strand
  PROVE  stranded' \subseteq User
  BY RedisTypes DEF Strand

LEMMA AnswerLostKeeps ==
  ASSUME IInv, NEW w \in Worker, AnswerLost(w)
  PROVE  IInv'
  <1>1. /\ login[w].pc = "marked" /\ held' = held
        /\ login' = [login EXCEPT ![w] = NoLogin]
        /\ UNCHANGED <<redis, websockets, maps, http, who, raced, restarts>>
        /\ Strand
    BY DEF AnswerLost
  <1>2. MarkIsOwned'  BY <1>1, StrandFindsThem DEF IInv, redis
  <1>3. stranded' \subseteq User  BY <1>1, StrandedAreUsers
  <1> QED  BY <1>1, <1>2, <1>3, LoginEnds

LEMMA UserServiceRestartKeeps ==
  ASSUME IInv, UserServiceRestart
  PROVE  IInv'
  <1>1. /\ restarts < MAX_RESTARTS /\ restarts' = restarts + 1
        /\ login' = [w \in Worker |-> NoLogin]
        /\ raced' = raced \cup {u \in User : \E w \in Worker :
                                   login[w].pc = "stored" /\ login[w].uid = u}
        /\ UNCHANGED <<redis, held, websockets, maps, http, who>>
        /\ Strand
    BY DEF UserServiceRestart
  <1>2. UNCHANGED <<session, status, sock, token, heard, uid_connections, conn_clients, closing>>
    BY <1>1 DEF redis, websockets, maps
  <1>3. restarts' \in 0 .. MAX_RESTARTS
    BY <1>1, GatewayAssumption DEF IInv, TypeOK
  <1>4. /\ NoLogin \in [pc : {"idle", "checked", "stored", "marked"},
                        uid : User \cup {None}, ssid : Ssid \cup {None}]
        /\ \A w \in Worker : login'[w] = NoLogin /\ login'[w].pc = "idle"
    BY <1>1 DEF NoLogin
  <1>5. raced' \subseteq User /\ raced \subseteq raced'  BY <1>1, RedisTypes
  <1>6. stranded' \subseteq User  BY <1>1, StrandedAreUsers
  <1>7. TypeOK'  BY <1>1, <1>2, <1>3, <1>4, <1>5, <1>6 DEF IInv, TypeOK
  <1>8. ClientsSound' /\ ClosingSound'  BY <1>2, ClientsStay DEF IInv, websockets
  <1>9. LoginsSound'  BY <1>4 DEF LoginsSound, HasSession
  <1>10. OwnersSound'  BY <1>2, OwnersStay DEF IInv
  <1>11. EntryHasClient' /\ LetInAs'  BY <1>1, <1>2, MapsStay DEF IInv
  <1>12. NoticesSound' /\ NoticeForAddressee'  BY <1>1, <1>2, NoticesStay DEF IInv
  <1>13. (\A x \in User \ raced : Orderly(x))'
    <2> SUFFICES ASSUME NEW x \in User \ raced'  PROVE Orderly(x)'
      OBVIOUS
    <2>1. Orderly(x)  BY <1>5 DEF IInv
    <2>2. SessionsOf(x)' = SessionsOf(x)  BY <1>2 DEF SessionsOf
    <2>3. \A w \in Worker : ~ (login[w].pc = "stored" /\ login[w].uid = x)
      BY <1>1
    <2> QED  BY <2>1, <2>2, <2>3, <1>2, <1>4 DEF Orderly, Entering
  <1>14. MarkIsOwned'  BY <1>1, <1>2, StrandFindsThem DEF IInv
  <1> QED  BY <1>7, <1>8, <1>9, <1>10, <1>11, <1>12, <1>13, <1>14 DEF IInv

-----------------------------------------------------------------------------
(* Clients and the network.                                                *)

LEMMA SocketTypes ==
  ASSUME IInv
  PROVE  /\ sock \in [Conn -> {"none", "open", "dead"}]
         /\ token \in [Conn -> Ssid \cup {None}]
         /\ heard \in [Conn -> BOOLEAN]
         /\ who \in [Conn -> User \cup {None}]
  BY DEF IInv, TypeOK

LEMMA MapTypes ==
  ASSUME IInv
  PROVE  /\ uid_connections \in [User -> Conn \cup {None}]
         /\ conn_clients \in [Conn -> [uid : User \cup {None}, ssid : Ssid \cup {None}]]
         /\ closing \in [conn : Conn \cup {None}, step : {"idle", "status", "maps"}]
  BY DEF IInv, TypeOK

(* Only a registered connection has a user. *)
LEMMA WithUserIsRegistered ==
  ASSUME IInv, NEW c \in Conn, conn_clients[c].uid \in User
  PROVE  Registered(c) /\ heard[c] /\ token[c] \in Ssid /\ sock[c] # "none"
  <1>1. Registered(c)
    BY GatewayAssumption DEF Registered, NoClient
  <1> QED  BY <1>1 DEF IInv, ClientsSound

LEMMA ConnectKeeps ==
  ASSUME IInv, NEW c \in Conn, NEW s \in Ssid, Connect(c, s)
  PROVE  IInv'
  <1>1. /\ s \in held /\ sock[c] = "none" /\ \A t \in Thread : http[t].conn # c
        /\ sock' = [sock EXCEPT ![c] = "open"]
        /\ token' = [token EXCEPT ![c] = s]
        /\ heard' = [heard EXCEPT ![c] = FALSE]
        /\ who' = [who EXCEPT ![c] = None]
        /\ UNCHANGED <<redis, login, held, maps, http, raced, stranded, restarts>>
    BY DEF Connect, Unused
  <1>2. UNCHANGED <<session, status, uid_connections, conn_clients, closing>>
    BY <1>1 DEF redis, maps
  <1>3. /\ sock'[c] = "open" /\ token'[c] = s /\ heard'[c] = FALSE
        /\ \A d \in Conn : d # c =>
             sock'[d] = sock[d] /\ token'[d] = token[d] /\ heard'[d] = heard[d] /\ who'[d] = who[d]
    BY <1>1, SocketTypes
  <1>4. /\ sock' \in [Conn -> {"none", "open", "dead"}]
        /\ token' \in [Conn -> Ssid \cup {None}]
        /\ heard' \in [Conn -> BOOLEAN]
        /\ who' \in [Conn -> User \cup {None}]
    BY <1>1, SocketTypes
  <1>5. TypeOK'  BY <1>1, <1>2, <1>4 DEF IInv, TypeOK
  <1>6. token[c] = None /\ ~ heard[c] /\ ~ Registered(c)
    BY <1>1 DEF IInv, ClientsSound
  <1>7. \A d \in Conn : (Registered(d)' <=> Registered(d)) /\ (Registered(d) => d # c)
    BY <1>2, <1>6 DEF Registered
  <1>8. ClientsSound'
    <2> SUFFICES ASSUME NEW d \in Conn
        PROVE  /\ sock'[d] = "none" => token'[d] = None /\ ~ heard'[d] /\ ~ Registered(d)
               /\ sock'[d] # "none" => token'[d] \in Ssid
               /\ Registered(d) =>
                    heard'[d] /\ conn_clients[d].uid \in User /\ conn_clients[d].ssid = token'[d]
      BY <1>2, <1>7 DEF ClientsSound
    <2>1. CASE d = c  BY <2>1, <1>3, <1>6
    <2>2. CASE d # c  BY <2>2, <1>3 DEF IInv, ClientsSound
    <2> QED  BY <2>1, <2>2
  <1>9. ClosingSound'
    BY <1>1, <1>2, <1>3, <1>7 DEF IInv, ClosingSound
  <1>10. LoginsSound'
    <2>1. \A w \in Worker : HasSession(w) => login[w].ssid # s
      BY <1>1 DEF IInv, LoginsSound
    <2> QED  BY <2>1, <1>1, <1>2, <1>3 DEF IInv, LoginsSound, HasSession
  <1>11. OwnersSound'
    BY <1>2, <1>3, <1>7 DEF IInv, OwnersSound
  <1>12. EntryHasClient' /\ LetInAs'
    BY <1>2, <1>3, <1>7 DEF IInv, EntryHasClient, LetInAs
  <1>13. NoticesSound' /\ NoticeForAddressee'
    <2>1. \A t \in Thread : http[t].conn # None => http[t].conn \in Conn /\ http[t].conn # c
      BY <1>1, NoticeTypes
    <2> QED  BY <2>1, <1>1, <1>3 DEF IInv, NoticesSound, NoticeForAddressee
  <1>14. (\A x \in User \ raced : Orderly(x))'
    <2> SUFFICES ASSUME NEW x \in User \ raced  PROVE Orderly(x)'
      BY <1>1
    <2>1. Orderly(x)  BY DEF IInv
    <2>2. SessionsOf(x)' = SessionsOf(x)  BY <1>2 DEF SessionsOf
    <2>3. \A d \in Conn : conn_clients[d].uid = x => token'[d] = token[d]
      BY <1>3, <1>7, WithUserIsRegistered
    <2> QED  BY <2>1, <2>2, <2>3, <1>1, <1>2 DEF Orderly, Entering
  <1>15. MarkIsOwned'
    <2> SUFFICES ASSUME NEW x \in status  PROVE Owned(x)' \/ x \in stranded
      BY <1>1, <1>2 DEF MarkIsOwned
    <2>1. Owned(x) \/ x \in stranded  BY DEF IInv, MarkIsOwned
    <2>2. SessionsOf(x)' = SessionsOf(x) /\ SessionsOf(x) \subseteq Ssid
      BY <1>2 DEF SessionsOf
    <2>3. \A d \in Conn : token[d] \in Ssid => d # c  BY <1>6, LoginTypes
    <2>4. Owned(x) => Owned(x)'
      BY <2>2, <2>3, <1>1, <1>2, <1>3 DEF Owned, LoggingIn
    <2> QED  BY <2>1, <2>4
  <1> QED  BY <1>5, <1>8, <1>9, <1>10, <1>11, <1>12, <1>13, <1>14, <1>15 DEF IInv

(* Connections that break, and a client that forgets its session. *)
LEMMA SocketsDie ==
  ASSUME IInv, sock' \in [Conn -> {"none", "open", "dead"}],
         \A c \in Conn : sock'[c] = sock[c] \/ (sock[c] = "open" /\ sock'[c] = "dead"),
         held' \subseteq held,
         UNCHANGED <<redis, login, token, heard, maps, http, who, raced, restarts>>,
         stranded' \subseteq User, MarkIsOwned'
  PROVE  IInv'
  <1>1. UNCHANGED <<session, status, uid_connections, conn_clients, closing>>
    BY DEF redis, maps
  <1>2. held' \subseteq Ssid  BY RedisTypes
  <1>3. TypeOK'  BY <1>1, <1>2 DEF IInv, TypeOK
  <1>4. \A c \in Conn :
          /\ sock'[c] = "none" <=> sock[c] = "none"
          /\ sock[c] = "dead" => sock'[c] = "dead"
    OBVIOUS
  <1>5. ClientsSound'  BY <1>1, <1>4 DEF IInv, ClientsSound, Registered
  <1>6. ClosingSound'  BY <1>1, <1>4 DEF IInv, ClosingSound, Registered
  <1>7. LoginsSound'  BY <1>1 DEF IInv, LoginsSound, HasSession
  <1>8. OwnersSound'  BY <1>1, OwnersStay DEF IInv
  <1>9. EntryHasClient' /\ LetInAs'  BY <1>1, MapsStay DEF IInv
  <1>10. NoticesSound' /\ NoticeForAddressee'
    <2>1. \A t \in Thread : http[t].conn # None => http[t].conn \in Conn
      BY NoticeTypes
    <2> QED  BY <2>1, <1>4 DEF IInv, NoticesSound, NoticeForAddressee
  <1>11. (\A u \in User \ raced : Orderly(u))'  BY <1>1, OrderStays DEF IInv
  <1> QED  BY <1>3, <1>5, <1>6, <1>7, <1>8, <1>9, <1>10, <1>11 DEF IInv

LEMMA SocketDiesKeeps ==
  ASSUME IInv, NEW c \in Conn, SocketDies(c)
  PROVE  IInv'
  <1>1. /\ sock[c] = "open" /\ sock' = [sock EXCEPT ![c] = "dead"]
        /\ UNCHANGED <<redis, login, held, token, heard, maps, http, who, raced, stranded, restarts>>
    BY DEF SocketDies
  <1>2. /\ sock' \in [Conn -> {"none", "open", "dead"}]
        /\ \A d \in Conn : sock'[d] = sock[d] \/ (sock[d] = "open" /\ sock'[d] = "dead")
    BY <1>1, SocketTypes
  <1>3. MarkIsOwned'  BY <1>1, MarksStay DEF IInv, redis, maps
  <1>4. stranded' \subseteq User  BY <1>1, RedisTypes
  <1> QED  BY <1>1, <1>2, <1>3, <1>4, SocketsDie

LEMMA ClientQuitsKeeps ==
  ASSUME IInv, NEW s \in Ssid, ClientQuits(s)
  PROVE  IInv'
  <1>1. /\ held' = held \ {s}
        /\ sock' = [c \in Conn |-> IF sock[c] = "open" /\ token[c] = s THEN "dead" ELSE sock[c]]
        /\ UNCHANGED <<redis, login, token, heard, maps, http, who, raced, restarts>>
        /\ Strand
    BY DEF ClientQuits
  <1>2. /\ sock' \in [Conn -> {"none", "open", "dead"}]
        /\ \A d \in Conn : sock'[d] = sock[d] \/ (sock[d] = "open" /\ sock'[d] = "dead")
    BY <1>1, SocketTypes
  <1>3. MarkIsOwned'  BY <1>1, StrandFindsThem DEF IInv, redis
  <1>4. stranded' \subseteq User  BY <1>1, StrandedAreUsers
  <1> QED  BY <1>1, <1>2, <1>3, <1>4, SocketsDie

-----------------------------------------------------------------------------
(* The websocket thread.                                                   *)

(* A thread that will write to a connection has found it after its message *)
(* was handled.                                                            *)
LEMMA NoNoticeBefore ==
  ASSUME IInv, NEW c \in Conn, sock[c] # "none", ~ heard[c]
  PROVE  \A t \in Thread : http[t].conn # c
  <1>1. c # None  BY LoginTypes
  <1> QED  BY <1>1 DEF IInv, NoticesSound

LEMMA MessageRefused ==
  ASSUME IInv, NEW c \in Conn, sock[c] \in {"open", "dead"}, ~ heard[c],
         session[token[c]] = None,
         heard' = [heard EXCEPT ![c] = TRUE], sock' = [sock EXCEPT ![c] = "dead"],
         UNCHANGED <<redis, login, held, token, maps, http, who, raced, stranded, restarts>>
  PROVE  IInv'
  <1>1. UNCHANGED <<session, status, uid_connections, conn_clients, closing>>
    BY DEF redis, maps
  <1>2. /\ sock' \in [Conn -> {"none", "open", "dead"}] /\ heard' \in [Conn -> BOOLEAN]
        /\ sock'[c] = "dead" /\ heard'[c] = TRUE
        /\ \A d \in Conn : d # c => sock'[d] = sock[d] /\ heard'[d] = heard[d]
    BY SocketTypes
  <1>3. TypeOK'  BY <1>1, <1>2 DEF IInv, TypeOK
  <1>4. token[c] \in Ssid /\ ~ Registered(c)  BY DEF IInv, ClientsSound
  <1>5. ClientsSound'
    <2> SUFFICES ASSUME NEW d \in Conn
        PROVE  /\ sock'[d] = "none" => token[d] = None /\ ~ heard'[d] /\ ~ Registered(d)
               /\ sock'[d] # "none" => token[d] \in Ssid
               /\ Registered(d) =>
                    heard'[d] /\ conn_clients[d].uid \in User /\ conn_clients[d].ssid = token[d]
      BY <1>1 DEF ClientsSound, Registered
    <2>1. CASE d = c  BY <2>1, <1>2, <1>4
    <2>2. CASE d # c  BY <2>2, <1>2 DEF IInv, ClientsSound
    <2> QED  BY <2>1, <2>2
  <1>6. ClosingSound'
    BY <1>1, <1>2 DEF IInv, ClosingSound, Registered
  <1>7. LoginsSound'  BY <1>1, LoginsStay DEF IInv
  <1>8. OwnersSound'  BY <1>1, OwnersStay DEF IInv
  <1>9. EntryHasClient' /\ LetInAs'  BY <1>1, MapsStay DEF IInv
  <1>10. NoticesSound' /\ NoticeForAddressee'
    <2>1. \A t \in Thread : http[t].conn # None => http[t].conn \in Conn /\ http[t].conn # c
      BY NoticeTypes, NoNoticeBefore
    <2> QED  BY <2>1, <1>2 DEF IInv, NoticesSound, NoticeForAddressee
  <1>11. (\A x \in User \ raced : Orderly(x))'  BY <1>1, OrderStays DEF IInv
  <1>12. MarkIsOwned'
    <2> SUFFICES ASSUME NEW x \in status  PROVE Owned(x)' \/ x \in stranded
      BY <1>1 DEF MarkIsOwned
    <2>1. Owned(x) \/ x \in stranded  BY DEF IInv, MarkIsOwned
    <2>2. SessionsOf(x)' = SessionsOf(x)  BY <1>1 DEF SessionsOf
    <2>3. \A r \in SessionsOf(x) : token[c] # r
      BY RedisTypes, LoginTypes DEF SessionsOf
    <2>4. Owned(x) => Owned(x)'
      BY <2>2, <2>3, <1>1, <1>2 DEF Owned, LoggingIn
    <2> QED  BY <2>1, <2>4
  <1> QED  BY <1>3, <1>5, <1>6, <1>7, <1>8, <1>9, <1>10, <1>11, <1>12 DEF IInv

(* A user who is let in and never had two logins or connections at a time  *)
(* is marked, and there is no entry of theirs to keep the new one out.     *)
LEMMA MessageAccepted ==
  ASSUME IInv, NEW c \in Conn, sock[c] \in {"open", "dead"}, ~ heard[c],
         closing = NotClosing, NEW u \in User, session[token[c]] = u,
         heard' = [heard EXCEPT ![c] = TRUE],
         InsertConn(c, u, token[c]),
         who' = [who EXCEPT ![c] = u],
         raced' = raced \cup {v \in {u} : \E d \in Conn : conn_clients[d].uid = u},
         UNCHANGED <<sock, redis, login, held, token, closing, http, stranded, restarts>>
  PROVE  IInv'
  <1>1. session' = session /\ status' = status  BY DEF redis
  <1>2. token[c] \in Ssid /\ ~ Registered(c) /\ u # None
    BY LoginTypes DEF IInv, ClientsSound
  <1>3. /\ uid_connections' =
             IF uid_connections[u] = None THEN [uid_connections EXCEPT ![u] = c]
             ELSE uid_connections
        /\ conn_clients' = [conn_clients EXCEPT ![c] = [uid |-> u, ssid |-> token[c]]]
    BY <1>2 DEF InsertConn
  <1>4. /\ uid_connections' \in [User -> Conn \cup {None}]
        /\ \A x \in User : x # u => uid_connections'[x] = uid_connections[x]
        /\ uid_connections'[u] = IF uid_connections[u] = None THEN c ELSE uid_connections[u]
    BY <1>3, MapTypes
  <1>5. /\ conn_clients' \in [Conn -> [uid : User \cup {None}, ssid : Ssid \cup {None}]]
        /\ conn_clients'[c].uid = u /\ conn_clients'[c].ssid = token[c]
        /\ \A d \in Conn : d # c => conn_clients'[d] = conn_clients[d]
    BY <1>2, <1>3, MapTypes
  <1>6. /\ heard' \in [Conn -> BOOLEAN] /\ heard'[c] = TRUE
        /\ who' \in [Conn -> User \cup {None}] /\ who'[c] = u
        /\ \A d \in Conn : d # c => heard'[d] = heard[d] /\ who'[d] = who[d]
    BY SocketTypes
  <1>7. raced' \subseteq User /\ raced \subseteq raced'  BY RedisTypes
  <1>8. TypeOK'  BY <1>1, <1>4, <1>5, <1>6, <1>7 DEF IInv, TypeOK
  <1>9. Registered(c)' /\ \A d \in Conn : d # c => (Registered(d)' <=> Registered(d))
    BY <1>2, <1>5 DEF Registered, NoClient
  <1>10. ClientsSound'
    <2> SUFFICES ASSUME NEW d \in Conn
        PROVE  /\ sock[d] = "none" => token[d] = None /\ ~ heard'[d] /\ ~ Registered(d)'
               /\ sock[d] # "none" => token[d] \in Ssid
               /\ Registered(d)' =>
                    heard'[d] /\ conn_clients'[d].uid \in User /\ conn_clients'[d].ssid = token[d]
      BY DEF ClientsSound
    <2>1. CASE d = c  BY <2>1, <1>2, <1>5, <1>6
    <2>2. CASE d # c  BY <2>2, <1>5, <1>6, <1>9 DEF IInv, ClientsSound
    <2> QED  BY <2>1, <2>2
  <1>11. ClosingSound'  BY DEF ClosingSound
  <1>12. LoginsSound'  BY <1>1, LoginsStay DEF IInv
  <1>13. OwnersSound'
    <2>1. \A d \in Conn : d # c /\ Registered(d)' => conn_clients'[d].uid = conn_clients[d].uid
      BY <1>5
    <2>2. \A d \in Conn : Registered(d) /\ token[d] = token[c] => conn_clients[d].uid = u
      BY <1>2 DEF IInv, OwnersSound
    <2> SUFFICES ASSUME NEW d \in Conn, Registered(d)'
        PROVE  /\ session[token[d]] \in {None, conn_clients'[d].uid}
               /\ \A e \in Conn : Registered(e)' /\ token[e] = token[d] =>
                    conn_clients'[e].uid = conn_clients'[d].uid
      BY <1>1 DEF OwnersSound
    <2>3. CASE d = c  BY <2>1, <2>2, <2>3, <1>5, <1>9
    <2>4. CASE d # c  BY <2>1, <2>2, <2>4, <1>5, <1>9 DEF IInv, OwnersSound
    <2> QED  BY <2>3, <2>4
  <1>14. EntryHasClient'
    <2> SUFFICES ASSUME NEW x \in User, uid_connections'[x] # None
                 PROVE  conn_clients'[uid_connections'[x]].uid = x
      BY DEF EntryHasClient
    <2>1. CASE x = u /\ uid_connections[u] = None  BY <2>1, <1>4, <1>5
    <2>2. CASE ~ (x = u /\ uid_connections[u] = None)
      <3>1. uid_connections'[x] = uid_connections[x]  BY <2>2, <1>4
      <3>2. /\ uid_connections[x] \in Conn
            /\ conn_clients[uid_connections[x]].uid = x
        BY <3>1, MapTypes DEF IInv, EntryHasClient
      <3>3. uid_connections[x] # c
        BY <3>2, <1>2, LoginTypes, WithUserIsRegistered
      <3> QED  BY <3>1, <3>2, <3>3, <1>5
    <2> QED  BY <2>1, <2>2
  <1>15. LetInAs'
    BY <1>5, <1>6, <1>9 DEF IInv, LetInAs
  <1>16. NoticesSound' /\ NoticeForAddressee'
    <2>1. \A t \in Thread : http[t].conn # None => http[t].conn \in Conn /\ http[t].conn # c
      BY NoticeTypes, NoNoticeBefore
    <2> QED  BY <2>1, <1>6 DEF IInv, NoticesSound, NoticeForAddressee
  <1>17. (\A x \in User \ raced : Orderly(x))'
    <2> SUFFICES ASSUME NEW x \in User \ raced'  PROVE Orderly(x)'
      OBVIOUS
    <2>1. Orderly(x)  BY <1>7 DEF IInv
    <2>2. SessionsOf(x)' = SessionsOf(x)  BY <1>1 DEF SessionsOf
    <2>3. CASE x # u
      <3>1. \A d \in Conn : conn_clients'[d].uid = x => d # c /\ conn_clients[d].uid = x
        BY <2>3, <1>5
      <3>2. uid_connections'[x] = uid_connections[x]  BY <2>3, <1>4
      <3> QED  BY <2>1, <2>2, <3>1, <3>2, <1>1 DEF Orderly, Entering
    <2>4. CASE x = u
      <3>1. \A d \in Conn : conn_clients[d].uid # u  BY <2>4
      <3>2. \A d \in Conn : conn_clients'[d].uid = u => d = c  BY <3>1, <1>5
      <3>3. uid_connections[u] = None
        BY <3>1, MapTypes DEF IInv, EntryHasClient
      <3>4. uid_connections'[u] = c  BY <3>3, <1>4
      <3>5. token[c] \in SessionsOf(u)  BY <1>2 DEF SessionsOf
      <3>6. u \in status
        <4>1. ASSUME NEW w \in Worker, login[w].pc = "stored", login[w].uid = u
              PROVE  FALSE
          <5>1. login[w].ssid \in SessionsOf(u) /\ login[w].ssid # token[c]
            BY <4>1 DEF IInv, LoginsSound, HasSession, SessionsOf
          <5> QED  BY <5>1, <3>5, <2>1, <2>4 DEF Orderly
        <4> QED  BY <4>1, <3>5, <2>1, <2>4 DEF Orderly
      <3>7. closing.conn = None /\ closing.step = "idle" /\ c # None
        BY LoginTypes DEF NotClosing
      <3>8. closing # [conn |-> c, step |-> "status"]  BY <3>7
      <3> QED
        BY <2>1, <2>2, <2>4, <3>2, <3>4, <3>6, <3>7, <3>8, <1>1 DEF Orderly, Entering
    <2> QED  BY <2>3, <2>4
  <1>18. MarkIsOwned'
    <2> SUFFICES ASSUME NEW x \in status  PROVE Owned(x)' \/ x \in stranded
      BY <1>1 DEF MarkIsOwned
    <2>1. Owned(x) \/ x \in stranded  BY DEF IInv, MarkIsOwned
    <2>2. SessionsOf(x)' = SessionsOf(x)  BY <1>1 DEF SessionsOf
    <2>3. CASE x = u
      <3>1. closing.conn = None /\ c # None
        BY LoginTypes DEF NotClosing
      <3>2. closing' # [conn |-> c, step |-> "maps"]  BY <3>1
      <3> QED  BY <2>3, <3>2, <1>5 DEF Owned
    <2>4. CASE x # u
      <3>1. \A r \in SessionsOf(x) : token[c] # r  BY <2>4 DEF SessionsOf
      <3>2. \A d \in Conn : conn_clients[d].uid = x => d # c
        BY <1>2, RedisTypes, WithUserIsRegistered
      <3>3. Owned(x) => Owned(x)'
        BY <2>2, <3>1, <3>2, <1>1, <1>5, <1>6 DEF Owned, LoggingIn
      <3> QED  BY <2>1, <3>3
    <2> QED  BY <2>3, <2>4
  <1> QED
    BY <1>8, <1>10, <1>11, <1>12, <1>13, <1>14, <1>15, <1>16, <1>17, <1>18 DEF IInv

LEMMA OnMessageKeeps ==
  ASSUME IInv, NEW c \in Conn, OnMessage(c)
  PROVE  IInv'
  <1>1. /\ closing = NotClosing /\ sock[c] \in {"open", "dead"} /\ ~ heard[c]
        /\ heard' = [heard EXCEPT ![c] = TRUE]
        /\ UNCHANGED <<redis, login, held, token, closing, http, stranded, restarts>>
    BY DEF OnMessage
  <1>2. token[c] \in Ssid  BY <1>1 DEF IInv, ClientsSound
  <1>3. session[token[c]] \in User \cup {None}  BY <1>2, RedisTypes
  <1>4. CASE session[token[c]] = None
    <2>1. /\ sock' = [sock EXCEPT ![c] = "dead"]
          /\ UNCHANGED <<uid_connections, conn_clients, who, raced>>
      BY <1>4 DEF OnMessage
    <2>2. UNCHANGED maps  BY <2>1, <1>1 DEF maps
    <2> QED  BY <2>1, <2>2, <1>1, <1>4, MessageRefused
  <1>5. CASE session[token[c]] # None
    <2> PICK u \in User : u = session[token[c]]  BY <1>3, <1>5
    <2>1. /\ InsertConn(c, u, token[c]) /\ who' = [who EXCEPT ![c] = u]
          /\ raced' = raced \cup {v \in {u} : \E d \in Conn : conn_clients[d].uid = u}
          /\ UNCHANGED sock
      BY <1>5 DEF OnMessage
    <2> QED  BY <2>1, <1>1, MessageAccepted
  <1> QED  BY <1>4, <1>5

LEMMA OnCloseUnknownKeeps ==
  ASSUME IInv, NEW c \in Conn, OnCloseUnknown(c)
  PROVE  IInv'
  <1>1. /\ closing = NotClosing /\ ~ Registered(c)
        /\ sock' = [sock EXCEPT ![c] = "none"]
        /\ token' = [token EXCEPT ![c] = None]
        /\ heard' = [heard EXCEPT ![c] = FALSE]
        /\ UNCHANGED <<redis, login, held, maps, http, who, raced, restarts>>
        /\ Strand
    BY DEF OnCloseUnknown, Gone
  <1>2. UNCHANGED <<session, status, uid_connections, conn_clients, closing>>
    BY <1>1 DEF redis, maps
  <1>3. /\ sock' \in [Conn -> {"none", "open", "dead"}]
        /\ token' \in [Conn -> Ssid \cup {None}] /\ heard' \in [Conn -> BOOLEAN]
        /\ sock'[c] = "none" /\ token'[c] = None /\ heard'[c] = FALSE
        /\ \A d \in Conn : d # c =>
             sock'[d] = sock[d] /\ token'[d] = token[d] /\ heard'[d] = heard[d]
    BY <1>1, SocketTypes
  <1>4. stranded' \subseteq User  BY <1>1, StrandedAreUsers
  <1>5. TypeOK'  BY <1>1, <1>2, <1>3, <1>4 DEF IInv, TypeOK
  <1>6. \A d \in Conn : (Registered(d)' <=> Registered(d)) /\ (Registered(d) => d # c)
    BY <1>1, <1>2 DEF Registered
  <1>7. ClientsSound'
    <2> SUFFICES ASSUME NEW d \in Conn
        PROVE  /\ sock'[d] = "none" => token'[d] = None /\ ~ heard'[d] /\ ~ Registered(d)
               /\ sock'[d] # "none" => token'[d] \in Ssid
               /\ Registered(d) =>
                    heard'[d] /\ conn_clients[d].uid \in User /\ conn_clients[d].ssid = token'[d]
      BY <1>2, <1>6 DEF ClientsSound
    <2>1. CASE d = c  BY <2>1, <1>1, <1>3
    <2>2. CASE d # c  BY <2>2, <1>3 DEF IInv, ClientsSound
    <2> QED  BY <2>1, <2>2
  <1>8. ClosingSound'  BY <1>1, <1>2 DEF ClosingSound
  <1>9. LoginsSound'
    <2>1. \A w \in Worker : HasSession(w) => login[w].ssid # None
      BY LoginTypes DEF IInv, LoginsSound
    <2> QED  BY <2>1, <1>1, <1>2, <1>3 DEF IInv, LoginsSound, HasSession
  <1>10. OwnersSound'
    BY <1>2, <1>3, <1>6 DEF IInv, OwnersSound
  <1>11. EntryHasClient' /\ LetInAs'
    BY <1>1, <1>2, MapsStay DEF IInv
  <1>12. NoticesSound' /\ NoticeForAddressee'
    <2>1. \A t \in Thread : http[t].conn # None => http[t].conn \in Conn
      BY NoticeTypes
    <2> QED  BY <2>1, <1>1, <1>3 DEF IInv, NoticesSound, NoticeForAddressee
  <1>13. (\A x \in User \ raced : Orderly(x))'
    <2> SUFFICES ASSUME NEW x \in User \ raced  PROVE Orderly(x)'
      BY <1>1
    <2>1. Orderly(x)  BY DEF IInv
    <2>2. SessionsOf(x)' = SessionsOf(x)  BY <1>2 DEF SessionsOf
    <2>3. \A d \in Conn : conn_clients[d].uid = x => token'[d] = token[d]
      BY <1>3, <1>6, WithUserIsRegistered
    <2> QED  BY <2>1, <2>2, <2>3, <1>1, <1>2 DEF Orderly, Entering
  <1>14. MarkIsOwned'  BY <1>1, <1>2, StrandFindsThem DEF IInv
  <1> QED  BY <1>5, <1>7, <1>8, <1>9, <1>10, <1>11, <1>12, <1>13, <1>14 DEF IInv

(* The connection of a user who never had two logins or connections at a   *)
(* time takes the only session of theirs with it.                          *)
LEMMA OnCloseKeeps ==
  ASSUME IInv, NEW c \in Conn, OnClose(c)
  PROVE  IInv'
  <1>1. /\ closing = NotClosing /\ sock[c] = "dead" /\ Registered(c)
        /\ session' = [session EXCEPT ![conn_clients[c].ssid] = None]
        /\ closing' = [conn |-> c, step |-> "status"]
        /\ UNCHANGED <<status, login, held, websockets, uid_connections,
                       conn_clients, http, who, raced, stranded, restarts>>
    BY DEF OnClose
  <1>2. UNCHANGED <<sock, token, heard>>  BY <1>1 DEF websockets
  <1> PICK s \in Ssid : s = token[c]
    BY <1>1 DEF IInv, ClientsSound
  <1>3. conn_clients[c].ssid = s /\ conn_clients[c].uid \in User
    BY <1>1 DEF IInv, ClientsSound
  <1>4. /\ session' \in [Ssid -> User \cup {None}]
        /\ session'[s] = None /\ \A r \in Ssid : r # s => session'[r] = session[r]
    BY <1>1, <1>3, RedisTypes
  <1>5. /\ closing' \in [conn : Conn \cup {None}, step : {"idle", "status", "maps"}]
        /\ closing'.conn = c /\ closing'.step = "status"
        /\ closing.conn = None /\ closing.step = "idle"
    BY <1>1 DEF NotClosing
  <1>6. TypeOK'  BY <1>1, <1>2, <1>4, <1>5 DEF IInv, TypeOK
  <1>7. ClientsSound'  BY <1>1, <1>2 DEF IInv, ClientsSound, Registered
  <1>8. ClosingSound'  BY <1>1, <1>2, <1>5 DEF ClosingSound, Registered
  <1>9. LoginsSound'
    <2>1. \A w \in Worker : HasSession(w) => login[w].ssid \in Ssid /\ login[w].ssid # s
      BY DEF IInv, LoginsSound
    <2> QED  BY <2>1, <1>1, <1>2, <1>4 DEF IInv, LoginsSound, HasSession
  <1>10. OwnersSound'
    <2> SUFFICES ASSUME NEW d \in Conn, Registered(d)
        PROVE  /\ session'[token[d]] \in {None, conn_clients[d].uid}
               /\ \A e \in Conn : Registered(e) /\ token[e] = token[d] =>
                    conn_clients[e].uid = conn_clients[d].uid
      BY <1>1, <1>2 DEF OwnersSound, Registered
    <2>1. token[d] \in Ssid  BY DEF IInv, ClientsSound
    <2> QED  BY <2>1, <1>4 DEF IInv, OwnersSound
  <1>11. EntryHasClient' /\ LetInAs'  BY <1>1, MapsStay DEF IInv
  <1>12. NoticesSound' /\ NoticeForAddressee'  BY <1>1, <1>2, NoticesStay DEF IInv
  <1>13. \A x \in User : SessionsOf(x)' = SessionsOf(x) \ {s}
    BY <1>4, LoginTypes DEF SessionsOf
  <1>14. (\A x \in User \ raced : Orderly(x))'
    <2> SUFFICES ASSUME NEW x \in User \ raced  PROVE Orderly(x)'
      BY <1>1
    <2>1. Orderly(x)  BY DEF IInv
    <2>2. ASSUME NEW d \in Conn, conn_clients[d].uid = x
          PROVE  /\ uid_connections[x] = d /\ x \in status
                 /\ c # d => session'[token[d]] = x
                 /\ c = d => SessionsOf(x)' = {}
      <3>1. Registered(d) /\ token[d] \in Ssid  BY <2>2, WithUserIsRegistered
      <3>2. closing.conn # d /\ closing # [conn |-> d, step |-> "maps"]
        BY <1>5, LoginTypes
      <3>3. uid_connections[x] = d /\ x \in status /\ session[token[d]] = x
        BY <2>1, <2>2, <3>2 DEF Orderly
      <3>4. ASSUME c # d  PROVE session'[token[d]] = x
        <4>1. CASE token[d] = s
          <5>1. conn_clients[c].uid = x
            BY <4>1, <3>1, <2>2, <1>1 DEF IInv, OwnersSound
          <5>2. uid_connections[x] = c  BY <5>1, <2>1 DEF Orderly
          <5> QED  BY <5>2, <3>3, <3>4
        <4>2. CASE token[d] # s  BY <4>2, <3>1, <3>3, <1>4
        <4> QED  BY <4>1, <4>2
      <3>5. ASSUME c = d  PROVE SessionsOf(x)' = {}
        <4>1. s \in SessionsOf(x)  BY <3>3, <3>5 DEF SessionsOf
        <4>2. \A r \in SessionsOf(x) : r = s  BY <4>1, <2>1 DEF Orderly
        <4> QED  BY <4>2, <1>13
      <3> QED  BY <3>3, <3>4, <3>5
    <2>3. SessionsOf(x)' \subseteq SessionsOf(x)  BY <1>13
    <2>4. \A r, q \in SessionsOf(x)' : r = q  BY <2>1, <2>3 DEF Orderly
    <2>5. SessionsOf(x)' # {} =>
            x \in status \/ \E w \in Worker : login[w].pc = "stored" /\ login[w].uid = x
      BY <2>1, <2>3 DEF Orderly
    <2>6. \A w \in Worker : login[w].pc = "checked" /\ login[w].uid = x =>
            SessionsOf(x)' = {} /\ x \notin status
      BY <2>1, <2>3 DEF Orderly
    <2>7. \A v, w \in Worker : Entering(v, x) /\ Entering(w, x) => v = w
      BY <2>1 DEF Orderly
    <2>8. \A d \in Conn : closing' = [conn |-> d, step |-> "status"] => c = d
      BY <1>5
    <2> QED
      BY <2>2, <2>4, <2>5, <2>6, <2>7, <2>8, <1>1, <1>2, <1>5 DEF Orderly, Entering
  <1>15. MarkIsOwned'
    <2> SUFFICES ASSUME NEW x \in status  PROVE Owned(x)' \/ x \in stranded
      BY <1>1 DEF MarkIsOwned
    <2>1. Owned(x) \/ x \in stranded  BY DEF IInv, MarkIsOwned
    <2>2. x \in User /\ x # None  BY RedisTypes, LoginTypes
    <2>3. \A d \in Conn : closing' # [conn |-> d, step |-> "maps"]
      BY <1>5
    <2>4. CASE s \in SessionsOf(x)
      <3>1. conn_clients[c].uid = x
        BY <2>2, <2>4, <1>1 DEF IInv, OwnersSound, SessionsOf
      <3> QED  BY <3>1, <2>3, <1>1 DEF Owned
    <2>5. CASE s \notin SessionsOf(x)
      <3>1. SessionsOf(x)' = SessionsOf(x)  BY <2>2, <2>5, <1>13
      <3>2. Owned(x) => Owned(x)'
        BY <3>1, <2>3, <1>1, <1>2 DEF Owned, LoggingIn
      <3> QED  BY <3>2, <2>1
    <2> QED  BY <2>4, <2>5
  <1> QED  BY <1>6, <1>7, <1>8, <1>9, <1>10, <1>11, <1>12, <1>14, <1>15 DEF IInv

(* Where the close handler is. *)
LEMMA ClosingOn ==
  ASSUME IInv, closing.step # "idle"
  PROVE  \E c \in Conn :
           /\ c = closing.conn /\ Registered(c) /\ sock[c] = "dead"
           /\ conn_clients[c].uid \in User
           /\ closing = [conn |-> c, step |-> closing.step]
  <1>1. closing # NotClosing  BY DEF NotClosing
  <1>2. closing.conn \in Conn /\ Registered(closing.conn) /\ sock[closing.conn] = "dead"
    BY <1>1 DEF IInv, ClosingSound
  <1>3. conn_clients[closing.conn].uid \in User  BY <1>2 DEF IInv, ClientsSound
  <1>4. closing = [conn |-> closing.conn, step |-> closing.step]  BY MapTypes
  <1> QED  BY <1>2, <1>3, <1>4

LEMMA StatusRemoveKeeps ==
  ASSUME IInv, StatusRemove
  PROVE  IInv'
  <1>1. closing.step = "status"  BY DEF StatusRemove
  <1> PICK c \in Conn : /\ c = closing.conn /\ Registered(c) /\ sock[c] = "dead"
                        /\ conn_clients[c].uid \in User
                        /\ closing = [conn |-> c, step |-> "status"]
    BY <1>1, ClosingOn
  <1> PICK u \in User : u = conn_clients[c].uid
    OBVIOUS
  <1>2. /\ status' = status \ {u} /\ stranded' = stranded \ {u}
        /\ closing' = [closing EXCEPT !.step = "maps"]
        /\ UNCHANGED <<session, login, held, websockets, uid_connections,
                       conn_clients, http, who, raced, restarts>>
    BY DEF StatusRemove
  <1>3. UNCHANGED <<sock, token, heard>>  BY <1>2 DEF websockets
  <1>4. /\ closing' = [conn |-> c, step |-> "maps"]
        /\ closing'.conn = c /\ closing'.step = "maps"
        /\ closing' \in [conn : Conn \cup {None}, step : {"idle", "status", "maps"}]
    BY <1>2
  <1>5. status' \subseteq User /\ stranded' \subseteq User  BY <1>2, RedisTypes
  <1>6. TypeOK'  BY <1>2, <1>3, <1>4, <1>5 DEF IInv, TypeOK
  <1>7. ClientsSound'  BY <1>2, <1>3 DEF IInv, ClientsSound, Registered
  <1>8. ClosingSound'  BY <1>2, <1>3, <1>4 DEF ClosingSound, Registered
  <1>9. LoginsSound'  BY <1>2, <1>3, LoginsStay DEF IInv
  <1>10. OwnersSound'  BY <1>2, <1>3, OwnersStay DEF IInv
  <1>11. EntryHasClient' /\ LetInAs'  BY <1>2, MapsStay DEF IInv
  <1>12. NoticesSound' /\ NoticeForAddressee'  BY <1>2, <1>3, NoticesStay DEF IInv
  <1>13. (\A x \in User \ raced : Orderly(x))'
    <2> SUFFICES ASSUME NEW x \in User \ raced  PROVE Orderly(x)'
      BY <1>2
    <2>1. Orderly(x)  BY DEF IInv
    <2>2. SessionsOf(x)' = SessionsOf(x)  BY <1>2 DEF SessionsOf
    <2>3. \A d \in Conn : closing' # [conn |-> d, step |-> "status"]
      BY <1>4
    <2>4. CASE x # u
      <3>1. x \in status' <=> x \in status  BY <2>4, <1>2
      <3>2. \A d \in Conn : conn_clients[d].uid = x =>
              d # c /\ closing # [conn |-> d, step |-> "maps"]
        BY <2>4
      <3> QED  BY <2>1, <2>2, <2>3, <3>1, <3>2, <1>2, <1>3, <1>4 DEF Orderly, Entering
    <2>5. CASE x = u
      <3>1. SessionsOf(u) = {}  BY <2>1, <2>5 DEF Orderly
      <3>2. uid_connections[u] = c  BY <2>1, <2>5 DEF Orderly
      <3>3. \A d \in Conn : conn_clients[d].uid = u => d = c
        BY <2>1, <2>5, <3>2 DEF Orderly
      <3>4. u \notin status'  BY <1>2
      <3> QED
        BY <2>1, <2>2, <2>3, <2>5, <3>1, <3>2, <3>3, <3>4, <1>2, <1>3, <1>4 DEF Orderly, Entering
    <2> QED  BY <2>4, <2>5
  <1>14. MarkIsOwned'
    <2> SUFFICES ASSUME NEW x \in status'  PROVE Owned(x)' \/ x \in stranded'
      BY DEF MarkIsOwned
    <2>1. x \in status /\ x # u  BY <1>2
    <2>2. Owned(x) \/ x \in stranded'  BY <2>1, <1>2 DEF IInv, MarkIsOwned
    <2>3. SessionsOf(x)' = SessionsOf(x)  BY <1>2 DEF SessionsOf
    <2>4. \A d \in Conn : conn_clients[d].uid = x => closing' # [conn |-> d, step |-> "maps"]
      BY <2>1, <1>4
    <2>5. Owned(x) => Owned(x)'
      BY <2>3, <2>4, <1>2, <1>3 DEF Owned, LoggingIn
    <2> QED  BY <2>2, <2>5
  <1> QED
    BY <1>6, <1>7, <1>8, <1>9, <1>10, <1>11, <1>12, <1>13, <1>14 DEF IInv

LEMMA RemoveConnKeeps ==
  ASSUME IInv, RemoveConn
  PROVE  IInv'
  <1>1. closing.step = "maps"  BY DEF RemoveConn
  <1> PICK c \in Conn : /\ c = closing.conn /\ Registered(c) /\ sock[c] = "dead"
                        /\ conn_clients[c].uid \in User
                        /\ closing = [conn |-> c, step |-> "maps"]
    BY <1>1, ClosingOn
  <1> PICK u \in User : u = conn_clients[c].uid
    OBVIOUS
  <1>2. /\ uid_connections' = [uid_connections EXCEPT ![u] = None]
        /\ conn_clients' = [conn_clients EXCEPT ![c] = NoClient]
        /\ closing' = NotClosing
        /\ sock' = [sock EXCEPT ![c] = "none"]
        /\ token' = [token EXCEPT ![c] = None]
        /\ heard' = [heard EXCEPT ![c] = FALSE]
        /\ UNCHANGED <<redis, login, held, http, who, raced, stranded, restarts>>
    BY DEF RemoveConn, Gone
  <1>3. session' = session /\ status' = status  BY <1>2 DEF redis
  <1>4. /\ sock' \in [Conn -> {"none", "open", "dead"}]
        /\ token' \in [Conn -> Ssid \cup {None}] /\ heard' \in [Conn -> BOOLEAN]
        /\ sock'[c] = "none" /\ token'[c] = None /\ heard'[c] = FALSE
        /\ \A d \in Conn : d # c =>
             sock'[d] = sock[d] /\ token'[d] = token[d] /\ heard'[d] = heard[d]
    BY <1>2, SocketTypes
  <1>5. /\ uid_connections' \in [User -> Conn \cup {None}]
        /\ uid_connections'[u] = None
        /\ \A x \in User : x # u => uid_connections'[x] = uid_connections[x]
    BY <1>2, MapTypes
  <1>6. /\ NoClient \in [uid : User \cup {None}, ssid : Ssid \cup {None}]
        /\ NoClient.uid = None
        /\ NotClosing \in [conn : Conn \cup {None}, step : {"idle", "status", "maps"}]
        /\ NotClosing.conn = None /\ NotClosing.step = "idle"
    BY DEF NoClient, NotClosing
  <1>7. /\ conn_clients' \in [Conn -> [uid : User \cup {None}, ssid : Ssid \cup {None}]]
        /\ conn_clients'[c] = NoClient
        /\ \A d \in Conn : d # c => conn_clients'[d] = conn_clients[d]
    BY <1>2, <1>6, MapTypes
  <1>8. TypeOK'  BY <1>2, <1>3, <1>4, <1>5, <1>6, <1>7 DEF IInv, TypeOK
  <1>9. ~ Registered(c)' /\ \A d \in Conn : d # c => (Registered(d)' <=> Registered(d))
    BY <1>7 DEF Registered
  <1>10. ClientsSound'
    <2> SUFFICES ASSUME NEW d \in Conn
        PROVE  /\ sock'[d] = "none" => token'[d] = None /\ ~ heard'[d] /\ ~ Registered(d)'
               /\ sock'[d] # "none" => token'[d] \in Ssid
               /\ Registered(d)' =>
                    heard'[d] /\ conn_clients'[d].uid \in User /\ conn_clients'[d].ssid = token'[d]
      BY DEF ClientsSound
    <2>1. CASE d = c  BY <2>1, <1>4, <1>9
    <2>2. CASE d # c  BY <2>2, <1>4, <1>7, <1>9 DEF IInv, ClientsSound
    <2> QED  BY <2>1, <2>2
  <1>11. ClosingSound'  BY <1>2 DEF ClosingSound
  <1>12. LoginsSound'
    <2>1. \A w \in Worker : HasSession(w) => login[w].ssid # None
      BY LoginTypes DEF IInv, LoginsSound
    <2> QED  BY <2>1, <1>2, <1>3, <1>4 DEF IInv, LoginsSound, HasSession
  <1>13. OwnersSound'
    <2>1. \A d \in Conn : Registered(d)' =>
            /\ d # c /\ Registered(d) /\ token'[d] = token[d]
            /\ conn_clients'[d] = conn_clients[d]
      BY <1>4, <1>7, <1>9
    <2> SUFFICES ASSUME NEW d \in Conn, Registered(d)'
        PROVE  /\ session[token'[d]] \in {None, conn_clients'[d].uid}
               /\ \A e \in Conn : Registered(e)' /\ token'[e] = token'[d] =>
                    conn_clients'[e].uid = conn_clients'[d].uid
      BY <1>3 DEF OwnersSound
    <2> QED  BY <2>1 DEF IInv, OwnersSound
  <1>14. EntryHasClient'
    <2> SUFFICES ASSUME NEW x \in User, uid_connections'[x] # None
                 PROVE  conn_clients'[uid_connections'[x]].uid = x
      BY DEF EntryHasClient
    <2>1. x # u /\ uid_connections'[x] = uid_connections[x]  BY <1>5
    <2>2. /\ uid_connections[x] \in Conn
          /\ conn_clients[uid_connections[x]].uid = x
      BY <2>1, MapTypes DEF IInv, EntryHasClient
    <2>3. uid_connections[x] # c  BY <2>1, <2>2
    <2> QED  BY <2>1, <2>2, <2>3, <1>7
  <1>15. LetInAs'  BY <1>2, <1>7, <1>9 DEF IInv, LetInAs
  <1>16. NoticesSound' /\ NoticeForAddressee'
    <2>1. \A t \in Thread : http[t].conn # None => http[t].conn \in Conn
      BY NoticeTypes
    <2> QED  BY <2>1, <1>2, <1>4 DEF IInv, NoticesSound, NoticeForAddressee
  <1>17. (\A x \in User \ raced : Orderly(x))'
    <2> SUFFICES ASSUME NEW x \in User \ raced  PROVE Orderly(x)'
      BY <1>2
    <2>1. Orderly(x)  BY DEF IInv
    <2>2. SessionsOf(x)' = SessionsOf(x)  BY <1>3 DEF SessionsOf
    <2>3. \A d \in Conn : closing' # [conn |-> d, step |-> "status"]
      BY <1>2, <1>6
    <2>4. \A d \in Conn : closing'.conn # d /\ conn_clients'[c].uid # x
      BY <1>2, <1>6, <1>7, LoginTypes
    <2>5. CASE x # u
      <3>1. uid_connections'[x] = uid_connections[x]  BY <2>5, <1>5
      <3>2. \A d \in Conn : conn_clients'[d].uid = x =>
              /\ d # c /\ conn_clients[d].uid = x /\ token'[d] = token[d]
              /\ closing # [conn |-> d, step |-> "maps"] /\ closing.conn # d
        BY <2>4, <1>4, <1>7
      <3>3. \A d \in Conn : conn_clients'[d].uid = x =>
              uid_connections'[x] = d /\ x \in status /\ session[token'[d]] = x
        <4> SUFFICES ASSUME NEW d \in Conn, conn_clients'[d].uid = x
                     PROVE  uid_connections'[x] = d /\ x \in status /\ session[token'[d]] = x
          OBVIOUS
        <4>1. /\ conn_clients[d].uid = x /\ token'[d] = token[d]
              /\ closing # [conn |-> d, step |-> "maps"] /\ closing.conn # d
          BY <3>2
        <4>2. uid_connections[x] = d /\ x \in status /\ session[token[d]] = x
          BY <2>1, <4>1 DEF Orderly
        <4> QED  BY <3>1, <4>1, <4>2
      <3> QED  BY <2>1, <2>2, <2>3, <3>3, <1>2, <1>3 DEF Orderly, Entering
    <2>6. CASE x = u
      <3>1. \A d \in Conn : conn_clients[d].uid = u => d = c
        BY <2>1, <2>6 DEF Orderly
      <3>2. \A d \in Conn : conn_clients'[d].uid # x
        BY <3>1, <2>4, <2>6, <1>7
      <3> QED  BY <2>1, <2>2, <3>2, <1>2, <1>3 DEF Orderly, Entering
    <2> QED  BY <2>5, <2>6
  <1>18. MarkIsOwned'
    <2> SUFFICES ASSUME NEW x \in status  PROVE Owned(x)' \/ x \in stranded
      BY <1>2, <1>3 DEF MarkIsOwned
    <2>1. Owned(x) \/ x \in stranded  BY DEF IInv, MarkIsOwned
    <2>2. SessionsOf(x)' = SessionsOf(x)  BY <1>3 DEF SessionsOf
    <2>3. \A d \in Conn : closing' # [conn |-> d, step |-> "maps"]
      BY <1>2, <1>6
    <2>4. heard[c]  BY DEF IInv, ClientsSound
    <2>5. Owned(x) => Owned(x)'
      <3>1. \A d \in Conn : closing # [conn |-> d, step |-> "maps"] => d # c
        OBVIOUS
      <3>2. \A d \in Conn : conn_clients[d].uid = x /\ closing # [conn |-> d, step |-> "maps"] =>
              conn_clients'[d].uid = x
        BY <3>1, <1>7
      <3>3. \A d \in Conn : ~ heard[d] => ~ heard'[d] /\ token'[d] = token[d]
        BY <2>4, <1>4
      <3>4. \A w \in Worker : LoggingIn(w, x) => LoggingIn(w, x)'
        BY <1>2 DEF LoggingIn
      <3>5. held' = held  BY <1>2
      <3> QED  BY <2>2, <2>3, <3>2, <3>3, <3>4, <3>5, OwnersRemain
    <2> QED  BY <2>1, <2>5
  <1> QED
    BY <1>8, <1>10, <1>11, <1>12, <1>13, <1>14, <1>15, <1>16, <1>17, <1>18 DEF IInv

-----------------------------------------------------------------------------
LEMMA StepInvariant == IInv /\ [Next]_vars => IInv'
  <1> SUFFICES ASSUME IInv, [Next]_vars  PROVE IInv'
    OBVIOUS
  <1>1. CASE UserServiceStep
    BY <1>1, UserLoginKeeps, SessionAppendKeeps, StatusAppendKeeps, LoginAnswerKeeps,
       AnswerLostKeeps, UserServiceRestartKeeps DEF UserServiceStep
  <1>2. CASE ClientStep
    BY <1>2, ConnectKeeps, SocketDiesKeeps, ClientQuitsKeeps DEF ClientStep
  <1>3. CASE WebsocketStep
    BY <1>3, OnMessageKeeps, OnCloseUnknownKeeps, OnCloseKeeps, StatusRemoveKeeps,
       RemoveConnKeeps DEF WebsocketStep
  <1>4. CASE GatewayRestart  BY <1>4, GatewayDiesKeeps DEF GatewayRestart
  <1>5. CASE HttpStep  BY <1>5, HttpStepKeeps
  <1>6. CASE UNCHANGED vars
    <2>1. UNCHANGED <<redis, login, held, websockets, maps, http, who, raced, stranded, restarts>>
      BY <1>6 DEF vars
    <2>2. TypeOK'  BY <2>1 DEF IInv, TypeOK, redis, websockets, maps
    <2>3. NoticesSound' /\ NoticeForAddressee'
      BY <2>1, NoticesStay DEF IInv, websockets
    <2> QED  BY <2>1, <2>2, <2>3, OnlyNotices
  <1> QED  BY <1>1, <1>2, <1>3, <1>4, <1>5, <1>6 DEF Next

LEMMA Invariant == Spec => []IInv
  <1>1. Init => IInv  BY InitInvariant
  <1>2. IInv /\ [Next]_vars => IInv'  BY StepInvariant
  <1> QED  BY <1>1, <1>2, PTL DEF Spec

(* Redis, the logins, the connections and the maps have their types. *)
THEOREM TypeCorrect == Spec => []TypeOK
  <1>1. IInv => TypeOK  BY DEF IInv
  <1> QED  BY <1>1, Invariant, PTL

(* The two maps of the gateway agree, a user whose connections never       *)
(* overlapped is reached over theirs, and nobody is sent what is meant for *)
(* another, also when the connection is closed between lookup and send     *)
(* (connection.hpp:22, 56).                                                *)
THEOREM MapsAgree == Spec => []ConnectionsAgree
  <1>1. IInv => ConnectionsAgree
    <2> SUFFICES ASSUME IInv  PROVE Reachable
      BY DEF ConnectionsAgree, IInv
    <2> SUFFICES ASSUME NEW c \in Conn, Registered(c), conn_clients[c].uid \notin raced
                 PROVE  uid_connections[conn_clients[c].uid] = c
      BY DEF Reachable
    <2>1. conn_clients[c].uid \in User \ raced  BY DEF IInv, ClientsSound
    <2> QED  BY <2>1 DEF IInv, Orderly
  <1> QED  BY <1>1, Invariant, PTL

(* A user whose logins and connections never overlapped has one session,   *)
(* however the steps of the two services follow each other                 *)
(* (user_server.hpp:135, gateway_server.hpp:128).                          *)
THEOREM LoggedInOnce == Spec => []OneSession
  <1>1. IInv => OneSession
    <2> SUFFICES ASSUME IInv, NEW u \in User, u \notin raced
                 PROVE  Cardinality(SessionsOf(u)) <= 1
      BY DEF OneSession
    <2>1. \A r, s \in SessionsOf(u) : r = s  BY DEF IInv, Orderly
    <2>2. CASE SessionsOf(u) = {}  BY <2>2, FS_EmptySet
    <2>3. CASE SessionsOf(u) # {}
      <3>1. PICK s \in SessionsOf(u) : TRUE  BY <2>3
      <3>2. SessionsOf(u) = {s}  BY <3>1, <2>1
      <3>3. Cardinality({s}) = 1  BY FS_Singleton
      <3> QED  BY <3>2, <3>3
    <2> QED  BY <2>2, <2>3
  <1> QED  BY <1>1, Invariant, PTL

(* A user who is refused because they are marked has somebody who can take *)
(* the mark away, or has lost them to a failure (gateway_server.hpp:128,   *)
(* 140).                                                                   *)
THEOREM MarksHaveOwners == Spec => []MarkIsOwned
  <1>1. IInv => MarkIsOwned  BY DEF IInv
  <1> QED  BY <1>1, Invariant, PTL

=============================================================================
