---------------------------- MODULE UserService ----------------------------
(***************************************************************************)
(* Accounts and profiles of the user service                               *)
(* (code/server/user/source/user_server.hpp): the table of users           *)
(* (common/mysql_user.hpp, odb/user.hxx) and the search index that holds a *)
(* copy of every row (common/data_es.hpp).  A handler changes the table in *)
(* one transaction and then writes the copy: nothing binds the two, and a  *)
(* change writes back the whole row it has read before.                    *)
(*                                                                         *)
(* An action is one transaction or one write to the index.  Logins are in  *)
(* Gateway; passwords are never read here and the codes sent by telephone  *)
(* are taken to be right: with a wrong one nothing changes.                *)
(***************************************************************************)
EXTENDS Naturals

CONSTANTS User,       \* the user ids
          Name, Phone,
          Text,       \* descriptions, and ids of avatar files
          Handler,    \* brpc workers
          None,
          MAX_REQUESTS, MAX_RESTARTS  \* TLC's bounds

ASSUME UserServiceAssumption ==
  /\ None \notin User \cup Name \cup Phone \cup Text
  /\ User \cap Name = {}
  /\ MAX_REQUESTS \in Nat /\ MAX_RESTARTS \in Nat

(* PhoneRegister makes the user id the nickname. *)
Row == [nickname : Name \cup User, phone : Phone \cup {None},
        description : Text \cup {None}, avatar_id : Text \cup {None}]
NoRow == [nickname |-> None, phone |-> None, description |-> None, avatar_id |-> None]
Fields == {"nickname", "phone", "description", "avatar_id"}

ValuesOf(f) == CASE f = "nickname" -> Name [] f = "phone" -> Phone [] OTHER -> Text

VARIABLES
  table,       \* the rows
  index,       \* their copies in the search index
  work,        \* of each handler: what it does next, for whom, with which
               \* row, the field it changes, whether it has been alone
  wish,        \* history: what the requests about each field have stored
  disturbed,   \* history: users of whom two requests overlapped
  stale,       \* history: users whose copy may differ from the row
  requests, restarts

stores == <<table, index>>
history == <<wish, disturbed, stale>>
vars == <<stores, work, history, requests, restarts>>

Idle == [step |-> "idle", uid |-> None, row |-> NoRow, field |-> None, alone |-> TRUE]

Init ==
  /\ table = [u \in User |-> NoRow]
  /\ index = [u \in User |-> NoRow]
  /\ work = [h \in Handler |-> Idle]
  /\ wish = [u \in User |-> NoRow]
  /\ disturbed = {}
  /\ stale = {}
  /\ requests = 0
  /\ restarts = 0

Exists(u) == table[u] # NoRow
Busy(u) == \E h \in Handler : work[h].uid = u
GiveUp(h) == work' = [work EXCEPT ![h] = Idle]

Accept == requests < MAX_REQUESTS /\ requests' = requests + 1

(* A handler takes up a request about u. *)
Begin(h, u, row, field) ==
  work' = [g \in Handler |->
    IF g = h THEN [step |-> IF Exists(u) THEN "update" ELSE "insert",
                   uid |-> u, row |-> row, field |-> field, alone |-> ~ Busy(u)]
    ELSE IF work[g].uid = u THEN [work[g] EXCEPT !.alone = FALSE]
    ELSE work[g]]

-----------------------------------------------------------------------------
(* Registration                                                            *)

(* The user id is a new uuid. *)
Unused(u) == ~ Exists(u) /\ ~ Busy(u)

(* The name is free, or the query for it fails, which looks the same.      *)
(* Other requests are refused and nothing changes.                         *)
UserRegister(h, u, name) ==
  /\ work[h] = Idle
  /\ Accept
  /\ Unused(u)
  /\ Begin(h, u, [NoRow EXCEPT !.nickname = name], None)
  /\ UNCHANGED <<stores, history, restarts>>

PhoneRegister(h, u, phone) ==
  /\ work[h] = Idle
  /\ Accept
  /\ Unused(u)
  /\ Begin(h, u, [NoRow EXCEPT !.nickname = u, !.phone = phone], None)
  /\ UNCHANGED <<stores, history, restarts>>

\* variant: the telephone number is not unique
ClashesByName(u, row) == \E v \in User \ {u} : table[v].nickname = row.nickname

(* The unique indexes of nickname and telephone number. *)
Clashes(u, row) == \E v \in User \ {u} :
  \/ table[v].nickname = row.nickname
  \/ row.phone # None /\ table[v].phone = row.phone

Insert(h) ==
  LET u == work[h].uid IN
  /\ work[h].step = "insert"
  /\ ~ Clashes(u, work[h].row)
  /\ table' = [table EXCEPT ![u] = work[h].row]
  /\ wish' = [wish EXCEPT ![u] = work[h].row]
  /\ work' = [work EXCEPT ![h].step = "index"]
  /\ UNCHANGED <<index, disturbed, stale, requests, restarts>>

-----------------------------------------------------------------------------
(* Profiles: SetUserAvatar, SetUserNickname, SetUserDescription and        *)
(* SetUserPhoneNumber                                                      *)

(* The row is read.  (SetUserAvatar then stores the file under a new id.)  *)
Select(h, u, field, value) ==
  /\ work[h] = Idle
  /\ Accept
  /\ Exists(u)
  /\ Begin(h, u, [table[u] EXCEPT ![field] = value], field)
  /\ disturbed' = disturbed \cup {v \in {u} : Busy(u)}
  /\ stale' = stale \cup {v \in {u} : Busy(u)}
  /\ UNCHANGED <<stores, wish, restarts>>

\* variant: the row is made from the request, not from what was read
UpdateBlank(h) ==
  LET u == work[h].uid  f == work[h].field IN
  /\ work[h].step = "update"
  /\ ~ Clashes(u, work[h].row)
  /\ table' = [table EXCEPT ![u] = [NoRow EXCEPT !.nickname = table[u].nickname,
                                                 ![f] = work[h].row[f]]]
  /\ wish' = [wish EXCEPT ![u][f] = work[h].row[f]]
  /\ work' = [work EXCEPT ![h].step = "index"]
  /\ UNCHANGED <<index, disturbed, stale, requests, restarts>>

(* The whole row is written, as it was read but for one field. *)
Update(h) ==
  LET u == work[h].uid  f == work[h].field IN
  /\ work[h].step = "update"
  /\ ~ Clashes(u, work[h].row)
  /\ table' = [table EXCEPT ![u] = work[h].row]
  /\ wish' = [wish EXCEPT ![u][f] = work[h].row[f]]
  /\ work' = [work EXCEPT ![h].step = "index"]
  /\ UNCHANGED <<index, disturbed, stale, requests, restarts>>

-----------------------------------------------------------------------------
(* The index, and what goes wrong                                          *)

\* variant: only what has changed is sent
AppendField(h) ==
  LET u == work[h].uid  f == work[h].field IN
  /\ work[h].step = "index"
  /\ index' = [index EXCEPT ![u] = IF f = None THEN work[h].row
                                   ELSE [NoRow EXCEPT ![f] = work[h].row[f]]]
  /\ stale' = IF work[h].alone THEN stale \ {u} ELSE stale
  /\ GiveUp(h)
  /\ UNCHANGED <<table, wish, disturbed, requests, restarts>>

(* appendData writes the whole copy.  After a request that was alone from  *)
(* beginning to end it is right, whatever happened before.                 *)
AppendData(h) ==
  LET u == work[h].uid IN
  /\ work[h].step = "index"
  /\ index' = [index EXCEPT ![u] = work[h].row]
  /\ stale' = IF work[h].alone THEN stale \ {u} ELSE stale
  /\ GiveUp(h)
  /\ UNCHANGED <<table, wish, disturbed, requests, restarts>>

AppendDataFails(h) ==
  /\ work[h].step = "index"
  /\ stale' = stale \cup {work[h].uid}
  /\ GiveUp(h)
  /\ UNCHANGED <<stores, wish, disturbed, requests, restarts>>

(* A name or number is taken, the transaction is rolled back for another   *)
(* reason, or the file service does not take the avatar.                   *)
TransactionFails(h) ==
  /\ work[h].step \in {"insert", "update"}
  /\ GiveUp(h)
  /\ UNCHANGED <<stores, history, requests, restarts>>

Restart ==
  /\ restarts < MAX_RESTARTS
  /\ restarts' = restarts + 1
  /\ stale' = stale \cup {u \in User : \E h \in Handler :
                            work[h].uid = u /\ work[h].step = "index"}
  /\ work' = [h \in Handler |-> Idle]
  /\ UNCHANGED <<stores, wish, disturbed, requests>>

-----------------------------------------------------------------------------
Next ==
  \/ \E h \in Handler :
       \/ \E u \in User, name \in Name : UserRegister(h, u, name)
       \/ \E u \in User, phone \in Phone : PhoneRegister(h, u, phone)
       \/ \E u \in User, f \in Fields : \E value \in ValuesOf(f) : Select(h, u, f, value)
       \/ Insert(h) \/ Update(h)
       \/ AppendData(h) \/ AppendDataFails(h) \/ TransactionFails(h)
  \/ Restart

Spec == Init /\ [][Next]_vars

-----------------------------------------------------------------------------
TypeOK ==
  /\ table \in [User -> Row \cup {NoRow}]
  /\ index \in [User -> Row \cup {NoRow}]
  /\ wish \in [User -> Row \cup {NoRow}]
  /\ work \in [Handler -> [step : {"idle", "insert", "update", "index"},
                           uid : User \cup {None}, row : Row \cup {NoRow},
                           field : Fields \cup {None}, alone : BOOLEAN]]
  /\ disturbed \subseteq User
  /\ stale \subseteq User
  /\ requests \in 0 .. MAX_REQUESTS
  /\ restarts \in 0 .. MAX_RESTARTS

(* No two users have one nickname or one number: login asks for the user   *)
(* of a nickname (mysql_user.hpp:38), although registration looks for the  *)
(* name in one transaction and stores it in another                        *)
(* (user_server.hpp:90).                                                   *)
NamesUnique == \A u, v \in User : u # v /\ Exists(u) /\ Exists(v) =>
  /\ table[u].nickname # table[v].nickname
  /\ table[u].phone # None => table[u].phone # table[v].phone

RowsSound == TypeOK /\ NamesUnique

(* A profile holds what was last stored in each of its fields: no request  *)
(* takes back another one, although each writes the whole row -- unless    *)
(* two requests of the user overlapped (user_server.hpp:509).              *)
FieldsKept == \A u \in User \ disturbed : table[u] = wish[u]

(* A user found in the index has a row (a search whose result lacks one    *)
(* fails as a whole, user_server.hpp:379), and the copy of a user about    *)
(* whom nothing is under way is the row, unless a write to the index       *)
(* failed or requests overlapped and none was alone since                  *)
(* (user_server.hpp:515).                                                  *)
IndexFollowsTable == \A u \in User :
  /\ index[u] # NoRow => Exists(u)
  /\ ~ Busy(u) /\ u \notin stale => index[u] = table[u]

=============================================================================
