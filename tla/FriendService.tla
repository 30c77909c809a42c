--------------------------- MODULE FriendService ---------------------------
(***************************************************************************)
(* The friend service of the instant-messaging system                      *)
(* (code/server/friend/source/friend_server.hpp) over its MySQL tables     *)
(* (common/mysql_relation.hpp, mysql_apply.hpp, mysql_chat_session.hpp and *)
(* mysql_chat_session_member.hpp).                                         *)
(*                                                                         *)
(* A request is handled by a brpc worker in several transactions with      *)
(* nothing around them: each transaction is one action, and each may fail  *)
(* (the table functions catch the exception and return false).  The        *)
(* service may die between any two of them and is started again.           *)
(*                                                                         *)
(* A table is a set of rows: only ChatSessionTable::remove, which must     *)
(* find one row, tells two equal rows from one (FindsOne).                 *)
(*                                                                         *)
(* Nothing here or in the gateway compares the two users of a request: a   *)
(* user may apply to, agree with and remove himself.                       *)
(***************************************************************************)
EXTENDS Naturals, FiniteSets

CONSTANTS User, Worker,
          SessionId,    \* the uuids of sessions; TLC's bound on sessions made
          None          \* no session, and the users of no request

ASSUME FriendAssumption == None \notin SessionId

VARIABLES relation,       \* rows <<user, peer>> of the table relation
          friend_apply,   \* rows <<applicant, respondent>>
          chat_session,   \* the type of each session, "none" when it has no row
          member,         \* rows <<session, user>> of chat_session_member
          pc, job,        \* where a worker is, and in which request
          disturbed       \* history: pairs with which something unusual happened

vars == <<relation, friend_apply, chat_session, member, pc, job, disturbed>>

\* Two users, or one who asks about himself.
Pairs == {{u, p} : u \in User, p \in User}

\* A request: its kind, the user who sends it, the other user, the members of
\* the session it makes, and the id of that session.
Request(op, uid, pid, list, cssid) ==
  [op |-> op, uid |-> uid, pid |-> pid, list |-> list, cssid |-> cssid]

NoRequest == Request("none", None, None, {}, None)

PairOps == {"add", "agree", "refuse", "remove"}

Idle(w) == pc[w] = "idle"
Asked(w) == <<job[w].uid, job[w].pid>>
About(w) == {job[w].uid, job[w].pid}
WorksOn(w, pair) == ~ Idle(w) /\ job[w].op \in PairOps /\ About(w) = pair

Init ==
  /\ relation = {}
  /\ friend_apply = {}
  /\ chat_session = [s \in SessionId |-> "none"]
  /\ member = {}
  /\ pc = [w \in Worker |-> "idle"]
  /\ job = [w \in Worker |-> NoRequest]
  /\ disturbed = {}

-----------------------------------------------------------------------------
(* Queries and row builders of the tables.                                 *)

BothWays(u, p) == {<<u, p>>, <<p, u>>}

(* The application that an answer of uid to pid is about.                  *)
Answered(j) == <<j.pid, j.uid>>

(* The view SingleChatSession: single sessions that have both members.     *)
SingleSessions(u, p) ==
  {s \in SessionId : chat_session[s] = "single" /\ <<s, u>> \in member /\ <<s, p>> \in member}

RowsOf(s) == {r \in member : r[1] = s}

(* The rows of s are those of exactly these users.                         *)
SharedBy(s) == {pair \in Pairs : RowsOf(s) = {s} \X pair}

(* The view joins the member rows with themselves, and query_one wants one *)
(* row of it.  The session of a user with himself has two equal rows,      *)
(* which make four.                                                        *)
FindsOne(u, p, s) ==
  /\ SingleSessions(u, p) = {s}
  /\ RowsOf(s) # {<<s, u>>}

\* variants: the members stay behind; all memberships of the two users go
ErasedNothing(s) == {}
ErasedByUser(s) == {r \in member : <<s, r[2]>> \in member}

(* The member rows that go when session s is deleted.                      *)
Erased(s) == RowsOf(s)

\* variant: the id stays empty
NamedNothing(j, s) == j

Named(j, s) == Request(j.op, j.uid, j.pid, j.list, s)

(* FriendAddProcess makes a session of the two users, ChatSessionCreate one *)
(* of the listed users.                                                    *)
Members(j) == IF j.op = "create" THEN j.list ELSE {j.uid, j.pid}

Type(j) == IF j.op = "create" THEN "group" ELSE "single"

-----------------------------------------------------------------------------
(* A request reaches a worker.                                             *)

\* variant: friends may be asked again
FirstUnchecked(op) == CASE op = "add"    -> "waiting?"
                        [] op = "agree"  -> "applied?"
                        [] op = "refuse" -> "applied?"
                        [] op = "remove" -> "unrelate"

First(op) == CASE op = "add"    -> "related?"
               [] op = "agree"  -> "applied?"
               [] op = "refuse" -> "applied?"
               [] op = "remove" -> "unrelate"

(* What makes a request unusual for its pair: another request about the    *)
(* pair is being handled, it removes somebody who is no friend, it applies *)
(* to somebody whose own application is waiting, or it is about the user   *)
(* himself.                                                                *)
Unusual(w, op, u, p) ==
  \/ \E v \in Worker \ {w} : WorksOn(v, {u, p})
  \/ op = "remove" /\ <<u, p>> \notin relation
  \/ op = "add" /\ <<p, u>> \in friend_apply
  \/ u = p

(* FriendAdd, FriendAddProcess and FriendRemove.                           *)
Accept(w) == \E op \in PairOps, u \in User, p \in User :
  /\ Idle(w)
  /\ pc' = [pc EXCEPT ![w] = First(op)]
  /\ job' = [job EXCEPT ![w] = Request(op, u, p, {}, None)]
  /\ disturbed' = IF Unusual(w, op, u, p) THEN disturbed \cup {{u, p}} ELSE disturbed
  /\ UNCHANGED <<relation, friend_apply, chat_session, member>>

(* ChatSessionCreate.  Its members are the users listed, whoever asks.     *)
AcceptCreate(w) == \E list \in SUBSET User :
  /\ Idle(w)
  /\ pc' = [pc EXCEPT ![w] = "session"]
  /\ job' = [job EXCEPT ![w] = Request("create", None, None, list, None)]
  /\ UNCHANGED <<relation, friend_apply, chat_session, member, disturbed>>

At(w, place) == pc[w] = place
GoTo(w, place) == pc' = [pc EXCEPT ![w] = place]
GoOn(w, place) == GoTo(w, place) /\ UNCHANGED job
\* The answer is sent; what the request was does not matter any more.
Finish(w) == GoTo(w, "idle") /\ job' = [job EXCEPT ![w] = NoRequest]

Disturb(w) == disturbed' = disturbed \cup {About(w)}

-----------------------------------------------------------------------------
(* FriendAdd.  A query that fails counts as "no such row".                 *)

AddRelated(w) ==
  /\ At(w, "related?")
  /\ Asked(w) \in relation
  /\ Finish(w)
  /\ UNCHANGED <<relation, friend_apply, chat_session, member, disturbed>>

AddUnrelated(w) ==
  /\ At(w, "related?")
  /\ Asked(w) \notin relation
  /\ GoOn(w, "waiting?")
  /\ UNCHANGED <<relation, friend_apply, chat_session, member, disturbed>>

(* The relation is there and the query for it fails.                       *)
AddQueryFails(w) ==
  /\ At(w, "related?")
  /\ Asked(w) \in relation
  /\ GoOn(w, "waiting?")
  /\ Disturb(w)
  /\ UNCHANGED <<relation, friend_apply, chat_session, member>>

AddWaiting(w) ==
  /\ At(w, "waiting?")
  /\ Asked(w) \in friend_apply
  /\ Finish(w)
  /\ UNCHANGED <<relation, friend_apply, chat_session, member, disturbed>>

(* No application waits, or the query for it fails.                        *)
AddNotWaiting(w) ==
  /\ At(w, "waiting?")
  /\ GoOn(w, "apply")
  /\ UNCHANGED <<relation, friend_apply, chat_session, member, disturbed>>

ApplyInsert(w) ==
  /\ At(w, "apply")
  /\ friend_apply' = friend_apply \cup {Asked(w)}
  /\ Finish(w)
  /\ UNCHANGED <<relation, chat_session, member, disturbed>>

-----------------------------------------------------------------------------
(* FriendAddProcess.                                                       *)

ApplyFound(w) ==
  /\ At(w, "applied?")
  /\ Answered(job[w]) \in friend_apply
  /\ GoOn(w, "answer")
  /\ UNCHANGED <<relation, friend_apply, chat_session, member, disturbed>>

ApplyMissing(w) ==
  /\ At(w, "applied?")
  /\ Answered(job[w]) \notin friend_apply
  /\ Finish(w)
  /\ UNCHANGED <<relation, friend_apply, chat_session, member, disturbed>>

(* Deleting no row is a success too.                                       *)
ApplyRemove(w) ==
  /\ At(w, "answer")
  /\ friend_apply' = friend_apply \ {Answered(job[w])}
  /\ IF job[w].op = "agree" THEN GoOn(w, "relate") ELSE Finish(w)
  /\ UNCHANGED <<relation, chat_session, member, disturbed>>

RelationInsert(w) ==
  /\ At(w, "relate")
  /\ relation' = relation \cup BothWays(job[w].uid, job[w].pid)
  /\ GoOn(w, "session")
  /\ UNCHANGED <<friend_apply, chat_session, member, disturbed>>

(* The session, also the one of ChatSessionCreate, gets a uuid that was    *)
(* never used.  Ids of deleted sessions stand for new ones again.          *)
Unused(s) ==
  /\ chat_session[s] = "none"
  /\ RowsOf(s) = {}

SessionInsert(w) == \E s \in SessionId :
  /\ At(w, "session")
  /\ Unused(s)
  /\ chat_session' = [chat_session EXCEPT ![s] = Type(job[w])]
  /\ job' = [job EXCEPT ![w] = Named(job[w], s)]
  /\ GoTo(w, "member")
  /\ UNCHANGED <<relation, friend_apply, member, disturbed>>

MemberAppend(w) ==
  /\ At(w, "member")
  /\ member' = member \cup {<<job[w].cssid, u>> : u \in Members(job[w])}
  /\ Finish(w)
  /\ UNCHANGED <<relation, friend_apply, chat_session, disturbed>>

-----------------------------------------------------------------------------
(* FriendRemove.                                                           *)

RelationRemove(w) ==
  /\ At(w, "unrelate")
  /\ relation' = relation \ BothWays(job[w].uid, job[w].pid)
  /\ GoOn(w, "unsession")
  /\ UNCHANGED <<friend_apply, chat_session, member, disturbed>>

\* variant: the answer is awaited in vain and the step is tried again
SessionRemoveAgain(w) == \E s \in SingleSessions(job[w].uid, job[w].pid) :
  /\ At(w, "unsession")
  /\ chat_session' = [chat_session EXCEPT ![s] = "none"]
  /\ member' = member \ Erased(s)
  /\ GoOn(w, "unsession")
  /\ UNCHANGED <<relation, friend_apply, disturbed>>

(* ChatSessionTable::remove with two users: query_one finds exactly one    *)
(* row.  For a user who removes himself that is the session with his only  *)
(* friend, if he has one: both his keys match his one row of it.           *)
SessionRemove(w) == \E s \in SessionId :
  /\ At(w, "unsession")
  /\ FindsOne(job[w].uid, job[w].pid, s)
  /\ chat_session' = [chat_session EXCEPT ![s] = "none"]
  /\ member' = member \ Erased(s)
  /\ Finish(w)
  /\ disturbed' = disturbed \cup (SharedBy(s) \ {About(w)})
  /\ UNCHANGED <<relation, friend_apply>>

-----------------------------------------------------------------------------
(* Failures.                                                               *)

(* Places behind the first change of a request about a pair that needs a   *)
(* second one.                                                             *)
HalfWay(w) == job[w].op # "create" /\ pc[w] \in {"session", "member", "unsession"}

(* A transaction fails: it is rolled back and the handler gives up.        *)
TransactionFails(w) ==
  /\ pc[w] \in {"apply", "applied?", "answer", "relate", "session", "member",
                "unrelate", "unsession"}
  /\ Finish(w)
  /\ disturbed' = IF HalfWay(w) THEN disturbed \cup {About(w)} ELSE disturbed
  /\ UNCHANGED <<relation, friend_apply, chat_session, member>>

(* All workers lose what they were doing; the tables stay.                 *)
Die ==
  /\ pc' = [w \in Worker |-> "idle"]
  /\ job' = [w \in Worker |-> NoRequest]
  /\ disturbed' = disturbed \cup {About(w) : w \in {v \in Worker : HalfWay(v)}}
  /\ UNCHANGED <<relation, friend_apply, chat_session, member>>

(* query_one returns no row and its result is dereferenced, or it asserts  *)
(* that there is at most one (the build has no NDEBUG).                    *)
RemoveAborts(w) ==
  /\ At(w, "unsession")
  /\ \A s \in SessionId : ~ FindsOne(job[w].uid, job[w].pid, s)
  /\ Die

(* The process dies for another reason and is started again.               *)
Restart ==
  /\ \E w \in Worker : ~ Idle(w)
  /\ Die

-----------------------------------------------------------------------------
Step(w) ==
  \/ AddRelated(w) \/ AddUnrelated(w) \/ AddQueryFails(w)
  \/ AddWaiting(w) \/ AddNotWaiting(w) \/ ApplyInsert(w)
  \/ ApplyFound(w) \/ ApplyMissing(w) \/ ApplyRemove(w) \/ RelationInsert(w)
  \/ SessionInsert(w) \/ MemberAppend(w)
  \/ RelationRemove(w) \/ SessionRemove(w)
  \/ TransactionFails(w) \/ RemoveAborts(w)

Next ==
  \/ \E w \in Worker : Accept(w) \/ AcceptCreate(w) \/ Step(w)
  \/ Restart

Spec == Init /\ [][Next]_vars

-----------------------------------------------------------------------------
(* Properties.                                                             *)

(* Types; a request between its session's insert and its members' insert   *)
(* holds the id of a session that exists.                                  *)
TypeOK ==
  /\ relation \subseteq User \X User
  /\ friend_apply \subseteq User \X User
  /\ chat_session \in [SessionId -> {"none", "single", "group"}]
  /\ member \subseteq SessionId \X User
  /\ disturbed \subseteq Pairs
  /\ \A w \in Worker : pc[w] = "member" =>
       job[w].cssid \in SessionId /\ chat_session[job[w].cssid] = Type(job[w])

(* Member rows belong to a session that exists, and a single session has   *)
(* the rows of its two members (of one user twice when he befriended       *)
(* himself) or none: joins of the two tables lose nothing.                 *)
SessionsWellFormed ==
  /\ \A r \in member : chat_session[r[1]] # "none"
  /\ \A s \in SessionId : chat_session[s] = "single" =>
       \/ RowsOf(s) = {}
       \/ \E u, p \in User : RowsOf(s) = {<<s, u>>, <<s, p>>}

Quiet(pair) == \A w \in Worker : ~ WorksOn(w, pair)

NoApplication(u, p) == <<u, p>> \notin friend_apply /\ <<p, u>> \notin friend_apply
ShareOneSession(u, p) == \E s \in SessionId : SingleSessions(u, p) = {s}

Strangers(u, p) ==
  /\ <<u, p>> \notin relation
  /\ SingleSessions(u, p) = {}
  /\ <<u, p>> \notin friend_apply \/ <<p, u>> \notin friend_apply

Friends(u, p) ==
  /\ <<u, p>> \in relation
  /\ ShareOneSession(u, p)
  /\ NoApplication(u, p)

(* Four tables agree about a pair that no request is working on: strangers *)
(* share no single session and at most one of them has applied; friends    *)
(* share exactly one and no application is left.  It may only be otherwise *)
(* after an unusual request or after a failure half way through one.       *)
PairConsistent == \A u, p \in User :
  u # p /\ {u, p} \notin disturbed /\ Quiet({u, p}) => Strangers(u, p) \/ Friends(u, p)

(* The service does not abort in FriendRemove unless something unusual     *)
(* happened to the pair before: ChatSessionTable::remove finds its session *)
(* (mysql_chat_session.hpp:45).                                            *)
RemoveFindsSession == \A w \in Worker :
  pc[w] = "unsession" /\ About(w) \notin disturbed =>
    ShareOneSession(job[w].uid, job[w].pid)

(* A group, also one of exactly two friends, outlives their friendship:    *)
(* no request of this service removes it or one of its members.            *)
GroupsStay == [][\A s \in SessionId : chat_session[s] = "group" =>
                   chat_session'[s] = "group" /\ RowsOf(s) \subseteq member']_vars

=============================================================================
