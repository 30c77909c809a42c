------------------------ MODULE FriendServiceProofs ------------------------
(***************************************************************************)
(* Proofs about FriendService, for any numbers of users, handlers and      *)
(* sessions.                                                               *)
(*                                                                         *)
(* PairConsistent speaks about pairs no request is working on; to keep it, *)
(* the invariant says what holds at every stage of a request about an      *)
(* undisturbed pair (Stage), and that such a pair has one request (Alone). *)
(* A step of one request leaves all other pairs as they are: that is lemma *)
(* StepKeepsPairs, and the proof of each action shows its hypotheses.      *)
(***************************************************************************)
EXTENDS FriendService, TLAPS

TablesTyped ==
  /\ relation \subseteq User \X User
  /\ friend_apply \subseteq User \X User
  /\ chat_session \in [SessionId -> {"none", "single", "group"}]
  /\ member \subseteq SessionId \X User
  /\ disturbed \subseteq Pairs

Ops == PairOps \cup {"create", "none"}
Places == {"idle", "related?", "waiting?", "apply", "applied?", "answer", "relate",
           "session", "member", "unrelate", "unsession"}
Requests == [op : Ops, uid : User \cup {None}, pid : User \cup {None},
             list : SUBSET User, cssid : SessionId \cup {None}]

JobsTyped ==
  /\ pc \in [Worker -> Places]
  /\ job \in [Worker -> Requests]

PlacesOf(op) ==
  CASE op = "add"    -> {"related?", "waiting?", "apply"}
    [] op = "agree"  -> {"applied?", "answer", "relate", "session", "member"}
    [] op = "refuse" -> {"applied?", "answer"}
    [] op = "remove" -> {"unrelate", "unsession"}
    [] op = "create" -> {"session", "member"}
    [] OTHER         -> {}

(* A busy worker has a request of a kind that gets to its place, and a     *)
(* request about a pair has its users.                                     *)
JobsFit == \A w \in Worker : ~ Idle(w) =>
  /\ pc[w] \in PlacesOf(job[w].op)
  /\ job[w].op \in PairOps => job[w].uid \in User /\ job[w].pid \in User

(* A session between its two inserts exists, has no members, and belongs   *)
(* to one request.                                                         *)
Pending == \A w \in Worker : pc[w] = "member" =>
  /\ job[w].cssid \in SessionId
  /\ chat_session[job[w].cssid] = Type(job[w])
  /\ RowsOf(job[w].cssid) = {}
  /\ \A v \in Worker : pc[v] = "member" /\ v # w => job[v].cssid # job[w].cssid

(* The table's insert and remove write both rows.                          *)
BothRows == \A r \in relation : <<r[2], r[1]>> \in relation

(* Worker w handles a request about a pair. *)
OnPair(w) == ~ Idle(w) /\ job[w].op \in PairOps

Alone == \A v, w \in Worker :
  v # w /\ OnPair(v) /\ OnPair(w) /\ About(v) = About(w) => About(w) \in disturbed

Consistent(u, p) == Strangers(u, p) \/ Friends(u, p)

(* What holds about the pair <<u, p>> when a request is at a place. *)
StageAt(place, u, p) ==
  /\ place = "related?" => Consistent(u, p) /\ <<p, u>> \notin friend_apply
  /\ place \in {"waiting?", "apply"} => Strangers(u, p) /\ <<p, u>> \notin friend_apply
  /\ place = "applied?" => Consistent(u, p)
  /\ place = "answer" => Strangers(u, p) /\ <<p, u>> \in friend_apply
  /\ place = "relate" => Strangers(u, p) /\ NoApplication(u, p)
  /\ place \in {"session", "member"} =>
       <<u, p>> \in relation /\ SingleSessions(u, p) = {} /\ NoApplication(u, p)
  /\ place = "unrelate" => Friends(u, p)
  /\ place = "unsession" =>
       <<u, p>> \notin relation /\ ShareOneSession(u, p) /\ NoApplication(u, p)
  /\ place = "idle" => Consistent(u, p)

(* A request about an undisturbed pair is about two users. *)
Stage(w) ==
  /\ job[w].uid # job[w].pid
  /\ StageAt(pc[w], job[w].uid, job[w].pid)

Working == \A w \in Worker : OnPair(w) /\ About(w) \notin disturbed => Stage(w)

IInv ==
  /\ TablesTyped /\ JobsTyped /\ JobsFit /\ Pending
  /\ BothRows /\ SessionsWellFormed
  /\ Alone /\ Working /\ PairConsistent

-----------------------------------------------------------------------------
(* The two users of a pair have the same standing.                         *)
LEMMA Symmetric ==
  ASSUME BothRows, NEW u \in User, NEW p \in User, Consistent(u, p)
  PROVE  Consistent(p, u)
  <1>1. SingleSessions(u, p) = SingleSessions(p, u)  BY DEF SingleSessions
  <1>2. <<u, p>> \in relation <=> <<p, u>> \in relation  BY DEF BothRows
  <1> QED  BY <1>1, <1>2 DEF Consistent, Strangers, Friends, ShareOneSession, NoApplication

LEMMA SymmetricNext ==
  ASSUME BothRows', NEW u \in User, NEW p \in User, Consistent(u, p)'
  PROVE  Consistent(p, u)'
  <1>1. SingleSessions(u, p)' = SingleSessions(p, u)'  BY DEF SingleSessions
  <1>2. <<u, p>> \in relation' <=> <<p, u>> \in relation'  BY DEF BothRows
  <1> QED  BY <1>1, <1>2 DEF Consistent, Strangers, Friends, ShareOneSession, NoApplication

LEMMA NoRequestTyped == NoRequest \in Requests
  BY DEF NoRequest, Request, Requests, Ops

(* A step leaves what the tables say about two users as it is.             *)
SamePair(u, p) ==
  /\ <<u, p>> \in relation' <=> <<u, p>> \in relation
  /\ <<u, p>> \in friend_apply' <=> <<u, p>> \in friend_apply
  /\ <<p, u>> \in friend_apply' <=> <<p, u>> \in friend_apply
  /\ SingleSessions(u, p)' = SingleSessions(u, p)

LEMMA SameStage ==
  ASSUME NEW u, NEW p, NEW place, SamePair(u, p), StageAt(place, u, p)
  PROVE  StageAt(place, u, p)'
  BY DEF SamePair, StageAt, Consistent, Strangers, Friends, ShareOneSession, NoApplication

Others(w) == \A v \in Worker \ {w} : pc'[v] = pc[v] /\ job'[v] = job[v]

(* A step of worker w keeps the promises about all pairs if it changes     *)
(* nothing for other pairs than its own and brings its own pair to its     *)
(* next stage, or leaves it consistent.                                    *)
LEMMA StepKeepsPairs ==
  ASSUME IInv, BothRows', NEW w \in Worker, Others(w), disturbed \subseteq disturbed',
         \A a, b \in User :
           a # b /\ ~ (OnPair(w) /\ About(w) = {a, b}) /\ {a, b} \notin disturbed' => SamePair(a, b),
         JobsFit',
         OnPair(w)' /\ About(w)' \notin disturbed' =>
           /\ Stage(w)'
           /\ \A v \in Worker \ {w} : OnPair(v) => About(v) # About(w)',
         \A a, b \in User :
           a # b /\ OnPair(w) /\ About(w) = {a, b} /\ {a, b} \notin disturbed' /\ ~ OnPair(w)' =>
             Consistent(a, b)',
         OnPair(w) /\ OnPair(w)' => About(w)' = About(w)
  PROVE  Alone' /\ Working' /\ PairConsistent'
  <1>1. \A v \in Worker \ {w} : (OnPair(v)' <=> OnPair(v)) /\ About(v)' = About(v)
    BY DEF Others, OnPair, About, Idle
  <1>2. Alone'
    BY <1>1 DEF Alone, IInv
  <1>3. Working'
    <2> SUFFICES ASSUME NEW v \in Worker, OnPair(v)', About(v)' \notin disturbed'
                 PROVE  Stage(v)'
      BY DEF Working
    <2>1. CASE v = w  BY <2>1
    <2>2. CASE v # w
      <3>1. OnPair(v) /\ About(v) \notin disturbed /\ About(v)' = About(v)  BY <1>1, <2>2
      <3>2. Stage(v)  BY <3>1 DEF IInv, Working
      <3>3. /\ job[v].uid \in User /\ job[v].pid \in User /\ job[v].uid # job[v].pid
            /\ About(v) = {job[v].uid, job[v].pid}
        BY <3>1, <3>2 DEF IInv, JobsFit, OnPair, About, Stage
      <3>4. ~ (OnPair(w) /\ About(w) = About(v))  BY <3>1, <2>2 DEF IInv, Alone
      <3>5. SamePair(job[v].uid, job[v].pid)  BY <3>1, <3>3, <3>4
      <3>6. pc'[v] = pc[v] /\ job'[v] = job[v]  BY <2>2 DEF Others
      <3>7. StageAt(pc[v], job[v].uid, job[v].pid)  BY <3>2 DEF Stage
      <3> DEFINE u == job[v].uid  p == job[v].pid  place == pc[v]
      <3>8. \A a, b, c : SamePair(a, b) /\ StageAt(c, a, b) => StageAt(c, a, b)'
        BY SameStage
      <3>9. \A a, b, c : a = job'[v].uid /\ b = job'[v].pid /\ c = pc'[v] =>
              (Stage(v)' <=> a # b /\ StageAt(c, a, b)')
        BY DEF Stage
      <3> QED  BY <3>3, <3>5, <3>6, <3>7, <3>8, <3>9
    <2> QED  BY <2>1, <2>2
  <1>4. PairConsistent'
    <2> SUFFICES ASSUME NEW u \in User, NEW p \in User,
                        u # p, {u, p} \notin disturbed', Quiet({u, p})'
                 PROVE  Consistent(u, p)'
      BY DEF PairConsistent, Consistent
    <2>1. CASE OnPair(w) /\ About(w) = {u, p}
      <3>1. ~ OnPair(w)'  BY <2>1 DEF Quiet, WorksOn, OnPair, Idle
      <3> QED  BY <2>1, <3>1
    <2>2. CASE ~ (OnPair(w) /\ About(w) = {u, p})
      <3>1. SamePair(u, p)  BY <2>2
      <3>2. Quiet({u, p})
        BY <2>2, <1>1 DEF Quiet, WorksOn, OnPair, Idle
      <3>3. Consistent(u, p)  BY <3>2 DEF IInv, PairConsistent, Consistent
      <3> QED  BY <3>1, <3>3 DEF SamePair, Consistent, Strangers, Friends, ShareOneSession, NoApplication
    <2> QED  BY <2>1, <2>2
  <1> QED  BY <1>2, <1>3, <1>4

(* A worker goes to place with request j.                                  *)
Moves(w, place, j) ==
  /\ pc' = [pc EXCEPT ![w] = place]
  /\ job' = [job EXCEPT ![w] = j]

LEMMA JobMoves ==
  ASSUME JobsTyped, JobsFit, NEW w \in Worker, NEW place \in Places, NEW j \in Requests,
         Moves(w, place, j),
         place # "idle" =>
           /\ place \in PlacesOf(j.op)
           /\ j.op \in PairOps => j.uid \in User /\ j.pid \in User
  PROVE  /\ JobsTyped' /\ JobsFit' /\ Others(w)
         /\ pc'[w] = place /\ job'[w] = j
  <1>1. pc'[w] = place /\ job'[w] = j  BY DEF JobsTyped, Moves
  <1>2. JobsTyped'  BY DEF JobsTyped, Moves
  <1>3. Others(w)  BY DEF JobsTyped, Moves, Others
  <1>4. JobsFit'
    <2> SUFFICES ASSUME NEW v \in Worker, ~ Idle(v)'
                 PROVE  (/\ pc[v] \in PlacesOf(job[v].op)
                         /\ job[v].op \in PairOps =>
                              job[v].uid \in User /\ job[v].pid \in User)'
      BY DEF JobsFit
    <2>1. CASE v = w  BY <1>1, <2>1 DEF Idle, PlacesOf, PairOps
    <2>2. CASE v # w
      <3>1. pc'[v] = pc[v] /\ job'[v] = job[v]  BY <1>3, <2>2 DEF Others
      <3> QED  BY <3>1 DEF JobsFit, Idle, PlacesOf, PairOps
    <2> QED  BY <2>1, <2>2
  <1> QED  BY <1>1, <1>2, <1>3, <1>4

SameSessions == \A u, p : SingleSessions(u, p)' = SingleSessions(u, p)

(* A worker that stays out of the place between the two inserts, while     *)
(* sessions and members stay as they are.                                  *)
LEMMA SessionsStay ==
  ASSUME Pending, SessionsWellFormed, NEW w \in Worker, Others(w),
         pc'[w] # "member", UNCHANGED <<chat_session, member>>
  PROVE  /\ Pending' /\ SessionsWellFormed'
         /\ SameSessions
  <1>1. SessionsWellFormed'  BY DEF SessionsWellFormed, RowsOf
  <1>2. SameSessions  BY DEF SameSessions, SingleSessions
  <1>3. Pending'
    <2>1. \A v \in Worker : pc'[v] = "member" => v # w /\ pc[v] = "member" /\ job'[v] = job[v]
      BY DEF Others
    <2> QED  BY <2>1 DEF Pending, RowsOf, Type
  <1> QED  BY <1>1, <1>2, <1>3

(* A step of a request about u and p brings it to place, now with data j,  *)
(* keeps the tables sound and does nothing to other pairs.                 *)
NextStage(w, u, p, place, j) ==
  /\ OnPair(w) /\ u \in User /\ p \in User /\ u = job[w].uid /\ p = job[w].pid
  /\ place \in Places /\ j \in Requests /\ Moves(w, place, j)
  /\ place # "idle" =>
       place \in PlacesOf(j.op) /\ j.op = job[w].op /\ j.uid = u /\ j.pid = p
  /\ disturbed \subseteq disturbed'
  /\ TablesTyped' /\ BothRows' /\ Pending' /\ SessionsWellFormed'
  /\ \A a, b \in User : a # b /\ {a, b} # {u, p} /\ {a, b} \notin disturbed' => SamePair(a, b)
  /\ {u, p} \notin disturbed' => StageAt(place, u, p)'

LEMMA PairStep ==
  ASSUME IInv, NEW w \in Worker, NEW u, NEW p, NEW place, NEW j,
         NextStage(w, u, p, place, j)
  PROVE  IInv'
  <1> USE DEF NextStage
  <1>0. About(w) = {u, p} /\ ({u, p} \notin disturbed' => u # p)
    BY DEF IInv, OnPair, About, Working, Stage
  <1>1. JobsTyped' /\ JobsFit' /\ Others(w) /\ pc'[w] = place /\ job'[w] = j
    BY <1>0, JobMoves DEF IInv, OnPair
  <1>2. OnPair(w)' => place # "idle" /\ About(w)' = {u, p}
    BY <1>1 DEF OnPair, Idle, About
  <1>3. OnPair(w)' /\ About(w)' \notin disturbed' => Stage(w)'
    <2> SUFFICES ASSUME OnPair(w)', {u, p} \notin disturbed'
                 PROVE  Stage(w)'
      BY <1>2
    <2>1. pc'[w] = place /\ job'[w].uid = u /\ job'[w].pid = p  BY <1>1, <1>2
    <2>2. StageAt(place, u, p)'  OBVIOUS
    <2>3. u # p  BY <1>0
    <2> QED  BY <2>1, <2>2, <2>3 DEF Stage
  <1>4. \A v \in Worker \ {w} : OnPair(w)' /\ About(w)' \notin disturbed' /\ OnPair(v) =>
          About(v) # About(w)'
    BY <1>0, <1>2 DEF IInv, Alone
  <1>5. \A a, b \in User :
          a # b /\ {a, b} = {u, p} /\ {a, b} \notin disturbed' /\ ~ OnPair(w)' => Consistent(a, b)'
    <2> SUFFICES ASSUME NEW a \in User, NEW b \in User, a # b, {a, b} = {u, p},
                        {u, p} \notin disturbed', ~ OnPair(w)'
                 PROVE  Consistent(a, b)'
      OBVIOUS
    <2>1. place = "idle"
      BY <1>1 DEF OnPair, Idle
    <2>2. StageAt(place, u, p)'  OBVIOUS
    <2>3. Consistent(u, p)'  BY <2>1, <2>2 DEF StageAt
    <2>4. Consistent(p, u)'  BY <2>3, SymmetricNext
    <2>5. (a = u /\ b = p) \/ (a = p /\ b = u)  OBVIOUS
    <2> QED  BY <2>3, <2>4, <2>5
  <1>6. Alone' /\ Working' /\ PairConsistent'
    <2> HIDE DEF IInv
    <2>1. \A a, b \in User :
            a # b /\ ~ (OnPair(w) /\ About(w) = {a, b}) /\ {a, b} \notin disturbed' => SamePair(a, b)
      BY <1>0
    <2>2. disturbed \subseteq disturbed'  OBVIOUS
    <2> QED  BY <1>0, <1>1, <1>2, <1>3, <1>4, <1>5, <2>1, <2>2, StepKeepsPairs
  <1> QED  BY <1>1, <1>6 DEF IInv

(* What the place of a request tells about it.                             *)
LEMMA PlaceTellsKind ==
  ASSUME JobsTyped, JobsFit, NEW w \in Worker, ~ Idle(w)
  PROVE  /\ pc[w] \in {"related?", "waiting?", "apply"} => job[w].op = "add"
         /\ pc[w] \in {"applied?", "answer"} => job[w].op \in {"agree", "refuse"}
         /\ pc[w] = "relate" => job[w].op = "agree"
         /\ pc[w] \in {"session", "member"} => job[w].op \in {"agree", "create"}
         /\ pc[w] \in {"unrelate", "unsession"} => job[w].op = "remove"
         /\ OnPair(w) <=> job[w].op # "create"
         /\ OnPair(w) => job[w].uid \in User /\ job[w].pid \in User
  <1>1. pc[w] \in PlacesOf(job[w].op) /\ job[w].op \in Ops
    BY DEF JobsTyped, JobsFit, Requests
  <1>2. job[w].op \in {"add", "agree", "refuse", "remove", "create"}
    BY <1>1 DEF PlacesOf, Ops, PairOps
  <1>3. OnPair(w) <=> job[w].op # "create"
    BY <1>2 DEF OnPair, PairOps
  <1>4. OnPair(w) => job[w].uid \in User /\ job[w].pid \in User
    BY DEF JobsFit, OnPair
  <1>5. CASE job[w].op = "add"  BY <1>1, <1>3, <1>4, <1>5 DEF PlacesOf
  <1>6. CASE job[w].op = "agree"  BY <1>1, <1>3, <1>4, <1>6 DEF PlacesOf
  <1>7. CASE job[w].op = "refuse"  BY <1>1, <1>3, <1>4, <1>7 DEF PlacesOf
  <1>8. CASE job[w].op = "remove"  BY <1>1, <1>3, <1>4, <1>8 DEF PlacesOf
  <1>9. CASE job[w].op = "create"  BY <1>1, <1>3, <1>4, <1>9 DEF PlacesOf
  <1> QED  BY <1>2, <1>5, <1>6, <1>7, <1>8, <1>9

LEMMA GoesOn ==
  ASSUME JobsTyped, NEW w \in Worker, NEW place, GoOn(w, place)
  PROVE  Moves(w, place, job[w]) /\ job[w] \in Requests
  BY DEF JobsTyped, GoOn, GoTo, Moves

LEMMA Finishes ==
  ASSUME NEW w \in Worker, Finish(w)
  PROVE  Moves(w, "idle", NoRequest) /\ NoRequest \in Requests
  BY NoRequestTyped DEF Finish, GoTo, Moves

(* A step of a request about a pair that leaves the tables as they are.    *)
LEMMA QueryStep ==
  ASSUME IInv, NEW w \in Worker, OnPair(w),
         NEW place \in Places, NEW j \in Requests, Moves(w, place, j),
         place # "member",
         place # "idle" => place \in PlacesOf(job[w].op) /\ j = job[w],
         UNCHANGED <<relation, friend_apply, chat_session, member>>,
         disturbed' \in {disturbed, disturbed \cup {About(w)}},
         About(w) \notin disturbed' => StageAt(place, job[w].uid, job[w].pid)
  PROVE  IInv'
  <1> DEFINE u == job[w].uid  p == job[w].pid
  <1>0. u \in User /\ p \in User /\ About(w) = {u, p}
    BY DEF IInv, JobsFit, OnPair, About
  <1>1. TablesTyped'
    <2>1. {u, p} \in Pairs  BY <1>0 DEF Pairs
    <2> QED  BY <1>0, <2>1 DEF IInv, TablesTyped
  <1>2. BothRows'  BY DEF IInv, BothRows
  <1>3. Others(w) /\ pc'[w] # "member"  BY DEF IInv, JobsTyped, Moves, Others
  <1>4. /\ Pending' /\ SessionsWellFormed'
        /\ SameSessions
    BY <1>3, SessionsStay DEF IInv
  <1>5. \A a, b : SamePair(a, b)  BY <1>4 DEF SamePair, SameSessions
  <1>6. \A a, b, c : StageAt(c, a, b) => StageAt(c, a, b)'
    BY <1>5, SameStage
  <1>7. ASSUME NEW a \in User, NEW b \in User, a = u, b = p  PROVE IInv'
    <2>1. {a, b} \notin disturbed' => StageAt(place, a, b)'
      <3>1. {a, b} \notin disturbed' => StageAt(place, u, p)
        BY <1>0, <1>7
      <3> QED  BY <3>1, <1>6, <1>7
    <2>2. /\ a = job[w].uid /\ b = job[w].pid
          /\ disturbed \subseteq disturbed'
          /\ place # "idle" =>
               place \in PlacesOf(j.op) /\ j.op = job[w].op /\ j.uid = a /\ j.pid = b
      BY <1>0, <1>7
    <2> HIDE DEF u, p, IInv
    <2>3. NextStage(w, a, b, place, j)
      BY <1>1, <1>2, <1>4, <1>5, <2>1, <2>2 DEF NextStage
    <2> QED  BY <2>3, PairStep
  <1> QED  BY <1>0, <1>7

-----------------------------------------------------------------------------
(* The actions of a request that only ask.                                 *)

LEMMA QueryGoesOn ==
  ASSUME IInv, NEW w \in Worker, OnPair(w),
         NEW place \in Places, place \notin {"idle", "member"}, GoOn(w, place),
         place \in PlacesOf(job[w].op),
         UNCHANGED <<relation, friend_apply, chat_session, member>>,
         disturbed' \in {disturbed, disturbed \cup {About(w)}},
         About(w) \notin disturbed' => StageAt(place, job[w].uid, job[w].pid)
  PROVE  IInv'
  <1>1. Moves(w, place, job[w]) /\ job[w] \in Requests  BY GoesOn DEF IInv
  <1> QED  BY <1>1, QueryStep

LEMMA QueryFinishes ==
  ASSUME IInv, NEW w \in Worker, OnPair(w), Finish(w),
         UNCHANGED <<relation, friend_apply, chat_session, member>>,
         disturbed' \in {disturbed, disturbed \cup {About(w)}},
         About(w) \notin disturbed' => Consistent(job[w].uid, job[w].pid)
  PROVE  IInv'
  <1>1. Moves(w, "idle", NoRequest) /\ NoRequest \in Requests  BY Finishes
  <1>2. About(w) \notin disturbed' => StageAt("idle", job[w].uid, job[w].pid)
    BY DEF StageAt
  <1>3. "idle" \in Places  BY DEF Places
  <1> QED  BY <1>1, <1>2, <1>3, QueryStep

LEMMA Queries ==
  ASSUME IInv, NEW w \in Worker,
         \/ AddRelated(w) \/ AddUnrelated(w) \/ AddQueryFails(w)
         \/ AddWaiting(w) \/ AddNotWaiting(w) \/ ApplyFound(w) \/ ApplyMissing(w)
  PROVE  IInv'
  <1> USE DEF At
  <1>0. JobsTyped /\ JobsFit /\ BothRows  BY DEF IInv
  <1>1. /\ pc[w] \in {"related?", "waiting?", "applied?"} /\ OnPair(w)
        /\ pc[w] \in {"related?", "waiting?"} => job[w].op = "add"
        /\ pc[w] = "applied?" => job[w].op \in {"agree", "refuse"}
        /\ job[w].uid \in User /\ job[w].pid \in User
    <2>1. pc[w] \in {"related?", "waiting?", "applied?"}
      BY DEF AddRelated, AddUnrelated, AddQueryFails, AddWaiting, AddNotWaiting, ApplyFound, ApplyMissing
    <2>2. ~ Idle(w)  BY <2>1 DEF Idle
    <2> QED  BY <1>0, <2>1, <2>2, PlaceTellsKind
  <1>2. About(w) \notin disturbed => StageAt(pc[w], job[w].uid, job[w].pid)
    BY <1>1 DEF IInv, Working, Stage
  <1>3. {"waiting?", "apply", "answer"} \subseteq Places  BY DEF Places
  <1>4. CASE AddRelated(w)
    <2>1. About(w) \notin disturbed => Consistent(job[w].uid, job[w].pid)
      BY <1>2, <1>4 DEF AddRelated, StageAt
    <2> QED  BY <1>1, <1>4, <2>1, QueryFinishes DEF AddRelated
  <1>5. CASE AddUnrelated(w)
    <2>1. About(w) \notin disturbed => StageAt("waiting?", job[w].uid, job[w].pid)
      BY <1>2, <1>5 DEF AddUnrelated, StageAt, Consistent, Friends, Asked
    <2>2. "waiting?" \in PlacesOf(job[w].op)  BY <1>1, <1>5 DEF AddUnrelated, PlacesOf
    <2> QED  BY <1>1, <1>3, <1>5, <2>1, <2>2, QueryGoesOn DEF AddUnrelated
  <1>6. CASE AddQueryFails(w)
    <2>1. "waiting?" \in PlacesOf(job[w].op)  BY <1>1, <1>6 DEF AddQueryFails, PlacesOf
    <2>2. disturbed' = disturbed \cup {About(w)}  BY <1>6 DEF AddQueryFails, Disturb
    <2> QED  BY <1>1, <1>3, <1>6, <2>1, <2>2, QueryGoesOn DEF AddQueryFails
  <1>7. CASE AddWaiting(w)
    <2>1. About(w) \notin disturbed => Consistent(job[w].uid, job[w].pid)
      BY <1>2, <1>7 DEF AddWaiting, StageAt, Consistent
    <2> QED  BY <1>1, <1>7, <2>1, QueryFinishes DEF AddWaiting
  <1>8. CASE AddNotWaiting(w)
    <2>1. About(w) \notin disturbed => StageAt("apply", job[w].uid, job[w].pid)
      BY <1>2, <1>8 DEF AddNotWaiting, StageAt
    <2>2. "apply" \in PlacesOf(job[w].op)  BY <1>1, <1>8 DEF AddNotWaiting, PlacesOf
    <2> QED  BY <1>1, <1>3, <1>8, <2>1, <2>2, QueryGoesOn DEF AddNotWaiting
  <1>9. CASE ApplyFound(w)
    <2>1. About(w) \notin disturbed => StageAt("answer", job[w].uid, job[w].pid)
      BY <1>2, <1>9 DEF ApplyFound, StageAt, Consistent, Friends, NoApplication, Answered
    <2>2. "answer" \in PlacesOf(job[w].op)  BY <1>1, <1>9 DEF ApplyFound, PlacesOf
    <2> QED  BY <1>1, <1>3, <1>9, <2>1, <2>2, QueryGoesOn DEF ApplyFound
  <1>10. CASE ApplyMissing(w)
    <2>1. About(w) \notin disturbed => Consistent(job[w].uid, job[w].pid)
      BY <1>2, <1>10 DEF ApplyMissing, StageAt
    <2> QED  BY <1>1, <1>10, <2>1, QueryFinishes DEF ApplyMissing
  <1> QED  BY <1>4, <1>5, <1>6, <1>7, <1>8, <1>9, <1>10

-----------------------------------------------------------------------------
(* The actions of a request about a pair that change the tables.           *)

(* What is known when such a request is at place.                          *)
LEMMA AtPlace ==
  ASSUME IInv, NEW w \in Worker, NEW place, At(w, place),
         \/ place \in {"apply", "answer", "relate", "unrelate", "unsession"}
         \/ place \in {"session", "member"} /\ job[w].op # "create"
  PROVE  /\ OnPair(w)
         /\ About(w) = {job[w].uid, job[w].pid}
         /\ job[w].uid \in User /\ job[w].pid \in User
         /\ {job[w].uid, job[w].pid} \in Pairs
         /\ About(w) \notin disturbed =>
              job[w].uid # job[w].pid /\ StageAt(place, job[w].uid, job[w].pid)
  <1>1. ~ Idle(w) /\ pc[w] = place  BY DEF At, Idle
  <1>2. OnPair(w)  BY <1>1, PlaceTellsKind DEF IInv
  <1>3. job[w].uid \in User /\ job[w].pid \in User
    BY <1>1, <1>2, PlaceTellsKind DEF IInv
  <1>4. {job[w].uid, job[w].pid} \in Pairs  BY <1>3 DEF Pairs
  <1> QED  BY <1>1, <1>2, <1>3, <1>4 DEF IInv, Working, Stage, About

(* Rows about u and p change, the sessions stay.                           *)
RowsChange(u, p) ==
  /\ relation' \in {relation, relation \cup BothWays(u, p), relation \ BothWays(u, p)}
  /\ friend_apply' \in {friend_apply, friend_apply \cup {<<u, p>>}, friend_apply \ {<<p, u>>}}
  /\ UNCHANGED <<chat_session, member, disturbed>>

LEMMA RowStep ==
  ASSUME IInv, NEW w \in Worker, OnPair(w),
         NEW u \in User, NEW p \in User, u = job[w].uid, p = job[w].pid,
         NEW place \in Places, NEW j \in Requests, Moves(w, place, j), place # "member",
         place # "idle" => place \in PlacesOf(job[w].op) /\ j = job[w],
         RowsChange(u, p),
         SameSessions /\ {u, p} \notin disturbed =>
           StageAt(place, u, p)'
  PROVE  IInv'
  <1>1. TablesTyped'  BY DEF IInv, TablesTyped, BothWays, RowsChange
  <1>2. BothRows'
    <2>1. relation \subseteq User \X User /\ BothRows  BY DEF IInv, TablesTyped
    <2>2. CASE relation' = relation  BY <2>1, <2>2 DEF BothRows
    <2>3. CASE relation' = relation \cup BothWays(u, p)
      <3> SUFFICES ASSUME NEW r \in relation'
                   PROVE  <<r[2], r[1]>> \in relation'
        BY DEF BothRows
      <3>1. CASE r \in relation  BY <2>1, <2>3, <3>1 DEF BothRows
      <3>2. CASE r = <<u, p>>  BY <2>3, <3>2 DEF BothWays
      <3>3. CASE r = <<p, u>>  BY <2>3, <3>3 DEF BothWays
      <3> QED  BY <2>3, <3>1, <3>2, <3>3 DEF BothWays
    <2>4. CASE relation' = relation \ BothWays(u, p)
      <3> SUFFICES ASSUME NEW r \in relation'
                   PROVE  <<r[2], r[1]>> \in relation'
        BY DEF BothRows
      <3>1. r \in relation /\ r # <<u, p>> /\ r # <<p, u>>  BY <2>4 DEF BothWays
      <3>2. r = <<r[1], r[2]>>  BY <2>1, <3>1
      <3>3. <<r[2], r[1]>> # <<u, p>> /\ <<r[2], r[1]>> # <<p, u>>  BY <3>1, <3>2
      <3> QED  BY <2>1, <2>4, <3>1, <3>3 DEF BothRows, BothWays
    <2> QED  BY <2>2, <2>3, <2>4 DEF RowsChange
  <1>3. Others(w) /\ pc'[w] # "member"  BY DEF IInv, JobsTyped, Moves, Others
  <1>4. /\ Pending' /\ SessionsWellFormed'
        /\ SameSessions
    BY <1>3, SessionsStay DEF IInv, RowsChange
  <1>5. \A a, b \in User : a # b /\ {a, b} # {u, p} => SamePair(a, b)
    <2> SUFFICES ASSUME NEW a \in User, NEW b \in User, a # b, {a, b} # {u, p}
                 PROVE  SamePair(a, b)
      OBVIOUS
    <2>1. <<a, b>> \notin BothWays(u, p)  BY DEF BothWays
    <2>2. <<a, b>> # <<u, p>> /\ <<a, b>> # <<p, u>> /\ <<b, a>> # <<u, p>> /\ <<b, a>> # <<p, u>>
      OBVIOUS
    <2> QED  BY <1>4, <2>1, <2>2 DEF SamePair, RowsChange, SameSessions
  <1> HIDE DEF IInv
  <1>6. {u, p} \notin disturbed' => StageAt(place, u, p)'  BY <1>4 DEF RowsChange
  <1>7. place # "idle" => place \in PlacesOf(j.op) /\ j.op = job[w].op /\ j.uid = u /\ j.pid = p
    OBVIOUS
  <1>8. disturbed \subseteq disturbed'  BY DEF RowsChange
  <1>9. Pending' /\ SessionsWellFormed'  BY <1>4
  <1>10. NextStage(w, u, p, place, j)
    BY <1>1, <1>2, <1>5, <1>6, <1>7, <1>8, <1>9 DEF NextStage
  <1> QED  BY <1>10, PairStep

LEMMA ApplyInsertStep ==
  ASSUME IInv, NEW w \in Worker, ApplyInsert(w)  PROVE IInv'
  <1>0. /\ OnPair(w) /\ job[w].uid \in User /\ job[w].pid \in User
        /\ {job[w].uid, job[w].pid} \notin disturbed =>
             job[w].uid # job[w].pid /\ StageAt("apply", job[w].uid, job[w].pid)
    BY AtPlace DEF ApplyInsert
  <1>1. Moves(w, "idle", NoRequest) /\ NoRequest \in Requests /\ "idle" \in Places
    BY Finishes DEF ApplyInsert, Places
  <1>2. ASSUME NEW u \in User, NEW p \in User, u = job[w].uid, p = job[w].pid  PROVE IInv'
    <2>1. friend_apply' = friend_apply \cup {<<u, p>>} /\ UNCHANGED <<relation, chat_session, member, disturbed>>
      BY <1>2 DEF ApplyInsert, Asked
    <2>5. RowsChange(u, p)  BY <2>1 DEF RowsChange
    <2>2. ASSUME SameSessions, {u, p} \notin disturbed
          PROVE  StageAt("idle", u, p)'
      <3>1. Strangers(u, p) /\ <<p, u>> \notin friend_apply  BY <1>0, <1>2, <2>2 DEF StageAt
      <3>2. Strangers(u, p)'  BY <1>0, <1>2, <2>1, <2>2, <3>1 DEF Strangers, SameSessions
      <3> QED  BY <3>2 DEF StageAt, Consistent
    <2> QED  BY <1>0, <1>1, <1>2, <2>5, <2>2, RowStep
  <1> QED  BY <1>0, <1>2

LEMMA ApplyRemoveStep ==
  ASSUME IInv, NEW w \in Worker, ApplyRemove(w)  PROVE IInv'
  <1>0. /\ OnPair(w) /\ job[w].uid \in User /\ job[w].pid \in User
        /\ {job[w].uid, job[w].pid} \notin disturbed => StageAt("answer", job[w].uid, job[w].pid)
    BY AtPlace DEF ApplyRemove
  <1>1. ASSUME NEW u \in User, NEW p \in User, u = job[w].uid, p = job[w].pid  PROVE IInv'
    <2>1. friend_apply' = friend_apply \ {<<p, u>>} /\ UNCHANGED <<relation, chat_session, member, disturbed>>
      BY <1>1 DEF ApplyRemove, Answered
    <2>5. RowsChange(u, p)  BY <2>1 DEF RowsChange
    <2>2. ASSUME SameSessions, {u, p} \notin disturbed
          PROVE  StageAt("idle", u, p)' /\ StageAt("relate", u, p)'
      <3>1. Strangers(u, p) /\ <<p, u>> \in friend_apply  BY <1>0, <1>1, <2>2 DEF StageAt
      <3>2. Strangers(u, p)' /\ NoApplication(u, p)'
        BY <1>0, <1>1, <2>1, <2>2, <3>1 DEF Strangers, NoApplication, SameSessions
      <3> QED  BY <3>2 DEF StageAt, Consistent
    <2>3. CASE job[w].op = "agree"
      <3>1. Moves(w, "relate", job[w]) /\ job[w] \in Requests
        BY <2>3, GoesOn DEF ApplyRemove, IInv
      <3>2. "relate" \in Places /\ "relate" \in PlacesOf(job[w].op)  BY <2>3 DEF Places, PlacesOf
      <3> QED  BY <1>0, <1>1, <2>5, <2>2, <3>1, <3>2, RowStep
    <2>4. CASE job[w].op # "agree"
      <3>1. Moves(w, "idle", NoRequest) /\ NoRequest \in Requests /\ "idle" \in Places
        BY <2>4, Finishes DEF ApplyRemove, Places
      <3> QED  BY <1>0, <1>1, <2>5, <2>2, <3>1, RowStep
    <2> QED  BY <2>3, <2>4
  <1> QED  BY <1>0, <1>1

LEMMA RelationInsertStep ==
  ASSUME IInv, NEW w \in Worker, RelationInsert(w)  PROVE IInv'
  <1>0. /\ OnPair(w) /\ job[w].uid \in User /\ job[w].pid \in User
        /\ {job[w].uid, job[w].pid} \notin disturbed => StageAt("relate", job[w].uid, job[w].pid)
    BY AtPlace DEF RelationInsert
  <1>1. /\ Moves(w, "session", job[w]) /\ job[w] \in Requests
        /\ "session" \in Places /\ "session" \in PlacesOf(job[w].op)
    <2>1. ~ Idle(w) /\ pc[w] = "relate"  BY DEF RelationInsert, At, Idle
    <2>2. job[w].op = "agree"  BY <2>1, PlaceTellsKind DEF IInv
    <2> QED  BY <2>2, GoesOn DEF RelationInsert, IInv, Places, PlacesOf
  <1>2. ASSUME NEW u \in User, NEW p \in User, u = job[w].uid, p = job[w].pid  PROVE IInv'
    <2>1. relation' = relation \cup BothWays(u, p) /\ UNCHANGED <<friend_apply, chat_session, member, disturbed>>
      BY <1>2 DEF RelationInsert
    <2>5. RowsChange(u, p)  BY <2>1 DEF RowsChange
    <2>2. ASSUME SameSessions, {u, p} \notin disturbed
          PROVE  StageAt("session", u, p)'
      <3>1. Strangers(u, p) /\ NoApplication(u, p)  BY <1>0, <1>2, <2>2 DEF StageAt
      <3> QED  BY <2>1, <2>2, <3>1 DEF StageAt, Strangers, NoApplication, BothWays, SameSessions
    <2> QED  BY <1>0, <1>1, <1>2, <2>5, <2>2, RowStep
  <1> QED  BY <1>0, <1>2

LEMMA RelationRemoveStep ==
  ASSUME IInv, NEW w \in Worker, RelationRemove(w)  PROVE IInv'
  <1>0. /\ OnPair(w) /\ job[w].uid \in User /\ job[w].pid \in User
        /\ {job[w].uid, job[w].pid} \notin disturbed => StageAt("unrelate", job[w].uid, job[w].pid)
    BY AtPlace DEF RelationRemove
  <1>1. /\ Moves(w, "unsession", job[w]) /\ job[w] \in Requests
        /\ "unsession" \in Places /\ "unsession" \in PlacesOf(job[w].op)
    <2>1. ~ Idle(w) /\ pc[w] = "unrelate"  BY DEF RelationRemove, At, Idle
    <2>2. job[w].op = "remove"  BY <2>1, PlaceTellsKind DEF IInv
    <2> QED  BY <2>2, GoesOn DEF RelationRemove, IInv, Places, PlacesOf
  <1>2. ASSUME NEW u \in User, NEW p \in User, u = job[w].uid, p = job[w].pid  PROVE IInv'
    <2>1. relation' = relation \ BothWays(u, p) /\ UNCHANGED <<friend_apply, chat_session, member, disturbed>>
      BY <1>2 DEF RelationRemove
    <2>5. RowsChange(u, p)  BY <2>1 DEF RowsChange
    <2>2. ASSUME SameSessions, {u, p} \notin disturbed
          PROVE  StageAt("unsession", u, p)'
      <3>1. Friends(u, p)  BY <1>0, <1>2, <2>2 DEF StageAt
      <3> QED  BY <2>1, <2>2, <3>1 DEF StageAt, Friends, ShareOneSession, NoApplication, BothWays, SameSessions
    <2> QED  BY <1>0, <1>1, <1>2, <2>5, <2>2, RowStep
  <1> QED  BY <1>0, <1>2

-----------------------------------------------------------------------------
(* The actions that change sessions and members, and the requests that     *)
(* make a group.                                                           *)

LEMMA GroupStep ==
  ASSUME IInv, NEW w \in Worker, ~ OnPair(w), ~ OnPair(w)', Others(w),
         JobsTyped', JobsFit', TablesTyped', Pending', SessionsWellFormed',
         UNCHANGED <<relation, friend_apply, disturbed>>, SameSessions
  PROVE  IInv'
  <1>1. BothRows'  BY DEF IInv, BothRows
  <1>2. \A a, b : SamePair(a, b)  BY DEF SamePair, SameSessions
  <1>3. Alone' /\ Working' /\ PairConsistent'
    <2> HIDE DEF IInv
    <2>1. disturbed \subseteq disturbed'  OBVIOUS
    <2> QED  BY <1>1, <1>2, <2>1, StepKeepsPairs
  <1> QED  BY <1>1, <1>3 DEF IInv

(* A new session is nobody's session yet.                                  *)
LEMMA NewSession ==
  ASSUME IInv, NEW w \in Worker, Others(w), NEW s \in SessionId, Unused(s),
         pc'[w] = "member", job'[w] = Named(job[w], s),
         chat_session' = [chat_session EXCEPT ![s] = Type(job[w])], UNCHANGED member
  PROVE  Pending' /\ SessionsWellFormed' /\ SameSessions
  <1>1. chat_session[s] = "none" /\ RowsOf(s) = {}  BY DEF Unused
  <1>2. \A t \in SessionId : t # s => chat_session'[t] = chat_session[t]
    BY DEF IInv, TablesTyped
  <1>3. chat_session'[s] = Type(job[w])  BY DEF IInv, TablesTyped
  <1>4. \A t : RowsOf(t)' = RowsOf(t)  BY DEF RowsOf
  <1>5. \A u : <<s, u>> \notin member  BY <1>1 DEF RowsOf
  <1>6. SameSessions  BY <1>1, <1>2, <1>5 DEF SameSessions, SingleSessions
  <1>7. SessionsWellFormed'
    <2>1. \A r \in member : r[1] \in SessionId /\ r[1] # s
      BY <1>1 DEF IInv, TablesTyped, RowsOf
    <2>2. \A r \in member : chat_session'[r[1]] # "none"
      BY <2>1, <1>2 DEF IInv, SessionsWellFormed
    <2>3. \A t \in SessionId : chat_session'[t] = "single" =>
            \/ RowsOf(t) = {}
            \/ \E u, p \in User : RowsOf(t) = {<<t, u>>, <<t, p>>}
      BY <1>1, <1>2 DEF IInv, SessionsWellFormed
    <2> QED  BY <1>4, <2>2, <2>3 DEF SessionsWellFormed
  <1>8. Pending'
    <2>1. job'[w].cssid = s /\ Type(job'[w]) = Type(job[w])  BY DEF Named, Request, Type
    <2>2. \A v \in Worker \ {w} : pc'[v] = "member" =>
            /\ pc[v] = "member" /\ job'[v] = job[v]
            /\ job[v].cssid \in SessionId /\ job[v].cssid # s
            /\ chat_session'[job[v].cssid] = Type(job[v])
            /\ RowsOf(job[v].cssid) = {}
      BY <1>1, <1>2 DEF Others, IInv, Pending, Type
    <2> SUFFICES ASSUME NEW v \in Worker, pc'[v] = "member"
                 PROVE  (/\ job[v].cssid \in SessionId
                         /\ chat_session[job[v].cssid] = Type(job[v])
                         /\ RowsOf(job[v].cssid) = {}
                         /\ \A x \in Worker : pc[x] = "member" /\ x # v => job[x].cssid # job[v].cssid)'
      BY DEF Pending
    <2>3. CASE v = w
      <3>1. \A x \in Worker : pc'[x] = "member" /\ x # v => job'[x].cssid # job'[v].cssid
        BY <2>1, <2>2, <2>3
      <3>2. job'[v].cssid = s /\ chat_session'[s] = Type(job'[v])  BY <1>3, <2>1, <2>3
      <3> QED  BY <1>1, <1>4, <3>1, <3>2 DEF Type
    <2>4. CASE v # w
      <3>1. \A x \in Worker : pc'[x] = "member" /\ x # v => job'[x].cssid # job'[v].cssid
        BY <2>1, <2>2, <2>4 DEF IInv, Pending
      <3>2. /\ job'[v] = job[v] /\ job[v].cssid \in SessionId
            /\ chat_session'[job[v].cssid] = Type(job[v]) /\ RowsOf(job[v].cssid) = {}
        BY <2>2, <2>4
      <3> QED  BY <1>4, <3>1, <3>2 DEF Type
    <2> QED  BY <2>3, <2>4
  <1> QED  BY <1>6, <1>7, <1>8

LEMMA SessionInsertStep ==
  ASSUME IInv, NEW w \in Worker, SessionInsert(w)  PROVE IInv'
  <1>1. PICK s \in SessionId :
          /\ At(w, "session") /\ Unused(s)
          /\ chat_session' = [chat_session EXCEPT ![s] = Type(job[w])]
          /\ job' = [job EXCEPT ![w] = Named(job[w], s)]
          /\ GoTo(w, "member")
          /\ UNCHANGED <<relation, friend_apply, member, disturbed>>
    BY DEF SessionInsert
  <1>2. ~ Idle(w) /\ pc[w] = "session" /\ job[w].op \in {"agree", "create"}
    <2>1. ~ Idle(w) /\ pc[w] = "session"  BY <1>1 DEF At, Idle
    <2> QED  BY <2>1, PlaceTellsKind DEF IInv
  <1>3. Named(job[w], s) \in Requests /\ "member" \in Places
    <2>1. job[w] \in Requests  BY DEF IInv, JobsTyped
    <2> QED  BY <2>1 DEF Named, Request, Requests, Places
  <1>4. Moves(w, "member", Named(job[w], s))  BY <1>1 DEF GoTo, Moves
  <1>5. /\ "member" \in PlacesOf(Named(job[w], s).op)
        /\ Named(job[w], s).op = job[w].op
        /\ Named(job[w], s).uid = job[w].uid /\ Named(job[w], s).pid = job[w].pid
    BY <1>2 DEF PlacesOf, Named, Request
  <1>6. /\ JobsTyped' /\ JobsFit' /\ Others(w)
        /\ pc'[w] = "member" /\ job'[w] = Named(job[w], s)
    <2>1. job[w].op \in PairOps => job[w].uid \in User /\ job[w].pid \in User
      BY <1>2 DEF IInv, JobsFit
    <2> QED  BY <1>3, <1>4, <1>5, <2>1, JobMoves DEF IInv
  <1>7. Pending' /\ SessionsWellFormed' /\ SameSessions
    BY <1>1, <1>6, NewSession
  <1>8. TablesTyped'  BY <1>1 DEF IInv, TablesTyped, Type
  <1>9. CASE job[w].op = "create"
    <2>1. ~ OnPair(w) /\ ~ OnPair(w)'  BY <1>5, <1>6, <1>9 DEF OnPair, PairOps
    <2> QED  BY <1>1, <1>6, <1>7, <1>8, <2>1, GroupStep
  <1>10. CASE job[w].op # "create"
    <2>1. /\ OnPair(w) /\ job[w].uid \in User /\ job[w].pid \in User
          /\ {job[w].uid, job[w].pid} \notin disturbed => StageAt("session", job[w].uid, job[w].pid)
      BY <1>1, <1>10, AtPlace
    <2>2. BothRows'  BY <1>1 DEF IInv, BothRows
    <2>3. \A a, b : SamePair(a, b)  BY <1>1, <1>7 DEF SamePair, SameSessions
    <2>4. ASSUME NEW u \in User, NEW p \in User, u = job[w].uid, p = job[w].pid  PROVE IInv'
      <3>1. {u, p} \notin disturbed' => StageAt("member", u, p)'
        BY <1>1, <2>1, <2>3, <2>4 DEF StageAt, SamePair, NoApplication
      <3>2. disturbed \subseteq disturbed'  BY <1>1
      <3>3. NextStage(w, u, p, "member", Named(job[w], s))
        BY <1>3, <1>4, <1>5, <1>7, <1>8, <2>1, <2>2, <2>3, <2>4, <3>1, <3>2 DEF NextStage
      <3> HIDE DEF IInv
      <3> QED  BY <3>3, PairStep
    <2> QED  BY <2>1, <2>4
  <1> QED  BY <1>9, <1>10

(* The members of a pending session are all its rows.                      *)
LEMMA MembersJoin ==
  ASSUME IInv, NEW w \in Worker, Others(w), pc[w] = "member", pc'[w] # "member",
         NEW c \in SessionId, c = job[w].cssid, NEW M \in SUBSET User,
         member' = member \cup {<<c, x>> : x \in M}, UNCHANGED chat_session,
         Type(job[w]) = "single" => \E u, p \in User : M = {u, p}
  PROVE  /\ Pending' /\ SessionsWellFormed'
         /\ chat_session[c] = Type(job[w])
         /\ \A t : t # c => RowsOf(t)' = RowsOf(t)
         /\ RowsOf(c)' = {<<c, x>> : x \in M}
  <1>1. chat_session[c] = Type(job[w]) /\ RowsOf(c) = {}  BY DEF IInv, Pending
  <1>2. \A t : t # c => RowsOf(t)' = RowsOf(t)  BY DEF RowsOf
  <1>3. RowsOf(c)' = {<<c, x>> : x \in M}  BY <1>1 DEF RowsOf
  <1>4. SessionsWellFormed'
    <2>1. chat_session[c] # "none"  BY <1>1 DEF Type
    <2>2. \A r \in member' : chat_session[r[1]] # "none"
      BY <2>1 DEF IInv, SessionsWellFormed
    <2>3. ASSUME NEW t \in SessionId, chat_session[t] = "single"
          PROVE  \/ RowsOf(t)' = {}
                 \/ \E u, p \in User : RowsOf(t)' = {<<t, u>>, <<t, p>>}
      <3>1. CASE t = c
        <4>1. PICK u \in User, p \in User : M = {u, p}
          BY <1>1, <2>3, <3>1
        <4>2. RowsOf(t)' = {<<t, u>>, <<t, p>>}  BY <1>3, <3>1, <4>1
        <4> QED  BY <4>1, <4>2
      <3>2. CASE t # c  BY <1>2, <2>3, <3>2 DEF IInv, SessionsWellFormed
      <3> QED  BY <3>1, <3>2
    <2> QED  BY <2>2, <2>3 DEF SessionsWellFormed
  <1>5. Pending'
    <2>1. \A v \in Worker : pc'[v] = "member" =>
            v # w /\ pc[v] = "member" /\ job'[v] = job[v] /\ job[v].cssid # c
      BY DEF Others, IInv, Pending
    <2> QED  BY <1>2, <2>1 DEF IInv, Pending, Type
  <1> QED  BY <1>1, <1>2, <1>3, <1>4, <1>5

LEMMA MemberAppendStep ==
  ASSUME IInv, NEW w \in Worker, MemberAppend(w)  PROVE IInv'
  <1>1. /\ pc[w] = "member" /\ ~ Idle(w) /\ UNCHANGED <<relation, friend_apply, chat_session, disturbed>>
        /\ job[w].cssid \in SessionId /\ job[w] \in Requests
    BY DEF MemberAppend, At, Idle, IInv, Pending, JobsTyped
  <1>2. Moves(w, "idle", NoRequest) /\ NoRequest \in Requests /\ "idle" \in Places
    BY Finishes DEF MemberAppend, Places
  <1>3. /\ JobsTyped' /\ JobsFit' /\ Others(w)
        /\ pc'[w] = "idle" /\ job'[w] = NoRequest
    BY <1>2, JobMoves DEF IInv
  <1>4. BothRows'  BY <1>1 DEF IInv, BothRows
  <1>5. ASSUME NEW c \in SessionId, c = job[w].cssid, NEW M \in SUBSET User, M = Members(job[w])
        PROVE  /\ member' = member \cup {<<c, x>> : x \in M}
               /\ TablesTyped'
    <2>1. member' = member \cup {<<c, x>> : x \in M}  BY <1>5 DEF MemberAppend
    <2> QED  BY <1>1, <2>1 DEF IInv, TablesTyped
  <1>6. CASE job[w].op = "create"
    <2>1. ASSUME NEW c \in SessionId, c = job[w].cssid, NEW M \in SUBSET User, M = Members(job[w])
          PROVE  IInv'
      <3>1. Type(job[w]) = "group"  BY <1>6 DEF Type
      <3>2. /\ Pending' /\ SessionsWellFormed' /\ chat_session[c] = "group"
            /\ \A t : t # c => RowsOf(t)' = RowsOf(t)
        BY <1>1, <1>3, <1>5, <2>1, <3>1, MembersJoin
      <3>3. SameSessions
        BY <1>1, <1>5, <2>1, <3>2 DEF SameSessions, SingleSessions
      <3>4. ~ OnPair(w) /\ ~ OnPair(w)'  BY <1>3, <1>6 DEF OnPair, PairOps, Idle
      <3> QED  BY <1>1, <1>3, <1>5, <2>1, <3>2, <3>3, <3>4, GroupStep
    <2>2. Members(job[w]) \in SUBSET User  BY <1>1, <1>6 DEF Members, Requests
    <2> QED  BY <1>1, <2>1, <2>2
  <1>7. CASE job[w].op # "create"
    <2>1. /\ OnPair(w) /\ job[w].uid \in User /\ job[w].pid \in User
          /\ {job[w].uid, job[w].pid} \notin disturbed => StageAt("member", job[w].uid, job[w].pid)
      BY <1>1, <1>7, AtPlace DEF At
    <2>2. ASSUME NEW c \in SessionId, c = job[w].cssid, NEW M \in SUBSET User, M = Members(job[w]),
                 NEW u \in User, NEW p \in User, u = job[w].uid, p = job[w].pid
          PROVE  IInv'
      <3>1. Type(job[w]) = "single" /\ M = {u, p}  BY <1>7, <2>2 DEF Type, Members
      <3>2. /\ Pending' /\ SessionsWellFormed' /\ chat_session[c] = "single"
            /\ \A t : t # c => RowsOf(t)' = RowsOf(t)
        <4>1. Others(w) /\ pc[w] = "member" /\ pc'[w] # "member" /\ UNCHANGED chat_session
              /\ member' = member \cup {<<c, x>> : x \in M}
          BY <1>1, <1>3, <1>5, <2>2
        <4>2. \E a, b \in User : M = {a, b}  BY <2>1, <2>2, <3>1
        <4> HIDE DEF IInv
        <4> QED  BY <2>2, <3>1, <4>1, <4>2, MembersJoin
      <3>3. \A a, b : a # b /\ {a, b} # {u, p} => SingleSessions(a, b)' = SingleSessions(a, b)
        <4>1. \A x, t : <<t, x>> \in member' <=> <<t, x>> \in member \/ (t = c /\ x \in {u, p})
          BY <1>5, <2>2, <3>1
        <4>2. RowsOf(c) = {}  BY <1>1, <2>2 DEF IInv, Pending
        <4>3. \A x : <<c, x>> \notin member  BY <4>2 DEF RowsOf
        <4>4. \A a, b : a # b /\ {a, b} # {u, p} => a \notin {u, p} \/ b \notin {u, p}
          BY <2>1, <2>2
        <4> QED  BY <1>1, <4>1, <4>3, <4>4 DEF SingleSessions
      <3>4. \A a, b \in User : a # b /\ {a, b} # {u, p} => SamePair(a, b)
        BY <1>1, <3>3 DEF SamePair
      <3>5. {u, p} \notin disturbed' => StageAt("idle", u, p)'
        <4> SUFFICES ASSUME {u, p} \notin disturbed  PROVE StageAt("idle", u, p)'
          BY <1>1
        <4>1. <<u, p>> \in relation /\ SingleSessions(u, p) = {} /\ NoApplication(u, p)
          BY <2>1, <2>2 DEF StageAt
        <4>2. SingleSessions(u, p)' = {c}
          <5>1. <<c, u>> \in member' /\ <<c, p>> \in member'  BY <1>5, <2>2, <3>1
          <5>2. \A t, x : t # c => (<<t, x>> \in member' <=> <<t, x>> \in member)
            BY <1>5, <2>2
          <5>3. \A t \in SessionId : t # c =>
                  ~ (chat_session[t] = "single" /\ <<t, u>> \in member /\ <<t, p>> \in member)
            BY <4>1 DEF SingleSessions
          <5> QED  BY <1>1, <3>2, <5>1, <5>2, <5>3 DEF SingleSessions
        <4>3. Friends(u, p)'
          BY <1>1, <4>1, <4>2 DEF Friends, ShareOneSession, NoApplication
        <4> QED  BY <4>3 DEF StageAt, Consistent
      <3>6. disturbed \subseteq disturbed'  BY <1>1
      <3>7. TablesTyped' /\ Pending' /\ SessionsWellFormed'  BY <1>5, <2>2, <3>2
      <3>8. u = job[w].uid /\ p = job[w].pid /\ OnPair(w)  BY <2>1, <2>2
      <3>9. NextStage(w, u, p, "idle", NoRequest)
        BY <1>2, <1>4, <2>2, <3>4, <3>5, <3>6, <3>7, <3>8 DEF NextStage
      <3> QED  BY <3>9, PairStep
    <2>3. Members(job[w]) \in SUBSET User  BY <1>7, <2>1 DEF Members
    <2> QED  BY <1>1, <2>1, <2>2, <2>3
  <1> QED  BY <1>6, <1>7

(* The deleted session is shared by the two users, or by one of them and   *)
(* somebody else, who are disturbed then: no other pair loses a session.   *)
LEMMA SessionRemoveStep ==
  ASSUME IInv, NEW w \in Worker, SessionRemove(w)  PROVE IInv'
  <1>1. PICK s \in SessionId :
          /\ At(w, "unsession") /\ SingleSessions(job[w].uid, job[w].pid) = {s}
          /\ chat_session' = [chat_session EXCEPT ![s] = "none"]
          /\ member' = member \ Erased(s)
          /\ Finish(w)
          /\ disturbed' = disturbed \cup (SharedBy(s) \ {About(w)})
          /\ UNCHANGED <<relation, friend_apply>>
    BY DEF SessionRemove, FindsOne
  <1>2. Moves(w, "idle", NoRequest) /\ NoRequest \in Requests /\ "idle" \in Places
    BY <1>1, Finishes DEF Places
  <1>3. Others(w) /\ pc'[w] = "idle"
    BY <1>2 DEF IInv, JobsTyped, Moves, Others
  <1>4. BothRows'  BY <1>1 DEF IInv, BothRows
  <1>5. TablesTyped'  BY <1>1 DEF IInv, TablesTyped, SharedBy
  <1>6. /\ chat_session[s] = "single" /\ chat_session'[s] = "none"
        /\ \A t \in SessionId : t # s => chat_session'[t] = chat_session[t]
    BY <1>1 DEF IInv, TablesTyped, SingleSessions
  <1>7. RowsOf(s)' = {} /\ \A t : t # s => RowsOf(t)' = RowsOf(t)
    BY <1>1 DEF RowsOf, Erased
  <1>8. SessionsWellFormed'
    <2>1. \A r \in member' : r \in member /\ r[1] \in SessionId /\ r[1] # s
      BY <1>1 DEF IInv, TablesTyped, Erased, RowsOf
    <2>2. \A r \in member' : chat_session'[r[1]] # "none"
      BY <1>6, <2>1 DEF IInv, SessionsWellFormed
    <2>3. \A t \in SessionId : chat_session'[t] = "single" =>
            \/ RowsOf(t)' = {}
            \/ \E u, p \in User : RowsOf(t)' = {<<t, u>>, <<t, p>>}
      <3>1. \A t \in SessionId : chat_session'[t] = "single" =>
              t # s /\ chat_session[t] = "single" /\ RowsOf(t)' = RowsOf(t)
        BY <1>6, <1>7
      <3> QED  BY <3>1 DEF IInv, SessionsWellFormed
    <2> QED  BY <2>2, <2>3 DEF SessionsWellFormed
  <1>9. /\ OnPair(w) /\ job[w].uid \in User /\ job[w].pid \in User
        /\ {job[w].uid, job[w].pid} \notin disturbed => StageAt("unsession", job[w].uid, job[w].pid)
    BY <1>1, AtPlace
  <1>10. Pending'
    <2>1. \A v \in Worker : pc'[v] = "member" => v # w /\ pc[v] = "member" /\ job'[v] = job[v]
      BY <1>3 DEF Others
    <2>2. RowsOf(s) # {}
      <3>1. s \in SingleSessions(job[w].uid, job[w].pid)  BY <1>1
      <3>2. <<s, job[w].uid>> \in member  BY <3>1 DEF SingleSessions
      <3> QED  BY <3>2 DEF RowsOf
    <2>3. \A v \in Worker : pc'[v] = "member" => job[v].cssid # s
      BY <2>1, <2>2 DEF IInv, Pending
    <2> QED  BY <1>6, <1>7, <2>1, <2>3 DEF IInv, Pending, Type
  <1>11. ASSUME NEW u \in User, NEW p \in User, u = job[w].uid, p = job[w].pid  PROVE IInv'
    <2>1. PICK c \in User, d \in User : RowsOf(s) = {<<s, c>>, <<s, d>>}
      <3>1. <<s, u>> \in RowsOf(s)
        BY <1>1, <1>11 DEF SingleSessions, RowsOf
      <3> QED  BY <1>6, <3>1 DEF IInv, SessionsWellFormed
    <2>8. {c, d} = {u, p} \/ {c, d} \in disturbed'
      <3>1. {c, d} \in Pairs  BY DEF Pairs
      <3>2. RowsOf(s) = {s} \X {c, d}  BY <2>1
      <3>3. {c, d} \in SharedBy(s)  BY <3>1, <3>2 DEF SharedBy
      <3> QED  BY <1>1, <1>9, <1>11, <3>3 DEF About
    <2>2. \A t \in SessionId : \A x : t # s => (<<t, x>> \in member' <=> <<t, x>> \in member)
      BY <1>1 DEF Erased, RowsOf
    <2>3. \A a, b : a # b /\ {a, b} # {u, p} /\ {a, b} \notin disturbed' =>
            SingleSessions(a, b)' = SingleSessions(a, b)
      <3>1. \A x : <<s, x>> \in member => x \in {c, d}  BY <2>1 DEF RowsOf
      <3>2. \A a, b : a # b /\ {a, b} # {u, p} /\ {a, b} \notin disturbed' =>
              a \notin {c, d} \/ b \notin {c, d}
        <4>1. \A a, b : a # b /\ a \in {c, d} /\ b \in {c, d} => {a, b} = {c, d}  OBVIOUS
        <4> QED  BY <2>8, <4>1
      <3> QED  BY <1>6, <2>2, <3>1, <3>2 DEF SingleSessions
    <2>4. \A a, b \in User : a # b /\ {a, b} # {u, p} /\ {a, b} \notin disturbed' => SamePair(a, b)
      BY <1>1, <2>3 DEF SamePair
    <2>5. {u, p} \notin disturbed' => StageAt("idle", u, p)'
      <3> SUFFICES ASSUME {u, p} \notin disturbed  PROVE StageAt("idle", u, p)'
        BY <1>1
      <3>1. <<u, p>> \notin relation /\ NoApplication(u, p)  BY <1>9, <1>11 DEF StageAt
      <3>2. SingleSessions(u, p)' = {}  BY <1>1, <1>6, <1>11, <2>2 DEF SingleSessions
      <3> QED  BY <1>1, <3>1, <3>2 DEF StageAt, Consistent, Strangers, NoApplication
    <2>6. disturbed \subseteq disturbed'  BY <1>1
    <2>7. NextStage(w, u, p, "idle", NoRequest)
      BY <1>2, <1>4, <1>5, <1>8, <1>9, <1>10, <1>11, <2>4, <2>5, <2>6 DEF NextStage
    <2> QED  BY <2>7, PairStep
  <1> QED  BY <1>9, <1>11

-----------------------------------------------------------------------------
(* Failures, and the arrival of requests.                                  *)

LEMMA TransactionFailsStep ==
  ASSUME IInv, NEW w \in Worker, TransactionFails(w)  PROVE IInv'
  <1>1. /\ ~ Idle(w) /\ Finish(w) /\ UNCHANGED <<relation, friend_apply, chat_session, member>>
        /\ pc[w] \in {"apply", "applied?", "answer", "relate", "session", "member",
                      "unrelate", "unsession"}
        /\ disturbed' = IF HalfWay(w) THEN disturbed \cup {About(w)} ELSE disturbed
    BY DEF TransactionFails, Idle
  <1>2. OnPair(w) <=> job[w].op # "create"  BY <1>1, PlaceTellsKind DEF IInv
  <1>3. CASE job[w].op = "create"
    <2>1. Moves(w, "idle", NoRequest) /\ NoRequest \in Requests /\ "idle" \in Places
      BY <1>1, Finishes DEF Places
    <2>2. JobsTyped' /\ JobsFit' /\ Others(w) /\ pc'[w] = "idle"
      BY <2>1, JobMoves DEF IInv
    <2>3. Pending' /\ SessionsWellFormed' /\ SameSessions
      BY <1>1, <2>2, SessionsStay DEF IInv
    <2>4. disturbed' = disturbed  BY <1>1, <1>3 DEF HalfWay
    <2>5. TablesTyped'  BY <1>1, <2>4 DEF IInv, TablesTyped
    <2>6. ~ OnPair(w) /\ ~ OnPair(w)'  BY <1>2, <1>3, <2>2 DEF OnPair, Idle
    <2> QED  BY <1>1, <2>2, <2>3, <2>4, <2>5, <2>6, GroupStep
  <1>4. CASE job[w].op # "create"
    <2>1. About(w) \notin disturbed' => Consistent(job[w].uid, job[w].pid)
      <3> SUFFICES ASSUME About(w) \notin disturbed'
                   PROVE  Consistent(job[w].uid, job[w].pid)
        OBVIOUS
      <3>1. ~ HalfWay(w) /\ About(w) \notin disturbed  BY <1>1
      <3>2. pc[w] \in {"apply", "applied?", "answer", "relate", "unrelate"}
        BY <1>1, <1>4, <3>1 DEF HalfWay
      <3>3. StageAt(pc[w], job[w].uid, job[w].pid)
        BY <1>2, <1>4, <3>1 DEF IInv, Working, Stage
      <3> QED  BY <3>2, <3>3 DEF StageAt, Consistent
    <2>2. disturbed' \in {disturbed, disturbed \cup {About(w)}}  BY <1>1
    <2> QED  BY <1>1, <1>2, <1>4, <2>1, <2>2, QueryFinishes
  <1> QED  BY <1>3, <1>4

LEMMA AcceptCreateStep ==
  ASSUME IInv, NEW w \in Worker, AcceptCreate(w)  PROVE IInv'
  <1>1. PICK list \in SUBSET User :
          /\ Idle(w)
          /\ pc' = [pc EXCEPT ![w] = "session"]
          /\ job' = [job EXCEPT ![w] = Request("create", None, None, list, None)]
          /\ UNCHANGED <<relation, friend_apply, chat_session, member, disturbed>>
    BY DEF AcceptCreate
  <1>2. /\ Moves(w, "session", Request("create", None, None, list, None))
        /\ Request("create", None, None, list, None) \in Requests
        /\ Request("create", None, None, list, None).op = "create"
        /\ "session" \in Places /\ "session" \in PlacesOf("create")
    BY <1>1 DEF Moves, Request, Requests, Ops, Places, PlacesOf
  <1>3. /\ JobsTyped' /\ JobsFit' /\ Others(w) /\ pc'[w] = "session"
        /\ job'[w] = Request("create", None, None, list, None)
    BY <1>2, JobMoves DEF IInv, PairOps
  <1>4. Pending' /\ SessionsWellFormed' /\ SameSessions
    BY <1>1, <1>3, SessionsStay DEF IInv
  <1>5. TablesTyped'  BY <1>1 DEF IInv, TablesTyped
  <1>6. ~ OnPair(w) /\ ~ OnPair(w)'  BY <1>1, <1>2, <1>3 DEF OnPair, PairOps
  <1> QED  BY <1>1, <1>3, <1>4, <1>5, <1>6, GroupStep

(* A request that is not unusual finds its pair at its first stage.        *)
LEMMA FirstStage ==
  ASSUME IInv, NEW w \in Worker, Idle(w), NEW op \in PairOps,
         NEW u \in User, NEW p \in User, u # p, {u, p} \notin disturbed,
         ~ Unusual(w, op, u, p)
  PROVE  StageAt(First(op), u, p)
  <1>1. Quiet({u, p})  BY DEF Quiet, Unusual, WorksOn
  <1>2. Consistent(u, p)  BY <1>1 DEF IInv, PairConsistent, Consistent
  <1>3. CASE op = "add"
    <2>1. First(op) = "related?" /\ <<p, u>> \notin friend_apply  BY <1>3 DEF First, Unusual
    <2> QED  BY <1>2, <2>1 DEF StageAt
  <1>4. CASE op \in {"agree", "refuse"}
    <2>1. First(op) = "applied?"  BY <1>4 DEF First
    <2> QED  BY <1>2, <2>1 DEF StageAt
  <1>5. CASE op = "remove"
    <2>1. First(op) = "unrelate" /\ <<u, p>> \in relation  BY <1>5 DEF First, Unusual
    <2> QED  BY <1>2, <2>1 DEF StageAt, Consistent, Strangers
  <1> QED  BY <1>3, <1>4, <1>5 DEF PairOps

LEMMA AcceptStep ==
  ASSUME IInv, NEW w \in Worker, Accept(w)  PROVE IInv'
  <1>1. PICK op \in PairOps, u \in User, p \in User :
          /\ Idle(w)
          /\ pc' = [pc EXCEPT ![w] = First(op)]
          /\ job' = [job EXCEPT ![w] = Request(op, u, p, {}, None)]
          /\ disturbed' = IF Unusual(w, op, u, p) THEN disturbed \cup {{u, p}} ELSE disturbed
          /\ UNCHANGED <<relation, friend_apply, chat_session, member>>
    BY DEF Accept
  <1>2. First(op) \in Places \ {"idle", "member"} /\ First(op) \in PlacesOf(op)
    BY DEF First, Places, PlacesOf, PairOps
  <1>3. ASSUME NEW j \in Requests, j = Request(op, u, p, {}, None), NEW place \in Places, place = First(op)
        PROVE  IInv'
    <2>1. Moves(w, place, j) /\ j.op = op /\ j.uid = u /\ j.pid = p
      BY <1>1, <1>3 DEF Moves, Request
    <2>2. JobsTyped' /\ JobsFit' /\ Others(w) /\ pc'[w] = place /\ job'[w] = j
      BY <1>1, <1>2, <1>3, <2>1, JobMoves DEF IInv
    <2>3. Pending' /\ SessionsWellFormed' /\ SameSessions
      BY <1>1, <1>2, <1>3, <2>2, SessionsStay DEF IInv
    <2>4. TablesTyped'
      <3>1. {u, p} \in Pairs  BY <1>1 DEF Pairs
      <3> QED  BY <1>1, <3>1 DEF IInv, TablesTyped
    <2>5. BothRows'  BY <1>1 DEF IInv, BothRows
    <2>6. \A a, b : SamePair(a, b)  BY <1>1, <2>3 DEF SamePair, SameSessions
    <2>7. ~ OnPair(w) /\ About(w)' = {u, p}  BY <1>1, <2>1, <2>2 DEF OnPair, About
    <2>8. About(w)' \notin disturbed' =>
            /\ Stage(w)'
            /\ \A v \in Worker \ {w} : OnPair(v) => About(v) # About(w)'
      <3> SUFFICES ASSUME {u, p} \notin disturbed'
                   PROVE  /\ Stage(w)'
                          /\ \A v \in Worker \ {w} : OnPair(v) => About(v) # {u, p}
        BY <2>7
      <3>1. ~ Unusual(w, op, u, p) /\ {u, p} \notin disturbed /\ u # p  BY <1>1 DEF Unusual
      <3>2. StageAt(First(op), u, p)  BY <1>1, <3>1, FirstStage
      <3>3. \A v \in Worker \ {w} : OnPair(v) => About(v) # {u, p}
        BY <3>1 DEF Unusual, WorksOn, OnPair
      <3>4. \A a, b, c : StageAt(c, a, b) => StageAt(c, a, b)'  BY <2>6, SameStage
      <3>5. \A a, b, c : a = job'[w].uid /\ b = job'[w].pid /\ c = pc'[w] =>
              (Stage(w)' <=> a # b /\ StageAt(c, a, b)')
        BY DEF Stage
      <3> QED  BY <1>3, <2>1, <2>2, <3>1, <3>2, <3>3, <3>4, <3>5
    <2>9. disturbed \subseteq disturbed'  BY <1>1
    <2>10. Alone' /\ Working' /\ PairConsistent'
      <3> HIDE DEF IInv
      <3> QED  BY <2>2, <2>5, <2>6, <2>7, <2>8, <2>9, StepKeepsPairs, SMTT(30)
    <2> QED  BY <2>2, <2>3, <2>4, <2>5, <2>10 DEF IInv
  <1>4. Request(op, u, p, {}, None) \in Requests  BY DEF Request, Requests, Ops
  <1> QED  BY <1>2, <1>3, <1>4

(* When all requests are lost, a pair is consistent unless one of them was *)
(* half way.                                                               *)
LEMMA DieStep ==
  ASSUME IInv, Die  PROVE IInv'
  <1>1. \A w \in Worker : pc'[w] = "idle" /\ job'[w] = NoRequest  BY DEF Die
  <1>2. UNCHANGED <<relation, friend_apply, chat_session, member>> /\ disturbed \subseteq disturbed'
    BY DEF Die
  <1>3. \A w \in Worker : ~ OnPair(w)'  BY <1>1 DEF OnPair, Idle
  <1>4. JobsTyped'  BY NoRequestTyped DEF Die, JobsTyped, Places
  <1>5. JobsFit'  BY <1>1 DEF JobsFit, Idle
  <1>6. Pending'  BY <1>1 DEF Pending
  <1>7. BothRows'  BY <1>2 DEF IInv, BothRows
  <1>8. SessionsWellFormed'  BY <1>2 DEF IInv, SessionsWellFormed, RowsOf
  <1>9. Alone' /\ Working'  BY <1>3 DEF Alone, Working
  <1>10. \A w \in Worker : HalfWay(w) => OnPair(w)
    <2>1. \A w \in Worker : HalfWay(w) => ~ Idle(w)  BY DEF HalfWay, Idle
    <2> QED  BY <2>1, PlaceTellsKind DEF IInv, HalfWay
  <1>11. TablesTyped'
    <2>1. \A w \in Worker : OnPair(w) => About(w) \in Pairs
      BY DEF IInv, JobsFit, OnPair, About, Pairs
    <2>2. disturbed' \subseteq Pairs  BY <1>10, <2>1 DEF Die, IInv, TablesTyped
    <2> QED  BY <1>2, <2>2 DEF IInv, TablesTyped
  <1>12. PairConsistent'
    <2> SUFFICES ASSUME NEW u \in User, NEW p \in User, u # p, {u, p} \notin disturbed'
                 PROVE  Consistent(u, p)'
      BY DEF PairConsistent, Consistent
    <2>1. Consistent(u, p)
      <3>1. CASE Quiet({u, p})
        BY <1>2, <3>1 DEF IInv, PairConsistent, Consistent
      <3>2. CASE ~ Quiet({u, p})
        <4>1. PICK w \in Worker : ~ Idle(w) /\ OnPair(w) /\ About(w) = {u, p}
          BY <3>2 DEF Quiet, WorksOn, OnPair
        <4>2. ~ HalfWay(w) /\ {u, p} \notin disturbed  BY <1>2, <4>1 DEF Die
        <4>3. StageAt(pc[w], job[w].uid, job[w].pid)
          BY <4>1, <4>2 DEF IInv, Working, Stage
        <4>4. /\ job[w].uid \in User /\ job[w].pid \in User
              /\ job[w].op # "create" /\ pc[w] \in Places \ {"idle"}
          BY <4>1, PlaceTellsKind DEF IInv, JobsTyped, Idle
        <4>5. pc[w] \in {"related?", "waiting?", "apply", "applied?", "answer", "relate", "unrelate"}
          BY <4>2, <4>4 DEF HalfWay, Places
        <4>6. Consistent(job[w].uid, job[w].pid)  BY <4>3, <4>5 DEF StageAt, Consistent
        <4>7. Consistent(job[w].pid, job[w].uid)  BY <4>4, <4>6, Symmetric DEF IInv
        <4>8. \/ u = job[w].uid /\ p = job[w].pid
              \/ u = job[w].pid /\ p = job[w].uid
          BY <4>1, <4>4 DEF About
        <4> QED  BY <4>6, <4>7, <4>8
      <3> QED  BY <3>1, <3>2
    <2>2. SingleSessions(u, p)' = SingleSessions(u, p)  BY <1>2 DEF SingleSessions
    <2> QED  BY <1>2, <2>1, <2>2 DEF Consistent, Strangers, Friends, ShareOneSession, NoApplication
  <1> QED  BY <1>4, <1>5, <1>6, <1>7, <1>8, <1>9, <1>11, <1>12 DEF IInv

-----------------------------------------------------------------------------
LEMMA InitIInv == Init => IInv
  <1> SUFFICES ASSUME Init  PROVE IInv
    OBVIOUS
  <1>1. TablesTyped /\ BothRows  BY DEF Init, TablesTyped, BothRows
  <1>2. \A w \in Worker : Idle(w) /\ ~ OnPair(w)  BY DEF Init, Idle, OnPair
  <1>3. JobsTyped  BY NoRequestTyped DEF Init, JobsTyped, Places
  <1>4. JobsFit /\ Pending /\ Alone /\ Working
    BY <1>2 DEF JobsFit, Pending, Alone, Working, Idle
  <1>5. SessionsWellFormed  BY DEF Init, SessionsWellFormed
  <1>6. PairConsistent  BY DEF Init, PairConsistent, Strangers, SingleSessions
  <1> QED  BY <1>1, <1>3, <1>4, <1>5, <1>6 DEF IInv

LEMMA NextIInv == IInv /\ [Next]_vars => IInv'
  <1> SUFFICES ASSUME IInv, [Next]_vars  PROVE IInv'
    OBVIOUS
  <1>1. CASE UNCHANGED vars
    <2>1. TablesTyped' /\ JobsTyped' /\ JobsFit' /\ Pending'
      BY <1>1 DEF vars, IInv, TablesTyped, JobsTyped, JobsFit, Idle, Pending, RowsOf, Type
    <2>2. BothRows' /\ SessionsWellFormed'
      BY <1>1 DEF vars, IInv, BothRows, SessionsWellFormed, RowsOf
    <2>3. Alone'  BY <1>1 DEF vars, IInv, Alone, OnPair, About, Idle
    <2>4. \A a, b : SamePair(a, b)  BY <1>1 DEF vars, SamePair, SingleSessions
    <2>5. Working'
      <3> SUFFICES ASSUME NEW w \in Worker, OnPair(w)', About(w)' \notin disturbed'
                   PROVE  Stage(w)'
        BY DEF Working
      <3>1. OnPair(w) /\ About(w) \notin disturbed  BY <1>1 DEF vars, OnPair, About, Idle
      <3>2. Stage(w)  BY <3>1 DEF IInv, Working
      <3>3. \A a, b, c : StageAt(c, a, b) => StageAt(c, a, b)'  BY <2>4, SameStage
      <3>4. \A a, b, c : a = job'[w].uid /\ b = job'[w].pid /\ c = pc'[w] =>
              (Stage(w)' <=> a # b /\ StageAt(c, a, b)')
        BY DEF Stage
      <3>5. job' = job /\ pc' = pc  BY <1>1 DEF vars
      <3> QED  BY <3>2, <3>3, <3>4, <3>5 DEF Stage
    <2>6. PairConsistent'
      <3> SUFFICES ASSUME NEW u \in User, NEW p \in User,
                          u # p, {u, p} \notin disturbed', Quiet({u, p})'
                   PROVE  Consistent(u, p)'
        BY DEF PairConsistent, Consistent
      <3>1. Quiet({u, p}) /\ {u, p} \notin disturbed
        BY <1>1 DEF vars, Quiet, WorksOn, About, Idle
      <3>2. Consistent(u, p)  BY <3>1 DEF IInv, PairConsistent, Consistent
      <3> QED  BY <2>4, <3>2 DEF SamePair, Consistent, Strangers, Friends, ShareOneSession, NoApplication
    <2> QED  BY <2>1, <2>2, <2>3, <2>5, <2>6 DEF IInv
  <1>2. CASE Restart  BY <1>2, DieStep DEF Restart
  <1>3. ASSUME NEW w \in Worker, Accept(w) \/ AcceptCreate(w) \/ Step(w)  PROVE IInv'
    <2>1. CASE Accept(w)  BY <2>1, AcceptStep
    <2>2. CASE AcceptCreate(w)  BY <2>2, AcceptCreateStep
    <2>3. CASE \/ AddRelated(w) \/ AddUnrelated(w) \/ AddQueryFails(w)
               \/ AddWaiting(w) \/ AddNotWaiting(w) \/ ApplyFound(w) \/ ApplyMissing(w)
      BY <2>3, Queries
    <2>4. CASE ApplyInsert(w)  BY <2>4, ApplyInsertStep
    <2>5. CASE ApplyRemove(w)  BY <2>5, ApplyRemoveStep
    <2>6. CASE RelationInsert(w)  BY <2>6, RelationInsertStep
    <2>7. CASE SessionInsert(w)  BY <2>7, SessionInsertStep
    <2>8. CASE MemberAppend(w)  BY <2>8, MemberAppendStep
    <2>9. CASE RelationRemove(w)  BY <2>9, RelationRemoveStep
    <2>10. CASE SessionRemove(w)  BY <2>10, SessionRemoveStep
    <2>11. CASE TransactionFails(w)  BY <2>11, TransactionFailsStep
    <2>12. CASE RemoveAborts(w)  BY <2>12, DieStep DEF RemoveAborts
    <2> QED
      BY <1>3, <2>1, <2>2, <2>3, <2>4, <2>5, <2>6, <2>7, <2>8, <2>9, <2>10, <2>11, <2>12 DEF Step
  <1> QED  BY <1>1, <1>2, <1>3 DEF Next

LEMMA Invariant == Spec => []IInv
  BY InitIInv, NextIInv, PTL DEF Spec

-----------------------------------------------------------------------------
(* The tables hold rows of their types, and a session whose members are    *)
(* still to be inserted is there with the type its request gave it.        *)
THEOREM TypeCorrect == Spec => []TypeOK
  <1>1. IInv => TypeOK  BY DEF IInv, TablesTyped, Pending, TypeOK
  <1> QED  BY <1>1, Invariant, PTL

(* No member row is without its session, and a single session has its two  *)
(* members or none yet.                                                    *)
THEOREM SessionsStayWellFormed == Spec => []SessionsWellFormed
  <1>1. IInv => SessionsWellFormed  BY DEF IInv
  <1> QED  BY <1>1, Invariant, PTL

(* Unless something unusual happened to a pair, two users are strangers in *)
(* all four tables or friends in all four, whenever no request is working  *)
(* on them, for any number of requests about other pairs and of restarts.  *)
THEOREM PairsAreConsistent == Spec => []PairConsistent
  <1>1. IInv => PairConsistent  BY DEF IInv
  <1> QED  BY <1>1, Invariant, PTL

(* FriendRemove finds exactly one session to remove, and does not abort,   *)
(* for a pair to which nothing unusual happened.                           *)
THEOREM RemoveFindsItsSession == Spec => []RemoveFindsSession
  <1>1. ASSUME IInv, NEW w \in Worker, pc[w] = "unsession", About(w) \notin disturbed
        PROVE  ShareOneSession(job[w].uid, job[w].pid)
    <2>1. StageAt("unsession", job[w].uid, job[w].pid)  BY <1>1, AtPlace DEF At
    <2> QED  BY <2>1 DEF StageAt
  <1>2. IInv => RemoveFindsSession  BY <1>1 DEF RemoveFindsSession
  <1> QED  BY <1>2, Invariant, PTL

(* What a step may never do to a group: delete it or take a member out.    *)
GroupsKept == \A s \in SessionId : chat_session[s] = "group" =>
  chat_session'[s] = "group" /\ RowsOf(s) \subseteq member'

LEMMA StepKeepsGroups == IInv /\ [Next]_vars => GroupsKept
  <1> SUFFICES ASSUME IInv, [Next]_vars,
                      NEW s \in SessionId, chat_session[s] = "group"
               PROVE  chat_session'[s] = "group" /\ RowsOf(s) \subseteq member'
    BY DEF GroupsKept
  <1>1. CASE UNCHANGED <<chat_session, member>>  BY <1>1 DEF RowsOf
  <1>2. ASSUME NEW w \in Worker, SessionInsert(w)
        PROVE  chat_session'[s] = "group" /\ RowsOf(s) \subseteq member'
    <2>1. PICK t \in SessionId :
            /\ Unused(t)
            /\ chat_session' = [chat_session EXCEPT ![t] = Type(job[w])]
            /\ UNCHANGED member
      BY <1>2 DEF SessionInsert
    <2>2. t # s  BY <2>1 DEF Unused
    <2> QED  BY <2>1, <2>2 DEF IInv, TablesTyped, RowsOf
  <1>3. ASSUME NEW w \in Worker, MemberAppend(w)
        PROVE  chat_session'[s] = "group" /\ RowsOf(s) \subseteq member'
    BY <1>3 DEF MemberAppend, RowsOf
  <1>4. ASSUME NEW w \in Worker, SessionRemove(w)
        PROVE  chat_session'[s] = "group" /\ RowsOf(s) \subseteq member'
    <2>1. PICK t \in SessionId :
            /\ SingleSessions(job[w].uid, job[w].pid) = {t}
            /\ chat_session' = [chat_session EXCEPT ![t] = "none"]
            /\ member' = member \ Erased(t)
      BY <1>4 DEF SessionRemove, FindsOne
    <2>2. t # s  BY <2>1 DEF SingleSessions
    <2> QED  BY <2>1, <2>2 DEF IInv, TablesTyped, RowsOf, Erased
  <1>5. ASSUME NEW w \in Worker, Accept(w) \/ AcceptCreate(w) \/ Step(w),
               ~ SessionInsert(w), ~ MemberAppend(w), ~ SessionRemove(w)
        PROVE  UNCHANGED <<chat_session, member>>
    BY <1>5 DEF Accept, AcceptCreate, Step, AddRelated, AddUnrelated, AddQueryFails, AddWaiting,
                AddNotWaiting, ApplyInsert, ApplyFound, ApplyMissing, ApplyRemove, RelationInsert,
                RelationRemove, TransactionFails, RemoveAborts, Die
  <1>6. Restart => UNCHANGED <<chat_session, member>>  BY DEF Restart, Die
  <1> QED  BY <1>1, <1>2, <1>3, <1>4, <1>5, <1>6 DEF Next, vars

(* A group outlives the friendship of its members: deleting a session      *)
(* takes a single one and its own rows only, and no id in use is taken.    *)
THEOREM GroupsAreKept == Spec => GroupsStay
  <1>1. IInv /\ [Next]_vars =>
          [\A s \in SessionId : chat_session[s] = "group" =>
             chat_session'[s] = "group" /\ RowsOf(s) \subseteq member']_vars
    BY StepKeepsGroups DEF GroupsKept
  <1> QED  BY <1>1, Invariant, PTL DEF Spec, GroupsStay

=============================================================================
