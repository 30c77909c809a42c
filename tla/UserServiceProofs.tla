-------------------------- MODULE UserServiceProofs --------------------------
(***************************************************************************)
(* Proofs about UserService, for any numbers of users, names, handlers,    *)
(* requests and restarts.                                                  *)
(*                                                                         *)
(* A handler carries a row through its steps.  The invariant says when it  *)
(* may rely on it: a handler that was alone is the only one for its user   *)
(* (Alone), a row that is about to be written differs from the one in the  *)
(* table in one field (RowsFresh), the copy of a user whose copy is not    *)
(* stale is the row until the row is written, and a handler that was alone *)
(* writes the row of the table into the index (CopyFollows).               *)
(***************************************************************************)
EXTENDS UserService, TLAPS

Working(h) == work[h].step # "idle"

(* A working handler is for a user and carries a complete row; it changes  *)
(* a field of a user who is there, and until then inserts one who is not.  *)
Carries(h) == Working(h) =>
  /\ work[h].uid \in User
  /\ work[h].row \in Row
  /\ work[h].step = "update" => Exists(work[h].uid) /\ work[h].field \in Fields
  /\ work[h].step = "insert" => ~ Exists(work[h].uid)
  /\ work[h].step = "index" => Exists(work[h].uid)

WorkSound == \A h \in Handler :
  /\ work[h].uid # None => Working(h)
  /\ Carries(h)

(* The history of wishes knows the users who are there. *)
WishesSound == \A u \in User : wish[u] = NoRow <=> table[u] = NoRow

(* Two requests of a user are about one who is there; then the user is     *)
(* disturbed and neither handler has been alone.                           *)
Alone == \A g, h \in Handler :
  g # h /\ Working(g) /\ Working(h) /\ work[g].uid = work[h].uid =>
    Exists(work[g].uid) /\ work[g].uid \in disturbed /\ ~ work[g].alone

Meddled == \A h \in Handler : Working(h) /\ ~ work[h].alone => work[h].uid \in stale

RowsFresh == \A h \in Handler :
  work[h].step = "update" /\ work[h].uid \notin disturbed =>
    work[h].row = [table[work[h].uid] EXCEPT ![work[h].field] = work[h].row[work[h].field]]

CopyFollows == \A h \in Handler :
  /\ work[h].step \in {"insert", "update"} /\ work[h].uid \notin stale =>
       index[work[h].uid] = table[work[h].uid]
  /\ work[h].step = "index" /\ work[h].alone => work[h].row = table[work[h].uid]

IInv ==
  /\ RowsSound /\ FieldsKept /\ IndexFollowsTable
  /\ WorkSound /\ WishesSound /\ Alone /\ Meddled /\ RowsFresh /\ CopyFollows

-----------------------------------------------------------------------------
LEMMA NoRowIsNone == NoRow \notin Row
  BY UserServiceAssumption DEF NoRow, Row

(* A row with one field changed is a row. *)
LEMMA RowChanges ==
  ASSUME NEW r \in Row, NEW f \in Fields, NEW v,
         v \in ValuesOf(f) \/ \E q \in Row : v = q[f]
  PROVE  [r EXCEPT ![f] = v] \in Row /\ [r EXCEPT ![f] = v][f] = v
  <1>1. f \in {"nickname", "phone", "description", "avatar_id"}  BY DEF Fields
  <1>2. CASE f = "nickname"  BY <1>2 DEF Row, ValuesOf
  <1>3. CASE f = "phone"  BY <1>3 DEF Row, ValuesOf
  <1>4. CASE f = "description"  BY <1>4 DEF Row, ValuesOf
  <1>5. CASE f = "avatar_id"  BY <1>5 DEF Row, ValuesOf
  <1> QED  BY <1>1, <1>2, <1>3, <1>4, <1>5

LEMMA InitInvariant == Init => IInv
  <1> SUFFICES ASSUME Init  PROVE IInv
    OBVIOUS
  <1>1. \A h \in Handler : work[h] = Idle /\ ~ Working(h) /\ work[h].uid = None
    BY DEF Init, Idle, Working
  <1>2. \A u \in User : table[u] = NoRow /\ index[u] = NoRow /\ wish[u] = NoRow
    BY DEF Init
  <1>3. RowsSound
    <2>1. TypeOK
      <3>1. Idle \in [step : {"idle", "insert", "update", "index"},
                      uid : User \cup {None}, row : Row \cup {NoRow},
                      field : Fields \cup {None}, alone : BOOLEAN]
        BY DEF Idle
      <3> QED  BY <3>1, UserServiceAssumption DEF Init, TypeOK
    <2>2. NamesUnique  BY <1>2 DEF NamesUnique, Exists
    <2> QED  BY <2>1, <2>2 DEF RowsSound
  <1>4. FieldsKept /\ IndexFollowsTable  BY <1>2 DEF FieldsKept, IndexFollowsTable, Exists
  <1>5. WorkSound /\ WishesSound /\ Alone /\ Meddled /\ CopyFollows
    BY <1>1, <1>2 DEF WorkSound, Carries, WishesSound, Alone, Meddled, CopyFollows, Working
  <1>6. RowsFresh  BY <1>1 DEF RowsFresh, Working
  <1> QED  BY <1>3, <1>4, <1>5, <1>6 DEF IInv

-----------------------------------------------------------------------------
(* What a step does to the handlers.                                       *)

Jobs == [step : {"idle", "insert", "update", "index"}, uid : User \cup {None},
         row : Row \cup {NoRow}, field : Fields \cup {None}, alone : BOOLEAN]

Others(h) == \A g \in Handler \ {h} : work'[g] = work[g]

LEMMA Begins ==
  ASSUME TypeOK, NEW h \in Handler, NEW u \in User, NEW row \in Row,
         NEW field \in Fields \cup {None}, Begin(h, u, row, field)
  PROVE  /\ work' \in [Handler -> Jobs]
         /\ work'[h] = [step |-> IF Exists(u) THEN "update" ELSE "insert",
                        uid |-> u, row |-> row, field |-> field, alone |-> ~ Busy(u)]
         /\ \A g \in Handler \ {h} :
              /\ work[g].uid # u => work'[g] = work[g]
              /\ work[g].uid = u =>
                   /\ work'[g].step = work[g].step /\ work'[g].uid = work[g].uid
                   /\ work'[g].row = work[g].row /\ work'[g].field = work[g].field
                   /\ ~ work'[g].alone
  <1>1. work \in [Handler -> Jobs]  BY DEF TypeOK, Jobs
  <1>2. Busy(u) \in BOOLEAN  BY DEF Busy
  <1> DEFINE new == [step |-> IF Exists(u) THEN "update" ELSE "insert",
                     uid |-> u, row |-> row, field |-> field, alone |-> ~ Busy(u)]
  <1>3. new \in Jobs  BY <1>2 DEF Jobs
  <1>4. work'[h] = new  BY DEF Begin
  <1>5. \A g \in Handler \ {h} :
          work'[g] = IF work[g].uid = u THEN [work[g] EXCEPT !.alone = FALSE] ELSE work[g]
    BY DEF Begin
  <1>6. \A g \in Handler : work[g].uid = u =>
          /\ [work[g] EXCEPT !.alone = FALSE] \in Jobs
          /\ [work[g] EXCEPT !.alone = FALSE].step = work[g].step
          /\ [work[g] EXCEPT !.alone = FALSE].uid = work[g].uid
          /\ [work[g] EXCEPT !.alone = FALSE].row = work[g].row
          /\ [work[g] EXCEPT !.alone = FALSE].field = work[g].field
          /\ ~ [work[g] EXCEPT !.alone = FALSE].alone
    BY <1>1 DEF Jobs
  <1>7. \A g \in Handler : work'[g] \in Jobs
    <2> HIDE DEF new
    <2> QED  BY <1>1, <1>3, <1>4, <1>5, <1>6
  <1>8. work' \in [Handler -> Jobs]
    <2>1. work' = [g \in Handler |-> work'[g]]  BY DEF Begin
    <2> QED  BY <1>7, <2>1
  <1> QED  BY <1>4, <1>5, <1>6, <1>8

LEMMA GivesUp ==
  ASSUME TypeOK, NEW h \in Handler, GiveUp(h)
  PROVE  /\ work' \in [Handler -> Jobs]
         /\ work'[h].step = "idle" /\ work'[h].uid = None
         /\ Others(h)
  <1>1. Idle \in Jobs  BY DEF Idle, Jobs
  <1>2. Idle.step = "idle" /\ Idle.uid = None  BY DEF Idle
  <1> QED  BY <1>1, <1>2 DEF TypeOK, Jobs, GiveUp, Others

(* A handler goes on to the index. *)
LEMMA GoesOn ==
  ASSUME TypeOK, NEW h \in Handler, work' = [work EXCEPT ![h].step = "index"]
  PROVE  /\ work' \in [Handler -> Jobs]
         /\ work'[h].step = "index" /\ work'[h].uid = work[h].uid
         /\ work'[h].row = work[h].row /\ work'[h].alone = work[h].alone
         /\ Others(h)
  BY DEF TypeOK, Jobs, Others

LEMMA BusyMeans ==
  ASSUME WorkSound, NEW u \in User
  PROVE  Busy(u) <=> \E h \in Handler : Working(h) /\ work[h].uid = u
  BY UserServiceAssumption DEF WorkSound, Busy

-----------------------------------------------------------------------------
(* A handler begins a request of a user who is not there, or of one who is *)
(* there and whose row it changes in one field.                            *)
Request(h, u, row, field) ==
  /\ work[h] = Idle
  /\ Begin(h, u, row, field)
  /\ row \in Row
  /\ \/ ~ Exists(u) /\ ~ Busy(u) /\ field = None
        /\ disturbed' = disturbed /\ stale' = stale
     \/ Exists(u) /\ field \in Fields /\ row = [table[u] EXCEPT ![field] = row[field]]
        /\ disturbed' = disturbed \cup {v \in {u} : Busy(u)}
        /\ stale' = stale \cup {v \in {u} : Busy(u)}
  /\ requests' \in 0 .. MAX_REQUESTS
  /\ UNCHANGED <<stores, wish, restarts>>

LEMMA RequestStep ==
  ASSUME IInv, NEW h \in Handler, NEW u \in User, NEW row, NEW field,
         Request(h, u, row, field)
  PROVE  IInv'
  <1>1. TypeOK /\ WorkSound  BY DEF IInv, RowsSound
  <1>2. /\ row \in Row /\ field \in Fields \cup {None} /\ Begin(h, u, row, field)
        /\ UNCHANGED <<table, index, wish, restarts>>
        /\ requests' \in 0 .. MAX_REQUESTS
    BY DEF Request, stores
  <1>3. /\ work' \in [Handler -> Jobs]
        /\ work'[h].step = (IF Exists(u) THEN "update" ELSE "insert")
        /\ work'[h].uid = u /\ work'[h].row = row /\ work'[h].field = field
        /\ work'[h].alone = ~ Busy(u)
    <2>1. work'[h] = [step |-> IF Exists(u) THEN "update" ELSE "insert",
                      uid |-> u, row |-> row, field |-> field, alone |-> ~ Busy(u)]
      BY <1>1, <1>2, Begins
    <2>2. work' \in [Handler -> Jobs]  BY <1>1, <1>2, Begins
    <2>3. work'[h].step = (IF Exists(u) THEN "update" ELSE "insert")  BY <2>1
    <2>4. work'[h].uid = u /\ work'[h].row = row /\ work'[h].field = field  BY <2>1
    <2>5. work'[h].alone = ~ Busy(u)  BY <2>1
    <2> QED  BY <2>2, <2>3, <2>4, <2>5
  <1>4. \A g \in Handler \ {h} :
          /\ work'[g].step = work[g].step /\ work'[g].uid = work[g].uid
          /\ work'[g].row = work[g].row /\ work'[g].field = work[g].field
          /\ work[g].uid # u => work'[g].alone = work[g].alone
          /\ work[g].uid = u => ~ work'[g].alone
    BY <1>1, <1>2, Begins
  <1>5. /\ \A v : v \in disturbed' <=> v \in disturbed \/ (v = u /\ Busy(u))
        /\ \A v : v \in stale' <=> v \in stale \/ (v = u /\ Busy(u))
    BY DEF Request
  <1>6. Busy(u) => Exists(u)  BY DEF Request
  <1>7. Exists(u) => field \in Fields /\ row = [table[u] EXCEPT ![field] = row[field]]
    BY DEF Request
  <1>8. Busy(u) <=> \E g \in Handler : Working(g) /\ work[g].uid = u
    BY <1>1, BusyMeans
  <1>9. /\ \A g \in Handler \ {h} : Working(g)' <=> Working(g)
        /\ Working(h)' /\ ~ Working(h)
    BY <1>3, <1>4 DEF Working, Request, Idle
  <1>10. RowsSound'
    <2>1. TypeOK'
      <3>1. disturbed' \subseteq User /\ stale' \subseteq User
        BY <1>1, <1>5 DEF TypeOK
      <3> QED  BY <1>1, <1>2, <1>3, <3>1 DEF TypeOK, Jobs
    <2>2. NamesUnique'  BY <1>2 DEF IInv, RowsSound, NamesUnique, Exists
    <2> QED  BY <2>1, <2>2 DEF RowsSound
  <1>11. FieldsKept'  BY <1>2, <1>5 DEF IInv, FieldsKept
  <1>12. WishesSound'  BY <1>2 DEF IInv, WishesSound
  <1>13. WorkSound'
    <2>1. ASSUME NEW g \in Handler  PROVE (work[g].uid # None => Working(g))' /\ Carries(g)'
      <3>1. CASE g = h
        BY <1>2, <1>3, <1>7, <1>9, <3>1 DEF Carries, Exists
      <3>2. CASE g # h
        BY <1>1, <1>2, <1>4, <1>9, <3>2 DEF WorkSound, Carries, Exists
      <3> QED  BY <3>1, <3>2
    <2> QED  BY <2>1 DEF WorkSound
  <1>14. Alone'
    <2> SUFFICES ASSUME NEW f \in Handler, NEW g \in Handler, f # g,
                        Working(f)', Working(g)', work'[f].uid = work'[g].uid
                 PROVE  Exists(work[f].uid)' /\ work'[f].uid \in disturbed' /\ ~ work'[f].alone
      BY DEF Alone
    <2>1. CASE f = h
      BY <1>2, <1>3, <1>4, <1>5, <1>6, <1>8, <1>9, <2>1 DEF Exists
    <2>2. CASE g = h
      BY <1>2, <1>3, <1>4, <1>5, <1>6, <1>8, <1>9, <2>2 DEF Exists
    <2>3. CASE f # h /\ g # h
      BY <1>2, <1>4, <1>5, <1>9, <2>3 DEF IInv, Alone, Exists
    <2> QED  BY <2>1, <2>2, <2>3
  <1>15. Meddled'
    <2> SUFFICES ASSUME NEW g \in Handler, Working(g)', ~ work'[g].alone
                 PROVE  work'[g].uid \in stale'
      BY DEF Meddled
    <2>1. CASE g = h  BY <1>3, <1>5, <2>1
    <2>2. CASE g # h
      <3>1. Working(g) /\ work'[g].uid = work[g].uid  BY <1>4, <1>9, <2>2
      <3>2. CASE work[g].uid = u  BY <1>5, <1>8, <3>1, <3>2
      <3>3. CASE work[g].uid # u
        <4>1. ~ work[g].alone  BY <1>4, <2>2, <3>3
        <4> QED  BY <1>5, <3>1, <4>1 DEF IInv, Meddled
      <3> QED  BY <3>2, <3>3
    <2> QED  BY <2>1, <2>2
  <1>16. RowsFresh'
    <2> SUFFICES ASSUME NEW g \in Handler, work'[g].step = "update", work'[g].uid \notin disturbed'
                 PROVE  work'[g].row = [table[work'[g].uid] EXCEPT
                                          ![work'[g].field] = work'[g].row[work'[g].field]]
      BY <1>2 DEF RowsFresh
    <2>1. CASE g = h  BY <1>3, <1>7, <2>1
    <2>2. CASE g # h
      <3>1. work[g].step = "update" /\ work[g].uid \notin disturbed  BY <1>4, <1>5, <2>2
      <3>2. work[g].row = [table[work[g].uid] EXCEPT
                             ![work[g].field] = work[g].row[work[g].field]]
        BY <3>1 DEF IInv, RowsFresh
      <3> QED  BY <1>4, <2>2, <3>2
    <2> QED  BY <2>1, <2>2
  <1>17. CopyFollows'
    <2> SUFFICES ASSUME NEW g \in Handler
                 PROVE  /\ work'[g].step \in {"insert", "update"} /\ work'[g].uid \notin stale' =>
                             index'[work'[g].uid] = table'[work'[g].uid]
                        /\ work'[g].step = "index" /\ work'[g].alone =>
                             work'[g].row = table'[work'[g].uid]
      BY DEF CopyFollows
    <2>1. CASE g = h
      BY <1>2, <1>3, <1>5, <2>1 DEF IInv, IndexFollowsTable
    <2>2. CASE g # h
      BY <1>2, <1>4, <1>5, <1>9, <2>2 DEF IInv, CopyFollows
    <2> QED  BY <2>1, <2>2
  <1>18. IndexFollowsTable'
    <2>1. \A v \in User : ~ Busy(v)' => ~ Busy(v)
      <3>1. work[h].uid = None  BY DEF Request, Idle
      <3> QED  BY <1>4, <3>1, UserServiceAssumption DEF Busy
    <2> QED  BY <1>2, <1>5, <2>1 DEF IInv, IndexFollowsTable, Exists
  <1> QED  BY <1>10, <1>11, <1>12, <1>13, <1>14, <1>15, <1>16, <1>17, <1>18 DEF IInv

-----------------------------------------------------------------------------
LEMMA RegisterStep ==
  ASSUME IInv, NEW h \in Handler, NEW u \in User,
         \/ \E name \in Name : UserRegister(h, u, name)
         \/ \E phone \in Phone : PhoneRegister(h, u, phone)
  PROVE  IInv'
  <1>1. requests' \in 0 .. MAX_REQUESTS
    <2>1. Accept  BY DEF UserRegister, PhoneRegister
    <2>2. requests \in 0 .. MAX_REQUESTS  BY DEF IInv, RowsSound, TypeOK
    <2> QED  BY <2>1, <2>2, UserServiceAssumption DEF Accept
  <1>2. ~ Exists(u) /\ ~ Busy(u) /\ work[h] = Idle
        /\ disturbed' = disturbed /\ stale' = stale /\ UNCHANGED <<stores, wish, restarts>>
    BY DEF UserRegister, PhoneRegister, Unused, history
  <1>3. ASSUME NEW name \in Name, UserRegister(h, u, name)  PROVE IInv'
    <2>1. [NoRow EXCEPT !.nickname = name] \in Row  BY DEF NoRow, Row
    <2>2. Request(h, u, [NoRow EXCEPT !.nickname = name], None)
      BY <1>1, <1>2, <1>3, <2>1 DEF Request, UserRegister
    <2> QED  BY <2>2, RequestStep
  <1>4. ASSUME NEW phone \in Phone, PhoneRegister(h, u, phone)  PROVE IInv'
    <2>1. [NoRow EXCEPT !.nickname = u, !.phone = phone] \in Row  BY DEF NoRow, Row
    <2>2. Request(h, u, [NoRow EXCEPT !.nickname = u, !.phone = phone], None)
      BY <1>1, <1>2, <1>4, <2>1 DEF Request, PhoneRegister
    <2> QED  BY <2>2, RequestStep
  <1> QED  BY <1>3, <1>4

LEMMA SelectStep ==
  ASSUME IInv, NEW h \in Handler, NEW u \in User, NEW f \in Fields, NEW value \in ValuesOf(f),
         Select(h, u, f, value)
  PROVE  IInv'
  <1> DEFINE row == [table[u] EXCEPT ![f] = value]
  <1>1. table[u] \in Row  BY DEF Select, Exists, IInv, RowsSound, TypeOK
  <1>2. row \in Row /\ row[f] = value  BY <1>1, RowChanges
  <1>3. requests' \in 0 .. MAX_REQUESTS
    BY UserServiceAssumption DEF Select, Accept, IInv, RowsSound, TypeOK
  <1>4. Request(h, u, row, f)  BY <1>2, <1>3 DEF Request, Select
  <1> HIDE DEF row
  <1> QED  BY <1>4, RequestStep

-----------------------------------------------------------------------------
(* A handler of u writes its row: the wishes of u are now what it holds.   *)
Writes(h, u, row) ==
  /\ work[h].step \in {"insert", "update"} /\ work[h].uid = u /\ work[h].row = row
  /\ ~ Clashes(u, row)
  /\ table' = [table EXCEPT ![u] = row]
  /\ wish' \in [User -> Row \cup {NoRow}]
  /\ \A v \in User \ {u} : wish'[v] = wish[v]
  /\ wish'[u] # NoRow
  /\ u \notin disturbed => wish'[u] = row
  /\ work' = [work EXCEPT ![h].step = "index"]
  /\ UNCHANGED <<index, disturbed, stale, requests, restarts>>

LEMMA WriteStep ==
  ASSUME IInv, NEW h \in Handler, NEW u, NEW row, Writes(h, u, row)
  PROVE  IInv'
  <1>1. TypeOK /\ WorkSound  BY DEF IInv, RowsSound
  <1>2. Working(h) /\ u \in User /\ row \in Row
    BY <1>1 DEF Writes, Working, WorkSound, Carries
  <1>3. /\ work' \in [Handler -> Jobs]
        /\ work'[h].step = "index" /\ work'[h].uid = u
        /\ work'[h].row = row /\ work'[h].alone = work[h].alone
        /\ Others(h)
    BY <1>1, GoesOn DEF Writes
  <1>4. /\ table'[u] = row
        /\ \A v \in User \ {u} : table'[v] = table[v]
    BY <1>1, <1>2 DEF Writes, TypeOK
  <1>5. Exists(u)' /\ \A v \in User : Exists(v) => Exists(v)'
    BY <1>2, <1>4, NoRowIsNone DEF Exists
  <1>6. /\ \A g \in Handler : (Working(g)' <=> Working(g)) /\ work'[g].uid = work[g].uid
        /\ \A g \in Handler : work'[g].alone = work[g].alone
    BY <1>2, <1>3 DEF Working, Others, Writes
  <1>7. \A g \in Handler \ {h} : work[g].uid = u /\ Working(g) =>
          u \in disturbed /\ u \in stale /\ Exists(u) /\ ~ work[g].alone
    <2> SUFFICES ASSUME NEW g \in Handler \ {h}, work[g].uid = u, Working(g)
                 PROVE  u \in disturbed /\ u \in stale /\ Exists(u) /\ ~ work[g].alone
      OBVIOUS
    <2>1. u \in disturbed /\ ~ work[g].alone /\ Exists(u)
      BY <1>2 DEF IInv, Alone, Writes
    <2> QED  BY <2>1 DEF IInv, Meddled
  <1>8. RowsSound'
    <2>1. TypeOK'  BY <1>1, <1>2, <1>3, <1>4 DEF TypeOK, Writes, Jobs
    <2>2. NamesUnique'
      <3>1. \A v \in User \ {u} :
              /\ table[v].nickname # row.nickname
              /\ row.phone # None => table[v].phone # row.phone
        BY DEF Writes, Clashes
      <3> QED  BY <1>4, <3>1 DEF IInv, RowsSound, NamesUnique, Exists
    <2> QED  BY <2>1, <2>2 DEF RowsSound
  <1>9. FieldsKept'  BY <1>4 DEF Writes, IInv, FieldsKept
  <1>10. WishesSound'
    BY <1>4, <1>5 DEF Writes, IInv, WishesSound, Exists
  <1>11. IndexFollowsTable'
    <2> SUFFICES ASSUME NEW v \in User
                 PROVE  /\ index'[v] # NoRow => Exists(v)'
                        /\ ~ Busy(v)' /\ v \notin stale' => index'[v] = table'[v]
      BY DEF IndexFollowsTable
    <2>1. index'[v] # NoRow => Exists(v)'  BY <1>5 DEF Writes, IInv, IndexFollowsTable
    <2>2. ~ Busy(v)' => ~ Busy(v) /\ v # u  BY <1>3, <1>6 DEF Busy
    <2> QED  BY <1>4, <2>1, <2>2 DEF Writes, IInv, IndexFollowsTable
  <1>12. WorkSound'
    <2>1. ASSUME NEW g \in Handler  PROVE (work[g].uid # None => Working(g))' /\ Carries(g)'
      <3>1. CASE g = h
        BY <1>2, <1>3, <1>5, <1>6, <3>1 DEF Carries
      <3>2. CASE g # h
        <4>1. work'[g] = work[g]  BY <1>3, <3>2 DEF Others
        <4>2. (work[g].uid # None => Working(g)) /\ Carries(g)  BY <1>1 DEF WorkSound
        <4>3. work[g].uid = u /\ Working(g) => Exists(u)  BY <1>7, <3>2
        <4>4. work[g].uid = u => work[g].step # "insert"
          BY <4>2, <4>3 DEF Carries, Working
        <4> QED  BY <1>4, <1>5, <1>6, <4>1, <4>2, <4>4 DEF Carries, Exists
      <3> QED  BY <3>1, <3>2
    <2> QED  BY <2>1 DEF WorkSound
  <1>13. Alone'
    BY <1>5, <1>6, <1>1 DEF IInv, Alone, Writes, WorkSound, Carries
  <1>14. Meddled'
    BY <1>6 DEF IInv, Meddled, Writes
  <1>15. RowsFresh'
    <2> SUFFICES ASSUME NEW g \in Handler, work'[g].step = "update", work'[g].uid \notin disturbed'
                 PROVE  work'[g].row = [table'[work'[g].uid] EXCEPT
                                          ![work'[g].field] = work'[g].row[work'[g].field]]
      BY DEF RowsFresh
    <2>1. g # h /\ work'[g] = work[g]  BY <1>3 DEF Others
    <2>2. work[g].uid \in User /\ work[g].uid # u
      BY <1>1, <1>7, <2>1 DEF Writes, Working, WorkSound, Carries
    <2>3. table'[work[g].uid] = table[work[g].uid]  BY <1>4, <2>2
    <2> QED  BY <2>1, <2>3 DEF IInv, RowsFresh, Writes
  <1>16. CopyFollows'
    <2> SUFFICES ASSUME NEW g \in Handler
                 PROVE  /\ work'[g].step \in {"insert", "update"} /\ work'[g].uid \notin stale' =>
                             index'[work'[g].uid] = table'[work'[g].uid]
                        /\ work'[g].step = "index" /\ work'[g].alone =>
                             work'[g].row = table'[work'[g].uid]
      BY DEF CopyFollows
    <2>1. CASE g = h  BY <1>3, <1>4, <2>1
    <2>2. CASE g # h
      <3>1. work'[g] = work[g]  BY <1>3, <2>2 DEF Others
      <3>2. Working(g) => work[g].uid \in User  BY <1>1 DEF WorkSound, Carries
      <3>3. Working(g) /\ (work[g].uid \notin stale \/ work[g].alone) => work[g].uid # u
        BY <1>7, <2>2
      <3> QED  BY <1>4, <3>1, <3>2, <3>3 DEF Writes, IInv, CopyFollows, Working
    <2> QED  BY <2>1, <2>2
  <1> QED  BY <1>8, <1>9, <1>10, <1>11, <1>12, <1>13, <1>14, <1>15, <1>16 DEF IInv

LEMMA InsertStep ==
  ASSUME IInv, NEW h \in Handler, Insert(h)  PROVE IInv'
  <1> DEFINE u == work[h].uid
  <1>1. u \in User /\ work[h].row \in Row
    BY DEF Insert, IInv, WorkSound, Carries, Working
  <1>2. /\ wish' \in [User -> Row \cup {NoRow}]
        /\ \A v \in User \ {u} : wish'[v] = wish[v]
        /\ wish'[u] = work[h].row
    BY <1>1 DEF Insert, IInv, RowsSound, TypeOK
  <1>3. Writes(h, u, work[h].row)
    BY <1>1, <1>2, NoRowIsNone DEF Insert, Writes
  <1> HIDE DEF u
  <1> QED  BY <1>3, WriteStep

LEMMA UpdateStep ==
  ASSUME IInv, NEW h \in Handler, Update(h)  PROVE IInv'
  <1> DEFINE u == work[h].uid  f == work[h].field  row == work[h].row
  <1>1. u \in User /\ row \in Row /\ f \in Fields /\ table[u] # NoRow
    BY DEF Update, IInv, WorkSound, Carries, Working, Exists
  <1>2. wish[u] \in Row /\ wish \in [User -> Row \cup {NoRow}]
    BY <1>1 DEF IInv, WishesSound, RowsSound, TypeOK
  <1>3. [wish[u] EXCEPT ![f] = row[f]] \in Row
    BY <1>1, <1>2, RowChanges
  <1>4. wish' = [wish EXCEPT ![u] = [wish[u] EXCEPT ![f] = row[f]]]
    BY DEF Update
  <1>5. /\ wish' \in [User -> Row \cup {NoRow}]
        /\ \A v \in User \ {u} : wish'[v] = wish[v]
        /\ wish'[u] = [wish[u] EXCEPT ![f] = row[f]]
    <2> HIDE DEF u, f, row
    <2> QED  BY <1>1, <1>2, <1>3, <1>4
  <1>6. wish'[u] # NoRow  BY <1>3, <1>5, NoRowIsNone
  <1>7. u \notin disturbed => wish'[u] = row
    <2>1. u \notin disturbed => row = [table[u] EXCEPT ![f] = row[f]]
      BY DEF Update, IInv, RowsFresh
    <2>2. u \notin disturbed => table[u] = wish[u]  BY <1>1 DEF IInv, FieldsKept
    <2> HIDE DEF u, f, row
    <2> QED  BY <1>5, <2>1, <2>2
  <1>8. Writes(h, u, row)
    BY <1>5, <1>6, <1>7 DEF Update, Writes
  <1> HIDE DEF u, row
  <1> QED  BY <1>8, WriteStep

-----------------------------------------------------------------------------
(* A handler of u ends.  Either the copy of u counts as stale, or it is    *)
(* the row and nobody else works for u.                                    *)
Ends(h, u) ==
  /\ Working(h) /\ work[h].uid = u /\ GiveUp(h)
  /\ index' \in [User -> Row \cup {NoRow}] /\ stale' \subseteq User
  /\ \A v \in User \ {u} : index'[v] = index[v] /\ (v \in stale' <=> v \in stale)
  /\ index'[u] # NoRow => Exists(u)
  /\ u \notin stale' =>
       /\ index'[u] = table[u]
       /\ \A g \in Handler \ {h} : Working(g) => work[g].uid # u
  /\ UNCHANGED <<table, wish, disturbed, requests, restarts>>

LEMMA EndStep ==
  ASSUME IInv, NEW h \in Handler, NEW u, Ends(h, u)
  PROVE  IInv'
  <1>1. TypeOK /\ WorkSound  BY DEF IInv, RowsSound
  <1>2. u \in User  BY <1>1 DEF Ends, WorkSound, Carries
  <1>3. /\ work' \in [Handler -> Jobs]
        /\ work'[h].step = "idle" /\ work'[h].uid = None /\ ~ Working(h)'
        /\ Others(h)
    BY <1>1, GivesUp DEF Ends, Working
  <1>4. \A g \in Handler : Working(g)' => g # h /\ work'[g] = work[g] /\ Working(g)
    BY <1>3 DEF Others, Working
  <1>5. RowsSound'
    <2>1. TypeOK'  BY <1>1, <1>3 DEF Ends, TypeOK, Jobs
    <2>2. NamesUnique'  BY DEF Ends, IInv, RowsSound, NamesUnique, Exists
    <2> QED  BY <2>1, <2>2 DEF RowsSound
  <1>6. FieldsKept' /\ WishesSound'  BY DEF Ends, IInv, FieldsKept, WishesSound
  <1>7. IndexFollowsTable'
    <2> SUFFICES ASSUME NEW v \in User
                 PROVE  /\ index'[v] # NoRow => Exists(v)'
                        /\ ~ Busy(v)' /\ v \notin stale' => index'[v] = table'[v]
      BY DEF IndexFollowsTable
    <2>1. CASE v = u  BY <2>1 DEF Ends, Exists
    <2>2. CASE v # u
      <3>1. ~ Busy(v)' => ~ Busy(v)
        BY <1>3, <2>2 DEF Busy, Others, Ends
      <3> QED  BY <2>2, <3>1 DEF Ends, IInv, IndexFollowsTable, Exists
    <2> QED  BY <2>1, <2>2
  <1>8. WorkSound'
    <2>1. ASSUME NEW g \in Handler  PROVE (work[g].uid # None => Working(g))' /\ Carries(g)'
      <3>1. CASE g = h  BY <1>3, <3>1 DEF Carries
      <3>2. CASE g # h
        BY <1>1, <1>3, <3>2 DEF Ends, Others, WorkSound, Carries, Exists, Working
      <3> QED  BY <3>1, <3>2
    <2> QED  BY <2>1 DEF WorkSound
  <1>9. Alone'
    BY <1>4 DEF Ends, IInv, Alone, Exists
  <1>10. \A g \in Handler : Working(g)' =>
           work[g].uid \in User /\ (work[g].uid \notin stale' => work[g].uid # u)
    BY <1>1, <1>4 DEF Ends, WorkSound, Carries
  <1>11. Meddled'
    BY <1>4, <1>10 DEF Ends, IInv, Meddled
  <1>12. RowsFresh'
    <2>1. \A g \in Handler : work'[g].step = "update" => Working(g)'  BY DEF Working
    <2> QED  BY <1>4, <2>1 DEF Ends, IInv, RowsFresh
  <1>13. CopyFollows'
    BY <1>4, <1>10 DEF Ends, IInv, CopyFollows, Working
  <1> QED  BY <1>5, <1>6, <1>7, <1>8, <1>9, <1>11, <1>12, <1>13 DEF IInv

LEMMA IndexStep ==
  ASSUME IInv, NEW h \in Handler,
         AppendData(h) \/ AppendDataFails(h) \/ TransactionFails(h)
  PROVE  IInv'
  <1> DEFINE u == work[h].uid
  <1>1. TypeOK /\ WorkSound  BY DEF IInv, RowsSound
  <1>2. Working(h) /\ GiveUp(h) /\ UNCHANGED <<table, wish, disturbed, requests, restarts>>
    BY DEF AppendData, AppendDataFails, TransactionFails, Working, stores, history
  <1>3. u \in User /\ work[h].row \in Row  BY <1>1, <1>2 DEF WorkSound, Carries
  <1>4. work[h].alone => \A g \in Handler \ {h} : Working(g) => work[g].uid # u
    BY <1>2 DEF IInv, Alone
  <1>5. ~ work[h].alone => u \in stale  BY <1>2 DEF IInv, Meddled
  <1>6. CASE AppendData(h)
    <2>1. /\ index' = [index EXCEPT ![u] = work[h].row] /\ Exists(u)
          /\ stale' = IF work[h].alone THEN stale \ {u} ELSE stale
      BY <1>1, <1>2, <1>6 DEF AppendData, WorkSound, Carries
    <2>2. work[h].alone => work[h].row = table[u]
      BY <1>6 DEF AppendData, IInv, CopyFollows
    <2>3. Ends(h, u)
      BY <1>1, <1>2, <1>3, <1>4, <1>5, <2>1, <2>2 DEF Ends, TypeOK
    <2> HIDE DEF u
    <2> QED  BY <2>3, EndStep
  <1>7. CASE AppendDataFails(h)
    <2>1. /\ index' = index /\ stale' = stale \cup {u}
      BY <1>7 DEF AppendDataFails, stores
    <2>2. Ends(h, u)
      BY <1>1, <1>2, <1>3, <2>1 DEF Ends, IInv, IndexFollowsTable, TypeOK
    <2> HIDE DEF u
    <2> QED  BY <2>2, EndStep
  <1>8. CASE TransactionFails(h)
    <2>1. /\ index' = index /\ stale' = stale /\ work[h].step \in {"insert", "update"}
      BY <1>8 DEF TransactionFails, stores, history
    <2>2. u \notin stale => index[u] = table[u]
      BY <1>2, <2>1 DEF IInv, CopyFollows
    <2>3. Ends(h, u)
      BY <1>1, <1>2, <1>3, <1>4, <1>5, <2>1, <2>2 DEF Ends, IInv, IndexFollowsTable, TypeOK
    <2> HIDE DEF u
    <2> QED  BY <2>3, EndStep
  <1> QED  BY <1>6, <1>7, <1>8

LEMMA RestartStep == ASSUME IInv, Restart  PROVE IInv'
  <1>1. TypeOK /\ WorkSound  BY DEF IInv, RowsSound
  <1>2. \A h \in Handler : work'[h] = Idle /\ ~ Working(h)' /\ work'[h].uid = None
    BY DEF Restart, Idle, Working
  <1>3. RowsSound'
    <2>1. TypeOK'
      <3>1. Idle \in Jobs  BY DEF Idle, Jobs
      <3>2. stale' \subseteq User /\ restarts' \in 0 .. MAX_RESTARTS
        BY <1>1, UserServiceAssumption DEF Restart, TypeOK
      <3> QED  BY <1>1, <3>1, <3>2 DEF Restart, TypeOK, Jobs, stores
    <2>2. NamesUnique'  BY DEF Restart, stores, IInv, RowsSound, NamesUnique, Exists
    <2> QED  BY <2>1, <2>2 DEF RowsSound
  <1>4. FieldsKept' /\ WishesSound'
    BY DEF Restart, stores, IInv, FieldsKept, WishesSound
  <1>5. IndexFollowsTable'
    <2> SUFFICES ASSUME NEW v \in User
                 PROVE  /\ index'[v] # NoRow => Exists(v)'
                        /\ v \notin stale' => index'[v] = table'[v]
      BY DEF IndexFollowsTable
    <2>1. index'[v] # NoRow => Exists(v)'
      BY DEF Restart, stores, IInv, IndexFollowsTable, Exists
    <2>2. ASSUME v \notin stale'  PROVE index[v] = table[v]
      <3>1. v \notin stale /\ \A h \in Handler : work[h].uid = v => work[h].step # "index"
        BY <2>2 DEF Restart
      <3>2. CASE Busy(v)
        <4>1. PICK h \in Handler : work[h].uid = v  BY <3>2 DEF Busy
        <4>2. Working(h)  BY <1>1, <4>1, UserServiceAssumption DEF WorkSound
        <4>3. work[h].step \in {"insert", "update"}
          BY <1>1, <3>1, <4>1, <4>2 DEF TypeOK, Working
        <4> QED  BY <3>1, <4>1, <4>3 DEF IInv, CopyFollows
      <3>3. CASE ~ Busy(v)  BY <3>1, <3>3 DEF IInv, IndexFollowsTable
      <3> QED  BY <3>2, <3>3
    <2> QED  BY <2>1, <2>2 DEF Restart, stores
  <1>6. WorkSound' /\ Alone' /\ Meddled' /\ RowsFresh' /\ CopyFollows'
    <2>1. WorkSound'
      BY <1>2 DEF WorkSound, Carries
    <2>2. \A h \in Handler : work'[h].step = "idle"  BY <1>2 DEF Working
    <2> QED  BY <1>2, <2>1, <2>2 DEF Alone, Meddled, RowsFresh, CopyFollows
  <1> QED  BY <1>3, <1>4, <1>5, <1>6 DEF IInv

LEMMA NextInvariant == IInv /\ [Next]_vars => IInv'
  <1> SUFFICES ASSUME IInv, [Next]_vars  PROVE IInv'
    OBVIOUS
  <1>1. ASSUME NEW h \in Handler, NEW u \in User, NEW name \in Name, UserRegister(h, u, name)
        PROVE  IInv'
    BY <1>1, RegisterStep
  <1>2. ASSUME NEW h \in Handler, NEW u \in User, NEW phone \in Phone, PhoneRegister(h, u, phone)
        PROVE  IInv'
    BY <1>2, RegisterStep
  <1>3. ASSUME NEW h \in Handler, NEW u \in User, NEW f \in Fields, NEW value \in ValuesOf(f),
               Select(h, u, f, value)
        PROVE  IInv'
    BY <1>3, SelectStep
  <1>4. ASSUME NEW h \in Handler, Insert(h)  PROVE IInv'
    BY <1>4, InsertStep
  <1>5. ASSUME NEW h \in Handler, Update(h)  PROVE IInv'
    BY <1>5, UpdateStep
  <1>6. ASSUME NEW h \in Handler, AppendData(h) \/ AppendDataFails(h) \/ TransactionFails(h)
        PROVE  IInv'
    BY <1>6, IndexStep
  <1>7. CASE Restart  BY <1>7, RestartStep
  <1>8. CASE UNCHANGED vars
    <2>1. UNCHANGED <<table, index, work, wish, disturbed, stale, requests, restarts>>
      BY <1>8 DEF vars, stores, history
    <2>2. RowsSound'  BY <2>1 DEF IInv, RowsSound, TypeOK, NamesUnique, Exists
    <2>3. FieldsKept' /\ WishesSound'  BY <2>1 DEF IInv, FieldsKept, WishesSound
    <2>4. IndexFollowsTable'  BY <2>1 DEF IInv, IndexFollowsTable, Busy, Exists
    <2>5. WorkSound' /\ Alone'  BY <2>1 DEF IInv, WorkSound, Carries, Alone, Working, Exists
    <2>6. Meddled' /\ RowsFresh' /\ CopyFollows'
      BY <2>1 DEF IInv, Meddled, RowsFresh, CopyFollows, Working
    <2> QED  BY <2>2, <2>3, <2>4, <2>5, <2>6 DEF IInv
  <1> QED  BY <1>1, <1>2, <1>3, <1>4, <1>5, <1>6, <1>7, <1>8 DEF Next

-----------------------------------------------------------------------------
LEMMA Invariance == Spec => []IInv
  BY InitInvariant, NextInvariant, PTL DEF Spec

(* No two users have one nickname or one telephone number, whatever        *)
(* requests overlap and whichever of their steps fail; and all data have   *)
(* their types (mysql_user.hpp:38, user_server.hpp:90).                    *)
THEOREM RowsAreSound == Spec => []RowsSound
  <1>1. IInv => RowsSound  BY DEF IInv
  <1> QED  BY <1>1, Invariance, PTL

(* A profile holds what was last stored in each of its fields, unless two  *)
(* requests of its user overlapped (user_server.hpp:509).                  *)
THEOREM FieldsAreKept == Spec => []FieldsKept
  <1>1. IInv => FieldsKept  BY DEF IInv
  <1> QED  BY <1>1, Invariance, PTL

(* The search index follows the table: it has no user the table lacks, and *)
(* the copy of a user at rest is the row unless it counts as stale         *)
(* (user_server.hpp:379 and 515).                                          *)
THEOREM IndexIsFaithful == Spec => []IndexFollowsTable
  <1>1. IInv => IndexFollowsTable  BY DEF IInv
  <1> QED  BY <1>1, Invariance, PTL

=============================================================================
