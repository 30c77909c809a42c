--------------------------- MODULE MessagesProofs ---------------------------
(***************************************************************************)
(* Proofs about Messages, for any numbers of posts, retries and faults,    *)
(* and that it implements Delivery.                                        *)
(*                                                                         *)
(* A message that was ever published is seen for ever: on its way, in a    *)
(* row, or excused (Seen); only a publication makes a message seen.  What  *)
(* makes this work is that the message service acknowledges a message      *)
(* after it has a row or an excuse, and that the broker has what the       *)
(* service works on or has lost it with an excuse (WorkSound).             *)
(***************************************************************************)
EXTENDS Messages, TLAPS

(* What the loop thread of the message service works on.                   *)
WorkSound ==
  /\ work.msg = None <=> work.step = "idle"
  /\ work.msg # None => work.msg \in queue \cup excused
  /\ work.step = "index" => IsText(work.msg)
  /\ work.step = "file" => ~ IsText(work.msg)
  /\ work.step = "row" => IF IsText(work.msg) THEN work.msg \in es
                          ELSE work.file \in 1 .. files[work.msg]
  /\ work.step = "ack" => work.msg \in Rows \cup excused

(* A sender is answered when the post is done. *)
AnsweredWhenDone == \A p \in Post : answer[p] = "none" <=> pc[p] # "done"

(* No message is seen before it is published, a call that did not break    *)
(* has one attempt, and one that failed has published nothing.             *)
Fresh == \A p \in Post :
  /\ \A n \in 1 .. MAX_RETRY + 1 : n > try[p] => <<p, n>> \notin Seen
  /\ pc[p] \in {"new", "asked"} => Current(p) \notin Seen
  /\ p \notin broken => try[p] = 1 /\ (answer[p] = "error" => Current(p) \notin Seen)

IInv == TypeOK /\ WorkSound /\ StoresAgree /\ AnsweredWhenDone /\ KeptOrExcused /\ Fresh

-----------------------------------------------------------------------------
LEMMA InitInvariant == Init => IInv
  <1> SUFFICES ASSUME Init  PROVE IInv
    OBVIOUS
  <1>1. work.msg = None /\ work.step = "idle" /\ work.file = 0
    BY DEF Init, NoWork
  <1>2. Rows = {}  BY DEF Init, Rows, NoRow
  <1>3. Seen = {}  BY <1>1, <1>2 DEF Init, Seen, OnItsWay
  <1>4. TypeOK
    <2>1. NoWork \in [msg : Message \cup {None},
                     step : {"idle", "index", "file", "row", "ack"}, file : Nat]
      BY DEF NoWork
    <2>2. NoRow \in [made : BOOLEAN, file : Nat]  BY DEF NoRow
    <2>3. 1 \in 1 .. MAX_RETRY + 1 /\ 0 \in 0 .. MAX_FAULTS
      BY MessagesAssumption
    <2> QED  BY <2>1, <2>2, <2>3 DEF Init, TypeOK
  <1>5. WorkSound  BY <1>1 DEF WorkSound
  <1>6. StoresAgree
    BY <1>2 DEF Init, StoresAgree, GetHistoryMsgFails, MsgSearch
  <1>7. AnsweredWhenDone  BY DEF Init, AnsweredWhenDone
  <1>8. KeptOrExcused  BY DEF Init, KeptOrExcused
  <1>9. Fresh  BY <1>3 DEF Init, Fresh
  <1> QED  BY <1>4, <1>5, <1>6, <1>7, <1>8, <1>9 DEF IInv

(* While the loop thread works, it works on a message. *)
LEMMA WorksOnMessage ==
  ASSUME IInv, work.step # "idle"
  PROVE  /\ work.msg \in Message /\ work.msg # None
         /\ work.msg \in queue \cup excused
         /\ work.msg \in OnItsWay
  <1>1. work.msg # None  BY DEF IInv, WorkSound
  <1>2. work.msg \in Message  BY <1>1 DEF IInv, TypeOK
  <1>3. work.msg \in queue \cup excused  BY <1>1 DEF IInv, WorkSound
  <1> QED  BY <1>1, <1>2, <1>3 DEF OnItsWay

LEMMA CurrentIsMessage ==
  ASSUME TypeOK, NEW p \in Post
  PROVE  /\ Current(p) \in Message /\ Current(p) = <<p, try[p]>>
         /\ Current(p) \in Attempts(p)
  <1>1. try[p] \in 1 .. MAX_RETRY + 1  BY DEF TypeOK
  <1> QED  BY <1>1 DEF Current, Message, Attempts

(* As long as the same messages are seen, nothing changes for the senders. *)
LEMMA SameSeen ==
  ASSUME IInv, Seen' = Seen, UNCHANGED <<sender, broken>>
  PROVE  AnsweredWhenDone' /\ KeptOrExcused' /\ Fresh'
  <1>1. pc' = pc /\ try' = try /\ answer' = answer /\ broken' = broken
    BY DEF sender
  <1>2. AnsweredWhenDone'  BY <1>1 DEF IInv, AnsweredWhenDone
  <1>3. KeptOrExcused'  BY <1>1 DEF IInv, KeptOrExcused, Current
  <1>4. Fresh'  BY <1>1 DEF IInv, Fresh, Current
  <1> QED  BY <1>2, <1>3, <1>4

(* The stores and the work stay as they are, the excuses only grow, and    *)
(* what the service works on stays in the queue or gets an excuse.         *)
LEMMA SameStores ==
  ASSUME IInv, UNCHANGED <<work, stores>>, Seen \subseteq Seen',
         excused \subseteq excused',
         work.msg # None => work.msg \in queue' \cup excused'
  PROVE  WorkSound' /\ StoresAgree'
  <1>1. work' = work /\ es' = es /\ files' = files /\ row' = row
    BY DEF stores
  <1>2. Rows' = Rows  BY <1>1 DEF Rows
  <1>3. WorkSound'
    <2>1. (work.msg = None <=> work.step = "idle")'
      BY <1>1 DEF IInv, WorkSound
    <2>2. (work.msg # None => work.msg \in queue \cup excused)'
      BY <1>1
    <2>3. (work.step = "index" => IsText(work.msg))' /\ (work.step = "file" => ~ IsText(work.msg))'
      BY <1>1 DEF IInv, WorkSound, IsText
    <2>4. (work.step = "row" => IF IsText(work.msg) THEN work.msg \in es
                                ELSE work.file \in 1 .. files[work.msg])'
      BY <1>1 DEF IInv, WorkSound, IsText
    <2>5. (work.step = "ack" => work.msg \in Rows \cup excused)'
      BY <1>1, <1>2 DEF IInv, WorkSound
    <2> QED  BY <2>1, <2>2, <2>3, <2>4, <2>5 DEF WorkSound
  <1>4. StoresAgree'
    <2>1. (~ GetHistoryMsgFails)'
      BY <1>1, <1>2 DEF IInv, StoresAgree, GetHistoryMsgFails, IsText
    <2>2. (\A m \in Rows : IsText(m) => m \in MsgSearch)'
      BY <1>1, <1>2 DEF IInv, StoresAgree, MsgSearch, IsText
    <2>3. (MsgSearch \subseteq Seen)'
      BY <1>1 DEF IInv, StoresAgree, MsgSearch
    <2> QED  BY <2>1, <2>2, <2>3 DEF StoresAgree
  <1> QED  BY <1>3, <1>4

-----------------------------------------------------------------------------
(* The message service, step by step.                                      *)

LEMMA OnReceivedKeeps ==
  ASSUME IInv, NEW m \in Message, OnReceived(m)
  PROVE  IInv' /\ Seen' = Seen
  <1>1. /\ work = NoWork /\ m \in queue
        /\ work'.msg = m /\ work'.file = 0 /\ m # None
        /\ work'.step = IF IsText(m) THEN "index" ELSE "file"
        /\ work' \in [msg : Message \cup {None},
                      step : {"idle", "index", "file", "row", "ack"}, file : Nat]
    BY MessagesAssumption DEF OnReceived, Message, Post
  <1>2. UNCHANGED <<sender, buffer, queue, links, stores, broken, excused, faults>>
    BY DEF OnReceived
  <1>3. TypeOK'
    BY <1>1, <1>2 DEF IInv, TypeOK, sender, links, stores
  <1>4. Rows' = Rows  BY <1>2 DEF Rows, stores
  <1>5. work.msg = None  BY <1>1 DEF NoWork
  <1>6. OnItsWay' = OnItsWay  BY <1>1, <1>2, <1>5 DEF OnItsWay
  <1>7. Seen' = Seen  BY <1>2, <1>4, <1>6 DEF Seen
  <1>8. WorkSound'
    BY <1>1, <1>2 DEF WorkSound, IsText
  <1>9. StoresAgree'
    BY <1>2, <1>4, <1>7 DEF IInv, StoresAgree, GetHistoryMsgFails, MsgSearch, IsText, stores
  <1> QED  BY <1>2, <1>3, <1>7, <1>8, <1>9, SameSeen DEF IInv

(* A step of the loop thread with the message it has changes the step, and *)
(* nothing is seen or lost by it as long as rows have been on their way.   *)
LEMMA WorkGoesOn ==
  ASSUME IInv, work.step # "idle", work'.msg = work.msg,
         UNCHANGED <<sender, buffer, queue, broken>>,
         excused \subseteq excused', excused' \subseteq excused \cup {work.msg},
         Rows \subseteq Rows', Rows' \subseteq Rows \cup {work.msg}
  PROVE  Seen' = Seen /\ OnItsWay' = OnItsWay
  <1>1. work.msg \in OnItsWay  BY WorksOnMessage
  <1>2. OnItsWay' = OnItsWay  BY DEF OnItsWay
  <1> QED  BY <1>1, <1>2 DEF Seen

LEMMA AppendDataKeeps ==
  ASSUME IInv, AppendData
  PROVE  IInv' /\ Seen' = Seen /\ OnItsWay' = OnItsWay
  <1>1. /\ work.step = "index" /\ es' = es \cup {work.msg}
        /\ UNCHANGED <<sender, buffer, queue, links, files, row, broken, excused, faults>>
    BY DEF AppendData, Working
  <1>2. /\ work.msg \in Message /\ work.msg # None
        /\ work.msg \in queue \cup excused
        /\ work.msg \in OnItsWay
    BY <1>1, WorksOnMessage
  <1>3. /\ work'.msg = work.msg /\ work'.step = "row" /\ work'.file = work.file
        /\ work' \in [msg : Message \cup {None},
                      step : {"idle", "index", "file", "row", "ack"}, file : Nat]
    BY DEF AppendData, GoOn, IInv, TypeOK
  <1>4. TypeOK'
    BY <1>1, <1>2, <1>3 DEF IInv, TypeOK, sender, links
  <1>5. Rows' = Rows  BY <1>1 DEF Rows
  <1>6. Seen' = Seen /\ OnItsWay' = OnItsWay
    BY <1>1, <1>3, <1>5, WorkGoesOn
  <1>7. IsText(work.msg)  BY <1>1 DEF IInv, WorkSound
  <1>8. WorkSound'
    BY <1>1, <1>2, <1>3, <1>7 DEF WorkSound, IsText
  <1>9. StoresAgree'
    BY <1>1, <1>2, <1>5, <1>6
    DEF IInv, StoresAgree, GetHistoryMsgFails, MsgSearch, IsText, Seen
  <1> QED  BY <1>1, <1>4, <1>6, <1>8, <1>9, SameSeen DEF IInv

LEMMA PutFileKeeps ==
  ASSUME IInv, PutFile
  PROVE  IInv' /\ Seen' = Seen /\ OnItsWay' = OnItsWay
  <1>1. /\ work.step = "file" /\ files' = [files EXCEPT ![work.msg] = @ + 1]
        /\ UNCHANGED <<sender, buffer, queue, links, es, row, broken, excused, faults>>
    BY DEF PutFile, Working
  <1>2. /\ work.msg \in Message /\ work.msg # None
        /\ work.msg \in queue \cup excused
    BY <1>1, WorksOnMessage
  <1>3. files \in [Message -> Nat]  BY DEF IInv, TypeOK
  <1>4. /\ files' \in [Message -> Nat] /\ files'[work.msg] = files[work.msg] + 1
        /\ \A m \in Message : files[m] \in Nat /\ files'[m] \in Nat /\ files[m] <= files'[m]
    BY <1>1, <1>2, <1>3
  <1>5. files[work.msg] + 1 \in Nat  BY <1>2, <1>3
  <1>6. /\ work'.msg = work.msg /\ work'.step = "row" /\ work'.file = files[work.msg] + 1
        /\ work' \in [msg : Message \cup {None},
                      step : {"idle", "index", "file", "row", "ack"}, file : Nat]
    BY <1>5 DEF PutFile, IInv, TypeOK
  <1>7. TypeOK'
    BY <1>1, <1>4, <1>6 DEF IInv, TypeOK, sender, links
  <1>8. Rows' = Rows  BY <1>1 DEF Rows
  <1>9. Seen' = Seen /\ OnItsWay' = OnItsWay
    BY <1>1, <1>6, <1>8, WorkGoesOn
  <1>10. ~ IsText(work.msg)  BY <1>1 DEF IInv, WorkSound
  <1>11. work'.file \in 1 .. files'[work'.msg]
    <2> DEFINE k == files[work.msg]
    <2>1. k \in Nat  BY <1>2, <1>3
    <2>2. k + 1 \in 1 .. k + 1  BY <2>1
    <2>3. files'[work'.msg] = k + 1 /\ work'.file = k + 1  BY <1>4, <1>6
    <2> HIDE DEF k
    <2> QED  BY <2>2, <2>3
  <1>12. WorkSound'
    BY <1>1, <1>2, <1>6, <1>10, <1>11 DEF WorkSound, IsText
  <1>13. StoresAgree'
    <2>1. (~ GetHistoryMsgFails)'
      <3> SUFFICES ASSUME NEW m \in Rows, ~ IsText(m)
                   PROVE  row[m].file \in 1 .. files'[m]
        BY <1>1, <1>8 DEF GetHistoryMsgFails, IsText
      <3>1. row[m].file \in 1 .. files[m]
        BY DEF IInv, StoresAgree, GetHistoryMsgFails
      <3>2. m \in Message  BY DEF Rows
      <3> QED  BY <3>1, <3>2, <1>4
    <2> QED
      BY <2>1, <1>1, <1>8, <1>9 DEF IInv, StoresAgree, MsgSearch, IsText
  <1> QED  BY <1>1, <1>7, <1>9, <1>12, <1>13, SameSeen DEF IInv

LEMMA StoreFailsKeeps ==
  ASSUME IInv, StoreFails
  PROVE  IInv' /\ Seen' = Seen /\ OnItsWay' = OnItsWay
  <1>1. /\ work.step \in {"index", "file", "row"}
        /\ excused' = excused \cup {work.msg}
        /\ UNCHANGED <<sender, buffer, queue, links, es, row, broken, faults>>
    BY DEF StoreFails
  <1>2. /\ work.msg \in Message /\ work.msg # None
        /\ work.msg \in queue \cup excused
    BY <1>1, WorksOnMessage
  <1>3. files \in [Message -> Nat]  BY DEF IInv, TypeOK
  <1>4. /\ files' \in [Message -> Nat]
        /\ \A m \in Message : files[m] \in Nat /\ files'[m] \in Nat /\ files[m] <= files'[m]
    <2>1. CASE files' = files  BY <2>1, <1>3
    <2>2. CASE files' = [files EXCEPT ![work.msg] = IF Working("file") THEN @ + 1 ELSE @]
      BY <2>2, <1>2, <1>3
    <2> QED  BY <2>1, <2>2 DEF StoreFails
  <1>5. /\ work'.msg = work.msg /\ work'.step = "ack"
        /\ work' \in [msg : Message \cup {None},
                      step : {"idle", "index", "file", "row", "ack"}, file : Nat]
    BY DEF StoreFails, GoOn, IInv, TypeOK
  <1>6. TypeOK'
    BY <1>1, <1>2, <1>4, <1>5 DEF IInv, TypeOK, sender, links
  <1>7. Rows' = Rows  BY <1>1 DEF Rows
  <1>8. Seen' = Seen /\ OnItsWay' = OnItsWay
    BY <1>1, <1>5, <1>7, WorkGoesOn
  <1>9. WorkSound'
    BY <1>1, <1>2, <1>5 DEF WorkSound
  <1>10. StoresAgree'
    <2>1. (~ GetHistoryMsgFails)'
      <3> SUFFICES ASSUME NEW m \in Rows, ~ IsText(m)
                   PROVE  row[m].file \in 1 .. files'[m]
        BY <1>1, <1>7 DEF GetHistoryMsgFails, IsText
      <3>1. row[m].file \in 1 .. files[m]
        BY DEF IInv, StoresAgree, GetHistoryMsgFails
      <3>2. m \in Message  BY DEF Rows
      <3> QED  BY <3>1, <3>2, <1>4
    <2> QED
      BY <2>1, <1>1, <1>7, <1>8 DEF IInv, StoresAgree, MsgSearch, IsText
  <1> QED  BY <1>1, <1>6, <1>8, <1>9, <1>10, SameSeen DEF IInv

LEMMA InsertRowKeeps ==
  ASSUME IInv, InsertRow
  PROVE  /\ IInv' /\ Seen' = Seen /\ OnItsWay' = OnItsWay
         /\ Rows' = Rows \cup {work.msg}
  <1>1. /\ work.step = "row"
        /\ row' = [row EXCEPT ![work.msg] = IF @.made THEN @ ELSE Row(work.file)]
        /\ UNCHANGED <<sender, buffer, queue, links, es, files, broken, excused, faults>>
    BY DEF InsertRow, Working
  <1>2. /\ work.msg \in Message /\ work.msg # None
        /\ work.msg \in queue \cup excused
    BY <1>1, WorksOnMessage
  <1>3. /\ row \in [Message -> [made : BOOLEAN, file : Nat]] /\ work.file \in Nat
        /\ files \in [Message -> Nat]
    BY DEF IInv, TypeOK
  <1>4. /\ Row(work.file) \in [made : BOOLEAN, file : Nat]
        /\ Row(work.file).made /\ Row(work.file).file = work.file
    BY <1>3 DEF Row
  <1>5. /\ row' \in [Message -> [made : BOOLEAN, file : Nat]]
        /\ row'[work.msg] = IF row[work.msg].made THEN row[work.msg] ELSE Row(work.file)
        /\ \A m \in Message : m # work.msg => row'[m] = row[m]
    BY <1>1, <1>2, <1>3, <1>4
  <1>6. /\ work'.msg = work.msg /\ work'.step = "ack"
        /\ work' \in [msg : Message \cup {None},
                      step : {"idle", "index", "file", "row", "ack"}, file : Nat]
    BY DEF InsertRow, GoOn, IInv, TypeOK
  <1>7. TypeOK'
    BY <1>1, <1>5, <1>6 DEF IInv, TypeOK, sender, links
  <1>8. row'[work.msg].made
    BY <1>4, <1>5
  <1>9. Rows' = Rows \cup {work.msg}
    BY <1>2, <1>5, <1>8 DEF Rows
  <1>10. Seen' = Seen /\ OnItsWay' = OnItsWay
    BY <1>1, <1>6, <1>9, WorkGoesOn
  <1>11. WorkSound'
    BY <1>1, <1>2, <1>6, <1>9 DEF WorkSound
  <1>12. StoresAgree'
    <2>1. (~ GetHistoryMsgFails)'
      <3> SUFFICES ASSUME NEW m \in Rows', ~ IsText(m)
                   PROVE  row'[m].file \in 1 .. files[m]
        BY <1>1 DEF GetHistoryMsgFails, IsText
      <3>1. CASE m \in Rows
        <4>1. row'[m] = row[m]  BY <3>1, <1>5 DEF Rows
        <4> QED  BY <3>1, <4>1 DEF IInv, StoresAgree, GetHistoryMsgFails
      <3>2. CASE m = work.msg /\ m \notin Rows
        <4>1. row'[m].file = work.file  BY <3>2, <1>2, <1>4, <1>5 DEF Rows
        <4>2. work.file \in 1 .. files[work.msg]
          BY <3>2, <1>1 DEF IInv, WorkSound
        <4> QED  BY <3>2, <4>1, <4>2
      <3> QED  BY <3>1, <3>2, <1>9
    <2>2. (\A m \in Rows : IsText(m) => m \in MsgSearch)'
      <3>1. IsText(work.msg) => work.msg \in es
        BY <1>1 DEF IInv, WorkSound
      <3> QED  BY <3>1, <1>1, <1>9 DEF IInv, StoresAgree, MsgSearch, IsText
    <2> QED
      BY <2>1, <2>2, <1>1, <1>10 DEF IInv, StoresAgree, MsgSearch
  <1> QED  BY <1>1, <1>7, <1>9, <1>10, <1>11, <1>12, SameSeen DEF IInv

(* The service gives up its message, done or dead.  The stores agree as    *)
(* before when all that was seen is seen.                                  *)
LEMMA WorkDropped ==
  ASSUME IInv, work' = NoWork, UNCHANGED <<stores, excused>>, Seen' = Seen
  PROVE  WorkSound' /\ StoresAgree'
  <1>1. work'.msg = None /\ work'.step = "idle"  BY DEF NoWork
  <1>2. WorkSound'  BY <1>1 DEF WorkSound
  <1>3. Rows' = Rows  BY DEF Rows, stores
  <1>4. StoresAgree'
    BY <1>3 DEF IInv, StoresAgree, GetHistoryMsgFails, MsgSearch, IsText, stores
  <1> QED  BY <1>2, <1>4

LEMMA NoWorkIsWork ==
  NoWork \in [msg : Message \cup {None},
             step : {"idle", "index", "file", "row", "ack"}, file : Nat]
  BY DEF NoWork

LEMMA AckKeeps ==
  ASSUME IInv, Ack
  PROVE  IInv' /\ Seen' = Seen /\ OnItsWay' \subseteq OnItsWay
         /\ Rows' = Rows /\ excused' = excused
  <1>1. /\ work.step = "ack" /\ work' = NoWork
        /\ UNCHANGED <<sender, buffer, links, stores, broken, excused, faults>>
        /\ queue' = queue \ {work.msg} \/ queue' = queue
    BY DEF Ack, Working
  <1>2. work.msg \in Rows \cup excused  BY <1>1 DEF IInv, WorkSound
  <1>3. Rows' = Rows  BY <1>1 DEF Rows, stores
  <1>4. work'.msg = None  BY <1>1 DEF NoWork
  <1>5. /\ OnItsWay' \subseteq OnItsWay
        /\ OnItsWay \subseteq OnItsWay' \cup {work.msg}
    BY <1>1, <1>4 DEF OnItsWay
  <1>6. Seen' = Seen  BY <1>1, <1>2, <1>3, <1>5 DEF Seen
  <1>7. TypeOK'
    BY <1>1, NoWorkIsWork DEF IInv, TypeOK, sender, links, stores
  <1>8. WorkSound' /\ StoresAgree'  BY <1>1, <1>6, WorkDropped
  <1> QED  BY <1>1, <1>3, <1>5, <1>6, <1>7, <1>8, SameSeen DEF IInv

LEMMA FaultCounts ==
  ASSUME TypeOK, Fault
  PROVE  faults' \in 0 .. MAX_FAULTS
  <1>1. faults \in 0 .. MAX_FAULTS /\ faults < MAX_FAULTS /\ faults' = faults + 1
    BY DEF TypeOK, Fault
  <1> QED  BY <1>1, MessagesAssumption

LEMMA MessageServiceRestartKeeps ==
  ASSUME IInv, MessageServiceRestart
  PROVE  IInv' /\ Seen' = Seen /\ OnItsWay' \subseteq OnItsWay
         /\ Rows' = Rows /\ excused' = excused
  <1>1. /\ work' = NoWork /\ message_link' = "up"
        /\ UNCHANGED <<sender, buffer, queue, transmit_link, stores, broken, excused>>
    BY DEF MessageServiceRestart
  <1>2. faults' \in 0 .. MAX_FAULTS
    BY FaultCounts DEF MessageServiceRestart, IInv
  <1>3. work.msg # None => work.msg \in queue \cup excused  BY DEF IInv, WorkSound
  <1>4. Rows' = Rows  BY <1>1 DEF Rows, stores
  <1>5. work'.msg = None  BY <1>1 DEF NoWork
  <1>6. /\ OnItsWay' \subseteq OnItsWay
        /\ OnItsWay \subseteq OnItsWay' \cup excused
    BY <1>1, <1>3, <1>5 DEF OnItsWay
  <1>7. Seen' = Seen  BY <1>1, <1>4, <1>6 DEF Seen
  <1>8. TypeOK'
    BY <1>1, <1>2, NoWorkIsWork DEF IInv, TypeOK, sender, stores
  <1>9. WorkSound' /\ StoresAgree'  BY <1>1, <1>7, WorkDropped
  <1> QED  BY <1>1, <1>4, <1>6, <1>7, <1>8, <1>9, SameSeen DEF IInv

-----------------------------------------------------------------------------
(* The broker.                                                             *)

LEMMA FlushKeeps ==
  ASSUME IInv, NEW m \in Message, Flush(m)
  PROVE  IInv' /\ Seen' = Seen /\ OnItsWay' = OnItsWay
         /\ Rows' = Rows /\ excused' = excused
  <1>1. /\ m \in buffer /\ buffer' = buffer \ {m} /\ queue' = queue \cup {m}
        /\ UNCHANGED <<sender, links, work, stores, broken, excused, faults>>
    BY DEF Flush
  <1>2. TypeOK'
    BY <1>1 DEF IInv, TypeOK, sender, links, stores
  <1>3. Rows' = Rows  BY <1>1 DEF Rows, stores
  <1>4. OnItsWay' = OnItsWay  BY <1>1 DEF OnItsWay
  <1>5. Seen' = Seen  BY <1>1, <1>3, <1>4 DEF Seen
  <1>6. work.msg # None => work.msg \in queue \cup excused  BY DEF IInv, WorkSound
  <1>7. WorkSound' /\ StoresAgree'  BY <1>1, <1>5, <1>6, SameStores
  <1> QED  BY <1>1, <1>2, <1>3, <1>4, <1>5, <1>7, SameSeen DEF IInv

LEMMA BrokerRestartKeeps ==
  ASSUME IInv, BrokerRestart
  PROVE  IInv' /\ Seen' = Seen /\ OnItsWay' \subseteq OnItsWay
         /\ Rows' = Rows /\ excused' \subseteq excused \cup OnItsWay
         /\ excused \subseteq excused'
  <1>1. /\ excused' = excused \cup buffer \cup queue
        /\ buffer' = {} /\ queue' = {}
        /\ transmit_link' = "down" /\ message_link' = "down"
        /\ UNCHANGED <<sender, work, stores, broken>>
    BY DEF BrokerRestart
  <1>2. faults' \in 0 .. MAX_FAULTS
    BY FaultCounts DEF BrokerRestart, IInv
  <1>3. TypeOK'
    BY <1>1, <1>2 DEF IInv, TypeOK, sender, stores
  <1>4. Rows' = Rows  BY <1>1 DEF Rows, stores
  <1>5. /\ OnItsWay' = {work.msg} \ {None}
        /\ OnItsWay = buffer \cup queue \cup ({work.msg} \ {None})
    BY <1>1 DEF OnItsWay
  <1>6. Seen' = Seen
    <2>1. work.msg # None => work.msg \in queue \cup excused  BY DEF IInv, WorkSound
    <2> QED  BY <1>1, <1>4, <1>5, <2>1 DEF Seen
  <1>7. work.msg # None => work.msg \in queue' \cup excused'
    BY <1>1 DEF IInv, WorkSound
  <1>8. WorkSound' /\ StoresAgree'  BY <1>1, <1>6, <1>7, SameStores
  <1> QED  BY <1>1, <1>3, <1>4, <1>5, <1>6, <1>8, SameSeen DEF IInv

-----------------------------------------------------------------------------
(* The senders.                                                            *)

LEMMA NothingMoves ==
  ASSUME IInv, UNCHANGED <<buffer, queue, work, stores, excused>>
  PROVE  /\ Seen' = Seen /\ OnItsWay' = OnItsWay /\ Rows' = Rows
         /\ WorkSound' /\ StoresAgree'
  <1>1. Rows' = Rows  BY DEF Rows, stores
  <1>2. OnItsWay' = OnItsWay  BY DEF OnItsWay
  <1>3. Seen' = Seen  BY <1>1, <1>2 DEF Seen
  <1>4. work.msg # None => work.msg \in queue \cup excused  BY DEF IInv, WorkSound
  <1> QED  BY <1>1, <1>2, <1>3, <1>4, SameStores

(* The fields of the senders, function by function. *)
LEMMA SenderTypes ==
  ASSUME IInv
  PROVE  /\ pc \in [Post -> {"new", "asked", "published", "done"}]
         /\ try \in [Post -> 1 .. MAX_RETRY + 1]
         /\ answer \in [Post -> {"none", "ok", "error"}]
         /\ broken \subseteq Post
  BY DEF IInv, TypeOK

LEMMA NewMessageKeeps ==
  ASSUME IInv, NEW p \in Post, NewMessage(p)
  PROVE  /\ IInv' /\ answer' = answer
         /\ Seen' = Seen /\ OnItsWay' = OnItsWay /\ Rows' = Rows /\ excused' = excused
  <1>1. /\ pc[p] = "new" /\ pc' = [pc EXCEPT ![p] = "asked"]
        /\ UNCHANGED <<try, answer, buffer, queue, links, work, stores, broken, excused, faults>>
    BY DEF NewMessage, Goto
  <1>2. /\ Seen' = Seen /\ OnItsWay' = OnItsWay /\ Rows' = Rows
        /\ WorkSound' /\ StoresAgree'
    BY <1>1, NothingMoves
  <1>3. pc' \in [Post -> {"new", "asked", "published", "done"}]
    BY <1>1, SenderTypes
  <1>4. TypeOK'  BY <1>1, <1>3 DEF IInv, TypeOK, links, stores
  <1>5. AnsweredWhenDone'
    BY <1>1, SenderTypes DEF IInv, AnsweredWhenDone
  <1>6. KeptOrExcused'
    BY <1>1, <1>2, SenderTypes DEF IInv, KeptOrExcused, Current
  <1>7. Fresh'
    BY <1>1, <1>2, SenderTypes DEF IInv, Fresh, Current
  <1> QED  BY <1>1, <1>2, <1>4, <1>5, <1>6, <1>7 DEF IInv

LEMMA GetTransmitTargetFailsKeeps ==
  ASSUME IInv, NEW p \in Post, GetTransmitTargetFails(p)
  PROVE  /\ IInv' /\ answer[p] = "none" /\ answer' = [answer EXCEPT ![p] = "error"]
         /\ Seen' = Seen /\ OnItsWay' = OnItsWay /\ Rows' = Rows /\ excused' = excused
  <1>1. /\ pc[p] = "asked" /\ pc' = [pc EXCEPT ![p] = "done"]
        /\ answer' = [answer EXCEPT ![p] = "error"]
        /\ UNCHANGED <<try, buffer, queue, links, work, stores, broken, excused, faults>>
    BY DEF GetTransmitTargetFails, Goto, Reply
  <1>2. /\ Seen' = Seen /\ OnItsWay' = OnItsWay /\ Rows' = Rows
        /\ WorkSound' /\ StoresAgree'
    BY <1>1, NothingMoves
  <1>3. /\ pc' \in [Post -> {"new", "asked", "published", "done"}]
        /\ answer' \in [Post -> {"none", "ok", "error"}]
    BY <1>1, SenderTypes
  <1>4. TypeOK'  BY <1>1, <1>3 DEF IInv, TypeOK, links, stores
  <1>5. AnsweredWhenDone'
    BY <1>1, SenderTypes DEF IInv, AnsweredWhenDone
  <1>6. KeptOrExcused'
    BY <1>1, <1>2, SenderTypes DEF IInv, KeptOrExcused, Current
  <1>7. Fresh'
    BY <1>1, <1>2, SenderTypes DEF IInv, Fresh, Current
  <1>8. answer[p] = "none"  BY <1>1 DEF IInv, AnsweredWhenDone
  <1> QED  BY <1>1, <1>2, <1>4, <1>5, <1>6, <1>7, <1>8 DEF IInv

LEMMA NewMessageAnswerKeeps ==
  ASSUME IInv, NEW p \in Post, NewMessageAnswer(p)
  PROVE  /\ IInv' /\ answer[p] = "none" /\ answer' = [answer EXCEPT ![p] = "ok"]
         /\ Current(p) \in Seen
         /\ Seen' = Seen /\ OnItsWay' = OnItsWay /\ Rows' = Rows /\ excused' = excused
  <1>1. /\ pc[p] = "published" /\ pc' = [pc EXCEPT ![p] = "done"]
        /\ answer' = [answer EXCEPT ![p] = "ok"]
        /\ UNCHANGED <<try, buffer, queue, links, work, stores, broken, excused, faults>>
    BY DEF NewMessageAnswer, Goto, Reply
  <1>2. /\ Seen' = Seen /\ OnItsWay' = OnItsWay /\ Rows' = Rows
        /\ WorkSound' /\ StoresAgree'
    BY <1>1, NothingMoves
  <1>3. /\ pc' \in [Post -> {"new", "asked", "published", "done"}]
        /\ answer' \in [Post -> {"none", "ok", "error"}]
    BY <1>1, SenderTypes
  <1>4. TypeOK'  BY <1>1, <1>3 DEF IInv, TypeOK, links, stores
  <1>5. AnsweredWhenDone'
    BY <1>1, SenderTypes DEF IInv, AnsweredWhenDone
  <1>6. KeptOrExcused'
    BY <1>1, <1>2, SenderTypes DEF IInv, KeptOrExcused, Current
  <1>7. Fresh'
    BY <1>1, <1>2, SenderTypes DEF IInv, Fresh, Current
  <1>8. answer[p] = "none"  BY <1>1 DEF IInv, AnsweredWhenDone
  <1>9. Current(p) \in Seen  BY <1>1 DEF IInv, KeptOrExcused
  <1> QED  BY <1>1, <1>2, <1>4, <1>5, <1>6, <1>7, <1>8, <1>9 DEF IInv

LEMMA GetTransmitTargetKeeps ==
  ASSUME IInv, NEW p \in Post, GetTransmitTarget(p)
  PROVE  /\ IInv' /\ answer' = answer /\ Current(p) \notin Seen
         /\ OnItsWay' = OnItsWay \cup {Current(p)}
         /\ Rows' = Rows /\ excused' = excused
  <1>1. /\ pc[p] = "asked" /\ pc' = [pc EXCEPT ![p] = "published"]
        /\ buffer' = buffer \cup {Current(p)}
        /\ UNCHANGED <<try, answer, queue, links, work, stores, broken, excused, faults>>
    BY DEF GetTransmitTarget, Goto
  <1>2. Current(p) \in Message /\ Current(p) = <<p, try[p]>>
    BY CurrentIsMessage DEF IInv
  <1>3. Rows' = Rows  BY <1>1 DEF Rows, stores
  <1>4. OnItsWay' = OnItsWay \cup {Current(p)}  BY <1>1 DEF OnItsWay
  <1>5. Seen' = Seen \cup {Current(p)}  BY <1>1, <1>3, <1>4 DEF Seen
  <1>6. Current(p) \notin Seen  BY <1>1 DEF IInv, Fresh
  <1>7. WorkSound' /\ StoresAgree'
    <2>1. work.msg # None => work.msg \in queue \cup excused  BY DEF IInv, WorkSound
    <2> QED  BY <2>1, <1>1, <1>5, SameStores
  <1>8. pc' \in [Post -> {"new", "asked", "published", "done"}]
    BY <1>1, SenderTypes
  <1>9. TypeOK'  BY <1>1, <1>2, <1>8 DEF IInv, TypeOK, links, stores
  <1>10. AnsweredWhenDone'
    BY <1>1, SenderTypes DEF IInv, AnsweredWhenDone
  <1>11. KeptOrExcused'
    BY <1>1, <1>5, SenderTypes DEF IInv, KeptOrExcused, Current
  <1>12. Fresh'
    <2> SUFFICES ASSUME NEW q \in Post
        PROVE  /\ \A n \in 1 .. MAX_RETRY + 1 : n > try[q] => <<q, n>> \notin Seen'
               /\ pc'[q] \in {"new", "asked"} => <<q, try[q]>> \notin Seen'
               /\ q \notin broken =>
                    try[q] = 1 /\ (answer[q] = "error" => <<q, try[q]>> \notin Seen')
      BY <1>1 DEF Fresh, Current
    <2>1. CASE q # p
      <3>1. pc'[q] = pc[q]  BY <2>1, <1>1, SenderTypes
      <3>2. \A n : <<q, n>> # Current(p)  BY <2>1, <1>2
      <3> QED  BY <3>1, <3>2, <1>5 DEF IInv, Fresh, Current
    <2>2. CASE q = p
      <3>1. pc'[p] = "published"  BY <1>1, SenderTypes
      <3>2. answer[p] = "none"  BY <1>1 DEF IInv, AnsweredWhenDone
      <3>3. \A n \in 1 .. MAX_RETRY + 1 : n > try[p] => <<p, n>> # Current(p)
        <4>1. try[p] \in 1 .. MAX_RETRY + 1  BY SenderTypes
        <4>2. \A n \in 1 .. MAX_RETRY + 1 : n > try[p] => n # try[p]
          BY <4>1, MessagesAssumption
        <4> QED  BY <4>2, <1>2
      <3> QED  BY <2>2, <3>1, <3>2, <3>3, <1>5 DEF IInv, Fresh
    <2> QED  BY <2>1, <2>2
  <1> QED  BY <1>1, <1>3, <1>4, <1>6, <1>7, <1>9, <1>10, <1>11, <1>12 DEF IInv

(* Of the calls that break, some are repeated, and the others have failed. *)
(* The message of an attempt to come has not been seen.                    *)
LEMMA RetryKeeps ==
  ASSUME IInv, NEW posts \in SUBSET InFlight, RetryOrFail(posts), Seen' = Seen
  PROVE  /\ pc' \in [Post -> {"new", "asked", "published", "done"}]
         /\ try' \in [Post -> 1 .. MAX_RETRY + 1]
         /\ answer' \in [Post -> {"none", "ok", "error"}]
         /\ broken' \subseteq Post
         /\ AnsweredWhenDone' /\ KeptOrExcused' /\ Fresh'
         /\ \E failed \in SUBSET Post :
              /\ \A q \in failed : answer[q] = "none"
              /\ answer' = [q \in Post |-> IF q \in failed THEN "error" ELSE answer[q]]
  <1>1. PICK again \in SUBSET {p \in posts : try[p] <= MAX_RETRY} :
          /\ pc' = [p \in Post |-> IF p \in again THEN "asked"
                                   ELSE IF p \in posts THEN "done" ELSE pc[p]]
          /\ try' = [p \in Post |-> IF p \in again THEN try[p] + 1 ELSE try[p]]
          /\ answer' = [p \in Post |-> IF p \in posts \ again THEN "error" ELSE answer[p]]
          /\ broken' = broken \cup posts
    BY DEF RetryOrFail
  <1>2. \A p \in posts : p \in Post /\ pc[p] \in {"asked", "published"} /\ answer[p] = "none"
    BY DEF InFlight, IInv, AnsweredWhenDone
  <1>3. \A p \in again : p \in posts /\ p \in Post /\ try[p] + 1 \in 1 .. MAX_RETRY + 1
    <2> SUFFICES ASSUME NEW p \in again  PROVE p \in posts /\ p \in Post /\ try[p] + 1 \in 1 .. MAX_RETRY + 1
      OBVIOUS
    <2>1. p \in posts /\ p \in Post /\ try[p] <= MAX_RETRY  BY <1>2
    <2>2. try[p] \in 1 .. MAX_RETRY + 1  BY <2>1, SenderTypes
    <2> QED  BY <2>1, <2>2, MessagesAssumption
  <1>4. /\ pc' \in [Post -> {"new", "asked", "published", "done"}]
        /\ answer' \in [Post -> {"none", "ok", "error"}]
        /\ broken' \subseteq Post
    BY <1>1, <1>2, SenderTypes
  <1>5. try' \in [Post -> 1 .. MAX_RETRY + 1]
    BY <1>1, <1>3, SenderTypes
  <1>6. AnsweredWhenDone'
    BY <1>1, <1>2, <1>3, SenderTypes DEF IInv, AnsweredWhenDone
  <1>7. KeptOrExcused'
    <2> SUFFICES ASSUME NEW q \in Post, pc'[q] = "published" \/ answer'[q] = "ok"
                 PROVE  <<q, try'[q]>> \in Seen
      BY DEF KeptOrExcused, Current
    <2>1. q \notin posts  BY <1>1, <1>2, <1>3
    <2>2. pc'[q] = pc[q] /\ answer'[q] = answer[q] /\ try'[q] = try[q]
      BY <2>1, <1>1
    <2> QED  BY <2>2 DEF IInv, KeptOrExcused, Current
  <1>8. Fresh'
    <2> SUFFICES ASSUME NEW q \in Post
        PROVE  /\ \A n \in 1 .. MAX_RETRY + 1 : n > try'[q] => <<q, n>> \notin Seen
               /\ pc'[q] \in {"new", "asked"} => <<q, try'[q]>> \notin Seen
               /\ q \notin broken' =>
                    try'[q] = 1 /\ (answer'[q] = "error" => <<q, try'[q]>> \notin Seen)
      BY DEF Fresh, Current
    <2>1. CASE q \notin posts
      <3>1. /\ pc'[q] = pc[q] /\ answer'[q] = answer[q] /\ try'[q] = try[q]
            /\ q \in broken' <=> q \in broken
        BY <2>1, <1>1
      <3> QED  BY <3>1 DEF IInv, Fresh, Current
    <2>2. CASE q \in again
      <3> DEFINE t == try[q]
      <3>1. try'[q] = t + 1 /\ q \in broken'  BY <2>2, <1>1, <1>3
      <3>2. \A n \in 1 .. MAX_RETRY + 1 : n > t => <<q, n>> \notin Seen
        BY DEF IInv, Fresh
      <3>3. t \in 1 .. MAX_RETRY + 1 /\ t + 1 \in 1 .. MAX_RETRY + 1
        BY <2>2, <1>3, SenderTypes
      <3> HIDE DEF t
      <3>4. t + 1 > t /\ \A n \in 1 .. MAX_RETRY + 1 : n > t + 1 => n > t
        BY <3>3, MessagesAssumption
      <3> QED  BY <3>1, <3>2, <3>3, <3>4
    <2>3. CASE q \in posts \ again
      <3>1. pc'[q] = "done" /\ try'[q] = try[q] /\ q \in broken'
        BY <2>3, <1>1
      <3> QED  BY <3>1 DEF IInv, Fresh
    <2> QED  BY <2>1, <2>2, <2>3
  <1>9. \E failed \in SUBSET Post :
          /\ \A q \in failed : answer[q] = "none"
          /\ answer' = [q \in Post |-> IF q \in failed THEN "error" ELSE answer[q]]
    <2>1. posts \ again \in SUBSET Post /\ \A q \in posts \ again : answer[q] = "none"
      BY <1>2
    <2> QED  BY <2>1, <1>1
  <1> QED  BY <1>4, <1>5, <1>6, <1>7, <1>8, <1>9

LEMMA CallBreaksKeeps ==
  ASSUME IInv, NEW p \in Post, CallBreaks(p)
  PROVE  /\ IInv'
         /\ Seen' = Seen /\ OnItsWay' = OnItsWay /\ Rows' = Rows
         /\ \E failed \in SUBSET Post :
              /\ \A q \in failed : answer[q] = "none"
              /\ answer' = [q \in Post |-> IF q \in failed THEN "error" ELSE answer[q]]
  <1>1. /\ {p} \in SUBSET InFlight /\ RetryOrFail({p})
        /\ UNCHANGED <<buffer, queue, links, work, stores, excused>>
    BY DEF CallBreaks
  <1>2. faults' \in 0 .. MAX_FAULTS
    BY FaultCounts DEF CallBreaks, IInv
  <1>3. /\ Seen' = Seen /\ OnItsWay' = OnItsWay /\ Rows' = Rows
        /\ WorkSound' /\ StoresAgree'
    BY <1>1, NothingMoves
  <1>4. /\ pc' \in [Post -> {"new", "asked", "published", "done"}]
        /\ try' \in [Post -> 1 .. MAX_RETRY + 1]
        /\ answer' \in [Post -> {"none", "ok", "error"}]
        /\ broken' \subseteq Post
        /\ AnsweredWhenDone' /\ KeptOrExcused' /\ Fresh'
        /\ \E failed \in SUBSET Post :
             /\ \A q \in failed : answer[q] = "none"
             /\ answer' = [q \in Post |-> IF q \in failed THEN "error" ELSE answer[q]]
    BY <1>1, <1>3, RetryKeeps
  <1>5. TypeOK'  BY <1>1, <1>2, <1>4 DEF IInv, TypeOK, links, stores
  <1>6. IInv'  BY <1>3, <1>4, <1>5 DEF IInv
  <1> QED  BY <1>3, <1>4, <1>6

LEMMA TransmitRestartKeeps ==
  ASSUME IInv, TransmitRestart
  PROVE  /\ IInv'
         /\ Seen' = Seen /\ OnItsWay' \subseteq OnItsWay /\ Rows' = Rows
         /\ \E failed \in SUBSET Post :
              /\ \A q \in failed : answer[q] = "none"
              /\ answer' = [q \in Post |-> IF q \in failed THEN "error" ELSE answer[q]]
  <1>1. /\ InFlight \in SUBSET InFlight /\ RetryOrFail(InFlight)
        /\ excused' = excused \cup buffer /\ buffer' = {} /\ transmit_link' = "up"
        /\ UNCHANGED <<queue, message_link, work, stores>>
    BY DEF TransmitRestart
  <1>2. faults' \in 0 .. MAX_FAULTS
    BY FaultCounts DEF TransmitRestart, IInv
  <1>3. Rows' = Rows  BY <1>1 DEF Rows, stores
  <1>4. OnItsWay' \subseteq OnItsWay /\ OnItsWay \subseteq OnItsWay' \cup buffer
    BY <1>1 DEF OnItsWay
  <1>5. buffer \subseteq OnItsWay  BY DEF OnItsWay
  <1>6. Seen' = Seen  BY <1>1, <1>3, <1>4, <1>5 DEF Seen
  <1>7. work.msg # None => work.msg \in queue \cup excused  BY DEF IInv, WorkSound
  <1>8. WorkSound' /\ StoresAgree'  BY <1>1, <1>6, <1>7, SameStores
  <1>9. /\ pc' \in [Post -> {"new", "asked", "published", "done"}]
        /\ try' \in [Post -> 1 .. MAX_RETRY + 1]
        /\ answer' \in [Post -> {"none", "ok", "error"}]
        /\ broken' \subseteq Post
        /\ AnsweredWhenDone' /\ KeptOrExcused' /\ Fresh'
        /\ \E failed \in SUBSET Post :
             /\ \A q \in failed : answer[q] = "none"
             /\ answer' = [q \in Post |-> IF q \in failed THEN "error" ELSE answer[q]]
    BY <1>1, <1>6, RetryKeeps
  <1>10. TypeOK'  BY <1>1, <1>2, <1>9 DEF IInv, TypeOK, stores
  <1>11. IInv'  BY <1>8, <1>9, <1>10 DEF IInv
  <1> QED  BY <1>3, <1>4, <1>6, <1>9, <1>11

-----------------------------------------------------------------------------
LEMMA StepInvariant == IInv /\ [Next]_vars => IInv'
  <1> SUFFICES ASSUME IInv, [Next]_vars  PROVE IInv'
    OBVIOUS
  <1>1. ASSUME NEW p \in Post, NewMessage(p)  PROVE IInv'
    BY <1>1, NewMessageKeeps
  <1>2. ASSUME NEW p \in Post, GetTransmitTargetFails(p)  PROVE IInv'
    BY <1>2, GetTransmitTargetFailsKeeps
  <1>3. ASSUME NEW p \in Post, GetTransmitTarget(p)  PROVE IInv'
    BY <1>3, GetTransmitTargetKeeps
  <1>4. ASSUME NEW p \in Post, NewMessageAnswer(p)  PROVE IInv'
    BY <1>4, NewMessageAnswerKeeps
  <1>5. ASSUME NEW p \in Post, CallBreaks(p)  PROVE IInv'
    BY <1>5, CallBreaksKeeps
  <1>6. ASSUME NEW m \in Message, Flush(m)  PROVE IInv'
    BY <1>6, FlushKeeps
  <1>7. ASSUME NEW m \in Message, OnReceived(m)  PROVE IInv'
    BY <1>7, OnReceivedKeeps
  <1>8. CASE Store
    BY <1>8, AppendDataKeeps, PutFileKeeps, StoreFailsKeeps, InsertRowKeeps DEF Store
  <1>9. CASE Ack  BY <1>9, AckKeeps
  <1>10. CASE TransmitRestart  BY <1>10, TransmitRestartKeeps
  <1>11. CASE BrokerRestart  BY <1>11, BrokerRestartKeeps
  <1>12. CASE MessageServiceRestart  BY <1>12, MessageServiceRestartKeeps
  <1>13. CASE UNCHANGED vars
    <2>1. UNCHANGED <<sender, buffer, queue, links, work, stores, broken, excused, faults>>
      BY <1>13 DEF vars
    <2>2. Seen' = Seen /\ WorkSound' /\ StoresAgree'  BY <2>1, NothingMoves
    <2>3. TypeOK'  BY <2>1 DEF IInv, TypeOK, sender, links, stores
    <2> QED  BY <2>1, <2>2, <2>3, SameSeen DEF IInv
  <1> QED
    BY <1>1, <1>2, <1>3, <1>4, <1>5, <1>6, <1>7, <1>8, <1>9, <1>10, <1>11, <1>12, <1>13
    DEF Next

LEMMA Invariant == Spec => []IInv
  <1>1. Init => IInv  BY InitInvariant
  <1>2. IInv /\ [Next]_vars => IInv'  BY StepInvariant
  <1> QED  BY <1>1, <1>2, PTL DEF Spec

(* The variables of the senders, the broker, the services and the stores   *)
(* have their types.                                                       *)
THEOREM TypeCorrect == Spec => []TypeOK
  <1>1. IInv => TypeOK  BY DEF IInv
  <1> QED  BY <1>1, Invariant, PTL

(* Every row of the history can be read, every text of it is found by a    *)
(* search, and what is found without a row is being handled or was hit by  *)
(* a failure, whatever dies, breaks or is delivered twice                  *)
(* (message_server.hpp:255).                                               *)
THEOREM StoresStayTogether == Spec => []StoresAgree
  <1>1. IInv => StoresAgree  BY DEF IInv
  <1> QED  BY <1>1, Invariant, PTL

(* A sender whose call did not break is told the truth: after "ok" the     *)
(* message is kept or excused, after "error" there is none, and there is   *)
(* never a second message (transmite_server.hpp, channel.hpp:24).          *)
THEOREM SenderIsToldTheTruth == Spec => []AnswerIsTrue
  <1>1. IInv => AnswerIsTrue
    <2> SUFFICES ASSUME IInv  PROVE AnswerIsTrue
      OBVIOUS
    <2>1. es \subseteq Seen  BY DEF IInv, StoresAgree, MsgSearch
    <2>2. ASSUME NEW p \in Post \ broken
          PROVE  /\ answer[p] = "error" => Attempts(p) \cap (Seen \cup es) = {}
                 /\ Attempts(p) \cap (Seen \cup es) \subseteq {<<p, 1>>}
      <3>1. try[p] = 1 /\ (answer[p] = "error" => <<p, 1>> \notin Seen)
        BY DEF IInv, Fresh, Current
      <3>2. \A n \in 1 .. MAX_RETRY + 1 : n > 1 => <<p, n>> \notin Seen
        BY <3>1 DEF IInv, Fresh
      <3>3. \A n \in 1 .. MAX_RETRY + 1 : n = 1 \/ n > 1
        BY MessagesAssumption
      <3>4. \A m \in Attempts(p) : \E n \in 1 .. MAX_RETRY + 1 : m = <<p, n>>
        BY DEF Attempts
      <3> QED  BY <2>1, <3>1, <3>2, <3>3, <3>4
    <2> QED  BY <2>2 DEF AnswerIsTrue, IInv
  <1> QED  BY <1>1, Invariant, PTL

-----------------------------------------------------------------------------
(* Messages implements Delivery.                                           *)

LEMMA AllMessagesAreMessages == D!AllMessages = Message
  BY DEF D!AllMessages, Attempts, Message

(* What became of a message depends on the rows, on what is on its way and *)
(* on what was seen.                                                       *)
FateOf(m, rows, way, seen) ==
  IF m \in rows THEN "stored"
  ELSE IF m \in way THEN "accepted"
  ELSE IF m \in seen THEN "lost" ELSE "none"

LEMMA FateIsFateOf == Fate = [m \in Message |-> FateOf(m, Rows, OnItsWay, Seen)]
  <1>1. ASSUME NEW m \in Message
        PROVE  (IF row[m].made THEN "stored"
                ELSE IF m \in OnItsWay THEN "accepted"
                ELSE IF m \in excused THEN "lost" ELSE "none") = FateOf(m, Rows, OnItsWay, Seen)
    BY DEF FateOf, Rows, Seen
  <1> QED  BY <1>1 DEF Fate

LEMMA FatesAre ==
  /\ \A m \in Message : Fate[m] = FateOf(m, Rows, OnItsWay, Seen)
  /\ Fate' = [m \in Message |-> FateOf(m, Rows', OnItsWay', Seen')]
  <1>1. Fate = [m \in Message |-> FateOf(m, Rows, OnItsWay, Seen)]
    BY FateIsFateOf
  <1>2. Fate' = [m \in Message |-> FateOf(m, Rows', OnItsWay', Seen')]
    <2>1. ASSUME NEW m \in Message
          PROVE  (IF row'[m].made THEN "stored"
                  ELSE IF m \in OnItsWay' THEN "accepted"
                  ELSE IF m \in excused' THEN "lost" ELSE "none") = FateOf(m, Rows', OnItsWay', Seen')
      BY DEF FateOf, Rows, Seen
    <2> QED  BY <2>1 DEF Fate
  <1> QED  BY <1>1, <1>2

LEMMA FatesStay ==
  ASSUME Rows' = Rows, OnItsWay' = OnItsWay, Seen' = Seen
  PROVE  Fate' = Fate
  BY FatesAre, FateIsFateOf

(* When fewer messages are on their way and nothing else changes, those    *)
(* that are gone are lost.                                                 *)
LEMMA FatesLost ==
  ASSUME Rows' = Rows, OnItsWay' \subseteq OnItsWay, Seen' = Seen
  PROVE  \E ms \in SUBSET Message :
           /\ \A m \in ms : Fate[m] = "accepted"
           /\ Fate' = [m \in Message |-> IF m \in ms THEN "lost" ELSE Fate[m]]
  <1> DEFINE ms == {m \in Message : m \in OnItsWay /\ m \notin OnItsWay' /\ m \notin Rows}
  <1>1. \A m \in ms : Fate[m] = "accepted"  BY FatesAre DEF FateOf
  <1>2. OnItsWay \subseteq Seen  BY DEF Seen
  <1>3. ASSUME NEW m \in Message
        PROVE  FateOf(m, Rows', OnItsWay', Seen') = IF m \in ms THEN "lost" ELSE Fate[m]
    BY <1>2, FatesAre DEF FateOf
  <1>4. Fate' = [m \in Message |-> IF m \in ms THEN "lost" ELSE Fate[m]]
    BY <1>3, FatesAre
  <1> QED  BY <1>1, <1>4

LEMMA SomeAreLost ==
  ASSUME Rows' = Rows, OnItsWay' \subseteq OnItsWay, Seen' = Seen, answer' = answer
  PROVE  D!Next
  <1>1. PICK ms \in SUBSET Message :
          /\ \A m \in ms : Fate[m] = "accepted"
          /\ Fate' = [m \in Message |-> IF m \in ms THEN "lost" ELSE Fate[m]]
    BY FatesLost
  <1>2. D!Lose(ms)
    BY <1>1, AllMessagesAreMessages DEF D!Lose, D!Settle
  <1> QED  BY <1>2, AllMessagesAreMessages DEF D!Next

LEMMA SomeHaveFailed ==
  ASSUME Rows' = Rows, OnItsWay' \subseteq OnItsWay, Seen' = Seen,
         \E failed \in SUBSET Post :
           /\ \A q \in failed : answer[q] = "none"
           /\ answer' = [q \in Post |-> IF q \in failed THEN "error" ELSE answer[q]]
  PROVE  D!Next
  <1>1. PICK ms \in SUBSET Message :
          /\ \A m \in ms : Fate[m] = "accepted"
          /\ Fate' = [m \in Message |-> IF m \in ms THEN "lost" ELSE Fate[m]]
    BY FatesLost
  <1>2. PICK failed \in SUBSET Post :
          /\ \A q \in failed : answer[q] = "none"
          /\ answer' = [q \in Post |-> IF q \in failed THEN "error" ELSE answer[q]]
    OBVIOUS
  <1>3. D!Fail(ms, failed)
    BY <1>1, <1>2, AllMessagesAreMessages DEF D!Fail
  <1> QED  BY <1>3, AllMessagesAreMessages DEF D!Next

LEMMA InitImplements == Init => D!Init
  <1> SUFFICES ASSUME Init  PROVE D!Init
    OBVIOUS
  <1>1. Rows = {} /\ OnItsWay = {} /\ excused = {}
    BY DEF Init, Rows, NoRow, OnItsWay, NoWork
  <1>2. Fate = [m \in Message |-> "none"]
    BY <1>1, FateIsFateOf DEF FateOf, Seen
  <1>3. answer = [p \in Post |-> "none"]  BY DEF Init
  <1> QED  BY <1>2, <1>3, AllMessagesAreMessages DEF D!Init

DeliveryStep == D!Next \/ (Fate' = Fate /\ answer' = answer)

(* Every step is one of Delivery or leaves what it knows unchanged. *)
LEMMA NextImplements == IInv /\ Next => DeliveryStep
  <1> SUFFICES ASSUME IInv, Next  PROVE DeliveryStep
    OBVIOUS
  <1> USE DEF DeliveryStep
  <1>1. ASSUME NEW p \in Post, NewMessage(p)  PROVE DeliveryStep
    BY <1>1, NewMessageKeeps, FatesStay
  <1>2. ASSUME NEW p \in Post, GetTransmitTargetFails(p)  PROVE DeliveryStep
    <2>1. /\ answer[p] = "none" /\ answer' = [answer EXCEPT ![p] = "error"]
          /\ Seen' = Seen /\ OnItsWay' = OnItsWay /\ Rows' = Rows
      BY <1>2, GetTransmitTargetFailsKeeps
    <2>2. answer' = [q \in Post |-> IF q \in {p} THEN "error" ELSE answer[q]]
      BY <2>1, SenderTypes
    <2>3. \E failed \in SUBSET Post :
            /\ \A q \in failed : answer[q] = "none"
            /\ answer' = [q \in Post |-> IF q \in failed THEN "error" ELSE answer[q]]
      <3>1. {p} \in SUBSET Post /\ \A q \in {p} : answer[q] = "none"  BY <2>1
      <3> QED  BY <3>1, <2>2
    <2> QED  BY <2>1, <2>3, SomeHaveFailed
  <1>3. ASSUME NEW p \in Post, GetTransmitTarget(p)  PROVE DeliveryStep
    <2> DEFINE c == Current(p)
    <2>1. /\ answer' = answer /\ c \notin Seen /\ OnItsWay' = OnItsWay \cup {c}
          /\ Rows' = Rows /\ excused' = excused
      BY <1>3, GetTransmitTargetKeeps
    <2>2. c \in Message  BY CurrentIsMessage DEF IInv
    <2> HIDE DEF c
    <2>3. Seen' = Seen \cup {c} /\ c \notin Rows /\ c \notin OnItsWay  BY <2>1 DEF Seen
    <2>4. Fate[c] = "none"  BY <2>1, <2>2, <2>3, FatesAre DEF FateOf
    <2>5. ASSUME NEW m \in Message
          PROVE  FateOf(m, Rows', OnItsWay', Seen') = IF m \in {c} THEN "accepted" ELSE Fate[m]
      BY <2>1, <2>3, FatesAre DEF FateOf
    <2>6. Fate' = [m \in Message |-> IF m \in {c} THEN "accepted" ELSE Fate[m]]
      BY <2>5, FatesAre
    <2>7. D!Accept(c)
      BY <2>1, <2>4, <2>6, AllMessagesAreMessages DEF D!Accept, D!Settle
    <2> QED  BY <2>2, <2>7, AllMessagesAreMessages DEF D!Next
  <1>4. ASSUME NEW p \in Post, NewMessageAnswer(p)  PROVE DeliveryStep
    <2>1. /\ answer[p] = "none" /\ answer' = [answer EXCEPT ![p] = "ok"]
          /\ Current(p) \in Seen /\ Seen' = Seen /\ OnItsWay' = OnItsWay /\ Rows' = Rows
      BY <1>4, NewMessageAnswerKeeps
    <2>2. Fate' = Fate  BY <2>1, FatesStay
    <2>3. Current(p) \in Message /\ Current(p) \in Attempts(p)
      BY CurrentIsMessage DEF IInv
    <2>4. Fate[Current(p)] # "none"  BY <2>1, <2>3, FatesAre DEF FateOf
    <2>5. D!Confirm(p)  BY <2>1, <2>2, <2>3, <2>4 DEF D!Confirm
    <2> QED  BY <2>5 DEF D!Next
  <1>5. ASSUME NEW p \in Post, CallBreaks(p)  PROVE DeliveryStep
    BY <1>5, CallBreaksKeeps, SomeHaveFailed
  <1>6. ASSUME NEW m \in Message, Flush(m)  PROVE DeliveryStep
    <2>1. answer' = answer  BY <1>6 DEF Flush, sender
    <2> QED  BY <1>6, <2>1, FlushKeeps, FatesStay
  <1>7. ASSUME NEW m \in Message, OnReceived(m)  PROVE DeliveryStep
    <2>1. answer' = answer /\ UNCHANGED <<buffer, queue, row>>
      BY <1>7 DEF OnReceived, sender, stores
    <2>2. m \in queue /\ work.msg = None /\ work'.msg = m /\ m # None
      BY <1>7, MessagesAssumption DEF OnReceived, NoWork, Message, Post
    <2>3. OnItsWay' = OnItsWay  BY <2>1, <2>2 DEF OnItsWay
    <2>4. Rows' = Rows  BY <2>1 DEF Rows
    <2> QED  BY <1>7, <2>1, <2>3, <2>4, OnReceivedKeeps, FatesStay
  <1>8. CASE AppendData
    <2>1. answer' = answer /\ Rows' = Rows  BY <1>8 DEF AppendData, sender, Rows
    <2> QED  BY <1>8, <2>1, AppendDataKeeps, FatesStay
  <1>9. CASE PutFile
    <2>1. answer' = answer /\ Rows' = Rows  BY <1>9 DEF PutFile, sender, Rows
    <2> QED  BY <1>9, <2>1, PutFileKeeps, FatesStay
  <1>10. CASE StoreFails
    <2>1. answer' = answer /\ Rows' = Rows  BY <1>10 DEF StoreFails, sender, Rows
    <2> QED  BY <1>10, <2>1, StoreFailsKeeps, FatesStay
  <1>11. CASE InsertRow
    <2> DEFINE c == work.msg
    <2>1. /\ Seen' = Seen /\ OnItsWay' = OnItsWay /\ Rows' = Rows \cup {c}
          /\ answer' = answer /\ c \in Message /\ c \in OnItsWay
      BY <1>11, InsertRowKeeps, WorksOnMessage DEF InsertRow, sender, Working
    <2> HIDE DEF c
    <2>2. CASE c \in Rows
      <3>1. Rows' = Rows  BY <2>1, <2>2
      <3> QED  BY <2>1, <3>1, FatesStay
    <2>3. CASE c \notin Rows
      <3>1. Fate[c] = "accepted"  BY <2>1, <2>3, FatesAre DEF FateOf
      <3>2. ASSUME NEW m \in Message
            PROVE  FateOf(m, Rows', OnItsWay', Seen') = IF m \in {c} THEN "stored" ELSE Fate[m]
        BY <2>1, FatesAre DEF FateOf
      <3>3. Fate' = [m \in Message |-> IF m \in {c} THEN "stored" ELSE Fate[m]]
        BY <3>2, FatesAre
      <3>4. D!Store(c)
        BY <2>1, <3>1, <3>3, AllMessagesAreMessages DEF D!Store, D!Settle
      <3> QED  BY <2>1, <3>4, AllMessagesAreMessages DEF D!Next
    <2> QED  BY <2>2, <2>3
  <1>12. CASE Ack
    <2>1. answer' = answer  BY <1>12 DEF Ack, sender
    <2> QED  BY <1>12, <2>1, AckKeeps, SomeAreLost
  <1>13. CASE TransmitRestart
    BY <1>13, TransmitRestartKeeps, SomeHaveFailed
  <1>14. CASE BrokerRestart
    <2>1. answer' = answer  BY <1>14 DEF BrokerRestart, sender
    <2> QED  BY <1>14, <2>1, BrokerRestartKeeps, SomeAreLost
  <1>15. CASE MessageServiceRestart
    <2>1. answer' = answer  BY <1>15 DEF MessageServiceRestart, sender
    <2> QED  BY <1>15, <2>1, MessageServiceRestartKeeps, SomeAreLost
  <1> HIDE DEF DeliveryStep
  <1> QED
    BY <1>1, <1>2, <1>3, <1>4, <1>5, <1>6, <1>7, <1>8, <1>9, <1>10, <1>11, <1>12,
       <1>13, <1>14, <1>15 DEF Next, Store

LEMMA StepImplements == IInv /\ [Next]_vars => [D!Next]_<<Fate, answer>>
  <1>1. IInv /\ UNCHANGED vars => DeliveryStep
    <2> SUFFICES ASSUME IInv, UNCHANGED vars  PROVE DeliveryStep
      OBVIOUS
    <2>1. UNCHANGED <<sender, buffer, queue, work, stores, excused>>  BY DEF vars
    <2>2. answer' = answer  BY <2>1 DEF sender
    <2> QED  BY <2>1, <2>2, NothingMoves, FatesStay DEF DeliveryStep
  <1>2. DeliveryStep => [D!Next]_<<Fate, answer>>  BY DEF DeliveryStep
  <1> QED  BY <1>1, <1>2, NextImplements

(* The message path is Delivery: a message is accepted when it is          *)
(* published, stored once, when its row is written, and otherwise lost by  *)
(* a failure; neither is taken back, and "ok" is said of a message that    *)
(* was accepted.                                                           *)
THEOREM Implements == Spec => ImplementsDelivery
  <1>1. Init => D!Init  BY InitImplements
  <1>2. IInv /\ [Next]_vars => [D!Next]_<<Fate, answer>>  BY StepImplements
  <1> QED  BY <1>1, <1>2, Invariant, PTL DEF Spec, ImplementsDelivery, D!Spec

=============================================================================
