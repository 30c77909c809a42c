----------------------------- MODULE Messages -----------------------------
(***************************************************************************)
(* The path of a chat message: the gateway's NewMessage handler, the       *)
(* transmit service (code/server/transmite/source/transmite_server.hpp),   *)
(* RabbitMQ behind common/rabbitmq.hpp, and the message service            *)
(* (message/source/message_server.hpp) with its three stores: the search   *)
(* index, the file service and the table of messages.                      *)
(*                                                                         *)
(* A post is one request of a sender.  brpc repeats a call whose           *)
(* connection broke (common/channel.hpp:24), and each execution in the     *)
(* transmit service makes a message with an id of its own: <<post, n>>.    *)
(* An execution whose call broke has either published or will not.         *)
(*                                                                         *)
(* Which message a queue hands out first matters to no property, so queues *)
(* are sets.  Files and rows are never removed.                            *)
(***************************************************************************)
EXTENDS Naturals, FiniteSets

CONSTANTS TextPost, FilePost,   \* posts of a text, and of a picture, file or speech
          None,
          MAX_RETRY,            \* options.max_retry of the channel
          MAX_FAULTS            \* TLC's bound on broken calls and dead processes

ASSUME MessagesAssumption ==
  /\ MAX_RETRY \in Nat
  /\ MAX_FAULTS \in Nat
  /\ TextPost \cap FilePost = {}
  /\ None \notin (TextPost \cup FilePost) \X (1 .. MAX_RETRY + 1)

Post == TextPost \cup FilePost
Attempts(p) == {p} \X (1 .. MAX_RETRY + 1)
Message == Post \X (1 .. MAX_RETRY + 1)
IsText(m) == m[1] \in TextPost

VARIABLES pc, try, answer,    \* a post: where it is, its attempt, the answer
          buffer,             \* written to the transmit service's connection
          queue,              \* in the broker and not acknowledged
          transmit_link, message_link,  \* the connections of the two services
          work,               \* what the message service's loop thread does
          es, files, row,     \* the stores: ids in the index; how often the
                              \* file was put; the file a row names (0: none)
          broken,             \* history: posts whose call to the transmit
                              \* service broke
          excused,            \* history: messages a failure has hit
          faults

sender == <<pc, try, answer>>
links == <<transmit_link, message_link>>
stores == <<es, files, row>>
vars == <<sender, buffer, queue, links, work, stores, broken, excused, faults>>

NoWork == [msg |-> None, step |-> "idle", file |-> 0]
NoRow == [made |-> FALSE, file |-> 0]
Row(file) == [made |-> TRUE, file |-> file]

Init ==
  /\ pc = [p \in Post |-> "new"]
  /\ try = [p \in Post |-> 1]
  /\ answer = [p \in Post |-> "none"]
  /\ buffer = {}
  /\ queue = {}
  /\ transmit_link = "up"
  /\ message_link = "up"
  /\ work = NoWork
  /\ es = {}
  /\ files = [m \in Message |-> 0]
  /\ row = [m \in Message |-> NoRow]
  /\ broken = {}
  /\ excused = {}
  /\ faults = 0

Goto(p, where) == pc' = [pc EXCEPT ![p] = where]
Reply(p, what) == answer' = [answer EXCEPT ![p] = what]
Current(p) == <<p, try[p]>>

-----------------------------------------------------------------------------
(* Gateway and transmit service                                            *)

(* NewMessage calls GetTransmitTarget. *)
NewMessage(p) ==
  /\ pc[p] = "new"
  /\ Goto(p, "asked")
  /\ UNCHANGED <<try, answer, buffer, queue, links, work, stores, broken, excused, faults>>

(* The user service does not answer, or publish returns false: the         *)
(* connection to the broker is gone.                                       *)
GetTransmitTargetFails(p) ==
  /\ pc[p] = "asked"
  /\ Goto(p, "done")
  /\ Reply(p, "error")
  /\ UNCHANGED <<try, buffer, queue, links, work, stores, broken, excused, faults>>

\* variant: the result of publish is not looked at
GetTransmitTargetUnchecked(p) ==
  /\ pc[p] = "asked"
  /\ buffer' = IF transmit_link = "up" THEN buffer \cup {Current(p)} ELSE buffer
  /\ Goto(p, "published")
  /\ UNCHANGED <<try, answer, queue, links, work, stores, broken, excused, faults>>

(* GetTransmitTarget: the message is written to the connection; nobody     *)
(* waits until the broker has it.                                          *)
GetTransmitTarget(p) ==
  /\ pc[p] = "asked"
  /\ transmit_link = "up"
  /\ buffer' = buffer \cup {Current(p)}
  /\ Goto(p, "published")
  /\ UNCHANGED <<try, answer, queue, links, work, stores, broken, excused, faults>>

(* The reply reaches the gateway, which notifies the others and answers. *)
NewMessageAnswer(p) ==
  /\ pc[p] = "published"
  /\ Goto(p, "done")
  /\ Reply(p, "ok")
  /\ UNCHANGED <<try, buffer, queue, links, work, stores, broken, excused, faults>>

InFlight == {p \in Post : pc[p] \in {"asked", "published"}}

\* variant: no limit of retries
RetryAlways(posts) ==
  \E again \in SUBSET posts :
    /\ pc' = [p \in Post |-> IF p \in again THEN "asked"
                             ELSE IF p \in posts THEN "done" ELSE pc[p]]
    /\ try' = [p \in Post |-> IF p \in again THEN try[p] + 1 ELSE try[p]]
    /\ answer' = [p \in Post |-> IF p \in posts \ again THEN "error" ELSE answer[p]]
    /\ broken' = broken \cup posts

(* brpc calls again while it has retries left, or the call has failed. *)
RetryOrFail(posts) ==
  \E again \in SUBSET {p \in posts : try[p] <= MAX_RETRY} :
    /\ pc' = [p \in Post |-> IF p \in again THEN "asked"
                             ELSE IF p \in posts THEN "done" ELSE pc[p]]
    /\ try' = [p \in Post |-> IF p \in again THEN try[p] + 1 ELSE try[p]]
    /\ answer' = [p \in Post |-> IF p \in posts \ again THEN "error" ELSE answer[p]]
    /\ broken' = broken \cup posts

Fault == faults < MAX_FAULTS /\ faults' = faults + 1

CallBreaks(p) ==
  /\ p \in InFlight
  /\ RetryOrFail({p})
  /\ Fault
  /\ UNCHANGED <<buffer, queue, links, work, stores, excused>>

(* What was not yet sent to the broker dies with the process; the next one *)
(* connects and declares exchange and queue again.                         *)
TransmitRestart ==
  /\ RetryOrFail(InFlight)
  /\ excused' = excused \cup buffer
  /\ buffer' = {}
  /\ transmit_link' = "up"
  /\ Fault
  /\ UNCHANGED <<queue, message_link, work, stores>>

-----------------------------------------------------------------------------
(* The broker                                                              *)

Flush(m) ==
  /\ m \in buffer
  /\ buffer' = buffer \ {m}
  /\ queue' = queue \cup {m}
  /\ UNCHANGED <<sender, links, work, stores, broken, excused, faults>>

(* Neither the queue nor its messages are durable, and neither service     *)
(* connects again before it is restarted.                                  *)
BrokerRestart ==
  /\ excused' = excused \cup buffer \cup queue
  /\ buffer' = {}
  /\ queue' = {}
  /\ transmit_link' = "down"
  /\ message_link' = "down"
  /\ Fault
  /\ UNCHANGED <<sender, work, stores, broken>>

-----------------------------------------------------------------------------
(* The message service: one thread handles one message at a time and then  *)
(* acknowledges it, whatever became of it.                                 *)

Working(step) == work.step = step
GoOn(step) == work' = [work EXCEPT !.step = step]

\* variant: acknowledged when it arrives
OnReceivedAckFirst(m) ==
  /\ work = NoWork
  /\ message_link = "up"
  /\ m \in queue
  /\ queue' = queue \ {m}
  /\ work' = [msg |-> m, step |-> IF IsText(m) THEN "index" ELSE "file", file |-> 0]
  /\ UNCHANGED <<sender, buffer, links, stores, broken, excused, faults>>

(* A delivered message stays with the broker until it is acknowledged: to  *)
(* be taken again is to be delivered again.                                *)
OnReceived(m) ==
  /\ work = NoWork
  /\ message_link = "up"
  /\ m \in queue
  /\ work' = [msg |-> m, step |-> IF IsText(m) THEN "index" ELSE "file", file |-> 0]
  /\ UNCHANGED <<sender, buffer, queue, links, stores, broken, excused, faults>>

(* A text goes into the index under its message id. *)
AppendData ==
  /\ Working("index")
  /\ es' = es \cup {work.msg}
  /\ GoOn("row")
  /\ UNCHANGED <<sender, buffer, queue, links, files, row, broken, excused, faults>>

(* Everything else is a file with a new id; a row will name it. *)
PutFile ==
  /\ Working("file")
  /\ files' = [files EXCEPT ![work.msg] = @ + 1]
  /\ work' = [work EXCEPT !.step = "row", !.file = files[work.msg] + 1]
  /\ UNCHANGED <<sender, buffer, queue, links, es, row, broken, excused, faults>>

\* variant: a failed store does not end the handling
StoreFailsGoesOn ==
  /\ work.step \in {"index", "file"}
  /\ excused' = excused \cup {work.msg}
  /\ GoOn("row")
  /\ UNCHANGED <<sender, buffer, queue, links, stores, broken, faults>>

(* The index, the file service or the database fails; the file may have    *)
(* been written all the same.  The handling ends.                          *)
StoreFails ==
  /\ work.step \in {"index", "file", "row"}
  /\ excused' = excused \cup {work.msg}
  /\ files' \in {files, [files EXCEPT ![work.msg] =
                           IF Working("file") THEN @ + 1 ELSE @]}
  /\ GoOn("ack")
  /\ UNCHANGED <<sender, buffer, queue, links, es, row, broken, faults>>

(* The id of a message is unique in the table: a row that is there stays   *)
(* as it is and the insertion fails.                                       *)
InsertRow ==
  /\ Working("row")
  /\ row' = [row EXCEPT ![work.msg] = IF @.made THEN @ ELSE Row(work.file)]
  /\ GoOn("ack")
  /\ UNCHANGED <<sender, buffer, queue, links, es, files, broken, excused, faults>>

\* variant: no acknowledgement
AckForgotten ==
  /\ Working("ack")
  /\ work' = NoWork
  /\ UNCHANGED <<sender, buffer, queue, links, stores, broken, excused, faults>>

(* After a restart of the broker it knows nothing of the delivery. *)
Ack ==
  /\ Working("ack")
  /\ queue' = IF message_link = "up" THEN queue \ {work.msg} ELSE queue
  /\ work' = NoWork
  /\ UNCHANGED <<sender, buffer, links, stores, broken, excused, faults>>

MessageServiceRestart ==
  /\ work' = NoWork
  /\ message_link' = "up"
  /\ Fault
  /\ UNCHANGED <<sender, buffer, queue, transmit_link, stores, broken, excused>>

-----------------------------------------------------------------------------
Store == AppendData \/ PutFile \/ StoreFails \/ InsertRow

Next ==
  \/ \E p \in Post :
       \/ NewMessage(p) \/ GetTransmitTargetFails(p)
       \/ GetTransmitTarget(p) \/ NewMessageAnswer(p) \/ CallBreaks(p)
  \/ \E m \in Message : Flush(m) \/ OnReceived(m)
  \/ Store \/ Ack
  \/ TransmitRestart \/ BrokerRestart \/ MessageServiceRestart

(* The connection sends what was written, the broker hands out what it     *)
(* has, and the calls to the stores end.                                   *)
Fairness ==
  /\ WF_vars(\E m \in Message : Flush(m))
  /\ WF_vars(\E m \in Message : OnReceived(m))
  /\ WF_vars(Store)
  /\ WF_vars(Ack)

Spec == Init /\ [][Next]_vars /\ Fairness

-----------------------------------------------------------------------------
(* What the message service answers: GetHistoryMsg has a message for every *)
(* row, and the whole answer fails when a file of one is missing;          *)
(* MsgSearch answers from the index alone.                                 *)
Rows == {m \in Message : row[m].made}
GetHistoryMsgFails == \E m \in Rows : ~ IsText(m) /\ row[m].file \notin 1 .. files[m]
MsgSearch == es

(* In the connection, in the broker, or in the hands of the message service. *)
OnItsWay == buffer \cup queue \cup ({work.msg} \ {None})

Seen == OnItsWay \cup Rows \cup excused

TypeOK ==
  /\ pc \in [Post -> {"new", "asked", "published", "done"}]
  /\ try \in [Post -> 1 .. MAX_RETRY + 1]
  /\ answer \in [Post -> {"none", "ok", "error"}]
  /\ buffer \subseteq Message
  /\ queue \subseteq Message
  /\ transmit_link \in {"up", "down"}
  /\ message_link \in {"up", "down"}
  /\ work \in [msg : Message \cup {None},
               step : {"idle", "index", "file", "row", "ack"}, file : Nat]
  /\ es \subseteq Message
  /\ files \in [Message -> Nat]
  /\ row \in [Message -> [made : BOOLEAN, file : Nat]]
  /\ broken \subseteq Post
  /\ excused \subseteq Message
  /\ faults \in 0 .. MAX_FAULTS

(* What was published is on its way or stored, unless a failure hit it: a  *)
(* message service that dies at any point loses nothing, since it          *)
(* acknowledges only what it has handled (rabbitmq.hpp:84).                *)
KeptOrExcused == \A p \in Post :
  pc[p] = "published" \/ answer[p] = "ok" => Current(p) \in Seen

(* The three stores agree: the history can always be read, every text in   *)
(* it is found by a search, and a text that is found but not in the        *)
(* history is still being handled or was hit by a failure                  *)
(* (message_server.hpp:255).                                               *)
StoresAgree ==
  /\ ~ GetHistoryMsgFails
  /\ \A m \in Rows : IsText(m) => m \in MsgSearch
  /\ MsgSearch \subseteq Seen

(* What the sender is told is true, when the call to the transmit service  *)
(* did not break: after "ok" the message is kept, after "error" there is   *)
(* none, and never two.  (After a broken call there may be a message whose *)
(* sender was told that it failed, or several: channel.hpp:24.)            *)
AnswerIsTrue ==
  /\ KeptOrExcused
  /\ \A p \in Post \ broken :
       /\ answer[p] = "error" => Attempts(p) \cap (Seen \cup es) = {}
       /\ Attempts(p) \cap (Seen \cup es) \subseteq {<<p, 1>>}

(* Messages implements Delivery.                                           *)
Fate == [m \in Message |->
  IF row[m].made THEN "stored"
  ELSE IF m \in OnItsWay THEN "accepted"
  ELSE IF m \in excused THEN "lost" ELSE "none"]

D == INSTANCE Delivery WITH fate <- Fate

ImplementsDelivery == D!Spec

(* What was published reaches the table, unless a failure hits it or the   *)
(* message service has lost the broker, which it never looks for again     *)
(* (rabbitmq.hpp:77).                                                      *)
Settles == \A m \in Message :
  m \in buffer \cup queue ~> (m \in Rows \cup excused \/ message_link = "down")

=============================================================================
