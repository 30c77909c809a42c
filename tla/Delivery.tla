------------------------------ MODULE Delivery ------------------------------
(***************************************************************************)
(* What the message path promises about a message: once accepted it is     *)
(* either stored or lost, it is stored once, and neither is taken back.    *)
(* A sender hears "ok" only when a message made from the request has been  *)
(* accepted.  Nothing is said of queues, stores, connections or services;  *)
(* Messages implements this module.                                        *)
(***************************************************************************)
CONSTANTS Post,            \* requests of senders
          Attempts(_)      \* the messages that may be made from a request

VARIABLES
  fate,     \* of each message: "none", "accepted", "stored" or "lost"
  answer    \* what the sender of a post was told: "none", "ok", "error"

AllMessages == UNION {Attempts(p) : p \in Post}

Init ==
  /\ fate = [m \in AllMessages |-> "none"]
  /\ answer = [p \in Post |-> "none"]

Settle(ms, from, to) ==
  /\ \A m \in ms : fate[m] = from
  /\ fate' = [m \in AllMessages |-> IF m \in ms THEN to ELSE fate[m]]
  /\ UNCHANGED answer

Accept(m) == Settle({m}, "none", "accepted")
Store(m) == Settle({m}, "accepted", "stored")
Lose(ms) == Settle(ms, "accepted", "lost")

(* Whether a failure reaches the sender is left open, and so is what else  *)
(* is lost at that moment.                                                 *)
Fail(ms, posts) ==
  /\ \A m \in ms : fate[m] = "accepted"
  /\ \A p \in posts : answer[p] = "none"
  /\ fate' = [m \in AllMessages |-> IF m \in ms THEN "lost" ELSE fate[m]]
  /\ answer' = [p \in Post |-> IF p \in posts THEN "error" ELSE answer[p]]

Confirm(p) ==
  /\ answer[p] = "none"
  /\ \E m \in Attempts(p) : fate[m] # "none"
  /\ answer' = [answer EXCEPT ![p] = "ok"]
  /\ UNCHANGED fate

Next ==
  \/ \E m \in AllMessages : Accept(m) \/ Store(m)
  \/ \E ms \in SUBSET AllMessages :
       Lose(ms) \/ \E posts \in SUBSET Post : Fail(ms, posts)
  \/ \E p \in Post : Confirm(p)

Spec == Init /\ [][Next]_<<fate, answer>>

=============================================================================
