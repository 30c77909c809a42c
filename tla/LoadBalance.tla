------------------------------ MODULE LoadBalance ------------------------------
(***************************************************************************)
(* The online judge's dispatcher, Load_Balancing_Online_OJ/oj_server: each *)
(* HTTP worker thread runs Control::Judge, which picks the least loaded    *)
(* compile server through LoadBalance, posts the code to it and retries on *)
(* another one; SIGQUIT puts every offline machine back online.            *)
(*                                                                         *)
(* _mtx protects the two lists; each machine's _load has a mutex of its    *)
(* own, so loads change while SmartChioce scans them.  The lists are sets  *)
(* (their order only breaks ties).  What a compile server answers is the   *)
(* environment's choice.                                                   *)
(***************************************************************************)
EXTENDS Integers, FiniteSets

CONSTANTS
  Worker,         \* threads of the HTTP server that run Judge
  Machine,        \* the machines of conf/machine_list.conf
  Main,           \* the main thread, which runs the SIGQUIT handler
  None,
  LOAD_MAX,       \* the largest uint64_t
  MaxRequests,    \* bound: requests that arrive
  MaxRecoveries   \* bound: SIGQUITs that arrive

ASSUME LoadBalanceAssumption ==
  /\ IsFiniteSet(Worker)
  /\ Main \notin Worker /\ None \notin Worker \cup {Main} /\ None \notin Machine
  /\ LOAD_MAX \in Nat /\ Cardinality(Worker) <= LOAD_MAX
  /\ MaxRequests \in Nat /\ MaxRecoveries \in Nat

VARIABLES
  process,      \* "running", or "crashed" after a racing read of the lists
  online,       \* _online
  offline,      \* _offline
  load,         \* _load of each machine
  mtx,          \* the thread that holds LoadBalance::_mtx
  pc,           \* where each worker is in Judge
  chosen,       \* its id: the machine chosen so far
  minLoad,      \* its min_load
  todo,         \* the online machines its scan has not read yet
  handler,      \* where the main thread is in the SIGQUIT handler
  requests,     \* requests that have arrived
  recoveries,   \* SIGQUITs that have arrived
  wentOffline   \* history: machines that have been taken offline at least once

listVars  == <<online, offline, mtx>>
scanVars  == <<chosen, minLoad, todo>>
countVars == <<requests, recoveries>>
vars == <<process, listVars, load, pc, scanVars, handler, countVars, wentOffline>>

(* LoadMachine: every machine of the list starts online with no load.      *)
Init ==
  /\ process = "running"
  /\ online = Machine
  /\ offline = {}
  /\ load = [m \in Machine |-> 0]
  /\ mtx = None
  /\ pc = [w \in Worker |-> "idle"]
  /\ chosen = [w \in Worker |-> None]
  /\ minLoad = [w \in Worker |-> 0]
  /\ todo = [w \in Worker |-> {}]
  /\ handler = "none"
  /\ requests = 0
  /\ recoveries = 0
  /\ wentOffline = {}

At(w, where) == process = "running" /\ pc[w] = where

Goto(w, where) == pc' = [pc EXCEPT ![w] = where]

-------------------------------------------------------------------------------
(* Machine.  A variant before a definition is a faulty form of it that the *)
(* properties are tried against.                                           *)

\* variant: using a machine is not counted
IncNothing(m) == load

(* IncLoad: ++_load on 64 bits. *)
IncLoad(m) == [load EXCEPT ![m] = IF @ = LOAD_MAX THEN 0 ELSE @ + 1]

\* variant: the counter is signed
DecSigned(m) == [load EXCEPT ![m] = @ - 1]

(* DecLoad: --_load on 64 bits. *)
DecLoad(m) == [load EXCEPT ![m] = IF @ = 0 THEN LOAD_MAX ELSE @ - 1]

ResetLoad(m) == [load EXCEPT ![m] = 0]

-------------------------------------------------------------------------------
(* LoadBalance                                                             *)

\* variant: the lists are used without waiting for the lock
MayUseAnyTime(w) == TRUE

(* _mtx.lock() returns. *)
MayLock(w) == mtx = None

\* variant: the machine stays in the online list
TakeOfflineKeep(m) == online' = online /\ offline' = offline \cup {m}

(* OfflineMachine moves the machine from one list to the other. *)
TakeOffline(m) == online' = online \ {m} /\ offline' = offline \cup {m}

\* variant: the offline list is not emptied
BringOnlineKeep == online' = online \cup offline /\ offline' = offline

(* OnlineMachine moves every offline machine back. *)
BringOnline == online' = online \cup offline /\ offline' = {}

(* SmartChioce takes the lock; without an online machine it gives it back  *)
(* and Judge ends with an empty answer, the machines being all down.       *)
ChooseNone(w) ==
  /\ At(w, "choose") /\ MayLock(w)
  /\ online = {}
  /\ Goto(w, "idle")
  /\ chosen' = [chosen EXCEPT ![w] = None]
  /\ UNCHANGED <<process, listVars, load, minLoad, todo, handler, countVars, wentOffline>>

ChooseBegin(w) ==
  /\ At(w, "choose") /\ MayLock(w)
  /\ online # {}
  /\ mtx' = w
  /\ chosen' = [chosen EXCEPT ![w] = None]
  /\ todo' = [todo EXCEPT ![w] = online]
  /\ Goto(w, "scan")
  /\ UNCHANGED <<process, online, offline, load, minLoad, handler, countVars, wentOffline>>

(* One machine of the scan: its load is read with its own lock only.       *)
ChooseScan(w) ==
  /\ At(w, "scan")
  /\ \E m \in todo[w] :
       /\ todo' = [todo EXCEPT ![w] = @ \ {m}]
       /\ IF chosen[w] = None \/ load[m] < minLoad[w]
            THEN /\ chosen' = [chosen EXCEPT ![w] = m]
                 /\ minLoad' = [minLoad EXCEPT ![w] = load[m]]
            ELSE UNCHANGED <<chosen, minLoad>>
  /\ UNCHANGED <<process, listVars, load, pc, handler, countVars, wentOffline>>

ChooseEnd(w) ==
  /\ At(w, "scan") /\ todo[w] = {}
  /\ mtx' = None
  /\ minLoad' = [minLoad EXCEPT ![w] = 0]
  /\ Goto(w, "chosen")
  /\ UNCHANGED <<process, online, offline, load, chosen, todo, handler, countVars, wentOffline>>

(* OfflineMachine, in two steps so that a reader without the lock can meet *)
(* the change: the lock is taken, then the machine, if it is still online, *)
(* loses its load and moves to the other list.                             *)
OfflineBegin(w) ==
  /\ At(w, "failed") /\ MayLock(w)
  /\ mtx' = w
  /\ Goto(w, "offlining")
  /\ UNCHANGED <<process, online, offline, load, scanVars, handler, countVars, wentOffline>>

OfflineEnd(w) ==
  /\ At(w, "offlining")
  /\ IF chosen[w] \in online
       THEN /\ load' = ResetLoad(chosen[w])
            /\ TakeOffline(chosen[w])
            /\ wentOffline' = wentOffline \cup {chosen[w]}
       ELSE UNCHANGED <<load, online, offline, wentOffline>>
  /\ mtx' = None
  /\ Goto(w, "show")
  /\ UNCHANGED <<process, scanVars, handler, countVars>>

(* A thread is about to change the lists. *)
Changing == handler = "onlining" \/ \E w \in Worker : pc[w] = "offlining"

(* ShowMachines iterates over both lists without the lock; if they change  *)
(* under it the process may crash.  Then Judge tries again.                *)
Show(w) ==
  /\ At(w, "show")
  /\ \/ Goto(w, "choose") /\ UNCHANGED process
     \/ Changing /\ process' = "crashed" /\ UNCHANGED pc
  /\ UNCHANGED <<listVars, load, scanVars, handler, countVars, wentOffline>>

-------------------------------------------------------------------------------
(* Control::Judge and the signal handler                                   *)

(* A request arrives and is given to a worker. *)
Judge(w) ==
  /\ At(w, "idle")
  /\ requests < MaxRequests
  /\ requests' = requests + 1
  /\ Goto(w, "choose")
  /\ UNCHANGED <<process, listVars, load, scanVars, handler, recoveries, wentOffline>>

(* The machine is used: IncLoad, then the post begins. *)
Post(w) ==
  /\ At(w, "chosen")
  /\ load' = IncLoad(chosen[w])
  /\ Goto(w, "posted")
  /\ UNCHANGED <<process, listVars, scanVars, handler, countVars, wentOffline>>

(* Status 200: DecLoad and the answer goes to the user. *)
PostOk(w) ==
  /\ At(w, "posted")
  /\ load' = DecLoad(chosen[w])
  /\ chosen' = [chosen EXCEPT ![w] = None]
  /\ Goto(w, "idle")
  /\ UNCHANGED <<process, listVars, minLoad, todo, handler, countVars, wentOffline>>

(* Another status: DecLoad and try again. *)
PostError(w) ==
  /\ At(w, "posted")
  /\ load' = DecLoad(chosen[w])
  /\ Goto(w, "choose")
  /\ UNCHANGED <<process, listVars, scanVars, handler, countVars, wentOffline>>

(* No response (refused, lost or timed out): the machine is to go offline; *)
(* its load is not decreased.                                              *)
PostNone(w) ==
  /\ At(w, "posted")
  /\ Goto(w, "failed")
  /\ UNCHANGED <<process, listVars, load, scanVars, handler, countVars, wentOffline>>

(* SIGQUIT: the main thread runs Recovery, which calls OnlineMachine.      *)
Recovery ==
  /\ process = "running" /\ handler = "none"
  /\ recoveries < MaxRecoveries
  /\ recoveries' = recoveries + 1
  /\ handler' = "locking"
  /\ UNCHANGED <<process, listVars, load, pc, scanVars, requests, wentOffline>>

OnlineBegin ==
  /\ process = "running" /\ handler = "locking" /\ MayLock(Main)
  /\ mtx' = Main
  /\ handler' = "onlining"
  /\ UNCHANGED <<process, online, offline, load, pc, scanVars, countVars, wentOffline>>

OnlineEnd ==
  /\ process = "running" /\ handler = "onlining"
  /\ BringOnline
  /\ mtx' = None
  /\ handler' = "none"
  /\ UNCHANGED <<process, load, pc, scanVars, countVars, wentOffline>>

(* Nothing is left to do: the server waits, or the process is gone.        *)
Rest ==
  /\ \/ process = "crashed"
     \/ requests = MaxRequests /\ handler = "none" /\ \A w \in Worker : pc[w] = "idle"
  /\ UNCHANGED vars

InJudge(w) ==
  \/ ChooseNone(w) \/ ChooseBegin(w) \/ ChooseScan(w) \/ ChooseEnd(w)
  \/ Post(w) \/ PostOk(w) \/ PostError(w) \/ PostNone(w)
  \/ OfflineBegin(w) \/ OfflineEnd(w) \/ Show(w)

Next ==
  \/ \E w \in Worker : Judge(w) \/ InJudge(w)
  \/ Recovery \/ OnlineBegin \/ OnlineEnd
  \/ Rest

Spec == Init /\ [][Next]_vars

(* Every worker inside Judge runs, a post ends (the HTTP client has         *)
(* timeouts), and the main thread runs the handler it has entered.         *)
FairSpec ==
  /\ Spec
  /\ \A w \in Worker : WF_vars(InJudge(w))
  /\ WF_vars(OnlineBegin \/ OnlineEnd)

-------------------------------------------------------------------------------
(* Properties                                                              *)

TypeOK ==
  /\ process \in {"running", "crashed"}
  /\ online \subseteq Machine /\ offline \subseteq Machine
  /\ load \in [Machine -> 0 .. LOAD_MAX]
  /\ mtx \in Worker \cup {Main, None}
  /\ pc \in [Worker -> {"idle", "choose", "scan", "chosen", "posted", "failed",
                        "offlining", "show"}]
  /\ chosen \in [Worker -> Machine \cup {None}]
  /\ minLoad \in [Worker -> 0 .. LOAD_MAX]
  /\ todo \in [Worker -> SUBSET Machine]
  /\ handler \in {"none", "locking", "onlining"}
  /\ requests \in 0 .. MaxRequests /\ recoveries \in 0 .. MaxRecoveries
  /\ wentOffline \subseteq Machine

(* No machine is ever lost from the pool or listed twice, whatever the     *)
(* order in which workers give a machine up and the operator brings all of *)
(* them back (lines 164-189).                                              *)
EveryMachineInOneList == online \cup offline = Machine /\ online \cap offline = {}

(* The requests a machine is working for. *)
UsedBy(m) == {w \in Worker : chosen[w] = m /\ pc[w] \in {"posted", "failed", "offlining"}}

(* As long as a machine has not been taken offline, its load is exactly    *)
(* the number of requests it is used by (the comments at lines 33, 298 and *)
(* 310), although loads are changed by all workers without a common lock.  *)
LoadCountsRequests ==
  \A m \in Machine \ wentOffline : load[m] = Cardinality(UsedBy(m))

(* A scan sees one state of the online list: what it has still to read and *)
(* what it has chosen are online machines as long as it holds _mtx (line   *)
(* 92), so a machine given up before the scan is not chosen by it.         *)
ScanSeesOneList ==
  \A w \in Worker : pc[w] = "scan" =>
    /\ mtx = w
    /\ todo[w] \cup ({chosen[w]} \ {None}) \subseteq online

(* Judge always ends: some machine answers 200 or all of them are down     *)
(* (line 286), unless machines go on answering with an error status for    *)
(* ever (line 313 tries again without a limit).                            *)
JudgeEnds ==
  <>[][\A w \in Worker : ~ PostError(w)]_vars
    => \A w \in Worker : pc[w] = "choose" ~> (pc[w] = "idle" \/ process = "crashed")

===============================================================================
