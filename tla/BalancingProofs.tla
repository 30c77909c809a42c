----------------------------- MODULE BalancingProofs -----------------------------
(***************************************************************************)
(* Proofs about the two places where a request is given a server: the      *)
(* judge's list of machines (LoadBalance), for any number of workers,      *)
(* machines, requests and recoveries, with a 64-bit counter that has room  *)
(* for all workers; and the list of a service's nodes that the processes   *)
(* of the messaging system keep (Discovery), for any finite set of nodes   *)
(* and any number of starts and failures.                                  *)
(***************************************************************************)
EXTENDS LoadBalance, Discovery, FiniteSetTheorems, SequenceTheorems, TLAPS

-------------------------------------------------------------------------------
(* The judge's list of machines                                            *)

(* Whoever scans or changes the lists holds _mtx.                          *)
LockHeld ==
  /\ handler = "onlining" => mtx = Main
  /\ \A w \in Worker : pc[w] \in {"scan", "offlining"} => mtx = w

(* What a worker scans or has chosen in its scan is online.                *)
ScanOnline ==
  \A w \in Worker : pc[w] = "scan" =>
    /\ todo[w] \subseteq online
    /\ chosen[w] # None => chosen[w] \in online

(* A scan ends with a machine, which the worker keeps until it is done.    *)
HasMachine ==
  \A w \in Worker :
    /\ pc[w] = "scan" => todo[w] # {} \/ chosen[w] # None
    /\ pc[w] \in {"chosen", "posted", "failed", "offlining", "show"} => chosen[w] # None

OfflineWent == offline \subseteq wentOffline

IInv ==
  /\ TypeOK
  /\ EveryMachineInOneList
  /\ LockHeld
  /\ ScanOnline
  /\ HasMachine
  /\ OfflineWent
  /\ LoadCountsRequests

Actions(w) == Judge(w) \/ InJudge(w)

-------------------------------------------------------------------------------

LEMMA InitInvariant == Init => IInv
<1>. SUFFICES ASSUME Init PROVE IInv
  OBVIOUS
<1>. USE LoadBalanceAssumption DEF Init
<1>1. TypeOK
  BY DEF TypeOK
<1>2. EveryMachineInOneList
  BY DEF EveryMachineInOneList
<1>3. LockHeld /\ ScanOnline /\ HasMachine /\ OfflineWent
  BY DEF LockHeld, ScanOnline, HasMachine, OfflineWent
<1>4. LoadCountsRequests
  <2>1. ASSUME NEW m \in Machine PROVE UsedBy(m) = {}
    BY DEF UsedBy
  <2>. QED  BY <2>1, FS_EmptySet DEF LoadCountsRequests
<1>. QED  BY <1>1, <1>2, <1>3, <1>4 DEF IInv

(* Types: a step of one worker.                                            *)
LEMMA TypeOfWorker ==
  ASSUME TypeOK, HasMachine, NEW w \in Worker, Actions(w)
  PROVE  TypeOK'
<1>. USE LoadBalanceAssumption DEF TypeOK, At, Goto, listVars, scanVars, countVars
<1>1. CASE Judge(w)
  BY <1>1 DEF Judge
<1>2. CASE ChooseNone(w)
  BY <1>2 DEF ChooseNone
<1>3. CASE ChooseBegin(w)
  BY <1>3 DEF ChooseBegin
<1>4. CASE ChooseScan(w)
  BY <1>4 DEF ChooseScan
<1>5. CASE ChooseEnd(w)
  BY <1>5 DEF ChooseEnd
<1>6. CASE Post(w)
  BY <1>6 DEF Post, IncLoad, HasMachine
<1>7. CASE PostOk(w)
  BY <1>7 DEF PostOk, DecLoad, HasMachine
<1>8. CASE PostError(w)
  BY <1>8 DEF PostError, DecLoad, HasMachine
<1>9. CASE PostNone(w)
  BY <1>9 DEF PostNone
<1>10. CASE OfflineBegin(w)
  BY <1>10 DEF OfflineBegin
<1>11. CASE OfflineEnd(w)
  BY <1>11 DEF OfflineEnd, ResetLoad, TakeOffline
<1>12. CASE Show(w)
  BY <1>12 DEF Show
<1>. QED  BY <1>1, <1>2, <1>3, <1>4, <1>5, <1>6, <1>7, <1>8, <1>9, <1>10, <1>11, <1>12
          DEF Actions, InJudge

LEMMA TypeStep == TypeOK /\ HasMachine /\ [Next]_vars => TypeOK'
<1>. SUFFICES ASSUME TypeOK, HasMachine, [Next]_vars PROVE TypeOK'
  OBVIOUS
<1>. USE LoadBalanceAssumption DEF listVars, scanVars, countVars
<1>1. CASE \E w \in Worker : Judge(w) \/ InJudge(w)
  BY <1>1, TypeOfWorker DEF Actions
<1>2. CASE Recovery
  BY <1>2 DEF Recovery, TypeOK
<1>3. CASE OnlineBegin \/ OnlineEnd
  BY <1>3 DEF OnlineBegin, OnlineEnd, BringOnline, TypeOK
<1>4. CASE UNCHANGED vars
  BY <1>4 DEF vars, TypeOK
<1>. QED  BY <1>1, <1>2, <1>3, <1>4 DEF Next, Rest

(* The lists: only OfflineEnd and OnlineEnd change them.                   *)
LEMMA ListsStep ==
  TypeOK /\ EveryMachineInOneList /\ OfflineWent /\ [Next]_vars
    => EveryMachineInOneList' /\ OfflineWent'
<1>. SUFFICES ASSUME TypeOK, EveryMachineInOneList, OfflineWent, [Next]_vars
              PROVE  EveryMachineInOneList' /\ OfflineWent'
  OBVIOUS
<1>. USE DEF EveryMachineInOneList, OfflineWent, listVars, scanVars, countVars
<1>1. CASE \E w \in Worker : OfflineEnd(w)
  BY <1>1 DEF OfflineEnd, TakeOffline
<1>2. CASE OnlineEnd
  BY <1>2 DEF OnlineEnd, BringOnline
<1>3. CASE UNCHANGED <<online, offline, wentOffline>>
  BY <1>3
<1>4. ASSUME NEW w \in Worker, Judge(w) \/ InJudge(w), ~ OfflineEnd(w)
      PROVE  UNCHANGED <<online, offline, wentOffline>>
  BY <1>4 DEF Judge, InJudge, ChooseNone, ChooseBegin, ChooseScan, ChooseEnd,
              Post, PostOk, PostError, PostNone, OfflineBegin, Show
<1>5. Recovery \/ OnlineBegin \/ Rest \/ UNCHANGED vars
        => UNCHANGED <<online, offline, wentOffline>>
  BY DEF Recovery, OnlineBegin, Rest, vars
<1>. QED  BY <1>1, <1>2, <1>3, <1>4, <1>5 DEF Next

(* The lock: a step of one worker changes mtx only from None to itself or  *)
(* from itself to None.                                                    *)
LEMMA LockOfWorker ==
  ASSUME TypeOK, LockHeld, NEW w \in Worker, Actions(w)
  PROVE  LockHeld'
<1>. USE LoadBalanceAssumption DEF TypeOK, LockHeld, At, Goto, MayLock, listVars, scanVars, countVars
<1>1. CASE Judge(w) \/ ChooseNone(w) \/ Post(w) \/ PostOk(w) \/ PostError(w)
           \/ PostNone(w) \/ Show(w) \/ ChooseScan(w)
  BY <1>1 DEF Judge, ChooseNone, Post, PostOk, PostError, PostNone, Show, ChooseScan
<1>2. CASE ChooseBegin(w) \/ OfflineBegin(w)
  BY <1>2 DEF ChooseBegin, OfflineBegin
<1>3. CASE ChooseEnd(w)
  BY <1>3 DEF ChooseEnd
<1>4. CASE OfflineEnd(w)
  BY <1>4 DEF OfflineEnd
<1>. QED  BY <1>1, <1>2, <1>3, <1>4 DEF Actions, InJudge

LEMMA LockStep == TypeOK /\ LockHeld /\ [Next]_vars => LockHeld'
<1>. SUFFICES ASSUME TypeOK, LockHeld, [Next]_vars PROVE LockHeld'
  OBVIOUS
<1>1. CASE \E w \in Worker : Judge(w) \/ InJudge(w)
  BY <1>1, LockOfWorker DEF Actions
<1>2. CASE Recovery \/ OnlineBegin \/ OnlineEnd
  BY <1>2, LoadBalanceAssumption
     DEF Recovery, OnlineBegin, OnlineEnd, MayLock, LockHeld, TypeOK, listVars
<1>3. CASE UNCHANGED vars
  BY <1>3 DEF vars, listVars, scanVars, countVars, LockHeld
<1>. QED  BY <1>1, <1>2, <1>3 DEF Next, Rest

(* The scan: while a worker scans nobody else can hold the lock and change *)
(* the online list.                                                        *)
LEMMA ScanOfWorker ==
  ASSUME TypeOK, LockHeld, ScanOnline, HasMachine, NEW w \in Worker, Actions(w)
  PROVE  ScanOnline' /\ HasMachine'
<1>. USE LoadBalanceAssumption DEF TypeOK, LockHeld, ScanOnline, HasMachine, At, Goto,
                                   listVars, scanVars, countVars
<1>1. CASE Judge(w) \/ Post(w) \/ PostError(w) \/ PostNone(w) \/ Show(w) \/ OfflineBegin(w)
  BY <1>1 DEF Judge, Post, PostError, PostNone, Show, OfflineBegin
<1>2. CASE ChooseNone(w) \/ PostOk(w)
  BY <1>2 DEF ChooseNone, PostOk
<1>3. CASE ChooseBegin(w)
  BY <1>3 DEF ChooseBegin
<1>4. CASE ChooseScan(w)
  <2>1. PICK m \in todo[w] :
          /\ todo' = [todo EXCEPT ![w] = @ \ {m}]
          /\ \/ chosen' = [chosen EXCEPT ![w] = m]
             \/ chosen[w] # None /\ chosen' = chosen
    BY <1>4 DEF ChooseScan
  <2>2. m \in online /\ m # None /\ pc' = pc /\ online' = online /\ pc[w] = "scan"
    BY <1>4 DEF ChooseScan
  <2>. QED  BY <2>1, <2>2
<1>5. CASE ChooseEnd(w)
  BY <1>5 DEF ChooseEnd
<1>6. CASE OfflineEnd(w)
  <2>1. mtx = w /\ pc' = [pc EXCEPT ![w] = "show"] /\ chosen' = chosen /\ todo' = todo
    BY <1>6 DEF OfflineEnd
  <2>2. \A u \in Worker : pc[u] # "scan"
    BY <1>6, <2>1 DEF OfflineEnd
  <2>. QED  BY <1>6, <2>1, <2>2 DEF OfflineEnd
<1>. QED  BY <1>1, <1>2, <1>3, <1>4, <1>5, <1>6 DEF Actions, InJudge

LEMMA ScanStep ==
  TypeOK /\ LockHeld /\ ScanOnline /\ HasMachine /\ [Next]_vars => ScanOnline' /\ HasMachine'
<1>. SUFFICES ASSUME TypeOK, LockHeld, ScanOnline, HasMachine, [Next]_vars
              PROVE  ScanOnline' /\ HasMachine'
  OBVIOUS
<1>1. CASE \E w \in Worker : Judge(w) \/ InJudge(w)
  BY <1>1, ScanOfWorker DEF Actions
<1>2. CASE Recovery \/ OnlineBegin \/ OnlineEnd
  BY <1>2 DEF Recovery, OnlineBegin, OnlineEnd, BringOnline, ScanOnline, HasMachine,
              listVars, scanVars
<1>3. CASE UNCHANGED vars
  BY <1>3 DEF vars, listVars, scanVars, countVars, ScanOnline, HasMachine
<1>. QED  BY <1>1, <1>2, <1>3 DEF Next, Rest

(* The requests of a machine are finitely many, and a counter that can     *)
(* hold the number of workers can hold one more as long as some worker is  *)
(* not among them.                                                         *)
LEMMA UsersCounted ==
  ASSUME NEW m, NEW w \in Worker
  PROVE  /\ IsFiniteSet(UsedBy(m)) /\ Cardinality(UsedBy(m)) \in Nat
         /\ w \notin UsedBy(m) =>
              /\ Cardinality(UsedBy(m) \cup {w}) = Cardinality(UsedBy(m)) + 1
              /\ Cardinality(UsedBy(m)) < LOAD_MAX
         /\ w \in UsedBy(m) =>
              /\ Cardinality(UsedBy(m) \ {w}) = Cardinality(UsedBy(m)) - 1
              /\ Cardinality(UsedBy(m)) # 0
<1>1. UsedBy(m) \subseteq Worker /\ IsFiniteSet(Worker)
  BY LoadBalanceAssumption DEF UsedBy
<1>2. IsFiniteSet(UsedBy(m)) /\ Cardinality(UsedBy(m)) \in Nat
  BY <1>1, FS_Subset, FS_CardinalityType
<1>3. ASSUME w \notin UsedBy(m)
      PROVE  /\ Cardinality(UsedBy(m) \cup {w}) = Cardinality(UsedBy(m)) + 1
             /\ Cardinality(UsedBy(m)) < LOAD_MAX
  <2>1. Cardinality(UsedBy(m) \cup {w}) = Cardinality(UsedBy(m)) + 1
    BY <1>2, <1>3, FS_AddElement
  <2>2. UsedBy(m) \cup {w} \subseteq Worker
    BY <1>1
  <2>3. Cardinality(UsedBy(m) \cup {w}) <= Cardinality(Worker)
    BY <1>1, <2>2, FS_Subset
  <2>4. Cardinality(Worker) \in Nat /\ LOAD_MAX \in Nat /\ Cardinality(Worker) <= LOAD_MAX
    BY <1>1, FS_CardinalityType, LoadBalanceAssumption
  <2>. QED  BY <1>2, <2>1, <2>3, <2>4
<1>4. ASSUME w \in UsedBy(m)
      PROVE  /\ Cardinality(UsedBy(m) \ {w}) = Cardinality(UsedBy(m)) - 1
             /\ Cardinality(UsedBy(m)) # 0
  <2>1. Cardinality(UsedBy(m) \ {w}) = Cardinality(UsedBy(m)) - 1
    BY <1>2, <1>4, FS_RemoveElement
  <2>2. Cardinality(UsedBy(m)) # 0
    BY <1>2, <1>4, FS_EmptySet
  <2>. QED  BY <2>1, <2>2
<1>. QED  BY <1>2, <1>3, <1>4

(* Loads: a step of one worker changes the load of its machine and the     *)
(* requests of that machine alike, or the machine goes offline.            *)
LEMMA LoadOfWorker ==
  ASSUME TypeOK, EveryMachineInOneList, OfflineWent, HasMachine, LoadCountsRequests,
         NEW w \in Worker, Actions(w)
  PROVE  LoadCountsRequests'
<1>. USE LoadBalanceAssumption
<1>1. CASE Judge(w) \/ ChooseNone(w) \/ ChooseBegin(w) \/ ChooseScan(w) \/ ChooseEnd(w)
           \/ Show(w)
  <2>1. pc[w] \notin {"posted", "failed", "offlining"}
        /\ pc'[w] \notin {"posted", "failed", "offlining"}
    BY <1>1 DEF Judge, ChooseNone, ChooseBegin, ChooseScan, ChooseEnd, Show, At, Goto, TypeOK
  <2>2. \A u \in Worker \ {w} : pc'[u] = pc[u] /\ chosen'[u] = chosen[u]
    BY <1>1 DEF Judge, ChooseNone, ChooseBegin, ChooseScan, ChooseEnd, Show, Goto, TypeOK, scanVars
  <2>3. load' = load /\ wentOffline' = wentOffline
    BY <1>1 DEF Judge, ChooseNone, ChooseBegin, ChooseScan, ChooseEnd, Show
  <2>4. \A m \in Machine : UsedBy(m)' = UsedBy(m)
    BY <2>1, <2>2 DEF UsedBy
  <2>. QED  BY <2>3, <2>4 DEF LoadCountsRequests
<1>2. CASE Post(w)
  <2>1. /\ pc[w] = "chosen" /\ pc' = [pc EXCEPT ![w] = "posted"]
        /\ chosen' = chosen /\ wentOffline' = wentOffline
        /\ load' = IncLoad(chosen[w]) /\ chosen[w] \in Machine
    BY <1>2 DEF Post, At, Goto, scanVars, HasMachine, TypeOK
  <2>2. ASSUME NEW m \in Machine \ wentOffline
        PROVE  load'[m] = Cardinality(UsedBy(m)')
    <3>1. load[m] = Cardinality(UsedBy(m)) /\ load[m] \in Nat /\ w \notin UsedBy(m)
      <4>1. load[m] = Cardinality(UsedBy(m))
        BY DEF LoadCountsRequests
      <4>2. w \notin UsedBy(m)
        BY <2>1 DEF UsedBy
      <4>. QED  BY <4>1, <4>2, UsersCounted
    <3>2. CASE m = chosen[w]
      <4>1. UsedBy(m)' = UsedBy(m) \cup {w}
        BY <2>1, <3>2 DEF UsedBy, TypeOK
      <4>2. load[m] < LOAD_MAX
        BY <3>1, UsersCounted
      <4>3. load'[m] = load[m] + 1
        BY <2>1, <3>2, <4>2, <3>1 DEF IncLoad, TypeOK
      <4>. QED  BY <3>1, <4>1, <4>3, UsersCounted
    <3>3. CASE m # chosen[w]
      <4>1. UsedBy(m)' = UsedBy(m)
        BY <2>1, <3>3 DEF UsedBy, TypeOK
      <4>2. load'[m] = load[m]
        BY <2>1, <3>3 DEF IncLoad, TypeOK
      <4>. QED  BY <3>1, <4>1, <4>2
    <3>. QED  BY <3>2, <3>3
  <2>. QED  BY <2>1, <2>2 DEF LoadCountsRequests
<1>3. CASE PostOk(w) \/ PostError(w)
  <2>1. /\ pc[w] = "posted" /\ pc'[w] \notin {"posted", "failed", "offlining"}
        /\ \A u \in Worker \ {w} : pc'[u] = pc[u] /\ chosen'[u] = chosen[u]
        /\ wentOffline' = wentOffline
        /\ load' = DecLoad(chosen[w]) /\ chosen[w] \in Machine
    BY <1>3 DEF PostOk, PostError, At, Goto, scanVars, HasMachine, TypeOK
  <2>2. ASSUME NEW m \in Machine \ wentOffline
        PROVE  load'[m] = Cardinality(UsedBy(m)')
    <3>1. load[m] = Cardinality(UsedBy(m)) /\ load[m] \in Nat
      <4>1. load[m] = Cardinality(UsedBy(m))
        BY DEF LoadCountsRequests
      <4>. QED  BY <4>1, UsersCounted
    <3>2. CASE m = chosen[w]
      <4>1. UsedBy(m)' = UsedBy(m) \ {w} /\ w \in UsedBy(m)
        BY <2>1, <3>2 DEF UsedBy, TypeOK
      <4>2. Cardinality(UsedBy(m) \ {w}) = load[m] - 1 /\ load[m] # 0
        BY <3>1, <4>1, UsersCounted
      <4>3. load'[m] = load[m] - 1
        BY <2>1, <3>2, <4>2 DEF DecLoad, TypeOK
      <4>. QED  BY <4>1, <4>2, <4>3
    <3>3. CASE m # chosen[w]
      <4>1. UsedBy(m)' = UsedBy(m)
        BY <2>1, <3>3 DEF UsedBy, TypeOK
      <4>2. load'[m] = load[m]
        BY <2>1, <3>3 DEF DecLoad, TypeOK
      <4>. QED  BY <3>1, <4>1, <4>2
    <3>. QED  BY <3>2, <3>3
  <2>. QED  BY <2>1, <2>2 DEF LoadCountsRequests
<1>4. CASE PostNone(w) \/ OfflineBegin(w)
  <2>1. \A m \in Machine : UsedBy(m)' = UsedBy(m)
    BY <1>4 DEF PostNone, OfflineBegin, UsedBy, At, Goto, scanVars, TypeOK
  <2>. QED  BY <1>4, <2>1 DEF PostNone, OfflineBegin, LoadCountsRequests
<1>5. CASE OfflineEnd(w)
  <2>1. /\ pc' = [pc EXCEPT ![w] = "show"] /\ chosen' = chosen /\ chosen[w] \in Machine
        /\ chosen[w] \in wentOffline' /\ wentOffline \subseteq wentOffline'
    BY <1>5 DEF OfflineEnd, At, Goto, scanVars, HasMachine, TypeOK, OfflineWent,
                EveryMachineInOneList
  <2>2. ASSUME NEW m \in Machine \ wentOffline'
        PROVE  load'[m] = load[m] /\ UsedBy(m)' = UsedBy(m)
    BY <1>5, <2>1, <2>2 DEF OfflineEnd, ResetLoad, UsedBy, TypeOK
  <2>. QED  BY <2>1, <2>2 DEF LoadCountsRequests
<1>. QED  BY <1>1, <1>2, <1>3, <1>4, <1>5 DEF Actions, InJudge

LEMMA LoadStep ==
  TypeOK /\ EveryMachineInOneList /\ OfflineWent /\ HasMachine /\ LoadCountsRequests /\ [Next]_vars
    => LoadCountsRequests'
<1>. SUFFICES ASSUME TypeOK, EveryMachineInOneList, OfflineWent, HasMachine,
                     LoadCountsRequests, [Next]_vars
              PROVE  LoadCountsRequests'
  OBVIOUS
<1>1. CASE \E w \in Worker : Judge(w) \/ InJudge(w)
  BY <1>1, LoadOfWorker DEF Actions
<1>2. CASE UNCHANGED <<load, pc, chosen, wentOffline>>
  BY <1>2 DEF LoadCountsRequests, UsedBy
<1>3. Recovery \/ OnlineBegin \/ OnlineEnd \/ Rest \/ UNCHANGED vars
        => UNCHANGED <<load, pc, chosen, wentOffline>>
  BY DEF Recovery, OnlineBegin, OnlineEnd, Rest, vars, scanVars
<1>. QED  BY <1>1, <1>2, <1>3 DEF Next

LEMMA InductiveInvariant == Spec => []IInv
<1>1. Init => IInv
  BY InitInvariant
<1>2. IInv /\ [Next]_vars => IInv'
  BY TypeStep, ListsStep, LockStep, ScanStep, LoadStep DEF IInv
<1>. QED  BY <1>1, <1>2, PTL DEF Spec

-------------------------------------------------------------------------------

(* The type invariant of the dispatcher.                                   *)
THEOREM TypeCorrect == Spec => []TypeOK
<1>1. IInv => TypeOK
  BY DEF IInv
<1>. QED  BY <1>1, InductiveInvariant, PTL

(* Whatever the order of failing posts and recoveries, no machine is lost  *)
(* and none is in both lists (OfflineMachine, OnlineMachine).              *)
THEOREM NoMachineLost == Spec => []EveryMachineInOneList
<1>1. IInv => EveryMachineInOneList
  BY DEF IInv
<1>. QED  BY <1>1, InductiveInvariant, PTL

(* A worker that scans holds _mtx and sees one state of the online list    *)
(* (SmartChioce).                                                          *)
THEOREM ScanIsConsistent == Spec => []ScanSeesOneList
<1>1. IInv => ScanSeesOneList
  BY DEF IInv, LockHeld, ScanOnline, ScanSeesOneList
<1>. QED  BY <1>1, InductiveInvariant, PTL

(* The load of a machine that has never been offline is the number of      *)
(* requests it is used by, for any number of workers (IncLoad, DecLoad).   *)
THEOREM LoadIsExact == Spec => []LoadCountsRequests
<1>1. IInv => LoadCountsRequests
  BY DEF IInv
<1>. QED  BY <1>1, InductiveInvariant, PTL

-------------------------------------------------------------------------------
(* The list of a service's nodes                                           *)

(* Before it watches, and when its watch is broken, the process has no     *)
(* event under way; without a process there is no list.                    *)
Quiet ==
  /\ client # "watching" => events = <<>>
  /\ client = "off" => channels = <<>> /\ \A n \in Node : ~ Listed(n)

(* No channel is twice in _channels. *)
EachOnce == \A i, j \in DOMAIN channels : channels[i] = channels[j] => i = j

ListInv == DiscoveryTypeOK /\ Quiet /\ EachOnce /\ ListFollowsRegistry

Channel == Node \X Nat
Event == [type : {"PUT", "DELETE"}, host : All]

-------------------------------------------------------------------------------
(* Sequences                                                               *)

LEMMA Appended ==
  ASSUME NEW S, NEW s \in Seq(S), NEW e \in S
  PROVE  /\ Append(s, e) \in Seq(S) /\ Len(s) \in Nat /\ Len(Append(s, e)) = Len(s) + 1
         /\ DOMAIN s = 1 .. Len(s) /\ DOMAIN Append(s, e) = 1 .. Len(s) + 1
         /\ Append(s, e)[Len(s) + 1] = e
         /\ \A i \in 1 .. Len(s) : Append(s, e)[i] = s[i]
OBVIOUS

(* RemoveAt closes the gap.                                                *)
LEMMA Removed ==
  ASSUME NEW S, NEW s \in Seq(S), NEW k \in 1 .. Len(s)
  PROVE  /\ RemoveAt(s, k) \in Seq(S) /\ Len(s) \in Nat
         /\ DOMAIN s = 1 .. Len(s) /\ DOMAIN RemoveAt(s, k) = 1 .. Len(s) - 1
         /\ \A i \in 1 .. Len(s) - 1 :
              RemoveAt(s, k)[i] = IF i < k THEN s[i] ELSE s[i + 1]
<1>1. Len(s) \in Nat /\ DOMAIN s = 1 .. Len(s) /\ \A i \in 1 .. Len(s) : s[i] \in S
  BY LenProperties, ElementOfSeq
<1>0. Len(s) \in Nat /\ k \in Nat /\ 1 <= k /\ k <= Len(s)
  BY <1>1
<1>. DEFINE a == SubSeq(s, 1, k - 1)
            b == SubSeq(s, k + 1, Len(s))
<1>2. a \in Seq(S) /\ Len(a) = k - 1 /\ \A i \in 1 .. k - 1 : a[i] = s[i]
  <2>1. \A i \in 1 .. k - 1 : s[i] \in S
    BY <1>1
  <2>2. /\ a \in Seq(S)
        /\ Len(a) = IF 1 <= k - 1 THEN k - 1 - 1 + 1 ELSE 0
        /\ \A i \in 1 .. k - 1 - 1 + 1 : a[i] = s[1 + i - 1]
    BY <1>1, <2>1, SubSeqProperties
  <2>. HIDE DEF a
  <2>. QED  BY <1>1, <2>2
<1>3. /\ b \in Seq(S) /\ Len(b) = Len(s) - k
      /\ \A i \in 1 .. Len(s) - k : b[i] = s[k + i]
  <2>1. \A i \in k + 1 .. Len(s) : s[i] \in S
    BY <1>1
  <2>2. /\ b \in Seq(S)
        /\ Len(b) = IF k + 1 <= Len(s) THEN Len(s) - (k + 1) + 1 ELSE 0
        /\ \A i \in 1 .. Len(s) - (k + 1) + 1 : b[i] = s[k + 1 + i - 1]
    BY <1>1, <2>1, SubSeqProperties
  <2>. HIDE DEF b
  <2>3. Len(b) = Len(s) - k
    <3>1. CASE k + 1 <= Len(s)
      BY <1>1, <2>2, <3>1
    <3>2. CASE k = Len(s)
      BY <1>1, <2>2, <3>2
    <3>. QED  BY <1>0, <3>1, <3>2
  <2>4. ASSUME NEW i \in 1 .. Len(s) - k PROVE b[i] = s[k + i]
    <3>1. i \in 1 .. Len(s) - (k + 1) + 1 /\ k + 1 + i - 1 = k + i
      BY <1>1
    <3>. QED  BY <2>2, <3>1
  <2>. QED  BY <2>2, <2>3, <2>4
<1>4. RemoveAt(s, k) = a \o b
  BY DEF RemoveAt
<1>. HIDE DEF a, b
<1>5. /\ a \o b \in Seq(S) /\ Len(a \o b) = Len(a) + Len(b)
      /\ \A i \in 1 .. Len(a) + Len(b) : (a \o b)[i] = IF i <= Len(a) THEN a[i] ELSE b[i - Len(a)]
  BY <1>2, <1>3, ConcatProperties
<1>6. Len(a \o b) = Len(s) - 1 /\ DOMAIN (a \o b) = 1 .. Len(s) - 1
  <2>1. Len(a \o b) = Len(s) - 1
    BY <1>1, <1>2, <1>3, <1>5
  <2>2. DOMAIN (a \o b) = 1 .. Len(a \o b)
    BY <1>5, LenProperties
  <2>. QED  BY <2>1, <2>2
<1>7. ASSUME NEW i \in 1 .. Len(s) - 1
      PROVE  (a \o b)[i] = IF i < k THEN s[i] ELSE s[i + 1]
  <2>1. CASE i < k
    BY <1>1, <1>2, <1>3, <1>5, <2>1
  <2>2. CASE i >= k
    <3>1. i - Len(a) \in 1 .. Len(s) - k /\ ~ (i <= Len(a)) /\ i \in 1 .. Len(a) + Len(b)
      BY <1>1, <1>2, <1>3, <2>2
    <3>2. (a \o b)[i] = b[i - Len(a)] /\ b[i - Len(a)] = s[k + (i - Len(a))]
      BY <1>3, <1>5, <3>1
    <3>3. k + (i - Len(a)) = i + 1
      BY <1>1, <1>2
    <3>. QED  BY <1>1, <2>2, <3>2, <3>3
  <2>3. i \in Nat /\ (i < k \/ i >= k)
    BY <1>0
  <2>. QED  BY <2>1, <2>2, <2>3
<1>. QED  BY <1>1, <1>4, <1>5, <1>6, <1>7

(* The sequence of a finite set holds each of its elements once.           *)
LEMMA Listing ==
  ASSUME NEW S, IsFiniteSet(S)
  PROVE  /\ SetToSeq(S) \in Seq(S)
         /\ ToSet(SetToSeq(S)) = S
         /\ \A i, j \in DOMAIN SetToSeq(S) : SetToSeq(S)[i] = SetToSeq(S)[j] => i = j
<1>. DEFINE n == Cardinality(S)
<1>1. n \in Nat /\ ExistsBijection(1 .. n, S)
  BY FS_CardinalityType
<1>2. PICK g \in Bijection(1 .. n, S) : TRUE
  BY <1>1 DEF ExistsBijection
<1>3. g \in [1 .. n -> S] /\ \A i, j \in 1 .. n : g[i] = g[j] => i = j
  BY <1>2 DEF Bijection, Injection, IsInjective
<1>4. IsInjective(g)
  BY <1>3 DEF IsInjective
<1>. DEFINE f == SetToSeq(S)
<1>5. f \in [1 .. n -> S] /\ IsInjective(f)
  BY <1>3, <1>4 DEF SetToSeq
<1>. HIDE DEF f
<1>6. DOMAIN f = 1 .. n /\ \A i, j \in 1 .. n : f[i] = f[j] => i = j
  BY <1>5 DEF IsInjective
<1>7. f \in Seq(S)
  BY <1>1, <1>5
<1>8. f \in Injection(1 .. n, S)
  BY <1>5, <1>6 DEF Injection
<1>9. Cardinality(1 .. n) = n
  BY <1>1, FS_Interval
<1>10. f \in Surjection(1 .. n, S)
  BY <1>8, <1>9, FS_Injection
<1>11. \A x \in S : \E i \in 1 .. n : f[i] = x
  BY <1>10 DEF Surjection
<1>12. ToSet(f) = S
  BY <1>5, <1>6, <1>11 DEF ToSet
<1>. QED  BY <1>6, <1>7, <1>12 DEF f

-------------------------------------------------------------------------------
(* The list of channels                                                    *)

(* append finds a channel that the list does not have: of the numbers up   *)
(* to one more than its length, one is free.                               *)
LEMMA FreshChannel ==
  ASSUME channels \in Seq(Channel), NEW n \in Node
  PROVE  \E c \in {n} \X (1 .. Len(channels) + 1) : c \notin ToSet(channels)
<1>. DEFINE l == Len(channels)
<1>1. l \in Nat /\ DOMAIN channels = 1 .. l
  BY LenProperties
<1>. HIDE DEF l
<1>2. SUFFICES ASSUME \A k \in 1 .. l + 1 : <<n, k>> \in ToSet(channels)
               PROVE  FALSE
  BY DEF l
<1>. DEFINE f == [k \in 1 .. l + 1 |-> CHOOSE i \in 1 .. l : channels[i] = <<n, k>>]
<1>3. ASSUME NEW k \in 1 .. l + 1
      PROVE  f[k] \in 1 .. l /\ channels[f[k]] = <<n, k>>
  <2>1. \E i \in 1 .. l : channels[i] = <<n, k>>
    BY <1>1, <1>2 DEF ToSet
  <2>. QED  BY <2>1
<1>4. f \in [1 .. l + 1 -> 1 .. l]
  BY <1>3
<1>5. /\ IsFiniteSet(1 .. l) /\ Cardinality(1 .. l) = l
      /\ IsFiniteSet(1 .. l + 1) /\ Cardinality(1 .. l + 1) = l + 1
  <2>1. \A b \in Nat : IsFiniteSet(1 .. b) /\ Cardinality(1 .. b) = b
    <3>1. ASSUME NEW b \in Nat PROVE IsFiniteSet(1 .. b) /\ Cardinality(1 .. b) = b
      <4>1. /\ IsFiniteSet(1 .. b)
            /\ Cardinality(1 .. b) = IF 1 > b THEN 0 ELSE b - 1 + 1
        BY FS_Interval
      <4>. QED  BY <4>1
    <3>. QED  BY <3>1
  <2>2. l + 1 \in Nat
    BY <1>1
  <2>. QED  BY <1>1, <2>1, <2>2
<1>6. Cardinality(1 .. l) < Cardinality(1 .. l + 1)
  BY <1>1, <1>5
<1>. HIDE DEF f
<1>7. \E x, y \in 1 .. l + 1 : x # y /\ f[x] = f[y]
  BY <1>4, <1>5, <1>6, FS_PigeonHole
<1>8. PICK x \in 1 .. l + 1, y \in 1 .. l + 1 : x # y /\ f[x] = f[y]
  BY <1>7
<1>9. <<n, x>> = <<n, y>>
  BY <1>3, <1>8
<1>. QED  BY <1>8, <1>9

LEMMA ListTypes ==
  ASSUME DiscoveryTypeOK
  PROVE  /\ channels \in Seq(Channel) /\ events \in Seq(Event)
         /\ \A n \in All : hosts[n] \in Channel \cup {NoNode}
         /\ NoNode \notin Channel
         /\ \A n \in All : n \in Stranger \/ n \in Node
BY DiscoveryAssumption DEF DiscoveryTypeOK, Channel, Event, All

(* What append does to the list of node n when it gets a channel.          *)
LEMMA AppendChannel ==
  ASSUME DiscoveryTypeOK, EachOnce, NEW n \in Node, AddChannel(n)
  PROVE  /\ hosts' \in [All -> Channel \cup {NoNode}] /\ channels' \in Seq(Channel)
         /\ EachOnce'
         /\ \A m \in All \ {n} : hosts'[m] = hosts[m]
         /\ \A m \in Node \ {n} : ChannelsOf(m)' = ChannelsOf(m)
         /\ \E c \in Channel :
              /\ ChannelsOf(n)' = ChannelsOf(n) \cup {c}
              /\ hosts'[n] = IF Listed(n) THEN hosts[n] ELSE c
<1>. DEFINE c == CHOOSE c \in {n} \X (1 .. Len(channels) + 1) : c \notin ToSet(channels)
<1>1. channels \in Seq(Channel) /\ n \in All /\ hosts \in [All -> Channel \cup {NoNode}]
  BY DEF DiscoveryTypeOK, Channel, All
<1>2. c \in {n} \X (1 .. Len(channels) + 1) /\ c \notin ToSet(channels)
  BY <1>1, FreshChannel
<1>3. /\ hosts' = IF Listed(n) THEN hosts ELSE [hosts EXCEPT ![n] = c]
      /\ channels' = Append(channels, c)
  BY DEF AddChannel
<1>. HIDE DEF c
<1>4. c \in Channel /\ c[1] = n
  <2>1. Len(channels) \in Nat
    BY <1>1
  <2>. QED  BY <1>2, <2>1 DEF Channel
<1>5. hosts' \in [All -> Channel \cup {NoNode}]
  BY <1>1, <1>3, <1>4
<1>6. /\ channels' \in Seq(Channel) /\ Len(channels) \in Nat
      /\ DOMAIN channels = 1 .. Len(channels) /\ DOMAIN channels' = 1 .. Len(channels) + 1
      /\ channels'[Len(channels) + 1] = c
      /\ \A i \in 1 .. Len(channels) : channels'[i] = channels[i]
  BY <1>1, <1>3, <1>4, Appended
<1>7. ToSet(channels') = ToSet(channels) \cup {c}
  <2>1. ASSUME NEW x \in ToSet(channels') PROVE x \in ToSet(channels) \cup {c}
    <3>1. PICK i \in 1 .. Len(channels) + 1 : x = channels'[i]
      BY <1>6 DEF ToSet
    <3>. QED  BY <1>6, <3>1 DEF ToSet
  <2>2. ASSUME NEW x \in ToSet(channels) PROVE x \in ToSet(channels')
    <3>1. PICK i \in 1 .. Len(channels) : x = channels[i]
      BY <1>6 DEF ToSet
    <3>2. i \in 1 .. Len(channels) + 1
      BY <1>6
    <3>. QED  BY <1>6, <3>1, <3>2 DEF ToSet
  <2>3. c \in ToSet(channels')
    <3>1. Len(channels) + 1 \in 1 .. Len(channels) + 1
      BY <1>6
    <3>. QED  BY <1>6, <3>1 DEF ToSet
  <2>. QED  BY <2>1, <2>2, <2>3
<1>8. EachOnce'
  <2>. SUFFICES ASSUME NEW i \in DOMAIN channels', NEW j \in DOMAIN channels',
                       channels'[i] = channels'[j]
                PROVE  i = j
    BY DEF EachOnce
  <2>1. \A k \in 1 .. Len(channels) : channels[k] # c
    BY <1>2, <1>6 DEF ToSet
  <2>2. CASE i \in 1 .. Len(channels) /\ j \in 1 .. Len(channels)
    BY <1>6, <2>2 DEF EachOnce
  <2>3. CASE i = Len(channels) + 1 /\ j \in 1 .. Len(channels)
    BY <1>6, <2>1, <2>3
  <2>4. CASE i \in 1 .. Len(channels) /\ j = Len(channels) + 1
    BY <1>6, <2>1, <2>4
  <2>5. \A k \in DOMAIN channels' : k \in 1 .. Len(channels) \/ k = Len(channels) + 1
    BY <1>6
  <2>. QED  BY <2>2, <2>3, <2>4, <2>5
<1>9. \A m \in Node \ {n} : ChannelsOf(m)' = ChannelsOf(m)
  BY <1>4, <1>7 DEF ChannelsOf
<1>10. ChannelsOf(n)' = ChannelsOf(n) \cup {c}
  BY <1>4, <1>7 DEF ChannelsOf
<1>11. /\ \A m \in All \ {n} : hosts'[m] = hosts[m]
       /\ hosts'[n] = IF Listed(n) THEN hosts[n] ELSE c
  BY <1>1, <1>3
<1>. QED  BY <1>4, <1>5, <1>6, <1>8, <1>9, <1>10, <1>11

(* What remove does: the channel that _hosts knows of n leaves both.       *)
LEMMA RemoveChannel ==
  ASSUME DiscoveryTypeOK, EachOnce, NEW n \in Node, remove(n),
         Listed(n) => hosts[n] \in ChannelsOf(n)
  PROVE  /\ hosts' \in [All -> Channel \cup {NoNode}] /\ channels' \in Seq(Channel)
         /\ EachOnce'
         /\ \A m \in All \ {n} : hosts'[m] = hosts[m]
         /\ \A m \in Node \ {n} : ChannelsOf(m)' = ChannelsOf(m)
         /\ ChannelsOf(n)' = ChannelsOf(n) \ {hosts[n]}
         /\ ~ Listed(n)'
<1>1. /\ channels \in Seq(Channel) /\ n \in All /\ hosts \in [All -> Channel \cup {NoNode}]
      /\ NoNode \notin Channel
  BY ListTypes DEF DiscoveryTypeOK, Channel, All
<1>2. CASE ~ Listed(n)
  <2>1. hosts' = hosts /\ channels' = channels
    BY <1>2 DEF remove, list
  <2>2. \A i \in DOMAIN channels : channels[i] \in Channel
    BY <1>1, LenProperties, ElementOfSeq
  <2>3. hosts[n] \notin ChannelsOf(n)
    BY <1>1, <1>2, <2>2 DEF Listed, ChannelsOf, ToSet
  <2>. QED  BY <1>1, <1>2, <2>1, <2>3 DEF EachOnce, ChannelsOf, Listed
<1>3. CASE Listed(n)
  <2>1. PICK k \in DOMAIN channels :
          /\ hosts' = [hosts EXCEPT ![n] = NoNode]
          /\ channels[k] = hosts[n] /\ channels' = RemoveAt(channels, k)
    BY <1>3 DEF remove
  <2>. DEFINE l == Len(channels)
  <2>2. /\ channels' \in Seq(Channel) /\ l \in Nat
        /\ DOMAIN channels = 1 .. l /\ DOMAIN channels' = 1 .. l - 1
        /\ \A i \in 1 .. l - 1 :
             channels'[i] = IF i < k THEN channels[i] ELSE channels[i + 1]
    <3>1. k \in 1 .. Len(channels)
      BY <1>1, <2>1, LenProperties
    <3>. QED  BY <1>1, <2>1, <3>1, Removed
  <2>. HIDE DEF l
  <2>3. EachOnce'
    <3>. SUFFICES ASSUME NEW i \in 1 .. l - 1, NEW j \in 1 .. l - 1,
                         channels'[i] = channels'[j]
                  PROVE  i = j
      BY <2>2 DEF EachOnce
    <3>. DEFINE p == IF i < k THEN i ELSE i + 1
                q == IF j < k THEN j ELSE j + 1
    <3>1. p \in 1 .. l /\ q \in 1 .. l /\ channels'[i] = channels[p] /\ channels'[j] = channels[q]
      BY <2>2
    <3>2. p = q
      BY <2>2, <3>1 DEF EachOnce
    <3>. QED  BY <2>1, <2>2, <3>2
  <2>4. ToSet(channels') = ToSet(channels) \ {hosts[n]}
    <3>1. ASSUME NEW x \in ToSet(channels') PROVE x \in ToSet(channels) /\ x # hosts[n]
      <4>1. PICK i \in 1 .. l - 1 : x = channels'[i]
        BY <2>2 DEF ToSet
      <4>. DEFINE p == IF i < k THEN i ELSE i + 1
      <4>2. p \in 1 .. l /\ p # k /\ x = channels[p]
        BY <2>1, <2>2, <4>1
      <4>. HIDE DEF p
      <4>3. x # channels[k]
        BY <2>1, <2>2, <4>2 DEF EachOnce
      <4>. QED  BY <2>1, <2>2, <4>2, <4>3 DEF ToSet
    <3>2. ASSUME NEW x \in ToSet(channels), x # hosts[n] PROVE x \in ToSet(channels')
      <4>1. PICK i \in 1 .. l : x = channels[i]
        BY <2>2 DEF ToSet
      <4>. DEFINE p == IF i < k THEN i ELSE i - 1
      <4>2. p \in 1 .. l - 1 /\ channels'[p] = x
        <5>1. i # k
          BY <2>1, <3>2, <4>1
        <5>2. CASE i < k
          BY <2>1, <2>2, <4>1, <5>2
        <5>3. CASE i > k
          <6>1. i - 1 \in 1 .. l - 1 /\ ~ (i - 1 < k) /\ (i - 1) + 1 = i
            BY <2>1, <2>2, <5>3
          <6>2. channels'[i - 1] = channels[i]
            BY <2>2, <6>1
          <6>3. p = i - 1
            BY <2>1, <2>2, <5>3
          <6>. QED  BY <4>1, <6>1, <6>2, <6>3
        <5>4. i < k \/ i > k
          BY <2>1, <2>2, <5>1
        <5>. QED  BY <5>2, <5>3, <5>4
      <4>. HIDE DEF p
      <4>. QED  BY <2>2, <4>2 DEF ToSet
    <3>. QED  BY <3>1, <3>2
  <2>5. hosts[n][1] = n /\ hosts[n] \in ToSet(channels)
    BY <1>3 DEF ChannelsOf
  <2>6. \A m \in Node : ChannelsOf(m)' = ChannelsOf(m) \ {hosts[n]}
    BY <2>4 DEF ChannelsOf
  <2>7. \A m \in Node \ {n} : hosts[n] \notin ChannelsOf(m)
    BY <2>5 DEF ChannelsOf
  <2>8. /\ hosts' \in [All -> Channel \cup {NoNode}]
        /\ \A m \in All \ {n} : hosts'[m] = hosts[m]
        /\ hosts'[n] = NoNode
    BY <1>1, <2>1
  <2>9. ASSUME NEW m \in Node \ {n} PROVE ChannelsOf(m)' = ChannelsOf(m)
    <3>1. ChannelsOf(m)' = ChannelsOf(m) \ {hosts[n]} /\ hosts[n] \notin ChannelsOf(m)
      BY <2>6, <2>7
    <3>. HIDE DEF ChannelsOf
    <3>. QED  BY <3>1, Zenon
  <2>10. ~ Listed(n)'
    BY <2>8 DEF Listed
  <2>. QED  BY <2>2, <2>3, <2>6, <2>8, <2>9, <2>10
<1>. QED  BY <1>2, <1>3

-------------------------------------------------------------------------------
(* Types                                                                   *)

LEMMA ListInitial == DiscoveryInit => ListInv
<1>. SUFFICES ASSUME DiscoveryInit PROVE ListInv
  OBVIOUS
<1>. USE DiscoveryAssumption DEF DiscoveryInit
<1>1. DiscoveryTypeOK
  BY DEF DiscoveryTypeOK
<1>2. Quiet /\ EachOnce /\ ListFollowsRegistry
  BY DEF Quiet, EachOnce, ListFollowsRegistry, Listed, All
<1>. QED  BY <1>1, <1>2 DEF ListInv

(* What a listing returns, as both containers hold it, but for the nodes   *)
(* whose channel could not be made.                                        *)
LEMMA Lists ==
  ASSUME DiscoveryTypeOK, ClientLists
  PROVE  /\ hosts' \in [All -> Channel \cup {NoNode}] /\ channels' \in Seq(Channel)
         /\ EachOnce'
         /\ spoiled' \subseteq All /\ faults' \in 0 .. MAX_FAULTS
         /\ \A n \in Node : SameChannel(n)' /\ (Listed(n)' => Registered(n))
         /\ \A n \in Node \ spoiled' : Listed(n)' = Registered(n)
<1>0. PICK failed \in SUBSET {n \in Node : Registered(n)} :
        LET found == {n \in Node : Registered(n)} \ failed IN
        /\ hosts' = [n \in All |-> IF n \in found THEN <<n, 1>> ELSE NoNode]
        /\ channels' = SetToSeq(found \X {1})
        /\ spoiled' = spoiled \cup failed
        /\ faults' = faults + Cardinality(failed)
        /\ faults' <= MAX_FAULTS
  BY DEF ClientLists
<1>. DEFINE found == {n \in Node : Registered(n)} \ failed
<1>1. /\ hosts' = [n \in All |-> IF n \in found THEN <<n, 1>> ELSE NoNode]
      /\ channels' = SetToSeq(found \X {1})
  BY <1>0
<1>2. IsFiniteSet(found \X {1})
  <2>1. IsFiniteSet(found)
    BY DiscoveryAssumption, FS_Subset
  <2>. QED  BY <2>1, FS_Singleton, FS_Product
<1>. HIDE DEF found
<1>3. /\ channels' \in Seq(found \X {1}) /\ ToSet(channels') = found \X {1}
      /\ \A i, j \in DOMAIN channels' : channels'[i] = channels'[j] => i = j
  BY <1>1, <1>2, Listing
<1>4. found \X {1} \subseteq Channel
  BY DEF found, Channel
<1>5. channels' \in Seq(Channel)
  BY <1>3, <1>4, SeqMonotonic
<1>6. EachOnce'
  BY <1>3 DEF EachOnce
<1>7. hosts' \in [All -> Channel \cup {NoNode}]
  BY <1>1, <1>4
<1>8. ASSUME NEW n \in Node PROVE Listed(n)' = (n \in found) /\ SameChannel(n)'
  <2>1. /\ hosts'[n] = IF n \in found THEN <<n, 1>> ELSE NoNode
        /\ <<n, 1>> # NoNode
    BY <1>1, DiscoveryAssumption DEF All
  <2>2. ChannelsOf(n)' = IF n \in found THEN {<<n, 1>>} ELSE {}
    BY <1>3 DEF ChannelsOf
  <2>. QED  BY <2>1, <2>2 DEF Listed, SameChannel
<1>9. spoiled' \subseteq All
  BY <1>0 DEF DiscoveryTypeOK, All
<1>10. faults' \in 0 .. MAX_FAULTS
  <2>1. IsFiniteSet(failed)
    BY DiscoveryAssumption, FS_Subset
  <2>2. Cardinality(failed) \in Nat
    BY <2>1, FS_CardinalityType
  <2>. QED  BY <1>0, <2>2, DiscoveryAssumption DEF DiscoveryTypeOK
<1>11. ASSUME NEW n \in Node PROVE (n \in found => Registered(n))
                                    /\ (n \notin spoiled' => (n \in found) = Registered(n))
  BY <1>0 DEF found, Registered
<1>. QED  BY <1>5, <1>6, <1>7, <1>8, <1>9, <1>10, <1>11 DEF Registered, Listed

(* The channel that is chosen is one of the list.                          *)
LEMMA ChosenFromList ==
  ASSUME DiscoveryTypeOK, Choose
  PROVE  called' \in Node /\ index' \in 0 .. INDEX - 1
<1>1. /\ channels \in Seq(Channel) /\ channels # <<>> /\ index \in Nat
      /\ INDEX \in Nat \ {0}
  BY DiscoveryAssumption, ListTypes DEF Choose, DiscoveryTypeOK
<1>2. Len(channels) \in Nat \ {0}
  BY <1>1, EmptySeq
<1>3. (index % Len(channels)) + 1 \in 1 .. Len(channels)
  BY <1>1, <1>2
<1>4. channels[(index % Len(channels)) + 1] \in Channel
  BY <1>1, <1>3, ElementOfSeq
<1>5. called' = channels[(index % Len(channels)) + 1][1]
  BY DEF Choose
<1>6. called' \in Node
  BY <1>4, <1>5 DEF Channel
<1>7. index' = (index + 1) % INDEX
  BY DEF Choose
<1>8. (index + 1) % INDEX \in 0 .. INDEX - 1
  BY <1>1
<1>. QED  BY <1>6, <1>7, <1>8

(* Whom an event is about and what the watcher adds.                       *)
LEMMA HeardTypes ==
  ASSUME DiscoveryTypeOK, NEW n \in All, NEW type \in {"PUT", "DELETE"},
         Heard(type, n) \/ Missed
  PROVE  events' \in Seq(Event)
<1>1. CASE Heard(type, n)
  <2>1. [type |-> type, host |-> n] \in Event
    BY DEF Event
  <2>. QED  BY <1>1, <2>1, ListTypes, Appended DEF Heard
<1>2. CASE Missed
  BY <1>2, ListTypes DEF Missed
<1>. QED  BY <1>1, <1>2

LEMMA ListTypesStep ==
  ASSUME ListInv, [DiscoveryNext]_discoveryVars
  PROVE  DiscoveryTypeOK'
<1>. DEFINE NodesTyped ==
              /\ node \in [All -> {"down", "starting", "up"}]
              /\ key \in [All -> {"none", "kept", "left"}]
            ListTyped == hosts \in [All -> Channel \cup {NoNode}] /\ channels \in Seq(Channel)
            ChoiceTyped == index \in 0 .. INDEX - 1 /\ called \in Node \cup {NoNode}
            CountsTyped == starts \in 0 .. MAX_STARTS /\ faults \in 0 .. MAX_FAULTS
<1>1. /\ DiscoveryTypeOK /\ NodesTyped /\ ListTyped /\ ChoiceTyped /\ CountsTyped
      /\ events \in Seq(Event) /\ spoiled \subseteq All
      /\ client \in {"off", "listed", "watching", "deaf"}
  BY ListTypes DEF ListInv, DiscoveryTypeOK, Channel, Event
<1>2. SUFFICES /\ NodesTyped' /\ ListTyped' /\ ChoiceTyped' /\ CountsTyped'
               /\ events' \in Seq(Event) /\ spoiled' \subseteq All
               /\ client' \in {"off", "listed", "watching", "deaf"}
  BY DEF DiscoveryTypeOK, Channel, Event
<1>3. /\ INDEX \in Nat \ {0} /\ MAX_STARTS \in Nat /\ MAX_FAULTS \in Nat
      /\ IsFiniteSet(Node)
  BY DiscoveryAssumption
<1>4. Fault => faults' \in 0 .. MAX_FAULTS
  BY <1>1, <1>3 DEF Fault
<1>5. ASSUME NEW n \in All, NodeStep(n)
      PROVE  /\ NodesTyped' /\ ListTyped' /\ ChoiceTyped' /\ CountsTyped'
             /\ events' \in Seq(Event) /\ spoiled' \subseteq All /\ client' = client
  <2>. HIDE DEF NodesTyped, ListTyped, ChoiceTyped, CountsTyped
  <2>1. CASE NodeStarts(n)
    BY <2>1, <1>1, <1>3
       DEF NodeStarts, NodesTyped, ListTyped, ChoiceTyped, CountsTyped, list, choice
  <2>2. CASE Register(n)
    <3>1. events' \in Seq(Event)
      BY <2>2, <1>1, HeardTypes DEF Register
    <3>2. NodesTyped' /\ spoiled' \subseteq All
      BY <2>2, <1>1 DEF Register, NodesTyped, MissedBy
    <3>. QED  BY <2>2, <1>1, <3>1, <3>2
              DEF Register, ListTyped, ChoiceTyped, CountsTyped, list, choice
  <2>3. CASE RegisterFails(n)
    BY <2>3, <1>1, <1>3, <1>4
       DEF RegisterFails, NodesTyped, ListTyped, ChoiceTyped, CountsTyped, list, choice
  <2>4. CASE NodeDies(n)
    BY <2>4, <1>1
       DEF NodeDies, NodesTyped, ListTyped, ChoiceTyped, CountsTyped, list, choice
  <2>5. CASE LeaseEnds(n) \/ KeepAliveLost(n)
    <3>1. EntryGoes(n) /\ faults' \in 0 .. MAX_FAULTS
      BY <2>5, <1>1, <1>4 DEF LeaseEnds, KeepAliveLost, CountsTyped
    <3>2. events' \in Seq(Event)
      BY <3>1, <1>1, HeardTypes DEF EntryGoes
    <3>3. NodesTyped' /\ spoiled' \subseteq All
      BY <3>1, <1>1 DEF EntryGoes, NodesTyped, MissedBy
    <3>. QED  BY <1>1, <3>1, <3>2, <3>3
              DEF EntryGoes, ListTyped, ChoiceTyped, CountsTyped, list, choice
  <2>. QED  BY <1>5, <2>1, <2>2, <2>3, <2>4, <2>5 DEF NodeStep
<1>6. CASE ClientLists
  <2>1. ListTyped' /\ spoiled' \subseteq All /\ faults' \in 0 .. MAX_FAULTS
    BY <1>1, <1>6, Lists
  <2>. QED  BY <2>1, <1>1, <1>6 DEF ClientLists, etcd, choice
<1>7. CASE ClientListFails \/ ClientWatches
  BY <1>1, <1>4, <1>7 DEF ClientListFails, ClientWatches, etcd, list, choice
<1>8. CASE Callback
  <2>1. events # <<>> /\ events' = Tail(events)
    BY <1>8 DEF Callback
  <2>2. Head(events) \in Event /\ events' \in Seq(Event)
    BY <1>1, <2>1, HeadTailProperties
  <2>3. ListTyped' /\ spoiled' \subseteq All /\ faults' \in 0 .. MAX_FAULTS
    <3>. DEFINE ev == Head(events)
    <3>1. \/ onServiceOnline(ev.host)
          \/ onServiceOffline(ev.host)
      BY <1>8 DEF Callback
    <3>2. ev.host \in All /\ (ev.host \in Stranger \/ ev.host \in Node)
      BY <2>2 DEF Event, All
    <3>. HIDE DEF ev
    <3>6. spoiled' \subseteq All /\ faults' \in 0 .. MAX_FAULTS
      BY <1>1, <1>4, <3>1, <3>2 DEF onServiceOnline, onServiceOffline, append
    <3>3. CASE UNCHANGED list
      BY <1>1, <3>3, <3>6 DEF list
    <3>4. CASE ev.host \in Node /\ AddChannel(ev.host)
      BY <1>1, <3>4, <3>6, AppendChannel DEF ListInv
    <3>5. CASE ev.host \in Node /\ remove(ev.host)
      <4>1. Listed(ev.host) => hosts[ev.host] \in ChannelsOf(ev.host)
        BY <3>5 DEF ListInv, ListFollowsRegistry
      <4>. QED  BY <1>1, <3>5, <3>6, <4>1, RemoveChannel DEF ListInv
    <3>. QED  BY <3>1, <3>2, <3>3, <3>4, <3>5
              DEF onServiceOnline, onServiceOffline, append, list
  <2>. QED  BY <2>2, <2>3, <1>1, <1>8 DEF Callback, etcd, choice
<1>9. CASE WatchBreaks
  <2>1. \A i \in DOMAIN events : events[i] \in Event
    BY <1>1, LenProperties, ElementOfSeq
  <2>2. {events[i].host : i \in DOMAIN events} \subseteq All
    BY <2>1 DEF Event
  <2>. QED  BY <1>1, <1>4, <1>9, <2>2 DEF WatchBreaks, etcd, list, choice
<1>10. CASE ClientDies
  BY <1>1, <1>3, <1>4, <1>10 DEF ClientDies, etcd
<1>11. CASE Choose
  <2>1. ChoiceTyped'
    BY <1>1, <1>11, ChosenFromList
  <2>. QED  BY <1>1, <1>11, <2>1 DEF Choose, etcd, list
<1>12. CASE UNCHANGED discoveryVars
  BY <1>1, <1>12 DEF discoveryVars, etcd, list, choice
<1>13. CASE \E n \in All : NodeStep(n)
  BY <1>1, <1>5, <1>13
<1>. QED  BY <1>6, <1>7, <1>8, <1>9, <1>10, <1>11, <1>12, <1>13 DEF DiscoveryNext

-------------------------------------------------------------------------------
(* The list and the entries in etcd                                        *)

Agrees(n) == SameChannel(n) /\ EventsAlternate(n)

(* With nothing under way, the list says what etcd says.                   *)
LEMMA SaysNow ==
  ASSUME NEW n \in Node, events = <<>>
  PROVE  EventsAlternate(n) <=> (Registered(n) <=> Listed(n))
<1>1. HeardOf(n) = {0}
  BY DEF HeardOf
<1>. QED  BY <1>1 DEF EventsAlternate, Says

LEMMA HeardPositions ==
  ASSUME DiscoveryTypeOK, NEW n
  PROVE  /\ HeardOf(n) \subseteq 0 .. Len(events) /\ 0 \in HeardOf(n)
         /\ Len(events) \in Nat /\ DOMAIN events = 1 .. Len(events)
<1>1. Len(events) \in Nat /\ DOMAIN events = 1 .. Len(events)
  BY ListTypes, LenProperties
<1>. QED  BY <1>1 DEF HeardOf

(* etcd turns around what it said of n last, and says so at the end.       *)
LEMMA OneMoreEvent ==
  ASSUME DiscoveryTypeOK, NEW n \in Node, NEW type \in {"PUT", "DELETE"},
         EventsAlternate(n), Registered(n) <=> type = "DELETE",
         events' = Append(events, [type |-> type, host |-> n]),
         Registered(n)' <=> type = "PUT", UNCHANGED list
  PROVE  EventsAlternate(n)'
<1>0. [type |-> type, host |-> n] \in Event
  BY DEF Event, All
<1>1. PICK l \in Nat :
        /\ l = Len(events)
        /\ DOMAIN events = 1 .. l /\ DOMAIN events' = 1 .. l + 1
        /\ events'[l + 1] = [type |-> type, host |-> n]
        /\ \A i \in 1 .. l : events'[i] = events[i]
  BY <1>0, ListTypes, Appended
<1>2. HeardOf(n) \subseteq 0 .. l /\ 0 \in HeardOf(n)
  BY <1>1, HeardPositions
<1>3. HeardOf(n)' = HeardOf(n) \cup {l + 1}
  BY <1>1 DEF HeardOf
<1>4. \A i \in HeardOf(n) : Says(n, i)' = Says(n, i)
  <2>1. Listed(n)' = Listed(n)
    BY DEF list, Listed
  <2>2. \A i \in HeardOf(n) : i = 0 \/ i \in 1 .. l
    BY <1>1, <1>2
  <2>. QED  BY <1>1, <2>1, <2>2 DEF Says
<1>5. Says(n, l + 1)' = (type = "PUT")
  <2>1. l + 1 # 0
    BY <1>1
  <2>2. Says(n, l + 1)' = (events'[l + 1].type = "PUT")
    BY <2>1 DEF Says
  <2>. QED  BY <1>1, <2>2
<1>6. ASSUME NEW i \in HeardOf(n)', NEW j \in HeardOf(n)', i < j,
             (i + 1 .. j - 1) \cap HeardOf(n)' = {}
      PROVE  Says(n, i)' # Says(n, j)'
  <2>1. CASE j \in HeardOf(n)
    <3>1. i \in HeardOf(n)
      BY <1>1, <1>2, <1>3, <1>6, <2>1
    <3>2. (i + 1 .. j - 1) \cap HeardOf(n) = {}
      BY <1>3, <1>6
    <3>. QED  BY <1>4, <1>6, <2>1, <3>1, <3>2 DEF EventsAlternate
  <2>2. CASE j = l + 1
    <3>1. i \in HeardOf(n)
      BY <1>1, <1>3, <1>6, <2>2
    <3>2. ASSUME NEW k \in HeardOf(n) PROVE k <= i
      <4>1. k \in Int /\ i \in Int /\ k <= l
        BY <1>1, <1>2, <3>1
      <4>2. ~ (k \in i + 1 .. l)
        <5>1. j - 1 = l
          BY <1>1, <2>2
        <5>. QED  BY <1>3, <1>6, <5>1
      <4>. QED  BY <1>1, <4>1, <4>2
    <3>3. Registered(n) <=> Says(n, i)
      BY <3>1, <3>2 DEF EventsAlternate
    <3>4. Says(n, i)' = Registered(n)
      BY <1>4, <3>1, <3>3 DEF Says, Registered, Listed
    <3>5. Says(n, j)' = ~ Registered(n)
      BY <1>5, <2>2 DEF Registered
    <3>. QED  BY <3>4, <3>5
  <2>. QED  BY <1>3, <2>1, <2>2
<1>7. ASSUME NEW i \in HeardOf(n)', \A j \in HeardOf(n)' : j <= i
      PROVE  Registered(n)' <=> Says(n, i)'
  <2>1. i = l + 1
    BY <1>1, <1>2, <1>3, <1>7
  <2>. QED  BY <1>5, <2>1
<1>. QED  BY <1>6, <1>7 DEF EventsAlternate

(* An event of another node says nothing of n.                             *)
LEMMA OthersEvent ==
  ASSUME DiscoveryTypeOK, NEW n \in Node, NEW m \in All \ {n},
         NEW type \in {"PUT", "DELETE"}, EventsAlternate(n),
         events' = Append(events, [type |-> type, host |-> m]),
         Registered(n)' = Registered(n), UNCHANGED list
  PROVE  EventsAlternate(n)'
<1>. DEFINE l == Len(events)
<1>0. [type |-> type, host |-> m] \in Event
  BY DEF Event
<1>1. /\ l \in Nat /\ DOMAIN events = 1 .. l /\ DOMAIN events' = 1 .. l + 1
      /\ events'[l + 1] = [type |-> type, host |-> m]
      /\ \A i \in 1 .. l : events'[i] = events[i]
  BY <1>0, ListTypes, Appended
<1>2. HeardOf(n) \subseteq 0 .. l
  BY HeardPositions
<1>. HIDE DEF l
<1>3. HeardOf(n)' = HeardOf(n)
  BY <1>1 DEF HeardOf
<1>4. \A i \in HeardOf(n) : Says(n, i)' = Says(n, i)
  <2>1. Listed(n)' = Listed(n)
    BY DEF list, Listed
  <2>2. \A i \in HeardOf(n) : i = 0 \/ i \in 1 .. l
    BY <1>1, <1>2
  <2>. QED  BY <1>1, <2>1, <2>2 DEF Says
<1>. QED  BY <1>3, <1>4 DEF EventsAlternate

(* The first event that is under way turns around what the list says.      *)
LEMMA FirstEvent ==
  ASSUME DiscoveryTypeOK, NEW n \in Node, EventsAlternate(n),
         events # <<>>, Head(events).host = n
  PROVE  Head(events).type = "PUT" <=> ~ Listed(n)
<1>1. Len(events) \in Nat \ {0} /\ DOMAIN events = 1 .. Len(events)
  BY ListTypes, EmptySeq, LenProperties
<1>2. Head(events) = events[1]
  BY ListTypes
<1>3. 0 \in HeardOf(n) /\ 1 \in HeardOf(n)
  BY <1>1, <1>2 DEF HeardOf
<1>4. (0 + 1 .. 1 - 1) \cap HeardOf(n) = {} /\ 0 < 1
  OBVIOUS
<1>5. Says(n, 0) # Says(n, 1)
  BY <1>3, <1>4 DEF EventsAlternate
<1>6. Says(n, 0) = Listed(n) /\ Says(n, 1) = (events[1].type = "PUT")
  BY DEF Says
<1>. QED  BY <1>2, <1>5, <1>6 DEF Listed

(* The watcher handles the first event: what it did not say of n moves one *)
(* place ahead, and what it said of n is what the list says from now on.   *)
LEMMA OneEventLess ==
  ASSUME DiscoveryTypeOK, NEW n \in Node, EventsAlternate(n),
         events # <<>>, events' = Tail(events), key' = key,
         IF Head(events).host = n THEN Listed(n)' <=> Head(events).type = "PUT"
                                  ELSE Listed(n)' = Listed(n)
  PROVE  EventsAlternate(n)'
<1>. DEFINE l == Len(events)
            own == Head(events).host = n
            Before(i) == IF i = 0 /\ ~ own THEN 0 ELSE i + 1
<1>1. /\ l \in Nat /\ l >= 1 /\ DOMAIN events = 1 .. l /\ DOMAIN events' = 1 .. l - 1
      /\ Head(events) = events[1]
      /\ \A i \in 1 .. l - 1 : events'[i] = events[i + 1]
  <2>1. /\ events' \in Seq(Event) /\ Len(events') = Len(events) - 1
        /\ \A i \in 1 .. Len(events') : events'[i] = events[i + 1]
    BY ListTypes, HeadTailProperties
  <2>2. Len(events) \in Nat \ {0}
    BY ListTypes, EmptySeq
  <2>3. DOMAIN events' = 1 .. Len(events') /\ DOMAIN events = 1 .. Len(events)
    BY <2>1, ListTypes, LenProperties
  <2>4. Head(events) = events[1]
    BY ListTypes
  <2>. QED  BY <2>1, <2>2, <2>3, <2>4
<1>2. HeardOf(n) \subseteq 0 .. l /\ 0 \in HeardOf(n)
  BY HeardPositions
<1>. HIDE DEF l
<1>3. 1 \in HeardOf(n) <=> own
  BY <1>1 DEF HeardOf
<1>4. HeardOf(n)' \subseteq 0 .. l - 1
  BY <1>1 DEF HeardOf
<1>5. ASSUME NEW i \in HeardOf(n)'
      PROVE  Before(i) \in HeardOf(n) /\ Says(n, i)' = Says(n, Before(i))
  <2>1. CASE i = 0
    <3>1. CASE own
      <4>1. Says(n, 0)' = Listed(n)' /\ Says(n, 1) = (events[1].type = "PUT")
        BY DEF Says
      <4>2. Before(i) = 1
        BY <2>1, <3>1
      <4>3. Listed(n)' = (events[1].type = "PUT")
        BY <1>1, <3>1 DEF Listed
      <4>. HIDE DEF Before
      <4>. QED  BY <1>3, <2>1, <3>1, <4>1, <4>2, <4>3
    <3>2. CASE ~ own
      BY <1>2, <2>1, <3>2 DEF Says
    <3>. QED  BY <3>1, <3>2
  <2>2. CASE i # 0
    <3>1. i \in 1 .. l - 1 /\ i + 1 \in 1 .. l
      BY <1>1, <1>4, <2>2
    <3>2. events'[i] = events[i + 1] /\ events'[i].host = n
      BY <1>1, <2>2, <3>1 DEF HeardOf
    <3>3. i + 1 \in HeardOf(n) /\ i + 1 # 0
      BY <1>1, <3>1, <3>2 DEF HeardOf
    <3>. QED  BY <2>2, <3>2, <3>3 DEF Says
  <2>. QED  BY <2>1, <2>2
<1>6. ASSUME NEW i \in HeardOf(n), i >= 2
      PROVE  i - 1 \in HeardOf(n)'
  <2>1. i \in 1 .. l /\ events[i].host = n /\ i - 1 \in 1 .. l - 1
    BY <1>1, <1>2, <1>6 DEF HeardOf
  <2>2. events'[i - 1] = events[(i - 1) + 1] /\ (i - 1) + 1 = i
    BY <1>1, <2>1
  <2>. QED  BY <1>1, <2>1, <2>2 DEF HeardOf
<1>7. ASSUME NEW i \in HeardOf(n)', NEW j \in HeardOf(n)', i < j,
             (i + 1 .. j - 1) \cap HeardOf(n)' = {}
      PROVE  Says(n, i)' # Says(n, j)'
  <2>1. i \in Nat /\ j \in Nat /\ j # 0
    BY <1>1, <1>4, <1>7
  <2>2. Before(j) = j + 1 /\ (Before(i) = i + 1 \/ (Before(i) = 0 /\ i = 0 /\ ~ own))
    BY <2>1
  <2>3. Before(i) \in Nat /\ Before(j) \in Nat /\ Before(i) < Before(j)
    BY <1>7, <2>1, <2>2
  <2>4. ASSUME NEW k \in HeardOf(n), k \in Before(i) + 1 .. Before(j) - 1
        PROVE  FALSE
    <3>1. k \in Nat /\ k <= j /\ k > Before(i)
      BY <2>1, <2>2, <2>3, <2>4
    <3>2. k >= 2
      <4>1. CASE Before(i) = i + 1
        BY <2>1, <3>1, <4>1
      <4>2. CASE Before(i) = 0 /\ i = 0 /\ ~ own
        <5>1. k # 1
          BY <1>3, <4>2
        <5>. QED  BY <3>1, <4>2, <5>1
      <4>. QED  BY <2>2, <4>1, <4>2
    <3>3. k - 1 \in HeardOf(n)'
      BY <1>6, <3>2
    <3>4. k - 1 \in i + 1 .. j - 1
      BY <2>1, <2>2, <3>1, <3>2
    <3>. QED  BY <1>7, <3>3, <3>4
  <2>5. Says(n, Before(i)) # Says(n, Before(j))
    <3>. HIDE DEF Before
    <3>. QED  BY <1>5, <2>3, <2>4 DEF EventsAlternate
  <2>. QED  BY <1>5, <2>5
<1>8. ASSUME NEW i \in HeardOf(n)', \A j \in HeardOf(n)' : j <= i
      PROVE  Registered(n)' <=> Says(n, i)'
  <2>1. i \in Nat
    BY <1>1, <1>4
  <2>2. ASSUME NEW k \in HeardOf(n) PROVE k <= Before(i)
    <3>1. k \in Nat
      BY <1>2
    <3>2. CASE k >= 2
      <4>1. k - 1 \in HeardOf(n)'
        BY <1>6, <3>2
      <4>2. k - 1 <= i
        BY <1>8, <4>1
      <4>. QED  BY <2>1, <3>1, <3>2, <4>2
    <3>3. CASE k = 1
      BY <1>3, <2>1, <3>3
    <3>4. CASE k = 0
      BY <2>1, <3>4
    <3>. QED  BY <3>1, <3>2, <3>3, <3>4
  <2>3. Before(i) \in HeardOf(n) /\ Says(n, i)' = Says(n, Before(i))
    BY <1>5
  <2>4. Registered(n) <=> Says(n, Before(i))
    <3>. HIDE DEF Before
    <3>. QED  BY <2>2, <2>3 DEF EventsAlternate
  <2>5. Registered(n)' = Registered(n)
    BY DEF Registered
  <2>. QED  BY <2>3, <2>4, <2>5
<1>. QED  BY <1>7, <1>8 DEF EventsAlternate

(* A step that leaves the list, its process and the events alone keeps the *)
(* agreement as long as no entry comes or goes.                            *)
LEMMA StaysAgreed ==
  ASSUME NEW n \in Node, Agrees(n), UNCHANGED list, UNCHANGED events,
         Registered(n)' = Registered(n)
  PROVE  Agrees(n)'
<1>1. ChannelsOf(n)' = ChannelsOf(n) /\ hosts'[n] = hosts[n] /\ Listed(n)' = Listed(n)
  BY DEF list, ChannelsOf, Listed
<1>2. SameChannel(n)'
  BY <1>1 DEF Agrees, SameChannel
<1>3. HeardOf(n)' = HeardOf(n) /\ \A i : Says(n, i)' = Says(n, i)
  BY <1>1 DEF HeardOf, Says
<1>4. EventsAlternate(n)'
  BY <1>3 DEF Agrees, EventsAlternate
<1>. QED  BY <1>2, <1>4 DEF Agrees

LEMMA ListFollows ==
  ListInv => /\ \A n \in Node : Listed(n) => hosts[n] \in ChannelsOf(n)
             /\ client # "off" => \A n \in Node \ spoiled : Agrees(n)
BY DEF ListInv, ListFollowsRegistry, Agrees

(* An entry comes or goes, and the process hears of it if it watches; if   *)
(* it does not and has listed the entries, it is told wrongly.             *)
LEMMA EntryStep ==
  ASSUME ListInv, NEW n \in All, NEW type \in {"PUT", "DELETE"},
         Heard(type, n) \/ Missed, UNCHANGED list, client' = client,
         spoiled \cup MissedBy(n) \subseteq spoiled',
         \A m \in All \ {n} : Registered(m)' = Registered(m),
         Registered(n)' <=> type = "PUT",
         n \notin spoiled' /\ client # "off" => (Registered(n) <=> type = "DELETE")
  PROVE  Quiet' /\ EachOnce' /\ ListFollowsRegistry'
<1>1. DiscoveryTypeOK /\ Quiet /\ EachOnce /\ UNCHANGED <<hosts, channels>>
  BY DEF ListInv, list
<1>2. Quiet'
  BY <1>1 DEF Quiet, Heard, Missed, Listed
<1>3. EachOnce'
  BY <1>1 DEF EachOnce
<1>4. \A m \in Node : ChannelsOf(m)' = ChannelsOf(m) /\ Listed(m)' = Listed(m)
  BY <1>1 DEF ChannelsOf, Listed
<1>5. \A m \in Node : Listed(m)' => hosts'[m] \in ChannelsOf(m)'
  BY <1>1, <1>4, ListFollows
<1>6. ASSUME client # "off", NEW m \in Node \ spoiled'
      PROVE  Agrees(m)'
  <2>1. m \notin spoiled /\ Agrees(m)
    BY <1>6, ListFollows
  <2>2. SameChannel(m)'
    BY <1>1, <1>4, <2>1 DEF Agrees, SameChannel
  <2>3. CASE Missed
    <3>1. m # n
      BY <1>6, <2>3 DEF Missed, MissedBy, ListInv, DiscoveryTypeOK
    <3>2. UNCHANGED events /\ Registered(m)' = Registered(m)
      BY <2>3, <3>1 DEF Missed, All
    <3>. QED  BY <2>1, <3>2, StaysAgreed
  <2>4. CASE Heard(type, n)
    <3>1. events' = Append(events, [type |-> type, host |-> n])
      BY <2>4 DEF Heard
    <3>2. CASE m = n
      <4>1. Registered(m) <=> type = "DELETE"
        BY <1>6, <3>2
      <4>2. EventsAlternate(m)'
        BY <1>1, <2>1, <3>1, <3>2, <4>1, OneMoreEvent DEF Agrees
      <4>. QED  BY <2>2, <4>2 DEF Agrees
    <3>3. CASE m # n
      <4>1. EventsAlternate(m)'
        BY <1>1, <2>1, <3>1, <3>3, OthersEvent DEF Agrees, All
      <4>. QED  BY <2>2, <4>1 DEF Agrees
    <3>. QED  BY <3>2, <3>3
  <2>. QED  BY <2>3, <2>4
<1>. QED  BY <1>2, <1>3, <1>5, <1>6 DEF ListFollowsRegistry, Agrees

LEMMA NodeStepFollows ==
  ASSUME ListInv, NEW n \in All, NodeStep(n)
  PROVE  Quiet' /\ EachOnce' /\ ListFollowsRegistry'
<1>0. DiscoveryTypeOK /\ key \in [All -> {"none", "kept", "left"}]
  BY DEF ListInv, DiscoveryTypeOK
<1>1. CASE Register(n)
  <2>1. \A m \in All \ {n} : Registered(m)' = Registered(m)
    BY <1>0, <1>1 DEF Register, Registered
  <2>2. Registered(n)'
    BY <1>0, <1>1 DEF Register, Registered
  <2>3. n \notin spoiled' /\ client # "off" => ~ Registered(n)
    BY <1>1 DEF Register
  <2>. QED  BY <1>1, <2>1, <2>2, <2>3, EntryStep DEF Register
<1>2. CASE LeaseEnds(n) \/ KeepAliveLost(n)
  <2>1. EntryGoes(n) /\ Registered(n)
    BY <1>2 DEF LeaseEnds, KeepAliveLost, Registered
  <2>2. (\A m \in All \ {n} : Registered(m)' = Registered(m)) /\ ~ Registered(n)'
    BY <1>0, <2>1 DEF EntryGoes, Registered
  <2>. QED  BY <2>1, <2>2, EntryStep DEF EntryGoes
<1>3. CASE NodeStarts(n) \/ RegisterFails(n) \/ NodeDies(n)
  <2>1. UNCHANGED <<client, events, spoiled, list>>
    BY <1>3 DEF NodeStarts, RegisterFails, NodeDies
  <2>2. \A m \in All : Registered(m)' = Registered(m)
    BY <1>0, <1>3 DEF NodeStarts, RegisterFails, NodeDies, Registered
  <2>3. \A m \in Node : ChannelsOf(m)' = ChannelsOf(m) /\ Listed(m)' = Listed(m)
    BY <2>1 DEF ChannelsOf, Listed, list
  <2>4. Quiet' /\ EachOnce'
    BY <2>1 DEF ListInv, Quiet, EachOnce, Listed, list
  <2>5. ASSUME client # "off", NEW m \in Node \ spoiled
        PROVE  Agrees(m)'
    BY <2>1, <2>2, <2>5, StaysAgreed, ListFollows DEF All
  <2>6. \A m \in Node : Listed(m)' => hosts'[m] \in ChannelsOf(m)'
    BY <2>1, <2>3, ListFollows DEF list
  <2>. QED  BY <2>1, <2>4, <2>5, <2>6 DEF ListFollowsRegistry, Agrees
<1>. QED  BY <1>1, <1>2, <1>3 DEF NodeStep

LEMMA CallbackFollows ==
  ASSUME ListInv, Callback
  PROVE  Quiet' /\ EachOnce' /\ ListFollowsRegistry'
<1>1. PICK ev : /\ ev = Head(events) /\ events # <<>> /\ events' = Tail(events)
                /\ \/ ev.type = "PUT" /\ onServiceOnline(ev.host)
                   \/ ev.type = "DELETE" /\ onServiceOffline(ev.host)
  BY DEF Callback
<1>2. /\ UNCHANGED <<key, client>> /\ DiscoveryTypeOK /\ EachOnce
      /\ client = "watching" /\ spoiled \subseteq spoiled'
  BY <1>1 DEF Callback, etcd, ListInv, Quiet, onServiceOnline, onServiceOffline, append
<1>3. ev \in Event /\ (ev.host \in Stranger \/ ev.host \in Node)
  <2>1. ev \in Event
    BY <1>1, <1>2, ListTypes, HeadTailProperties
  <2>. QED  BY <2>1 DEF Event, All
<1>4. Quiet'
  BY <1>2 DEF Quiet
<1>5. CASE UNCHANGED list /\ ev.host \notin Node \ spoiled'
  <2>1. \A m \in Node : ChannelsOf(m)' = ChannelsOf(m) /\ Listed(m)' = Listed(m)
                        /\ hosts'[m] = hosts[m]
    BY <1>5 DEF ChannelsOf, Listed, list
  <2>2. EachOnce'
    BY <1>2, <1>5 DEF EachOnce, list
  <2>3. ASSUME NEW m \in Node \ spoiled' PROVE SameChannel(m)' /\ EventsAlternate(m)'
    <3>1. Agrees(m)
      BY <1>2, <2>3, ListFollows
    <3>2. EventsAlternate(m)'
      BY <1>1, <1>2, <1>5, <2>1, <3>1, OneEventLess DEF Agrees
    <3>. QED  BY <2>1, <3>1, <3>2 DEF Agrees, SameChannel
  <2>. QED  BY <1>2, <1>4, <2>1, <2>2, <2>3, ListFollows DEF ListFollowsRegistry
<1>6. CASE ev.host \in Node /\ ev.type = "PUT" /\ AddChannel(ev.host)
  <2>. DEFINE n == ev.host
  <2>1. /\ EachOnce'
        /\ \A m \in Node \ {n} : hosts'[m] = hosts[m] /\ ChannelsOf(m)' = ChannelsOf(m)
    BY <1>2, <1>6, AppendChannel DEF All
  <2>2. PICK c \in Channel :
          /\ ChannelsOf(n)' = ChannelsOf(n) \cup {c}
          /\ hosts'[n] = IF Listed(n) THEN hosts[n] ELSE c
    BY <1>2, <1>6, AppendChannel
  <2>3. c # NoNode /\ hosts'[n] # NoNode
    BY <1>2, <2>2, ListTypes DEF Listed
  <2>4. ASSUME NEW m \in Node PROVE Listed(m)' => hosts'[m] \in ChannelsOf(m)'
    <3>1. CASE m = n
      BY <2>2, <3>1, ListFollows
    <3>2. CASE m # n
      BY <2>1, <3>2, ListFollows DEF Listed
    <3>. QED  BY <3>1, <3>2
  <2>5. ASSUME NEW m \in Node \ spoiled' PROVE SameChannel(m)' /\ EventsAlternate(m)'
    <3>1. Agrees(m)
      BY <1>2, <2>5, ListFollows
    <3>2. CASE m = n
      <4>1. ~ Listed(n)
        BY <1>1, <1>2, <1>6, <3>1, <3>2, FirstEvent DEF Agrees
      <4>2. SameChannel(n)'
        BY <2>2, <2>3, <3>1, <3>2, <4>1 DEF Agrees, SameChannel, Listed
      <4>3. Listed(n)'
        BY <2>3 DEF Listed
      <4>4. EventsAlternate(m)'
        BY <1>1, <1>2, <1>6, <3>1, <3>2, <4>3, OneEventLess DEF Agrees
      <4>. QED  BY <3>2, <4>2, <4>4
    <3>3. CASE m # n
      <4>1. SameChannel(m)'
        BY <2>1, <3>1, <3>3 DEF Agrees, SameChannel
      <4>2. Listed(m)' = Listed(m)
        BY <2>1, <3>3 DEF Listed
      <4>3. EventsAlternate(m)'
        BY <1>1, <1>2, <3>1, <3>3, <4>2, OneEventLess DEF Agrees
      <4>. QED  BY <4>1, <4>3
    <3>. QED  BY <3>2, <3>3
  <2>. QED  BY <1>2, <1>4, <2>1, <2>4, <2>5 DEF ListFollowsRegistry
<1>7. CASE ev.host \in Node /\ ev.type = "DELETE" /\ remove(ev.host)
  <2>. DEFINE n == ev.host
  <2>1. Listed(n) => hosts[n] \in ChannelsOf(n)
    BY <1>7, ListFollows
  <2>2. /\ EachOnce' /\ ~ Listed(n)' /\ ChannelsOf(n)' = ChannelsOf(n) \ {hosts[n]}
        /\ \A m \in Node \ {n} : hosts'[m] = hosts[m] /\ ChannelsOf(m)' = ChannelsOf(m)
    BY <1>2, <1>7, <2>1, RemoveChannel DEF All
  <2>3. ASSUME NEW m \in Node PROVE Listed(m)' => hosts'[m] \in ChannelsOf(m)'
    <3>1. CASE m = n
      BY <2>2, <3>1
    <3>2. CASE m # n
      BY <2>2, <3>2, ListFollows DEF Listed
    <3>. QED  BY <3>1, <3>2
  <2>4. ASSUME NEW m \in Node \ spoiled' PROVE SameChannel(m)' /\ EventsAlternate(m)'
    <3>1. Agrees(m)
      BY <1>2, <2>4, ListFollows
    <3>2. CASE m = n
      <4>1. SameChannel(n)'
        BY <2>2, <3>1, <3>2 DEF Agrees, SameChannel, Listed
      <4>2. EventsAlternate(m)'
        BY <1>1, <1>2, <1>7, <2>2, <3>1, <3>2, OneEventLess DEF Agrees
      <4>. QED  BY <3>2, <4>1, <4>2
    <3>3. CASE m # n
      <4>1. SameChannel(m)'
        BY <2>2, <3>1, <3>3 DEF Agrees, SameChannel
      <4>2. Listed(m)' = Listed(m)
        BY <2>2, <3>3 DEF Listed
      <4>3. EventsAlternate(m)'
        BY <1>1, <1>2, <3>1, <3>3, <4>2, OneEventLess DEF Agrees
      <4>. QED  BY <4>1, <4>3
    <3>. QED  BY <3>2, <3>3
  <2>. QED  BY <1>2, <1>4, <2>2, <2>3, <2>4 DEF ListFollowsRegistry
<1>. QED  BY <1>1, <1>3, <1>5, <1>6, <1>7, DiscoveryAssumption
          DEF onServiceOnline, onServiceOffline, append, list

(* The process lists, begins to watch, loses its watch or ends.            *)
LEMMA ClientListsFollows ==
  ASSUME ListInv, ClientLists \/ ClientListFails
  PROVE  Quiet' /\ EachOnce' /\ ListFollowsRegistry'
<1>1. /\ DiscoveryTypeOK /\ Quiet /\ EachOnce
      /\ client = "off" /\ client' = "listed" /\ events = <<>> /\ events' = <<>>
      /\ \A n \in All : Registered(n)' = Registered(n)
  BY DEF ListInv, Quiet, ClientLists, ClientListFails, etcd, Registered
<1>2. Quiet'
  BY <1>1 DEF Quiet
<1>3. ASSUME EachOnce',
             \A n \in Node : Listed(n)' => hosts'[n] \in ChannelsOf(n)',
             \A n \in Node \ spoiled' : SameChannel(n)' /\ Listed(n)' = Registered(n)
      PROVE  EachOnce' /\ ListFollowsRegistry'
  <2>1. ASSUME NEW n \in Node \ spoiled' PROVE EventsAlternate(n)'
    <3>1. Registered(n)' = Listed(n)'
      BY <1>1, <1>3, <2>1 DEF All
    <3>2. HeardOf(n)' = {0}
      BY <1>1 DEF HeardOf
    <3>. QED  BY <3>1, <3>2 DEF EventsAlternate, Says
  <2>. QED  BY <1>3, <2>1 DEF ListFollowsRegistry
<1>4. CASE ClientLists
  <2>1. /\ EachOnce' /\ \A n \in Node : SameChannel(n)'
        /\ \A n \in Node \ spoiled' : Listed(n)' = Registered(n)
    BY <1>1, <1>4, Lists
  <2>2. \A n \in Node : Listed(n)' => hosts'[n] \in ChannelsOf(n)'
    BY <2>1 DEF SameChannel, Listed
  <2>. QED  BY <1>2, <1>3, <2>1, <2>2
<1>5. CASE ClientListFails
  <2>1. /\ UNCHANGED <<hosts, channels>> /\ channels = <<>>
        /\ \A n \in Node : ~ Listed(n)
        /\ spoiled' = {n \in All : Registered(n)}
    BY <1>1, <1>5 DEF ClientListFails, list, Quiet
  <2>2. EachOnce' /\ \A n \in Node : ~ Listed(n)' /\ ChannelsOf(n)' = {}
    BY <1>1, <2>1 DEF EachOnce, Listed, ChannelsOf, ToSet
  <2>3. \A n \in Node \ spoiled' : SameChannel(n)' /\ Listed(n)' = Registered(n)
    BY <2>1, <2>2 DEF SameChannel, Listed, Registered, All
  <2>. QED  BY <1>2, <1>3, <2>2, <2>3
<1>. QED  BY <1>4, <1>5

LEMMA ClientWatchFollows ==
  ASSUME ListInv, ClientWatches \/ WatchBreaks
  PROVE  Quiet' /\ EachOnce' /\ ListFollowsRegistry'
<1>1. /\ DiscoveryTypeOK /\ Quiet /\ EachOnce /\ client # "off" /\ client' # "off"
      /\ UNCHANGED <<hosts, channels>> /\ UNCHANGED list
      /\ \A n \in All : Registered(n)' = Registered(n)
  BY DEF ListInv, ClientWatches, WatchBreaks, etcd, list, Registered
<1>2. EachOnce' /\ Quiet'
  BY <1>1 DEF EachOnce, Quiet, ClientWatches, WatchBreaks
<1>3. \A n \in Node : ChannelsOf(n)' = ChannelsOf(n) /\ Listed(n)' = Listed(n)
  BY <1>1 DEF ChannelsOf, Listed
<1>4. \A n \in Node : Listed(n)' => hosts'[n] \in ChannelsOf(n)'
  BY <1>1, <1>3, ListFollows
<1>5. ASSUME NEW n \in Node \ spoiled' PROVE Agrees(n)'
  <2>1. n \notin spoiled /\ Agrees(n)
    BY <1>1, <1>5, ListFollows DEF ClientWatches, WatchBreaks
  <2>2. SameChannel(n)'
    BY <1>1, <1>3, <2>1 DEF Agrees, SameChannel
  <2>3. CASE ClientWatches
    BY <1>1, <2>1, <2>3, StaysAgreed DEF ClientWatches, All
  <2>4. CASE WatchBreaks
    <3>1. HeardOf(n) = {0} /\ HeardOf(n)' = {0}
      BY <1>5, <2>4 DEF WatchBreaks, HeardOf
    <3>2. EventsAlternate(n)'
      BY <1>1, <1>3, <2>1, <3>1 DEF Agrees, EventsAlternate, Says, All
    <3>. QED  BY <2>2, <3>2 DEF Agrees
  <2>. QED  BY <2>3, <2>4
<1>. QED  BY <1>2, <1>4, <1>5 DEF ListFollowsRegistry, Agrees

LEMMA ClientDiesFollows ==
  ASSUME ClientDies
  PROVE  Quiet' /\ EachOnce' /\ ListFollowsRegistry'
<1>1. /\ client' = "off" /\ events' = <<>> /\ channels' = <<>>
      /\ \A n \in Node : ~ Listed(n)'
  BY DEF ClientDies, Listed, All
<1>. QED  BY <1>1 DEF Quiet, EachOnce, ListFollowsRegistry

(* A choice and a stutter leave everything the invariant names alone.      *)
LEMMA ChoiceFollows ==
  ASSUME ListInv, Choose \/ UNCHANGED discoveryVars
  PROVE  Quiet' /\ EachOnce' /\ ListFollowsRegistry'
<1>1. UNCHANGED <<key, client, events, hosts, channels, spoiled>>
  BY DEF Choose, discoveryVars, etcd, list
<1>2. Quiet' /\ EachOnce'
  BY <1>1 DEF ListInv, Quiet, EachOnce, Listed
<1>3. \A n \in Node : ChannelsOf(n)' = ChannelsOf(n) /\ Listed(n)' = Listed(n)
  BY <1>1 DEF ChannelsOf, Listed
<1>4. ASSUME client # "off", NEW n \in Node \ spoiled PROVE Agrees(n)'
  BY <1>1, <1>4, StaysAgreed, ListFollows DEF list, Registered
<1>. QED  BY <1>1, <1>2, <1>3, <1>4, ListFollows DEF ListFollowsRegistry, Agrees

LEMMA ListInvStep == ListInv /\ [DiscoveryNext]_discoveryVars => ListInv'
<1>. SUFFICES ASSUME ListInv, [DiscoveryNext]_discoveryVars
              PROVE  Quiet' /\ EachOnce' /\ ListFollowsRegistry'
  BY ListTypesStep DEF ListInv
<1>. QED  BY NodeStepFollows, ClientListsFollows, ClientWatchFollows, CallbackFollows,
             ClientDiesFollows, ChoiceFollows DEF DiscoveryNext

LEMMA ListInvAlways == DiscoverySpec => []ListInv
BY ListInitial, ListInvStep, PTL DEF DiscoverySpec

-------------------------------------------------------------------------------

(* The list, the events and the counters keep their types: the channel a   *)
(* caller is given is always one of a node that is followed, whatever the  *)
(* list's length is when its turn comes (ServiceChannel::choose).          *)
THEOREM ListTypeCorrect == DiscoverySpec => []DiscoveryTypeOK
<1>1. ListInv => DiscoveryTypeOK
  BY DEF ListInv
<1>. QED  BY <1>1, ListInvAlways, PTL

(* The list with the events under way says what etcd says, of every node   *)
(* that the process was not told of wrongly and could make a channel to,   *)
(* and both containers of ServiceChannel hold the same channel.            *)
THEOREM ListIsFollowed == DiscoverySpec => []ListFollowsRegistry
<1>1. ListInv => ListFollowsRegistry
  BY DEF ListInv
<1>. QED  BY <1>1, ListInvAlways, PTL

===============================================================================
