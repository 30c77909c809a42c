----------------------------- MODULE Discovery -----------------------------
(***************************************************************************)
(* How a process of the instant-messaging system finds the nodes of a      *)
(* service: nodes enter themselves in etcd under a lease (Registry of      *)
(* code/server/common/etcd.hpp), the process lists the entries and then    *)
(* watches them (Discovery, same file), and keeps a channel to each node   *)
(* (ServiceManager and ServiceChannel of common/channel.hpp), of which     *)
(* callers get one in turn.                                                *)
(*                                                                         *)
(* One process with one followed service: the lists of two services share  *)
(* nothing.  A key of etcd names a node and its value is the node's host,  *)
(* so a node stands for both.  The callbacks run one after the other, in   *)
(* the thread of the watcher or before it starts, and each changes the     *)
(* list in one critical section.  Names are such that a module can extend  *)
(* this one and another component.                                         *)
(***************************************************************************)
EXTENDS Naturals, SequencesExt

CONSTANTS Node,        \* nodes of the followed service
          Stranger,    \* nodes of services that are not followed
          NoNode,      \* of a list without a channel, of no call
          INDEX,       \* TLC's bound on _index: it goes on from 0
          MAX_STARTS,  \* TLC's bound on starts of nodes
          MAX_FAULTS   \* TLC's bound on other failures

ASSUME DiscoveryAssumption ==
  /\ IsFiniteSet(Node)
  /\ Node \cap Stranger = {}
  /\ NoNode \notin Node \cup Stranger /\ NoNode \notin Node \X Nat
  /\ INDEX \in Nat \ {0}
  /\ MAX_STARTS \in Nat /\ MAX_FAULTS \in Nat

All == Node \cup Stranger

VARIABLES
  node,        \* the process of a node: "down", "starting", "up"
  key,         \* its entry in etcd: "none", "kept" alive by the process, or
               \* "left" by a process that is gone, until the lease ends
  client,      \* the process that discovers: "off", "listed", "watching", or
               \* "deaf" when the watch has broken
  events,      \* what the watcher has not yet handled
  hosts,       \* _hosts: the channel of a node
  channels,    \* _channels
  index,       \* _index
  called,      \* the node of the channel chosen last
  spoiled,     \* history: nodes the client was told of wrongly or has no
               \* channel to, see below
  starts, faults

etcd == <<node, key>>
list == <<hosts, channels>>
choice == <<index, called>>
discoveryVars == <<etcd, client, events, list, choice, spoiled, starts, faults>>

(* Channels of one node are told apart by a number. *)
ChannelsOf(n) == {c \in ToSet(channels) : c[1] = n}
Listed(n) == hosts[n] # NoNode
Registered(n) == key[n] # "none"

DiscoveryInit ==
  /\ node = [n \in All |-> "down"]
  /\ key = [n \in All |-> "none"]
  /\ client = "off"
  /\ events = <<>>
  /\ hosts = [n \in All |-> NoNode]
  /\ channels = <<>>
  /\ index = 0
  /\ called = NoNode
  /\ spoiled = {}
  /\ starts = 0
  /\ faults = 0

Fault == faults < MAX_FAULTS /\ faults' = faults + 1

-----------------------------------------------------------------------------
(* The list of channels                                                    *)

(* A new channel goes into both containers; _hosts.insert does not         *)
(* overwrite.                                                              *)
AddChannel(n) ==
  LET c == CHOOSE c \in {n} \X (1 .. Len(channels) + 1) : c \notin ToSet(channels) IN
  /\ hosts' = IF Listed(n) THEN hosts ELSE [hosts EXCEPT ![n] = c]
  /\ channels' = Append(channels, c)

(* ServiceChannel::append: when Init of the channel fails, the node is     *)
(* added to neither container, and nothing tries again.                    *)
append(n) ==
  \/ AddChannel(n) /\ UNCHANGED <<spoiled, faults>>
  \/ UNCHANGED list /\ spoiled' = spoiled \cup {n} /\ Fault

\* variant: only the map forgets the node
RemoveFromMap(n) ==
  /\ hosts' = [hosts EXCEPT ![n] = NoNode]
  /\ UNCHANGED channels

(* ServiceChannel::remove erases the channel that _hosts knows.            *)
remove(n) ==
  \/ /\ ~ Listed(n)
     /\ UNCHANGED list
  \/ /\ Listed(n)
     /\ hosts' = [hosts EXCEPT ![n] = NoNode]
     /\ \E i \in DOMAIN channels :
          /\ channels[i] = hosts[n]
          /\ channels' = RemoveAt(channels, i)

onServiceOnline(n) ==
  IF n \in Stranger THEN UNCHANGED <<list, spoiled, faults>> ELSE append(n)

onServiceOffline(n) ==
  /\ IF n \in Stranger THEN UNCHANGED list ELSE remove(n)
  /\ UNCHANGED <<spoiled, faults>>

\* variant: the counter moves on but does not decide
ChooseFirst ==
  /\ channels # <<>>
  /\ called' = Head(channels)[1]
  /\ index' = (index + 1) % INDEX
  /\ UNCHANGED <<etcd, client, events, list, spoiled, starts, faults>>

(* A caller gets the next channel; from an empty list it gets none. *)
Choose ==
  /\ channels # <<>>
  /\ called' = channels[(index % Len(channels)) + 1][1]
  /\ index' = (index + 1) % INDEX
  /\ UNCHANGED <<etcd, client, events, list, spoiled, starts, faults>>

-----------------------------------------------------------------------------
(* etcd and its watchers                                                   *)

\* variant: the host is read from the key-value that is gone
HeardCurrent(type, n) ==
  /\ client = "watching"
  /\ events' = Append(events, [type |-> type, host |-> IF type = "DELETE" THEN NoNode ELSE n])

Heard(type, n) ==
  /\ client = "watching"
  /\ events' = Append(events, [type |-> type, host |-> n])

(* A process that has listed the entries and does not watch misses it. *)
Missed ==
  /\ client # "watching"
  /\ UNCHANGED events

MissedBy(n) == {m \in {n} : client \in {"listed", "deaf"}}

NodeStarts(n) ==
  /\ node[n] = "down"
  /\ starts < MAX_STARTS
  /\ node' = [node EXCEPT ![n] = "starting"]
  /\ starts' = starts + 1
  /\ UNCHANGED <<key, client, events, list, choice, spoiled, faults>>

(* Registry::registry.  The entry an earlier process left moves to the new *)
(* lease, and watchers are told of it a second time.                       *)
Register(n) ==
  /\ node[n] = "starting"
  /\ node' = [node EXCEPT ![n] = "up"]
  /\ key' = [key EXCEPT ![n] = "kept"]
  /\ Heard("PUT", n) \/ Missed
  /\ spoiled' = spoiled \cup MissedBy(n) \cup {m \in {n} : Registered(n) /\ client # "off"}
  /\ UNCHANGED <<client, list, choice, starts, faults>>

(* Nobody looks at the result of registry: the node runs without an entry. *)
RegisterFails(n) ==
  /\ node[n] = "starting"
  /\ node' = [node EXCEPT ![n] = "up"]
  /\ Fault
  /\ UNCHANGED <<key, client, events, list, choice, spoiled, starts>>

NodeDies(n) ==
  /\ node[n] # "down"
  /\ node' = [node EXCEPT ![n] = "down"]
  /\ key' = [key EXCEPT ![n] = IF Registered(n) THEN "left" ELSE "none"]
  /\ UNCHANGED <<client, events, list, choice, spoiled, starts, faults>>

EntryGoes(n) ==
  /\ key' = [key EXCEPT ![n] = "none"]
  /\ Heard("DELETE", n) \/ Missed
  /\ spoiled' = spoiled \cup MissedBy(n)
  /\ UNCHANGED <<node, client, list, choice, starts>>

LeaseEnds(n) ==
  /\ key[n] = "left"
  /\ EntryGoes(n)
  /\ UNCHANGED faults

(* The node could not keep its lease alive; it does not register again. *)
KeepAliveLost(n) ==
  /\ key[n] = "kept"
  /\ EntryGoes(n)
  /\ Fault

-----------------------------------------------------------------------------
(* The process that discovers                                              *)

(* ls and the callbacks for what it returned: an append each, of which any *)
(* may fail.                                                               *)
ClientLists == \E failed \in SUBSET {n \in Node : Registered(n)} :
  LET found == {n \in Node : Registered(n)} \ failed IN
  /\ client = "off"
  /\ client' = "listed"
  /\ hosts' = [n \in All |-> IF n \in found THEN <<n, 1>> ELSE NoNode]
  /\ channels' = SetToSeq(found \X {1})
  /\ spoiled' = spoiled \cup failed
  /\ faults' = faults + Cardinality(failed)
  /\ faults' <= MAX_FAULTS
  /\ UNCHANGED <<etcd, events, choice, starts>>

(* The failure of ls is logged, and the process goes on with no node. *)
ClientListFails ==
  /\ client = "off"
  /\ client' = "listed"
  /\ spoiled' = {n \in All : Registered(n)}
  /\ Fault
  /\ UNCHANGED <<etcd, events, list, choice, starts>>

ClientWatches ==
  /\ client = "listed"
  /\ client' = "watching"
  /\ UNCHANGED <<etcd, events, list, choice, spoiled, starts, faults>>

(* Discovery::callback, for one event *)
Callback ==
  /\ events # <<>>
  /\ events' = Tail(events)
  /\ LET ev == Head(events) IN
       \/ ev.type = "PUT" /\ onServiceOnline(ev.host)
       \/ ev.type = "DELETE" /\ onServiceOffline(ev.host)
  /\ UNCHANGED <<etcd, client, choice, starts>>

(* The watcher ends with an error that callback logs; nothing starts it    *)
(* again.                                                                  *)
WatchBreaks ==
  /\ client = "watching"
  /\ client' = "deaf"
  /\ events' = <<>>
  /\ spoiled' = spoiled \cup {events[i].host : i \in DOMAIN events}
  /\ Fault
  /\ UNCHANGED <<etcd, list, choice, starts>>

ClientDies ==
  /\ client # "off"
  /\ client' = "off"
  /\ events' = <<>>
  /\ hosts' = [n \in All |-> NoNode]
  /\ channels' = <<>>
  /\ index' = 0
  /\ called' = NoNode
  /\ spoiled' = {}
  /\ Fault
  /\ UNCHANGED <<etcd, starts>>

-----------------------------------------------------------------------------
NodeStep(n) ==
  \/ NodeStarts(n) \/ Register(n) \/ RegisterFails(n) \/ NodeDies(n)
  \/ LeaseEnds(n) \/ KeepAliveLost(n)

DiscoveryNext ==
  \/ \E n \in All : NodeStep(n)
  \/ ClientLists \/ ClientListFails \/ ClientWatches
  \/ Callback \/ WatchBreaks \/ ClientDies
  \/ Choose

(* etcd ends leases that nobody keeps alive, and the client goes on. *)
Fairness ==
  /\ \A n \in All : WF_discoveryVars(LeaseEnds(n))
  /\ WF_discoveryVars(ClientWatches)
  /\ WF_discoveryVars(Callback)

DiscoverySpec == DiscoveryInit /\ [][DiscoveryNext]_discoveryVars /\ Fairness

-----------------------------------------------------------------------------
DiscoveryTypeOK ==
  /\ node \in [All -> {"down", "starting", "up"}]
  /\ key \in [All -> {"none", "kept", "left"}]
  /\ client \in {"off", "listed", "watching", "deaf"}
  /\ events \in Seq([type : {"PUT", "DELETE"}, host : All])
  /\ hosts \in [All -> (Node \X Nat) \cup {NoNode}]
  /\ channels \in Seq(Node \X Nat)
  /\ index \in 0 .. INDEX - 1
  /\ called \in Node \cup {NoNode}
  /\ spoiled \subseteq All
  /\ starts \in 0 .. MAX_STARTS
  /\ faults \in 0 .. MAX_FAULTS

(* Both containers hold the same one channel of a node, or none, and with  *)
(* the events that are under way they say what etcd says: each of them     *)
(* turns around what the one before it said.  Not so for a node whose      *)
(* channel could not be made (channel.hpp:26), and for one that the client *)
(* was told of wrongly: whose event fell between the listing and the watch *)
(* or came after the watch broke, or that came back before its lease ended *)
(* (etcd.hpp:55, channel.hpp:31).                                          *)
SameChannel(n) == ChannelsOf(n) = {hosts[n]} \ {NoNode}

(* What the client hears of a node: first, at 0, what its list says now.   *)
HeardOf(n) == {0} \cup {i \in DOMAIN events : events[i].host = n}

Says(n, i) == IF i = 0 THEN Listed(n) ELSE events[i].type = "PUT"

EventsAlternate(n) ==
  /\ \A i, j \in HeardOf(n) :
       i < j /\ (i + 1 .. j - 1) \cap HeardOf(n) = {} => Says(n, i) # Says(n, j)
  /\ \A i \in HeardOf(n) :
       (\A j \in HeardOf(n) : j <= i) => (Registered(n) <=> Says(n, i))

ListFollowsRegistry ==
  /\ \A n \in Node : Listed(n) => hosts[n] \in ChannelsOf(n)
  /\ client # "off" => \A n \in Node \ spoiled : SameChannel(n) /\ EventsAlternate(n)

(* A node that is gone is not called for ever, unless it comes back or is  *)
(* one of those nodes (channel.hpp:42).                                    *)
DeadLeave == \A n \in Node :
  node[n] = "down" ~> (ChannelsOf(n) = {} \/ node[n] # "down" \/ n \in spoiled)

(* While calls are made, every node that stays listed has its turn again   *)
(* and again (channel.hpp:57).                                             *)
LivingServe ==
  []<><<Choose>>_discoveryVars => \A n \in Node : <>[]Listed(n) => []<>(called = n)

(* Calls go to every node that stays and in the end to none that is gone.  *)
CallsFollowNodes == DeadLeave /\ LivingServe

=============================================================================
