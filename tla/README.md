# A TLA+ verification project for Items

Items is four C++ projects in one repository: a concurrent memory pool, a
load-balancing online judge, a microservice instant-messaging system and a
search engine over the Boost documentation. This directory models the parts
whose correctness depends on concurrency, on long sequences of operations or on
arithmetic at boundaries; TLC checks the models on small instances and TLAPS
proves the central results for every instance.

## Inventory

### Memory pool (`High_Concurrent_Memory_Pool/`)

| part | state | operations | interacts with |
|---|---|---|---|
| `SizeClass` (Comm.h) | none | RoundUp, Index, NumMoveSize, NumMovePage | everyone |
| `ThreadCache` | `_freeLists[208]` with `_maxSize`, one per thread, no lock | Allocate, DeAllocate, FetchFromCentralCache, ListTooLong | calls the central cache |
| `CentralCache` | `_spanLists[208]`, one mutex each; in each span `_freeList`, `_useCount` | FetchRangeObj, GetOneSpan, ReleaseListToSpans | called by every thread; calls the page cache with the bucket lock dropped |
| `PageCache` | `_spanLists[129]`, `_idSpanMap`, one mutex | NewSpan, ReleaseSpanToPageCache, MapObjectToSpan | `mmap`; its map is read by the central cache without its lock |
| `ObjectPool` | `_memory`, `_remainBytes`, `_freelist` | New, Delete | `mmap` |

Hard: locks dropped and retaken in the middle of an operation, an object that
travels through four owners, page numbers in a map that outlive the span they
named, splitting and merging, unsigned counters.
Correct means: no memory is handed out twice, nothing is lost, a freed object
finds the span it came from, counters are exact, no deadlock.

### Online judge (`Load_Balancing_Online_OJ/`)

| part | state | operations | interacts with |
|---|---|---|---|
| `LoadBalance`, `Machine`, `Control` (oj_control.hpp) | `_online`, `_offline`, `_mtx`, a load and a mutex per machine | Judge, SmartChioce, OfflineMachine, OnlineMachine (on SIGQUIT), ShowMachines | HTTP posts to the compile servers |
| compile server (compile_run, compiler, runner, utils) | the files in ./tmp, an atomic counter | Compile_Run: name, write, compile, run, answer, remove | child processes, the file system |
| question store, pages (oj_model*, oj_view) | read-only | queries, rendering | MySQL, templates |

Hard: loads and lists are under different locks, a machine can be given up by
several workers while the operator brings all of them back, retries without a
limit; handlers of the compile server are kept apart by a file name only.
Correct means: no machine is lost or listed twice, loads count requests, every
request ends, answers are not mixed up, nothing stays in ./tmp.

### Instant messaging (`Microservices_IM_System/code/`)

| part | state | operations | interacts with |
|---|---|---|---|
| service discovery (common/etcd.hpp, channel.hpp) | etcd's entries and leases; in every process `_hosts`, `_channels`, `_index` | registry, ls, watch, the callbacks, choose | etcd, every call between services |
| gateway (gateway/source) | `_uid_connections`, `_conn_clients` | about 30 HTTP handlers, onOpen, onMessage, onClose of websockets | all services, redis, the clients |
| user service (user/source) | table of users, its copy in Elasticsearch; sessions, login marks and codes in redis | register, log in, change the profile, search | redis, MySQL, Elasticsearch, file service |
| friend service (friend/source) | relations, applications, chat sessions, members | apply, answer, remove, create a group, lists | MySQL, called by the gateway |
| transmit service (transmite/source) | none | GetTransmitTarget | member table, RabbitMQ |
| message service (message/source) | table of messages, search index | onMessage of the queue, history, search | RabbitMQ, file service, MySQL, Elasticsearch |
| file and speech services | files under fresh ids | put, get; recognise | disk, an outside service |
| Qt client, mock server (client/) | lists cached from the answers | a GUI | gateway |

Hard: a request is several steps in several stores with no transaction around
them; two requests about one user meet between those steps; connections break while
somebody is told over them; marks outlive the process that would remove them; brpc
repeats calls; a queue acknowledges and loses; events of etcd are missed or doubled.
Correct means: a user is logged in once and can log in again, a notification reaches
the right user, a message that was answered "ok" is kept, stores that hold copies
agree, names are unique, calls go to nodes that live.

### Search engine (`Boost_Search_Engine/`)

An offline parser, an index built once, read-only queries. Almost all other
files of the directory are the searched documentation and a vendored tokenizer.

## Modules

| module | models | kind |
|---|---|---|
| `SizeClass` | Comm.h's arithmetic, the carving loop's count | pure operators |
| `SizeWalk`, `PoolPartsProofs` | every request size, with the constants of the code | checks of `SizeClass`, proofs |
| `Heap` | what an allocator promises | abstract specification |
| `MemPool`, `MCMemPool`, `MemPoolProofs` | the three levels of the pool | state machine, refines `Heap`, proofs |
| `ObjectPool`, `PoolPartsProofs` | the fixed-size pool | state machine, refines `Heap`, proofs |
| `LoadBalance`, `BalancingProofs` | the judge's dispatcher | state machine, proofs |
| `CompileServer`, `CompileServerProofs` | the judge's compile server | state machine, proofs |
| `FriendService`, `MCFriendService`, `FriendServiceProofs` | the friend service over its four tables | state machine, proofs |
| `Gateway`, `MCGateway`, `GatewayProofs` | login, redis' sessions and marks, the gateway's connections and notifications | state machine of three kinds of threads, proofs |
| `Delivery` | what the message path promises | abstract specification |
| `Messages`, `MessagesProofs` | gateway, transmit service, RabbitMQ, message service, three stores | state machine, refines `Delivery`, proofs |
| `Discovery`, `BalancingProofs` | etcd, nodes, a process that follows a service | state machine with fairness, proofs |
| `UserService`, `MCUserService`, `UserServiceProofs` | accounts and profiles, the table and its copy | state machine, proofs |

The `MC` modules only add the symmetry of the model values. `Discovery` and `SizeWalk`
prefix the names of their specification (`DiscoverySpec`, `WalkSpec`), because a proof
module extends each of them together with another component.

In every module a definition that follows a comment `\* variant` is a form of the
next definition with a plausible mistake; it is not used by the specification and
shows that the properties would notice.

### MemPool

One action is one critical section of the code, or the part of one between two
points where another thread can see or change something:

| code | actions |
|---|---|
| `ThreadCache::Allocate`, `FetchFromCentralCache` | `AllocateCached`, `AllocateFetch` (slow start), `AllocateWild` (uninitialised `_freeList`) |
| `FetchRangeObj` / `GetOneSpan` | `FetchHit`, or `FetchMiss`, `LockPages`, one of `NewSpan*`, `Carve`, `Hang`; `FetchBeyond` is a fetch that reads past the last piece of a list without an end, which ends the process |
| `DeAllocate`, `ListTooLong` | `DeAllocate` |
| `ReleaseListToSpans` | `LockBucket`, `ReleaseObject` per object, `ReleaseDone`; `ReleaseLost` and `ReleaseRaces` are the ways a lookup in the page map ends the process |
| `NewSpan` | `NewSpanExact`, `NewSpanSplit`, `NewSpanGrow` (then it calls itself), `NewSpanExit` |
| `ReleaseSpanToPageCache` | `LockPages`, a `MergePrev` per neighbour before, a `MergeNext` per neighbour after |

Lists are sets: which element is first does not matter to any property, so any
element may be. Memory is a set of cells and a page has `PAGE_BYTES` of them; the
links the code keeps inside free objects are the membership of the sets, but for one:
`GetOneSpan` writes no link into the last piece, so a carved list ends only if the
memory there is zero. That is certain of pages fresh from `mmap`; of pages in `carved`
it is not, and `loose` has the spans whose list goes on into old links or data. Batches
that such a list covers are handed out as usual. A larger one is `FetchBeyond`: what the
code reads then is undefined, so the process ends as "stale link" and the properties
say nothing more about it.

### LoadBalance

`_mtx` is `mtx`; a step under it that others can see in progress (a scan, a
change of the lists) is split into begin and end. The load of a machine is read
and changed in one step, as its own mutex makes it. What a compile server answers
is free: 200, another status, or nothing. The SIGQUIT handler runs on the main
thread. Fairness: a worker inside `Judge` and the handler make progress (threads
are scheduled, mutexes are held for a bounded time, HTTP posts time out).

### CompileServer

Each handler thread runs `Compile_Run`. The three steps of `UniqueFileName` are
three actions. A file is its name, its suffix and the requests whose text is in
it; a file opened without truncation keeps what it held. The children (`g++`, the
program) are steps of the handler that waits for them. Every failure branch is an
alternative of its action. `alone` is a history variable.

### ObjectPool

One action per path through `New`, and `Delete`. `size_t` subtraction wraps.

### FriendService

The tables `relation`, `friend_apply`, `chat_session` and `chat_session_member` are
sets of rows (only the query behind `FriendRemove` tells two equal rows from one, see
`FindsOne` below). A brpc worker handles a request
in several MySQL transactions and each is one action:

| handler | actions |
|---|---|
| `FriendAdd` | `AddRelated` or `AddUnrelated`, `AddWaiting` or `AddNotWaiting`, `ApplyInsert`; a failing query looks like "no row" (`AddQueryFails`, `AddNotWaiting`) |
| `FriendAddProcess` | `ApplyFound` or `ApplyMissing`, `ApplyRemove`, and when agreed `RelationInsert`, `SessionInsert`, `MemberAppend` |
| `FriendRemove` | `RelationRemove`, `SessionRemove` (or `RemoveAborts`: the result of `query_one` is used without a test) |
| `ChatSessionCreate` | `AcceptCreate`, `SessionInsert`, `MemberAppend` |
| any | `TransactionFails` (rolled back, the handler gives up), `Restart` (all requests are lost, the tables stay) |

`disturbed` is a history variable: the pairs of users to which one of five things
happened that the code has no answer to: two requests about the pair overlapped;
one removed somebody who was no friend; one applied to somebody whose own
application was waiting; something failed: a request between its first and its
last change, or the query for an existing relation (friends can then apply again); or
the session of the pair went because one of the two removed himself. About all other
pairs the four tables must always agree.

Neither the service nor the gateway compares the two users of a request, so `Accept`
has requests of a user about himself; such a "pair" is disturbed by its first request.
A user who agrees with himself has a session of two equal member rows, of which
`query_one` finds four (`FindsOne` says when it finds one).

### Gateway

The composition of three programs over redis: brpc workers of the user service, the
single thread that runs all websocket handlers, the threads of the HTTP server.

| code | actions |
|---|---|
| `UserLogin`, `PhoneLogin` | `UserLogin` (looks at the mark), `SessionAppend`, `StatusAppend`, `LoginAnswer` or `AnswerLost` |
| `onMessage`, `Connection::insert` | `OnMessage` |
| `onClose`, `Connection::remove` | `OnCloseUnknown`, or `OnClose` (session), `StatusRemove`, `RemoveConn` |
| `FriendAdd`, `FriendAddProcess`, `FriendRemove`, `ChatSessionCreate`, `NewMessage` | one action each that says whom to notify, then `FindConn` and `Send` per user; `FriendAddProcessAborts` is the null pointer of a failed lookup |
| clients, networks, processes | `Connect`, `SocketDies`, `ClientQuits`, `UserServiceRestart`, `GatewayRestart` |

A connection that an HTTP thread has found stays in use until `Send`, also when it
has been closed meanwhile (the code holds a shared pointer). Session ids are uuids: a
model value is used again once nothing refers to it. `who` remembers who was let in on
a connection. `raced` collects the users whose logins or connections overlapped:
nothing in the code keeps two logins apart, so `OneSession` and reachability cannot
hold for them. `stranded` collects the marks that lose their last owner in a failure;
the step that takes a mark away takes it out again.

### Messages and Delivery

| code | actions |
|---|---|
| gateway's `NewMessage` | `NewMessage`, `NewMessageAnswer` |
| `GetTransmitTarget`, `MQClient::publish` | `GetTransmitTarget`, `GetTransmitTargetFails`; `Flush` is the connection's event loop |
| brpc's retries | `CallBreaks`, `TransmitRestart` |
| `MQClient::consume` and the message service's `onMessage` | `OnReceived`, `AppendData` or `PutFile`, `InsertRow`, `StoreFails`, `Ack` |
| processes | `TransmitRestart`, `BrokerRestart`, `MessageServiceRestart` |
| `GetHistoryMsg`, `MsgSearch` | the operators `GetHistoryMsgFails` and `MsgSearch` over the stores |

`excused` holds messages hit by a failure the code answers with loss: buffered when
the transmit service died, queued when the broker died (neither queue nor messages
are durable), or refused by a store (they are acknowledged all the same). `broken`
holds posts whose call to the transmit service broke, which is when a sender may be
told of a failure and have the message sent, or have it sent twice:
`GetTransmitTarget` makes a new message in every attempt.

`Delivery` knows only the fate of a message and the answer to its sender. Under the
mapping `Fate` every step of `Messages` is a step of `Delivery` or a stutter
(`ImplementsDelivery`): stored messages stay stored, are stored once, and "ok" is
said only of what was accepted.

Fairness: the event loop sends what was written, the broker delivers, calls to the
stores end, the handler acknowledges. Nothing is assumed of senders or of restarts;
`Settles` therefore excepts the time when the message service has lost the broker,
for which the code has no reconnection.

### Discovery

| code | actions |
|---|---|
| `Registry::registry` and its keep-alive | `Register`, `RegisterFails`, `KeepAliveLost` |
| etcd | `LeaseEnds`, and `Heard` or `Missed` in every change of an entry |
| constructor of `Discovery` | `ClientLists` or `ClientListFails`, then `ClientWatches` |
| `Discovery::callback`, `onServiceOnline`, `onServiceOffline`, `ServiceChannel::append`, `remove` | `Callback` per event; `WatchBreaks` |
| `ServiceChannel::choose` | `Choose` |

`spoiled` collects the nodes the process was told of wrongly: a change between listing
and watching or after the watch broke is never heard (nothing starts the watch
again), and a node that comes back before its old lease ended is announced twice and
then has a second channel that no `remove` finds. It also has the nodes whose channel could not be made
(`Init` fails in `append`): they are in neither container. For all other nodes the list and
the events under way say exactly what etcd says.

Fairness: etcd ends leases nobody renews, the watcher's thread runs. `Choose` has
none: `LivingServe` says that *if* calls are made for ever, every node that stays
listed is called for ever.

### UserService

`UserRegister` and `PhoneRegister` are the check, `Insert` the transaction;
`Select` and `Update` are the two halves of each `SetUser*` handler, which writes back
the whole row; `AppendData` and `AppendDataFails` the write to the index.
`TransactionFails` covers the unique indexes, failures of the database and of the file
service; `Restart` forgets the requests. `wish` holds what the requests about each
field have stored; `disturbed` and `stale` the users of whom two requests overlapped
or a write to the index failed.

## Runs

| run | what it shows | bounds |
|---|---|---|
| `SizeWalk` | requests get a large enough object of an existing bucket and span (`RequestIsServed`); a bucket holds one size | every size from 1 to 262144 |
| `SizeWalkCarve` | *violated*: the last piece of a span may end behind it (first at 513 bytes) | same |
| `MemPool` | every object is in one place and use counts are exact (`ObjectsAccounted`); the page cache and the spans partition the pages, no span is in two places or in none, free neighbours are merged (`PagesAccounted`); `MapFindsOwner`; `CacheBounded`; `Heap` | 2 threads, 2 buckets with spans of 1 and 2 pages, a region of 3 pages, 3 Span structures, 2 live objects: spans are split, merged, exchanged, carved again and refilled, batches grow to the limit of 2; no span has an inner page |
| `MemPoolWide` | some call always ends (`SomeCallEnds`) | spans of a whole region |
| `ObjectPool` | objects inside chunks and disjoint (`PlacesSound`); `Heap` | objects of 3 bytes, words of 4, chunks of 12 (three objects), three chunks of which two touch |
| `LoadBalance` | lists, loads, scans; `JudgeEnds` | 2 workers, 2 machines, 3 requests, 1 recovery |
| `CompileServer` | answers are not mixed up and names clash only when two handlers name files at one time (`RequestsApart`); the directory is clean at rest (`NothingLeftBehind`) | 2 handlers, 3 requests, 2 milliseconds |
| `FriendService` | the four tables agree about undisturbed pairs (`PairConsistent`), sessions are well formed, groups stay, `FriendRemove` does not abort for such pairs | 2 users, who may also ask about themselves, 2 handlers, 2 sessions at a time |
| `Gateway` | the two maps agree, who never raced can be reached, notices go to their addressee (`ConnectionsAgree`); one session per user (`OneSession`); a mark can be taken away (`MarkIsOwned`) | 2 users, 2 workers, 1 HTTP thread, 2 sessions and connections at a time, 1 death of a service |
| `Messages` | history, search and files agree (`StoresAgree`); the answer to a sender is true and what was published is kept (`AnswerIsTrue`); `ImplementsDelivery`; `Settles` | a text and a file, 1 retry, 2 faults of any kind |
| `Discovery` | the list follows etcd (`ListFollowsRegistry`); calls leave dead nodes and reach living ones (`CallsFollowNodes`) | 2 nodes and one of another service, 3 starts, 2 faults, `_index` modulo 3 |
| `UserService` | names and numbers are unique (`RowsSound`, with the types); no request takes back another (`FieldsKept`); the index follows the table (`IndexFollowsTable`) | 2 users, 2 names, 1 number, 1 text, 2 handlers, 5 requests, 1 restart |

All runs but `UserService` (where it is part of `RowsSound`) and the walks, the pool of
objects and `MemPoolWide` also check `TypeOK`. The violated run checks the statement of
a comment of the code; `PROJECT.json` quotes it. The bounds are the smallest at which
every action happens in every order that matters; the counters that are bounded
(requests, restarts, faults, the clock, live objects) only limit how long the
environment goes on. Two connections are the old and the new one of a user, or one
each of two; two users make one pair (and
each a pair of its own), and lemma `StepKeepsPairs` shows for any number
of users that a request leaves the other pairs as they are. Two faults are a failure
and one more during the recovery from it.

The runs set `CHECK_DEADLOCK FALSE` where the environment may stop (all requests made,
all faults spent) or where the code itself ends the process.

In `MemPoolWide` fairness is only that some thread inside the pool runs. That is
enough: no call waits for another one that waits.

`JudgeEnds` has a hypothesis: error answers (a status other than 200) do not go on
for ever. The loop of `Judge` retries them without a limit, so nothing more holds.

## Proofs

TLAPS checks these theorems for all values of the constants that satisfy the named
assumptions. An inductive invariant is called `IInv` unless another name is given.

**PoolPartsProofs: the pool of objects.** Assumptions: chunks do not overlap, as `mmap` promises, and
`Fits`: an object (at least a pointer wide) fits into a chunk and a chunk is a whole
number of words (128 KiB and 8). `PlacesSound`
(inside the chunks, disjoint) is not inductive: a step may return the first object of the free list or
cut the rest of the chunk, so `IInv` adds that free objects and the rest do not meet
the live ones (`Unused`), and that for objects smaller than a word the rest is a
number of words (`Aligned`): `New` compares the rest with `sizeof(T)` but takes a
word, so otherwise the last object could end behind the chunk. With `IInv` each
step of the pool is a step of `Heap` or a stutter: `PoolImplementsHeap`.

**PoolPartsProofs: the size classes.** `RequestIsServed` and `BucketHoldsOneSize` for
every page size, longest span, batch limit and largest request, where the run has those
of the code. Assumption (`SizeWalkAssumption`): requests end with the last band
(256 KiB), there are the 208 buckets of the five bands, and the pages of two objects of
the largest size are fewer than `NPAGES`. The last part is met without room to spare:
two objects of 256 KiB take 128 pages of 4 KiB, and `NPAGES` is 129. `BandServes` says of
each band that the rounded size and the bucket are determined by one quotient; equal
buckets for a request and its rounded size, the range of the buckets and their order
follow from it (`RoundedServes`, `NextSize`). `SpanPages` is the fact that `MemPool`
assumes of its sizes. `OnlyTheLargestTakesARegion` is the same arithmetic exactly: with
the lengths of the code a span is a whole region for the largest size and for no other,
which is where the hypothesis `Shorter` below comes from.

**BalancingProofs: the judge's machines.** Assumption: the worker threads fit into the `uint64_t` load.
That every machine is in exactly one list needs that whoever changes a list holds the
lock and saw the machine online (`LockHeld`, `ScanOnline`, `HasMachine`). That a load
is the number of a machine's requests (`LoadIsExact`) holds for machines that never
went offline (`wentOffline`): `OfflineMachine` resets a load that other workers
still count on.

**BalancingProofs: the list of nodes.** The types of `Discovery` and
`ListFollowsRegistry`, for any finite set of nodes and any number of starts and
failures. The property compares the list of a process with etcd through the events that
are still under way, and is inductive together with two facts (`ListInv`): without a
watch nothing is under way, and without a process there is no list (`Quiet`); no
channel is twice in `_channels` (`EachOnce`), so that `remove`, which erases one
element, erases the channel. `FreshChannel` says that `append` always finds a channel
that the list does not have. The events are compared by position: what an entry's coming
or going adds is the opposite of what was said last (`OneMoreEvent`), and what a callback
does to the list is what the event at the head says (`FirstEvent`, `OneEventLess`). That
needs the exception for nodes of which the process was told wrongly: a second `PUT`
before the lease ended is not an opposite. A channel that could not be made needs the
same exception: the `PUT` has been handled and the list does not have the node.

**MemPoolProofs.** For any sets of threads, sizes and regions and any number of
pages. Two inductive invariants, one on top of the other:

- `IInv` holds of every behaviour and gives `CacheBounded` without a hypothesis about
  spans: a thread's list has fewer objects than its limit, and the limit passes the
  batch size by one at most. It describes which batches are on their way in each step
  of a call (`FetchFits`) and also covers the behaviours in which a lookup in the page
  map has gone wrong.
- `Sound` is about the spans and the objects. `PagesSound`: the spans cover the mapped
  pages and do not overlap (`Covered`, `Apart`), the first and the last page of a
  span lead to it unless it is a whole region that was never entered (`EndsMapped`), a
  span in a thread's hands is in no list (`HandsSound`), who joins spans has the page
  lock (`PageLock`). The entries of inner pages are not in it: the code does not keep
  them. `EndsMapped` is what makes `ReleaseSpanToPageCache` safe, which finds the
  neighbours of a span by the entries before and behind it. `ObjectsSound`: a span in a
  bucket lists the pieces that are not away and counts those that are (`Counted`),
  an object that is away is in one place (`HomesApart`) and belongs to a span in the
  bucket of its size (`Owned`), a span outside the buckets is empty or freshly carved
  (`SparesEmpty`).

`Sound` is inductive only while `ReleaseListToSpans` finds the span an object belongs
to: an object given back to another span makes both wrong for ever, and the stale
entries of `_idSpanMap` make that possible. So the theorems have the hypothesis
`[]LookupFindsOwner` (in each state, the objects a thread is releasing lead to their
spans). They also speak only of what happens until the process ends, and a fetch that
reads past an unterminated list is such an end (`FetchBeyond`). That is a step of the
model and not a hypothesis: up to it nothing is damaged, also while objects are taken
from such a list.

- `TypeCorrect` (types only: a wrapped counter has its type; that none wraps is in
  `ObjectsAreAccounted`), `ObjectsAreAccounted`, `PagesAreKept`;
- `PagesAreAccounted`, with `Gaps` (regions do not touch): two free spans that meet
  where regions touch stay apart when the joined span would be longer than the
  longest list, so that "no two free spans are neighbours" is not kept there;
- `OwnersAreFound`, with `Shorter` (no size takes a whole region; in the code only
  the largest size, 262144, does);
- `Implements`: the pool is a `Heap`, with `Fits` (the sizes divide their spans; where
  they do not, `SizeWalkCarve` shows the last piece behind the span).

`SmallSpansAreSafe` discharges the hypothesis where the code justifies it: spans of one
or two pages have no inner page, so with `Shorter` the lookup always finds the owner,
and no release ends in the assert or in a deleted span. The run `MemPool` is an
instance of that theorem, so it cannot show what stale entries of inner pages do. For longer spans the hypothesis can fail; that is the
finding of the section below.

**FriendServiceProofs.** For any numbers of users, handlers and sessions: types,
`SessionsWellFormed`, `PairConsistent`, `RemoveFindsSession` and `GroupsStay`. `PairConsistent` speaks of pairs at rest; to keep it, `IInv` says what
the tables hold at each place of a request about an undisturbed pair (`Stage`), that
such a pair has one request at most (`Alone`), and that a session between its two
inserts is known to one request (`Pending`). `StepKeepsPairs` moves everything about
other pairs over a step; what is left for each action is its own pair.

**UserServiceProofs.** `RowsSound`, `FieldsKept` and `IndexFollowsTable` for any numbers
of users, values, handlers, requests and restarts. A handler carries a whole row from its
`Select` to its `Update` and into the index, so what the properties say at rest depends
on what it holds: a handler that was alone is the only one for its user (`Alone`), the row it will write
differs from the table in its own field only (`RowsFresh`), the copy of a user who is
not stale is the row until the row is written, and a handler that was alone writes the row of the table into the index
(`CopyFollows`). Assumption: `None` is no value, and a name is not a user id.

**MessagesProofs.** `TypeOK`, `StoresAgree`, `AnswerIsTrue` and that every step is a step
of `Delivery` or a stutter, for any numbers of posts, retries and faults. `AnswerIsTrue`
compares an answer with what happens to a message long after it: the invariant is that
a message once published stays on its way, in a row, or excused (`KeptOrExcused`);
that needs that the consumer acknowledges only what has a row or an excuse
and works only on what the broker still has or lost with an excuse (`WorkSound`),
and that an attempt that has not been made is seen nowhere (`Fresh`).

**GatewayProofs.** `TypeOK`, `ConnectionsAgree`, `OneSession` and `MarkIsOwned`, for any
numbers of users, workers, HTTP threads, session ids, connections and deaths. The heart
is `Orderly`: a user who never raced is in one place after another (a login that
looked at the mark, a session with its mark, an open connection, a connection being
closed), so the look at the mark finds no session and closing takes the only one.
That rests on who may refer to a session id: it has one owner until the last login,
client or connection that knows it is gone (`LoginsSound`, `OwnersSound`).

**CompileServerProofs.** `TypeOK`, `RequestsApart` and `NothingLeftBehind`, for any number
of handlers, requests and milliseconds. `RequestsApart` speaks of the answer; what is
inductive is that two handlers can have one name only if both were being named at one
time (`NamesSound`), so a handler named alone finds only its own text in its
files (`OwnFiles`). Every file has a handler that will remove it (`FilesOwned`), which gives
`NothingLeftBehind` and is also why a fresh name meets no old file. Assumption: the
clock has started (`MaxClock` is positive).

Only model-checked: the liveness properties (`JudgeEnds`, `SomeCallEnds`, `Settles`,
`CallsFollowNodes`; fairness is out of the prover's reach).

## What the code does not keep

These are behaviours of the code that the models contain and the properties have to
leave out, by an action that ends the process, by a history variable or by a hypothesis.
The list has those we know of; code that is not modelled, or that a module abstracts
from (see below), may have others.

- The list of a carved span has no end of its own (CentralCache.cpp:35-42). When a span
  comes back from the page cache and is carved again, its last piece may lead to an
  object that was handed out already, or anywhere (`FetchBeyond`). The run `MemPool`
  reaches this with spans of one and two pages.
- A span whose size the object size does not divide: its last piece ends behind it
  (`SizeWalkCarve`).
- The page map is read without the page lock (`ReleaseRaces`), and a span of a whole
  region is never entered in it, so that its objects cannot be given back
  (`ReleaseLost`). The map also keeps inner pages of spans that were given away:
  `MapFindsOwner` holds for the spans of one and two pages of the run; with spans of
  one and three pages in a region of four TLC finds an object looked up in a stale
  entry.
  The rest of a split has entries for its two ends only. When `NewSpan` later finds it
  in the list of its own length (PageCache.cpp:8, `NewSpanExact`), it is handed out as
  it is, and an object on an inner page of it has no entry: giving it back ends in the
  assert. The comment at PageCache.cpp:30 has all pages of a span for the central cache
  mapped. Only spans of three pages and more have inner pages.
- The file name counter of the compile server is incremented and read in separate
  steps, so two handlers in one millisecond can get one name (`RequestsApart` is
  about the others).
- Error answers of compile servers are retried without a limit.
- The load of a machine that was given up drifts: `OfflineMachine` sets it to zero while
  other workers still count on it, and their decrements then take an unsigned number
  below zero, to the largest load there is. After `OnlineMachine` the machine is back in
  the list with that load. `LoadCountsRequests` is about machines that were never
  offline (`wentOffline`).
- Two users who apply to each other at the same time and both accept get two single
  sessions, and removing the friend then ends the process (`RemoveAborts`).
- A user can apply to himself and agree. He is then a friend of himself with a session
  that `FriendRemove` does not find (`RemoveAborts`); a user who removes himself while
  he has one friend deletes the session with that friend.
- Two logins of one user can both find no mark (`raced`). A mark stays when the
  gateway dies or a client leaves before the gateway knew it (`stranded`): its user
  can then not log in at all.
- A connection that is opened before the old one of the same user is closed is not
  entered, and closing the old one takes away the entry.
- A message whose store fails is acknowledged; the queue is not durable; no service
  connects to RabbitMQ again; `GetTransmitTarget` repeated by brpc sends twice.
- The watch of etcd is not started again, and a node that comes back early has two
  channels, of which one stays for ever; a node whose channel could not be made gets no
  calls until it registers again (`spoiled`).
- Two changes of one profile overlap: the later takes back the earlier (`disturbed`).

## Not modelled

- The Qt client: what it shows is kept in lists that answers and notifications of the
  gateway change in the order in which they arrive. Only how it opens, names and
  closes its connection is modelled (`Connect`, `SocketDies`, `ClientQuits`).
  Its orderings are worth a module: an own message is filed under the session that is
  current when the answer comes (messageeditarea.cpp:160), a late answer switches back
  to a session clicked before (mainwidget.cpp:587), and a notification that overtakes
  the reload of a list finds it empty (NetClient.cpp:487).
- The mock server (canned answers); the gateway's handlers that only pass a request
  on; queries and lists, except where a property is about what they read.
- Codes sent by telephone, passwords, the form of names; the speech service (one call
  to an outside service); the file service beyond what the message service uses.
- How AMQP-CPP behaves when several brpc threads publish on one channel; a SIGQUIT that
  is delivered to a worker which holds the dispatcher's lock.
- The search engine: sequential; its index is built before the server starts.
- The judge's question store and pages: read-only queries and rendering.
- Vendored libraries, searched documents, build files, benchmarks.
- In the modelled parts: formatting, logging, contents of messages and programs, and
  the order of elements in lists where no property depends on it.

Most lines of the repository are vendored headers (three copies of httplib.h, an SDK,
a tokenizer) and searched documents; they are external here.

## Plan

*Extend.* The lists of the Qt client; a composition of `FriendService` and
`Messages`, which meet in the member table.
