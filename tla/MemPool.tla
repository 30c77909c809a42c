-------------------------------- MODULE MemPool --------------------------------
(***************************************************************************)
(* The three-level memory pool of High_Concurrent_Memory_Pool: a           *)
(* ThreadCache per thread (no lock), one CentralCache (a lock per bucket)  *)
(* and one PageCache (one lock).  A step of a thread is a critical section *)
(* of the code, or the part of one between two places where other threads  *)
(* can see it; _idSpanMap is read without the page lock, so the writes to  *)
(* it are steps of their own.                                              *)
(*                                                                         *)
(* The order of the singly and doubly linked lists is abstracted: a list   *)
(* is the set of its elements and "the first" is any of them.  Whether the *)
(* list of a span ends is kept (loose): its last piece gets no link.       *)
(* Memory is a set of cells; an object is the address of its first cell.   *)
(***************************************************************************)
EXTENDS SizeClass, Integers, FiniteSets

CONSTANTS
  Thread,
  Sizes,      \* the aligned sizes the program asks for, one bucket each
  Base,       \* the first pages of the regions mmap can return
  SpanId,     \* the addresses operator new can return for a Span
  MaxLive,    \* bound: the program allocates only while it holds fewer objects
  NoThread,
  NoSpan

(* The pages of the regions; page 0 is never mapped. *)
Page == UNION {b .. (b + NPAGES - 2) : b \in Base}

ASSUME MemPoolAssumption ==
  /\ Sizes \subseteq 1 .. MAX_BYTES
  /\ \A size \in Sizes : NumMovePage(size) < NPAGES
  /\ Base \subseteq Nat \ {0}
  /\ \A a, b \in Base : a < b => a + NPAGES - 1 <= b
  /\ NoThread \notin Thread
  /\ NoSpan \notin SpanId
  /\ MaxLive \in Nat

VARIABLES
  process,       \* "running", or how it ended: nothing is said of the code after that
  regions,       \* the bases of the regions mmap has returned
  allocated,     \* the Span structures that exist
  span,          \* their contents
  idSpanMap,     \* _idSpanMap: page number -> span
  pageLists,     \* _spanLists of the page cache, by number of pages
  pageMtx,       \* the thread that holds _pageMtx
  centralLists,  \* _spanLists of the central cache, by size
  bucketMtx,     \* the thread that holds the lock of a bucket between two steps
  cache,         \* _freeLists of each thread: the objects
  maxSize,       \* _freeLists of each thread: _maxSize
  live,          \* the blocks the program holds: <<address, size>>
  carved,        \* the pages that were in a carved span: their memory is not zero
  loose,         \* the spans whose _freeList goes on behind its last piece
  held,          \* history: how many allocations without a release
  pc,            \* where each thread is in the pool
  job            \* the local variables of its call

links      == <<carved, loose>>
pageVars   == <<regions, allocated, idSpanMap, pageLists>>
threadVars == <<cache, maxSize, live, held>>
vars == <<process, regions, allocated, span, idSpanMap, pageLists, pageMtx,
          centralLists, bucketMtx, cache, maxSize, live, carved, loose, held, pc, job>>

(* A Span structure with no objects; new leaves it all zero.               *)
SpanOf(pageId, n, isUse) ==
  [pageId |-> pageId, n |-> n, isUse |-> isUse, useCount |-> 0, freeList |-> {}]

NewSpanRecord == SpanOf(0, 0, FALSE)

(* size: the bucket; batch: batchNum; span: the span in hand; start: the   *)
(* list on its way back to the spans.                                      *)
NewJob(size, batch, start) ==
  [size |-> size, batch |-> batch, span |-> NoSpan, start |-> start]

NoJob == NewJob(0, 0, {})

PageOf(addr) == addr \div PAGE_BYTES

PagesOf(s) == span[s].pageId .. (span[s].pageId + span[s].n - 1)
Ends(s) == {span[s].pageId, span[s].pageId + span[s].n - 1}

(* The start addresses GetOneSpan links when it carves a span. *)
Pieces(s, size) ==
  {span[s].pageId * PAGE_BYTES + i * size : i \in 0 .. (CarveCount(span[s].n, size) - 1)}

(* The piece GetOneSpan links last. *)
LastPiece(s, size) == span[s].pageId * PAGE_BYTES + (CarveCount(span[s].n, size) - 1) * size

(* _idSpanMap.find: NoSpan stands for end(). *)
Find(id) == IF id \in Page THEN idSpanMap[id] ELSE NoSpan

Init ==
  /\ process = "running"
  /\ regions = {}
  /\ allocated = {}
  /\ span = [s \in SpanId |-> NewSpanRecord]
  /\ idSpanMap = [id \in Page |-> NoSpan]
  /\ pageLists = [k \in 1 .. (NPAGES - 1) |-> {}]
  /\ pageMtx = NoThread
  /\ centralLists = [size \in Sizes |-> {}]
  /\ bucketMtx = [size \in Sizes |-> NoThread]
  /\ cache = [t \in Thread |-> [size \in Sizes |-> {}]]
  /\ maxSize = [t \in Thread |-> [size \in Sizes |-> 1]]
  /\ live = {}
  /\ carved = {}
  /\ loose = {}
  /\ held = 0
  /\ pc = [t \in Thread |-> "idle"]
  /\ job = [t \in Thread |-> NoJob]

At(t, where) == process = "running" /\ pc[t] = where

Goto(t, where) == pc' = [pc EXCEPT ![t] = where]

-------------------------------------------------------------------------------
(* The parts of the steps that carry a decision, each after the faulty     *)
(* variants of it that the properties are tried against.                   *)

\* variant: one object more is kept than the slow start allows
TooLongLate(t, size, objects) == Cardinality(objects) > maxSize[t][size]

(* The list has reached _maxSize and goes back (ThreadCache::DeAllocate).  *)
TooLong(t, size, objects) == Cardinality(objects) >= maxSize[t][size]

(* What FetchFromCentralCache pushes on the list: all but the first.       *)
Keep(objects, o) == objects \ {o}

\* variant: the span counts the batch as one object
TakeOne(s, objects) ==
  [span EXCEPT ![s].freeList = @ \ objects, ![s].useCount = @ + 1]

(* The objects leave the free list of the span and are counted.            *)
Take(s, objects) ==
  [span EXCEPT ![s].freeList = @ \ objects, ![s].useCount = @ + Cardinality(objects)]

\* variant: a returned object is not counted
DecrementNothing(count) == count

(* size_t: one below zero is the largest value, here MAX_BYTES + 1.        *)
Decrement(count) == IF count = 0 THEN MAX_BYTES + 1 ELSE count - 1

\* variant: only the first page of the span given away is mapped
MapSplitFirstOnly(kSpan, nSpan, first, k, left) ==
  [id \in Page |->
     IF id = first THEN kSpan
     ELSE IF id \in {first + k, first + k + left - 1} THEN nSpan
     ELSE idSpanMap[id]]

(* After a split: every page of the new span, the ends of the rest.        *)
MapSplit(kSpan, nSpan, first, k, left) ==
  [id \in Page |->
     IF id \in first .. (first + k - 1) THEN kSpan
     ELSE IF id \in {first + k, first + k + left - 1} THEN nSpan
     ELSE idSpanMap[id]]

\* variant: the last page of a free span is not mapped
MapEndsFirstOnly(s) == [idSpanMap EXCEPT ![span[s].pageId] = s]

(* After a release: the first and the last page of the span.               *)
MapEnds(s) ==
  [id \in Page |->
     IF id \in {span[s].pageId, span[s].pageId + span[s].n - 1}
       THEN s ELSE idSpanMap[id]]

(* ReleaseSpanToPageCache joins span s with neighbour q unless there is    *)
(* none, it is in use, or the result would be longer than the longest      *)
(* list.                                                                   *)
CanMerge(s, q) ==
  /\ q # NoSpan
  /\ ~ span[q].isUse
  /\ span[s].n + span[q].n <= NPAGES - 1

\* variant: the first page stays where it was
MergeInPlace(s, q, first) ==
  /\ span' = [span EXCEPT ![s].n = @ + span[q].n, ![q] = NewSpanRecord]
  /\ pageLists' = [pageLists EXCEPT ![span[q].n] = @ \ {q}]
  /\ allocated' = allocated \ {q}

(* The neighbour leaves its list and is deleted (what it held is gone); the *)
(* entries of its pages stay in the map.                                   *)
Merge(s, q, first) ==
  /\ span' = [span EXCEPT ![s].pageId = first, ![s].n = @ + span[q].n,
                          ![q] = NewSpanRecord]
  /\ pageLists' = [pageLists EXCEPT ![span[q].n] = @ \ {q}]
  /\ allocated' = allocated \ {q}

-------------------------------------------------------------------------------
(* ThreadCache                                                             *)

(* ThreadCache::Allocate when the free list of the bucket has an object. *)
AllocateCached(t, size) ==
  /\ At(t, "idle")
  /\ Cardinality(live) < MaxLive
  /\ \E o \in cache[t][size] :
       /\ cache' = [cache EXCEPT ![t][size] = @ \ {o}]
       /\ live' = live \cup {<<o, size>>}
  /\ held' = held + 1
  /\ UNCHANGED <<process, links, pageVars, span, pageMtx, centralLists, bucketMtx,
                 maxSize, pc, job>>

(* Allocate when it is empty: FetchFromCentralCache up to the call of      *)
(* FetchRangeObj, with the slow start of the batch.                        *)
AllocateFetch(t, size) ==
  /\ At(t, "idle")
  /\ Cardinality(live) < MaxLive
  /\ cache[t][size] = {}
  /\ LET batchNum == MinOf(maxSize[t][size], NumMoveSize(size))
     IN  /\ job' = [job EXCEPT ![t] = NewJob(size, batchNum, {})]
         /\ maxSize' = [maxSize EXCEPT ![t][size] =
                          IF @ = batchNum THEN @ + 1 ELSE @]
  /\ Goto(t, "fetch")
  /\ UNCHANGED <<process, links, pageVars, span, pageMtx, centralLists, bucketMtx, cache, live, held>>

(* FreeList::_freeList has no initial value: until the first fetch of a    *)
(* list (which is what raises _maxSize above 1) the head may be garbage,   *)
(* and then Empty() is false and Pop() follows a wild pointer.             *)
AllocateWild(t, size) ==
  /\ At(t, "idle")
  /\ Cardinality(live) < MaxLive
  /\ cache[t][size] = {} /\ maxSize[t][size] = 1
  /\ process' = "wild pointer"
  /\ UNCHANGED <<pageVars, links, span, pageMtx, centralLists, bucketMtx, threadVars, pc, job>>

(* ThreadCache::DeAllocate, called by a thread that has its ThreadCache    *)
(* (the assert at concurrentAlloc.h:19) with a block the program holds;    *)
(* when the list reaches _maxSize, ListTooLong pops that many objects and  *)
(* takes them to ReleaseListToSpans.                                       *)
DeAllocate(t, block) ==
  LET o       == block[1]
      size    == block[2]
      objects == cache[t][size] \cup {o}
  IN  /\ At(t, "idle")
      /\ \E any \in Sizes : maxSize[t][any] > 1
      /\ live' = live \ {block}
      /\ held' = held - 1
      /\ IF TooLong(t, size, objects)
           THEN \E range \in SUBSET objects :
                  /\ Cardinality(range) = maxSize[t][size]
                  /\ cache' = [cache EXCEPT ![t][size] = objects \ range]
                  /\ job' = [job EXCEPT ![t] = NewJob(size, 0, range)]
                  /\ Goto(t, "return")
           ELSE /\ cache' = [cache EXCEPT ![t][size] = objects]
                /\ UNCHANGED <<pc, job>>
      /\ UNCHANGED <<process, links, pageVars, span, pageMtx, centralLists, bucketMtx, maxSize>>

-------------------------------------------------------------------------------
(* CentralCache::FetchRangeObj                                             *)

(* Its end, under the bucket lock: up to batchNum objects leave span s, one *)
(* goes to the caller and the others to the free list of the thread.       *)
HandOut(t, s) ==
  LET size == job[t].size
      free == span[s].freeList
  IN  /\ s \in loose => job[t].batch <= Cardinality(free)
      /\ \E objects \in SUBSET free :
           /\ Cardinality(objects) = MinOf(job[t].batch, Cardinality(free))
           /\ \E o \in objects :
                /\ span' = Take(s, objects)
                /\ cache' = [cache EXCEPT ![t][size] = @ \cup Keep(objects, o)]
                /\ live' = live \cup {<<o, size>>}
           /\ held' = held + 1
           /\ job' = [job EXCEPT ![t] = NoJob]
           /\ Goto(t, "idle")

(* The bucket lock is taken and GetOneSpan finds a span with a free        *)
(* object.                                                                 *)
FetchHit(t) ==
  /\ At(t, "fetch")
  /\ bucketMtx[job[t].size] = NoThread
  /\ \E s \in centralLists[job[t].size] : span[s].freeList # {} /\ HandOut(t, s)
  /\ UNCHANGED <<process, links, pageVars, pageMtx, centralLists, bucketMtx, maxSize>>

(* GetOneSpan finds none and gives the bucket lock back.                   *)
FetchMiss(t) ==
  /\ At(t, "fetch")
  /\ bucketMtx[job[t].size] = NoThread
  /\ \A s \in centralLists[job[t].size] : span[s].freeList = {} /\ s \notin loose
  /\ Goto(t, "lockPagesNew")
  /\ UNCHANGED <<process, links, pageVars, span, pageMtx, centralLists, bucketMtx, threadVars, job>>

(* The free list of the span goes on behind its last piece, and the batch  *)
(* is larger than the list: the end of it is read from that memory, and    *)
(* what happens then is undefined (an object that is already out, data of  *)
(* the program, a wild pointer).                                           *)
FetchBeyond(t) ==
  /\ At(t, "fetch") \/ At(t, "hang")
  /\ bucketMtx[job[t].size] = NoThread
  /\ \E s \in loose :
       /\ s \in IF pc[t] = "fetch" THEN centralLists[job[t].size] ELSE {job[t].span}
       /\ Cardinality(span[s].freeList) < job[t].batch
  /\ process' = "stale link"
  /\ UNCHANGED <<pageVars, links, span, pageMtx, centralLists, bucketMtx, threadVars, pc, job>>

(* The new span is carved without a lock: no list leads to it yet.  Each   *)
(* piece is linked to the next one and the last to none: what is in its    *)
(* memory ends the list only if it is zero, which is certain in pages that *)
(* mmap has just returned.  A piece that is too long spoils the next page. *)
Carve(t) ==
  LET s == job[t].span
      size == job[t].size
  IN  /\ At(t, "carve")
      /\ span' = [span EXCEPT ![s].freeList = Pieces(s, size)]
      /\ carved' = carved \cup PagesOf(s) \cup {PageOf(LastPiece(s, size) + size - 1)}
      /\ \/ loose' = loose
         \/ PageOf(LastPiece(s, size)) \in carved /\ loose' = loose \cup {s}
      /\ Goto(t, "hang")
      /\ UNCHANGED <<process, pageVars, pageMtx, centralLists, bucketMtx, threadVars, job>>

(* The bucket lock is taken again, the span is hung up and used.           *)
Hang(t) ==
  LET s == job[t].span
      size == job[t].size
  IN  /\ At(t, "hang")
      /\ bucketMtx[size] = NoThread
      /\ centralLists' = [centralLists EXCEPT ![size] = @ \cup {s}]
      /\ HandOut(t, s)
      /\ UNCHANGED <<process, links, pageVars, pageMtx, bucketMtx, maxSize>>

-------------------------------------------------------------------------------
(* CentralCache::ReleaseListToSpans                                        *)

(* The bucket lock, taken before the first object and after each span that *)
(* went back to the page cache.                                            *)
LockBucket(t) ==
  /\ At(t, "return")
  /\ bucketMtx[job[t].size] = NoThread
  /\ bucketMtx' = [bucketMtx EXCEPT ![job[t].size] = t]
  /\ Goto(t, "release")
  /\ UNCHANGED <<process, links, pageVars, span, pageMtx, centralLists, threadVars, job>>

(* One object: its span is looked up with the bucket lock only, and gets   *)
(* it back.  The last object of a span takes the span off the bucket; the  *)
(* bucket lock is dropped before the page lock is asked for.               *)
ReleaseObject(t) ==
  LET size == job[t].size
  IN  /\ At(t, "release")
      /\ \E o \in job[t].start :
           LET s    == Find(PageOf(o))
               rest == job[t].start \ {o}
               left == Decrement(span[s].useCount)
           IN  /\ s \in allocated
               /\ IF left = 0
                    THEN /\ span' = [span EXCEPT ![s].freeList = {}, ![s].useCount = 0]
                         /\ centralLists' = [c \in Sizes |-> centralLists[c] \ {s}]
                         /\ bucketMtx' = [bucketMtx EXCEPT ![size] = NoThread]
                         /\ job' = [job EXCEPT ![t].start = rest, ![t].span = s]
                         /\ loose' = loose \ {s}
                         /\ Goto(t, "lockPagesGive")
                    ELSE /\ span' = [span EXCEPT ![s].freeList = @ \cup {o},
                                                 ![s].useCount = left]
                         /\ job' = [job EXCEPT ![t].start = rest]
                         /\ UNCHANGED <<centralLists, bucketMtx, loose, pc>>
      /\ UNCHANGED <<process, carved, pageVars, pageMtx, threadVars>>

(* The lookup goes wrong: the page is not in the map (the assert(false) of *)
(* MapObjectToSpan), or the entry is the address of a deleted span.        *)
ReleaseLost(t) ==
  /\ At(t, "release")
  /\ \E o \in job[t].start :
       LET s == Find(PageOf(o))
       IN  \/ s = NoSpan /\ process' = "page not mapped"
           \/ s # NoSpan /\ s \notin allocated /\ process' = "deleted span"
  /\ UNCHANGED <<pageVars, links, span, pageMtx, centralLists, bucketMtx, threadVars, pc, job>>

(* The lookup reads the hash table while the holder of the page lock       *)
(* changes it: undefined, the process may also crash.                      *)
ReleaseRaces(t) ==
  /\ At(t, "release") /\ job[t].start # {}
  /\ pageMtx # NoThread
  /\ process' = "crash in the map"
  /\ UNCHANGED <<pageVars, links, span, pageMtx, centralLists, bucketMtx, threadVars, pc, job>>

ReleaseDone(t) ==
  /\ At(t, "release") /\ job[t].start = {}
  /\ bucketMtx' = [bucketMtx EXCEPT ![job[t].size] = NoThread]
  /\ job' = [job EXCEPT ![t] = NoJob]
  /\ Goto(t, "idle")
  /\ UNCHANGED <<process, links, pageVars, span, pageMtx, centralLists, threadVars>>

-------------------------------------------------------------------------------
(* PageCache, under _pageMtx                                               *)

LockPages(t) ==
  /\ pageMtx = NoThread
  /\ pageMtx' = t
  /\ \/ At(t, "lockPagesNew") /\ Goto(t, "newSpan")
     \/ At(t, "lockPagesGive") /\ Goto(t, "mergePrev")
  /\ UNCHANGED <<process, links, pageVars, span, centralLists, bucketMtx, threadVars, job>>

(* NewSpan when the list of exactly k pages has a span: it is taken as it  *)
(* is, without touching _idSpanMap.  _isUse is set before the unlock.      *)
NewSpanExact(t) ==
  LET k == NumMovePage(job[t].size)
  IN  /\ At(t, "newSpan")
      /\ \E s \in pageLists[k] :
           /\ pageLists' = [pageLists EXCEPT ![k] = @ \ {s}]
           /\ span' = [span EXCEPT ![s].isUse = TRUE]
           /\ job' = [job EXCEPT ![t].span = s]
      /\ pageMtx' = NoThread
      /\ Goto(t, "carve")
      /\ UNCHANGED <<process, links, regions, allocated, idSpanMap, centralLists, bucketMtx, threadVars>>

(* NewSpan when a longer list has one: the first k pages of it become a    *)
(* new span with all its pages in the map, the rest goes to the list of    *)
(* its length with its first and last page in the map.                     *)
NewSpanSplit(t) ==
  LET k == NumMovePage(job[t].size)
  IN  /\ At(t, "newSpan")
      /\ \E i \in (k + 1) .. (NPAGES - 1) :
           /\ \A j \in k .. (i - 1) : pageLists[j] = {}
           /\ \E nSpan \in pageLists[i], kSpan \in SpanId \ allocated :
                LET first == span[nSpan].pageId
                    left  == span[nSpan].n - k
                IN  /\ allocated' = allocated \cup {kSpan}
                    /\ span' = [span EXCEPT
                         ![kSpan] = SpanOf(first, k, TRUE),
                         ![nSpan].pageId = first + k,
                         ![nSpan].n = left]
                    /\ pageLists' = [pageLists EXCEPT ![i] = @ \ {nSpan},
                                                      ![left] = @ \cup {nSpan}]
                    /\ idSpanMap' = MapSplit(kSpan, nSpan, first, k, left)
                    /\ job' = [job EXCEPT ![t].span = kSpan]
      /\ pageMtx' = NoThread
      /\ Goto(t, "carve")
      /\ UNCHANGED <<process, links, regions, centralLists, bucketMtx, threadVars>>

(* NewSpan when no list from k up has one: mmap returns a region of        *)
(* NPAGES - 1 pages, which is listed but not put into the map, and NewSpan *)
(* calls itself.                                                           *)
NewSpanGrow(t) ==
  /\ At(t, "newSpan")
  /\ \A i \in NumMovePage(job[t].size) .. (NPAGES - 1) : pageLists[i] = {}
  /\ \E base \in Base \ regions, bigSpan \in SpanId \ allocated :
       /\ regions' = regions \cup {base}
       /\ allocated' = allocated \cup {bigSpan}
       /\ span' = [span EXCEPT ![bigSpan] = SpanOf(base, NPAGES - 1, FALSE)]
       /\ pageLists' = [pageLists EXCEPT ![NPAGES - 1] = @ \cup {bigSpan}]
  /\ UNCHANGED <<process, links, idSpanMap, pageMtx, centralLists, bucketMtx, threadVars, pc, job>>

(* mmap fails and SystemAlloc exits.                                       *)
NewSpanExit(t) ==
  /\ At(t, "newSpan")
  /\ \A i \in NumMovePage(job[t].size) .. (NPAGES - 1) : pageLists[i] = {}
  /\ process' = "exited"
  /\ UNCHANGED <<pageVars, links, span, pageMtx, centralLists, bucketMtx, threadVars, pc, job>>

(* One turn of the loop over the pages before the span.                    *)
MergePrev(t) ==
  LET s == job[t].span
      q == Find(span[s].pageId - 1)
  IN  /\ At(t, "mergePrev")
      /\ IF CanMerge(s, q)
           THEN Merge(s, q, span[q].pageId) /\ UNCHANGED pc
           ELSE Goto(t, "mergeNext") /\ UNCHANGED <<span, pageLists, allocated>>
      /\ UNCHANGED <<process, links, regions, idSpanMap, pageMtx, centralLists, bucketMtx,
                     threadVars, job>>

(* One turn of the loop over the pages after it; when that ends the span   *)
(* is listed, marked free, put into the map with its first and last page,  *)
(* and the page lock is released.                                          *)
MergeNext(t) ==
  LET s == job[t].span
      q == Find(span[s].pageId + span[s].n)
  IN  /\ At(t, "mergeNext")
      /\ IF CanMerge(s, q)
           THEN /\ Merge(s, q, span[s].pageId)
                /\ UNCHANGED <<idSpanMap, pageMtx, pc, job>>
           ELSE /\ pageLists' = [pageLists EXCEPT ![span[s].n] = @ \cup {s}]
                /\ span' = [span EXCEPT ![s].isUse = FALSE]
                /\ idSpanMap' = MapEnds(s)
                /\ pageMtx' = NoThread
                /\ job' = [job EXCEPT ![t].span = NoSpan]
                /\ Goto(t, "return")
                /\ UNCHANGED allocated
      /\ UNCHANGED <<process, links, regions, centralLists, bucketMtx, threadVars>>

-------------------------------------------------------------------------------

(* A process that has ended takes no step.                                 *)
Ended == process # "running" /\ UNCHANGED vars

(* The steps of a call that has begun.                                     *)
InPool(t) ==
  \/ FetchHit(t) \/ FetchMiss(t) \/ FetchBeyond(t) \/ Carve(t) \/ Hang(t)
  \/ LockBucket(t) \/ ReleaseObject(t) \/ ReleaseLost(t) \/ ReleaseRaces(t) \/ ReleaseDone(t)
  \/ LockPages(t)
  \/ NewSpanExact(t) \/ NewSpanSplit(t) \/ NewSpanGrow(t) \/ NewSpanExit(t)
  \/ MergePrev(t) \/ MergeNext(t)

Call(t) ==
  \/ \E size \in Sizes : AllocateCached(t, size) \/ AllocateFetch(t, size) \/ AllocateWild(t, size)
  \/ \E block \in live : DeAllocate(t, block)

Next == (\E t \in Thread : Call(t) \/ InPool(t)) \/ Ended

Spec == Init /\ [][Next]_vars

(* The operating system runs some thread that is inside the pool; which    *)
(* one gets a mutex is not promised.                                       *)
FairSpec == Spec /\ WF_vars(\E t \in Thread : InPool(t))

-------------------------------------------------------------------------------
(* Properties                                                              *)

Where == {"idle", "fetch", "lockPagesNew", "newSpan", "carve", "hang",
          "return", "release", "lockPagesGive", "mergePrev", "mergeNext"}

Endings == {"stale link", "wild pointer", "page not mapped", "deleted span", "crash in the map", "exited"}

(* The type invariant.                                                     *)
TypeOK ==
  /\ process \in {"running"} \cup Endings
  /\ regions \subseteq Base
  /\ allocated \subseteq SpanId
  /\ span \in [SpanId -> [pageId : Nat, n : Nat, isUse : BOOLEAN,
                          useCount : Nat, freeList : SUBSET Nat]]
  /\ idSpanMap \in [Page -> SpanId \cup {NoSpan}]
  /\ pageLists \in [1 .. (NPAGES - 1) -> SUBSET SpanId]
  /\ pageMtx \in Thread \cup {NoThread}
  /\ centralLists \in [Sizes -> SUBSET SpanId]
  /\ bucketMtx \in [Sizes -> Thread \cup {NoThread}]
  /\ cache \in [Thread -> [Sizes -> SUBSET Nat]]
  /\ maxSize \in [Thread -> [Sizes -> Nat]]
  /\ live \subseteq Nat \X Sizes
  /\ carved \subseteq Nat
  /\ loose \subseteq SpanId
  /\ held \in Int
  /\ pc \in [Thread -> Where]
  /\ job \in [Thread -> [size : Sizes \cup {0}, batch : 0 .. MAX_MOVE,
                         span : SpanId \cup {NoSpan}, start : SUBSET Nat]]

Hung == UNION {centralLists[size] : size \in Sizes}

(* The objects of a bucket that are in the list a thread is returning, in  *)
(* its cache, or with the program.                                         *)
Returning(t, size) == IF job[t].size = size THEN job[t].start ELSE {}
Held(size) == {o \in {block[1] : block \in live} : <<o, size>> \in live}

Outside(size) ==
  Held(size) \cup UNION {cache[t][size] \cup Returning(t, size) : t \in Thread}

(* Each object of a span in use is in exactly one place: the free list of  *)
(* the span, one thread's cache, one list being returned, or the program's *)
(* hands.  None is lost and none is in two places.                         *)
OneHome ==
  \A size \in Sizes :
    /\ \A s \in centralLists[size] :
         /\ span[s].freeList \subseteq Pieces(s, size)
         /\ \A o \in Pieces(s, size) : o \in span[s].freeList <=> o \notin Outside(size)
    /\ \A t \in Thread :
         /\ cache[t][size] \cap Held(size) = {}
         /\ Returning(t, size) \cap Held(size) = {}
         /\ \A u \in Thread :
              /\ cache[t][size] \cap Returning(u, size) = {}
              /\ t # u => /\ cache[t][size] \cap cache[u][size] = {}
                          /\ Returning(t, size) \cap Returning(u, size) = {}

(* _useCount of a span in a bucket is the number of its objects that are   *)
(* away, and is never zero between two critical sections: a span whose     *)
(* objects are all back goes to the page cache, and only such a span does. *)
UseCountExact ==
  \A size \in Sizes : \A s \in centralLists[size] :
    /\ span[s].useCount > 0
    /\ span[s].useCount = Cardinality(Pieces(s, size) \ span[s].freeList)

(* No object is lost or given out twice, and the counters say so, until a  *)
(* fetch reads past the end of an unterminated list (CentralCache.cpp:42), *)
(* which ends the process here.                                            *)
ObjectsAccounted == OneHome /\ UseCountExact

(* MapObjectToSpan finds, for an object that is away from its span and     *)
(* lies in the first or last page of it, the span in the bucket it was     *)
(* carved for (PageCache.cpp:30, "the page numbers of the k-page span      *)
(* given to the central cache are mapped to it").  Inner pages may have    *)
(* the entries of an earlier life (PageCache.cpp:8).  Again until a fetch  *)
(* reads past an unterminated list.                                        *)
MapFindsOwner ==
  \A size \in Sizes : \A o \in Outside(size) :
    \E s \in centralLists[size] :
      /\ o \in Pieces(s, size)
      /\ PageOf(o) \in Ends(s) => Find(PageOf(o)) = s

(* Every page of a region belongs to exactly one span, also while a span   *)
(* absorbs its neighbours: no page is lost and none is given out twice.    *)
PagesPartitioned ==
  /\ \A s, r \in allocated : s # r => PagesOf(s) \cap PagesOf(r) = {}
  /\ UNION {PagesOf(s) : s \in allocated} = UNION {b .. (b + NPAGES - 2) : b \in regions}

InHand == {job[t].span : t \in Thread} \ {NoSpan}

(* A span is in exactly one of: the page-cache list of its own length (and *)
(* then it is not in use), one bucket, one thread's hands; none is lost.   *)
SpanInOnePlace ==
  /\ \A k \in 1 .. (NPAGES - 1) : \A s \in pageLists[k] :
       s \in allocated /\ span[s].n = k /\ ~ span[s].isUse /\ s \notin Hung \cup InHand
  /\ \A s \in allocated : ~ span[s].isUse => \E k \in 1 .. (NPAGES - 1) : s \in pageLists[k]
  /\ \A s \in Hung : s \in allocated /\ s \notin InHand
  /\ \A s \in allocated : span[s].isUse => s \in Hung \cup InHand
  /\ \A c, d \in Sizes : c # d => centralLists[c] \cap centralLists[d] = {}
  /\ \A t, u \in Thread : t # u /\ job[t].span # NoSpan => job[t].span # job[u].span

(* With regions that do not touch, two free spans are never neighbours:    *)
(* every release joined what could be joined (PageCache.cpp:62 and 91).    *)
Coalesced ==
  \A k, m \in 1 .. (NPAGES - 1) : \A s \in pageLists[k], r \in pageLists[m] :
    span[s].pageId + span[s].n # span[r].pageId

(* No page is lost or given out twice, the lists of spans say so, and no   *)
(* free page is lost for a larger span, until a fetch reads past an        *)
(* unterminated list.                                                      *)
PagesAccounted == PagesPartitioned /\ SpanInOnePlace /\ Coalesced

(* A thread's list stays below its _maxSize between two calls, and         *)
(* _maxSize never passes one more than the batch limit, so a thread        *)
(* hoards a bounded number of objects (the assert n <= _size of PopRange   *)
(* holds because the list is cut exactly when it reaches _maxSize).        *)
CacheBounded ==
  \A t \in Thread : \A size \in Sizes :
    /\ Cardinality(cache[t][size]) < maxSize[t][size]
    /\ maxSize[t][size] <= NumMoveSize(size) + 1

(* The pool implements the abstract heap: the blocks it gives out are free *)
(* memory, as long as no fetch reads past an unterminated list; the block  *)
(* after that may be anything, and the process ends here.                  *)
H == INSTANCE Heap
ImplementsHeap == H!Spec

(* If every thread is inside the pool, some call ends: no deadlock, no     *)
(* livelock between the bucket locks and the page lock, although a bucket  *)
(* lock is dropped and retaken in the middle of both operations.           *)
SomeCallEnds ==
  (\A t \in Thread : pc[t] # "idle")
    ~> ((\E t \in Thread : pc[t] = "idle") \/ process # "running")

===============================================================================
