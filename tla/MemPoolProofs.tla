----------------------------- MODULE MemPoolProofs -----------------------------
(***************************************************************************)
(* What holds of MemPool for every number of threads, every set of sizes   *)
(* and every page size.  There are two inductive invariants.               *)
(*                                                                         *)
(* IInv holds of every behaviour, also after a stale entry of _idSpanMap   *)
(* has been followed: a thread's caches stay bounded.  It assumes nothing  *)
(* of the spans beyond their being spans with finite lists.                *)
(*                                                                         *)
(* Sound stands on it and says what the rest of the pool is worth: the     *)
(* spans partition the pages (PagesSound) and account for the objects      *)
(* (ObjectsSound).  A stale entry that leads to another span breaks it, so *)
(* it is proved as long as the lookup of a release finds the owner         *)
(* (LookupFindsOwner), and that is proved in turn for spans without inner  *)
(* pages.                                                                  *)
(*                                                                         *)
(* What is proved of the pool is proved until the process ends, and one of *)
(* the ends is a fetch that follows the link behind a list GetOneSpan did  *)
(* not terminate (FetchBeyond): nothing is known of the code after it.     *)
(***************************************************************************)
EXTENDS MemPool, FiniteSetTheorems, FunctionTheorems, TLAPS

SpanRecord == [pageId : Int, n : Int, isUse : BOOLEAN, useCount : Int, freeList : SUBSET Int]

JobRecord == [size : Sizes \cup {0}, batch : 0 .. MAX_MOVE,
              span : SpanId \cup {NoSpan}, start : SUBSET Int]

(* The spans and what leads to them.                                       *)
SpansTyped ==
  /\ allocated \subseteq SpanId
  /\ span \in [SpanId -> SpanRecord]
  /\ idSpanMap \in [Page -> SpanId \cup {NoSpan}]
  /\ pageLists \in [1 .. (NPAGES - 1) -> SUBSET SpanId]
  /\ centralLists \in [Sizes -> SUBSET SpanId]

(* The state of the threads.                                               *)
ThreadsTyped ==
  /\ cache \in [Thread -> [Sizes -> SUBSET Int]]
  /\ maxSize \in [Thread -> [Sizes -> Nat]]
  /\ live \subseteq Int \X Sizes
  /\ pc \in [Thread -> Where]
  /\ job \in [Thread -> JobRecord]

FiniteLists ==
  /\ \A s \in SpanId : IsFiniteSet(span[s].freeList)
  /\ \A t \in Thread : \A size \in Sizes : IsFiniteSet(cache[t][size])

Fetching == {"fetch", "lockPagesNew", "newSpan", "carve", "hang"}

(* While a thread fetches, its list is empty and the batch is one its      *)
(* _maxSize has room for.                                                  *)
FetchFits ==
  \A t \in Thread : pc[t] \in Fetching =>
    /\ job[t].size \in Sizes
    /\ cache[t][job[t].size] = {}
    /\ job[t].batch <= maxSize[t][job[t].size]

WithSpan == {"carve", "hang", "lockPagesGive", "mergePrev", "mergeNext"}

(* A thread with a span in hand has one.                                   *)
HasSpan == \A t \in Thread : pc[t] \in WithSpan => job[t].span \in SpanId

IInv == SpansTyped /\ ThreadsTyped /\ FiniteLists /\ FetchFits /\ HasSpan /\ CacheBounded

-------------------------------------------------------------------------------
(* Arithmetic.                                                             *)

LEMMA SizesArePositive ==
  \A size \in Sizes : size \in Nat /\ size > 0
BY MemPoolAssumption, SizeClassAssumption

(* A batch has between two and MAX_MOVE objects.                           *)
LEMMA NumMoveSizeBounds ==
  ASSUME NEW size \in Sizes
  PROVE  NumMoveSize(size) \in 2 .. MAX_MOVE
<1>. DEFINE num == MAX_BYTES \div size
<1>1. num \in Nat
  BY SizesArePositive, SizeClassAssumption
<1>. QED  BY <1>1, SizeClassAssumption DEF NumMoveSize, MinOf

LEMMA NumMovePageType ==
  ASSUME NEW size \in Sizes
  PROVE  NumMovePage(size) \in Nat \ {0}
<1>. DEFINE npages == (NumMoveSize(size) * size) \div PAGE_BYTES
<1>1. NumMoveSize(size) * size \in Nat
  BY NumMoveSizeBounds, SizesArePositive
<1>2. npages \in Nat
  BY <1>1, SizeClassAssumption
<1>. QED  BY <1>2 DEF NumMovePage

(* Carving makes finitely many objects.                                    *)
LEMMA PiecesAreFinite ==
  ASSUME NEW s \in SpanId, NEW size \in Sizes, span \in [SpanId -> SpanRecord]
  PROVE  Pieces(s, size) \in SUBSET Int /\ IsFiniteSet(Pieces(s, size))
<1>. DEFINE count == CarveCount(span[s].n, size)
            at(i) == span[s].pageId * PAGE_BYTES + i * size
<1>1. span[s].n \in Int /\ span[s].pageId \in Int
  BY DEF SpanRecord
<1>2. count \in Int
  <2>1. span[s].n * PAGE_BYTES + size - 1 \in Int
    BY <1>1, SizesArePositive, SizeClassAssumption
  <2>. QED  BY <2>1, SizesArePositive DEF CarveCount
<1>3. IsFiniteSet(0 .. (count - 1))
  BY <1>2, FS_Interval
<1>4. \A i \in 0 .. (count - 1) : at(i) \in Int
  BY <1>1, <1>2, SizesArePositive, SizeClassAssumption
<1>. HIDE DEF count
<1>5. [i \in 0 .. (count - 1) |-> at(i)] \in Surjection(0 .. (count - 1), Pieces(s, size))
  <2>1. Pieces(s, size) = {at(i) : i \in 0 .. (count - 1)}
    BY DEF Pieces, count
  <2>. QED  BY <2>1, Fun_IsSurj
<1>6. IsFiniteSet(Pieces(s, size))
  BY <1>3, <1>5, FS_Surjection
<1>. QED  BY <1>4, <1>6 DEF Pieces, count

-------------------------------------------------------------------------------
(* The parts of a step.                                                    *)

(* A span that changes its list and its counter.                           *)
LEMMA CountedSpan ==
  ASSUME span \in [SpanId -> SpanRecord], NEW s \in SpanId,
         NEW count \in Int, NEW list \in SUBSET Int
  PROVE  [span EXCEPT ![s].freeList = list, ![s].useCount = count] \in [SpanId -> SpanRecord]
BY DEF SpanRecord

(* A batch that leaves a span fits into the empty list of its thread: one  *)
(* of its objects goes to the program.                                     *)
LEMMA KeepFits ==
  ASSUME NEW free, IsFiniteSet(free), NEW objects \in SUBSET free,
         NEW batch \in Nat, Cardinality(objects) = MinOf(batch, Cardinality(free)),
         NEW o \in objects
  PROVE  /\ IsFiniteSet(Keep(objects, o))
         /\ Cardinality(Keep(objects, o)) < batch
         /\ Cardinality(objects) \in Nat
<1>1. IsFiniteSet(objects) /\ Cardinality(objects) <= Cardinality(free)
  BY FS_Subset
<1>2. Cardinality(objects) \in Nat /\ Cardinality(free) \in Nat
  BY <1>1, FS_CardinalityType
<1>3. Cardinality(objects) <= batch
  BY <1>2 DEF MinOf
<1>4. /\ IsFiniteSet(objects \ {o})
      /\ Cardinality(objects \ {o}) = Cardinality(objects) - 1
  BY <1>1, FS_RemoveElement
<1>. QED  BY <1>2, <1>3, <1>4 DEF Keep

(* One list of one thread changes and stays below its _maxSize.            *)
LEMMA OneListChanges ==
  ASSUME CacheBounded, ThreadsTyped, NEW t \in Thread, NEW size \in Sizes, NEW kept,
         cache' = [cache EXCEPT ![t][size] = kept],
         Cardinality(kept) < maxSize[t][size], UNCHANGED maxSize
  PROVE  CacheBounded'
BY DEF CacheBounded, ThreadsTyped

LEMMA InitInvariant == Init => IInv
<1>. SUFFICES ASSUME Init PROVE IInv
  OBVIOUS
<1>. USE DEF Init
<1>1. SpansTyped
  BY DEF SpansTyped, SpanRecord, NewSpanRecord, SpanOf
<1>2. ThreadsTyped
  BY SizeClassAssumption DEF ThreadsTyped, NoJob, NewJob, JobRecord, Where
<1>3. FiniteLists
  BY FS_EmptySet DEF FiniteLists, NewSpanRecord, SpanOf
<1>4. FetchFits
  BY DEF FetchFits, Fetching
<1>6. HasSpan
  BY DEF HasSpan, WithSpan
<1>5. CacheBounded
  BY FS_EmptySet, NumMoveSizeBounds, SizeClassAssumption DEF CacheBounded
<1>. QED  BY <1>1, <1>2, <1>3, <1>4, <1>5, <1>6 DEF IInv

(* HandOut fills the list of a fetching thread.                            *)
LEMMA HandOutStep ==
  ASSUME IInv, NEW t \in Thread, pc[t] \in Fetching,
         NEW s \in SpanId, HandOut(t, s), UNCHANGED maxSize
  PROVE  /\ span' \in [SpanId -> SpanRecord]
         /\ ThreadsTyped'
         /\ FiniteLists'
         /\ FetchFits'
         /\ HasSpan'
         /\ CacheBounded'
<1>. DEFINE size == job[t].size
            free == span[s].freeList
<1>a. PICK objects \in SUBSET free :
        /\ Cardinality(objects) = MinOf(job[t].batch, Cardinality(free))
        /\ \E o \in objects :
             /\ span' = Take(s, objects)
             /\ cache' = [cache EXCEPT ![t][size] = @ \cup Keep(objects, o)]
             /\ live' = live \cup {<<o, size>>}
  BY DEF HandOut
<1>1. PICK o \in objects :
        /\ Cardinality(objects) = MinOf(job[t].batch, Cardinality(free))
        /\ span' = Take(s, objects)
        /\ cache' = [cache EXCEPT ![t][size] = @ \cup Keep(objects, o)]
        /\ live' = live \cup {<<o, size>>}
  BY <1>a
<1>2. /\ job' = [job EXCEPT ![t] = NoJob]
      /\ pc' = [pc EXCEPT ![t] = "idle"]
  BY DEF HandOut, Goto
<1>3. /\ size \in Sizes
      /\ cache[t][size] = {}
      /\ job[t].batch <= maxSize[t][size]
  BY DEF IInv, FetchFits
<1>4. /\ IsFiniteSet(free)
      /\ free \subseteq Int
      /\ job[t].batch \in Nat
  BY SizeClassAssumption DEF IInv, FiniteLists, SpansTyped, ThreadsTyped, SpanRecord, JobRecord
<1>5. /\ IsFiniteSet(Keep(objects, o))
      /\ Cardinality(Keep(objects, o)) < job[t].batch
      /\ Cardinality(objects) \in Nat
  BY <1>1, <1>4, KeepFits
<1>6. Keep(objects, o) \subseteq Int /\ o \in Int
  BY <1>4 DEF Keep
<1>7. cache' = [cache EXCEPT ![t][size] = Keep(objects, o)]
  BY <1>1, <1>3 DEF IInv, ThreadsTyped
<1>8. span' \in [SpanId -> SpanRecord]
  <2>. DEFINE count == span[s].useCount + Cardinality(objects)
              list  == free \ objects
  <2>1. count \in Int /\ list \in SUBSET Int
    BY <1>4, <1>5 DEF IInv, SpansTyped, SpanRecord
  <2>2. span' = [span EXCEPT ![s].freeList = list, ![s].useCount = count]
    BY <1>1 DEF Take
  <2>. HIDE DEF count, list
  <2>. QED  BY <2>1, <2>2, CountedSpan DEF IInv, SpansTyped
<1>9. ThreadsTyped'
  BY <1>1, <1>2, <1>3, <1>6, <1>7, SizeClassAssumption
  DEF IInv, ThreadsTyped, NoJob, NewJob, JobRecord, Where
<1>10. FiniteLists'
  <2>1. \A r \in SpanId : IsFiniteSet(span'[r].freeList)
    <3>1. IsFiniteSet(free \ objects)
      BY <1>4, FS_Subset
    <3>. QED  BY <1>1, <3>1 DEF Take, IInv, FiniteLists, SpansTyped, SpanRecord
  <2>. QED  BY <2>1, <1>3, <1>5, <1>7 DEF IInv, FiniteLists, ThreadsTyped
<1>11. FetchFits'
  BY <1>2, <1>7 DEF IInv, FetchFits, Fetching, ThreadsTyped
<1>13. HasSpan'
  BY <1>2 DEF IInv, HasSpan, WithSpan, ThreadsTyped
<1>12. CacheBounded'
  <2>1. Cardinality(Keep(objects, o)) < maxSize[t][size]
    <3>1. Cardinality(Keep(objects, o)) \in Nat /\ maxSize[t][size] \in Nat
      BY <1>3, <1>5, FS_CardinalityType DEF IInv, ThreadsTyped
    <3>. QED  BY <1>3, <1>4, <1>5, <3>1
  <2>. QED  BY <2>1, <1>3, <1>7, OneListChanges DEF IInv
<1>. QED  BY <1>8, <1>9, <1>10, <1>11, <1>12, <1>13

-------------------------------------------------------------------------------
(* One lemma per group of steps.                                           *)

(* The program's calls.                                                    *)
LEMMA AllocateCachedStep ==
  ASSUME IInv, NEW t \in Thread, NEW size \in Sizes, AllocateCached(t, size)
  PROVE  IInv'
<1>. USE DEF IInv, AllocateCached, pageVars, threadVars, At
<1>1. PICK o \in cache[t][size] :
        /\ cache' = [cache EXCEPT ![t][size] = @ \ {o}]
        /\ live' = live \cup {<<o, size>>}
  OBVIOUS
<1>2. /\ IsFiniteSet(cache[t][size] \ {o})
      /\ Cardinality(cache[t][size] \ {o}) <= Cardinality(cache[t][size])
      /\ Cardinality(cache[t][size] \ {o}) \in Nat
      /\ Cardinality(cache[t][size]) \in Nat
  BY FS_Subset, FS_CardinalityType DEF FiniteLists
<1>3. SpansTyped'
  BY DEF SpansTyped
<1>4. ThreadsTyped'
  BY <1>1 DEF ThreadsTyped
<1>5. FiniteLists'
  BY <1>1, <1>2 DEF FiniteLists, ThreadsTyped
<1>6. FetchFits'
  BY <1>1 DEF FetchFits, Fetching, ThreadsTyped
<1>8. HasSpan'
  BY DEF HasSpan
<1>7. CacheBounded'
  <2>1. Cardinality(cache[t][size] \ {o}) < maxSize[t][size]
    BY <1>2 DEF CacheBounded, ThreadsTyped
  <2>2. cache' = [cache EXCEPT ![t][size] = cache[t][size] \ {o}]
    BY <1>1 DEF ThreadsTyped
  <2>. QED  BY <2>1, <2>2, OneListChanges
<1>. QED  BY <1>3, <1>4, <1>5, <1>6, <1>7, <1>8

LEMMA AllocateFetchStep ==
  ASSUME IInv, NEW t \in Thread, NEW size \in Sizes, AllocateFetch(t, size)
  PROVE  IInv'
<1>. USE DEF IInv, AllocateFetch, pageVars, threadVars, At, Goto
<1>. DEFINE batchNum == MinOf(maxSize[t][size], NumMoveSize(size))
<1>1. /\ maxSize[t][size] \in Nat
      /\ NumMoveSize(size) \in 2 .. MAX_MOVE
      /\ maxSize[t][size] <= NumMoveSize(size) + 1
  BY NumMoveSizeBounds DEF ThreadsTyped, CacheBounded
<1>2. /\ batchNum \in 0 .. MAX_MOVE
      /\ batchNum <= maxSize[t][size]
      /\ maxSize[t][size] = batchNum => maxSize[t][size] <= NumMoveSize(size)
  BY <1>1, SizeClassAssumption DEF MinOf
<1>3. /\ job' = [job EXCEPT ![t] = NewJob(size, batchNum, {})]
      /\ maxSize' = [maxSize EXCEPT ![t][size] = IF @ = batchNum THEN @ + 1 ELSE @]
      /\ pc' = [pc EXCEPT ![t] = "fetch"]
  OBVIOUS
<1>. HIDE DEF batchNum
<1>4. SpansTyped'
  BY DEF SpansTyped
<1>5. maxSize' \in [Thread -> [Sizes -> Nat]]
  BY <1>1, <1>3 DEF ThreadsTyped
<1>6. ThreadsTyped'
  BY <1>2, <1>3, <1>5 DEF ThreadsTyped, JobRecord, NewJob, Where
<1>7. FiniteLists'
  BY DEF FiniteLists
<1>8. \A u \in Thread, c \in Sizes :
        maxSize[u][c] <= maxSize'[u][c] /\ (maxSize'[u][c] <= NumMoveSize(c) + 1)
  BY <1>1, <1>2, <1>3 DEF ThreadsTyped, CacheBounded
<1>9. FetchFits'
  <2>. SUFFICES ASSUME NEW u \in Thread, pc'[u] \in Fetching
                PROVE  /\ job'[u].size \in Sizes
                       /\ cache'[u][job'[u].size] = {}
                       /\ job'[u].batch <= maxSize'[u][job'[u].size]
    BY DEF FetchFits
  <2>1. CASE u = t
    BY <2>1, <1>1, <1>2, <1>3, <1>8 DEF ThreadsTyped, NewJob
  <2>2. CASE u # t
    BY <2>2, <1>3 DEF ThreadsTyped, FetchFits, NewJob
  <2>. QED  BY <2>1, <2>2
<1>11. HasSpan'
  BY <1>3 DEF HasSpan, WithSpan, ThreadsTyped
<1>10. CacheBounded'
  <2>1. \A u \in Thread, c \in Sizes : Cardinality(cache[u][c]) \in Nat
    BY FS_CardinalityType DEF FiniteLists
  <2>. QED  BY <2>1, <1>5, <1>8 DEF CacheBounded, ThreadsTyped
<1>. QED  BY <1>4, <1>6, <1>7, <1>9, <1>10, <1>11

LEMMA DeAllocateStep ==
  ASSUME IInv, NEW t \in Thread, NEW block \in live, DeAllocate(t, block)
  PROVE  IInv'
<1>. USE DEF IInv, pageVars, threadVars
<1>. DEFINE o       == block[1]
            size    == block[2]
            objects == cache[t][size] \cup {o}
<1>1. size \in Sizes /\ o \in Int /\ objects \in SUBSET Int
  BY DEF ThreadsTyped
<1>2. /\ maxSize[t][size] \in Nat
      /\ Cardinality(cache[t][size]) \in Nat
      /\ Cardinality(cache[t][size]) < maxSize[t][size]
      /\ IsFiniteSet(cache[t][size])
  BY <1>1, FS_CardinalityType DEF ThreadsTyped, FiniteLists, CacheBounded
<1>3. /\ IsFiniteSet(objects)
      /\ Cardinality(objects) \in Nat
      /\ Cardinality(objects) <= Cardinality(cache[t][size]) + 1
  <2>1. /\ IsFiniteSet(objects)
        /\ Cardinality(objects) = IF o \in cache[t][size] THEN Cardinality(cache[t][size])
                                   ELSE Cardinality(cache[t][size]) + 1
    BY <1>2, FS_AddElement
  <2>. QED  BY <1>2, <2>1
<1>4. PICK kept \in SUBSET objects, range \in SUBSET objects, where \in {"idle", "return"} :
        /\ cache' = [cache EXCEPT ![t][size] = kept]
        /\ Cardinality(kept) < maxSize[t][size]
        /\ pc' = [pc EXCEPT ![t] = where]
        /\ job' = [job EXCEPT ![t] = IF where = "return"
                                        THEN NewJob(size, 0, range)
                                        ELSE job[t]]
  <2>1. CASE TooLong(t, size, objects)
    <3>1. PICK range \in SUBSET objects :
            /\ Cardinality(range) = maxSize[t][size]
            /\ cache' = [cache EXCEPT ![t][size] = objects \ range]
            /\ job' = [job EXCEPT ![t] = NewJob(size, 0, range)]
            /\ pc' = [pc EXCEPT ![t] = "return"]
      BY <2>1 DEF DeAllocate, Goto
    <3>2. Cardinality(objects \ range) = Cardinality(objects) - Cardinality(range)
      <4>1. objects \cap range = range
        OBVIOUS
      <4>. HIDE DEF objects
      <4>. QED  BY <4>1, <1>3, FS_Difference
    <3>3. Cardinality(objects \ range) < maxSize[t][size]
      BY <1>2, <1>3, <3>1, <3>2
    <3>. HIDE DEF objects
    <3>. QED  BY <3>1, <3>3
  <2>2. CASE ~ TooLong(t, size, objects)
    <3>1. Cardinality(objects) < maxSize[t][size]
      BY <2>2, <1>2, <1>3 DEF TooLong
    <3>2. /\ cache' = [cache EXCEPT ![t][size] = objects]
          /\ UNCHANGED <<pc, job>>
      BY <2>2 DEF DeAllocate
    <3>3. /\ pc' = [pc EXCEPT ![t] = "idle"]
          /\ job' = [job EXCEPT ![t] = job[t]]
      BY <3>2 DEF DeAllocate, At, ThreadsTyped
    <3>. HIDE DEF objects
    <3>. QED  BY <3>1, <3>2, <3>3
  <2>. QED  BY <2>1, <2>2
<1>5. IsFiniteSet(kept) /\ IsFiniteSet(range)
  BY <1>3, FS_Subset
<1>6. /\ live' = live \ {block}
      /\ pc[t] = "idle"
      /\ UNCHANGED <<allocated, span, idSpanMap, pageLists, centralLists, maxSize>>
  BY DEF DeAllocate, At
<1>. HIDE DEF objects, size, o
<1>7. SpansTyped'
  BY <1>6 DEF SpansTyped
<1>8. ThreadsTyped'
  <2>1. job'[t] \in JobRecord
    <3>1. job[t] \in JobRecord /\ NewJob(size, 0, range) \in JobRecord
      BY <1>1, SizeClassAssumption DEF ThreadsTyped, NewJob, JobRecord
    <3>. QED  BY <1>4, <3>1 DEF ThreadsTyped
  <2>2. job' \in [Thread -> JobRecord]
    BY <1>4, <2>1 DEF ThreadsTyped
  <2>3. pc' \in [Thread -> Where]
    BY <1>4 DEF ThreadsTyped, Where
  <2>. QED  BY <1>1, <1>4, <1>6, <2>2, <2>3 DEF ThreadsTyped
<1>9. FiniteLists'
  BY <1>1, <1>4, <1>5, <1>6 DEF FiniteLists, ThreadsTyped
<1>10. FetchFits'
  BY <1>1, <1>4, <1>6 DEF FetchFits, Fetching, ThreadsTyped
<1>12. HasSpan'
  BY <1>4, <1>6 DEF HasSpan, WithSpan, ThreadsTyped
<1>11. CacheBounded'
  BY <1>1, <1>4, <1>6, OneListChanges
<1>. QED  BY <1>7, <1>8, <1>9, <1>10, <1>11, <1>12

-------------------------------------------------------------------------------
(* The steps inside the pool.                                              *)

(* A step that leaves the caches alone and moves one thread; a thread that *)
(* keeps fetching keeps its size and batch.                                *)
LEMMA ThreadMoves ==
  ASSUME IInv, NEW t \in Thread, NEW j \in JobRecord, NEW where \in Where,
         UNCHANGED threadVars,
         job' = [job EXCEPT ![t] = j], pc' = [pc EXCEPT ![t] = where],
         where \in Fetching =>
           pc[t] \in Fetching /\ j.size = job[t].size /\ j.batch = job[t].batch,
         where \in WithSpan => j.span \in SpanId,
         SpansTyped', \A s \in SpanId : IsFiniteSet(span'[s].freeList)
  PROVE  IInv'
<1>. USE DEF IInv, threadVars
<1>1. ThreadsTyped'
  BY DEF ThreadsTyped
<1>2. FiniteLists'
  BY DEF FiniteLists
<1>3. FetchFits'
  BY DEF FetchFits, ThreadsTyped
<1>4. HasSpan'
  BY DEF HasSpan, ThreadsTyped
<1>5. CacheBounded'
  BY DEF CacheBounded
<1>. QED  BY <1>1, <1>2, <1>3, <1>4, <1>5

(* A step that leaves the threads alone.                                   *)
LEMMA SpansMove ==
  ASSUME IInv, UNCHANGED <<threadVars, job, pc>>,
         SpansTyped', \A s \in SpanId : IsFiniteSet(span'[s].freeList)
  PROVE  IInv'
BY DEF IInv, threadVars, ThreadsTyped, FiniteLists, FetchFits, HasSpan, CacheBounded

LEMMA FetchStep ==
  ASSUME IInv, NEW t \in Thread, FetchHit(t) \/ Hang(t)
  PROVE  IInv'
<1>1. PICK s \in SpanId : HandOut(t, s)
  <2>1. CASE FetchHit(t)
    <3>1. job[t].size \in Sizes
      BY <2>1 DEF FetchHit, At, IInv, FetchFits, Fetching
    <3>. QED  BY <2>1, <3>1 DEF FetchHit, IInv, SpansTyped
  <2>2. CASE Hang(t)
    <3>1. HandOut(t, job[t].span)
      BY <2>2 DEF Hang
    <3>2. job[t].span \in SpanId
      BY <2>2 DEF Hang, At, IInv, FetchFits, Fetching, HasSpan, WithSpan
    <3>. QED  BY <3>1, <3>2
  <2>. QED  BY <2>1, <2>2
<1>2. pc[t] \in Fetching /\ UNCHANGED maxSize
  BY DEF FetchHit, Hang, At, Fetching
<1>3. /\ span' \in [SpanId -> SpanRecord]
      /\ ThreadsTyped' /\ FiniteLists' /\ FetchFits' /\ HasSpan' /\ CacheBounded'
  BY <1>1, <1>2, HandOutStep
<1>4. UNCHANGED <<idSpanMap, pageLists, allocated>>
  BY DEF FetchHit, Hang, pageVars
<1>5. centralLists' \in [Sizes -> SUBSET SpanId]
  <2>1. CASE FetchHit(t)
    BY <2>1 DEF FetchHit, IInv, SpansTyped
  <2>2. CASE Hang(t)
    <3>1. job[t].span \in SpanId /\ job[t].size \in Sizes
      BY <2>2 DEF Hang, At, IInv, FetchFits, Fetching, HasSpan, WithSpan
    <3>2. centralLists' = [centralLists EXCEPT ![job[t].size] = @ \cup {job[t].span}]
      BY <2>2 DEF Hang
    <3>. QED  BY <3>1, <3>2 DEF IInv, SpansTyped
  <2>. QED  BY <2>1, <2>2
<1>. QED  BY <1>3, <1>4, <1>5 DEF IInv, SpansTyped

LEMMA CarveStep ==
  ASSUME IInv, NEW t \in Thread, Carve(t)
  PROVE  IInv'
<1>. DEFINE s == job[t].span
<1>1. /\ pc[t] = "carve" /\ pc' = [pc EXCEPT ![t] = "hang"]
      /\ job' = [job EXCEPT ![t] = job[t]] /\ job[t] \in JobRecord
      /\ UNCHANGED <<threadVars, idSpanMap, pageLists, centralLists, allocated>>
      /\ span' = [span EXCEPT ![s].freeList = Pieces(s, job[t].size)]
  BY DEF Carve, At, Goto, pageVars, IInv, ThreadsTyped
<1>2. job[t].size \in Sizes /\ s \in SpanId
  BY <1>1 DEF IInv, FetchFits, Fetching, HasSpan, WithSpan
<1>3. Pieces(s, job[t].size) \in SUBSET Int /\ IsFiniteSet(Pieces(s, job[t].size))
  BY <1>2, PiecesAreFinite DEF IInv, SpansTyped
<1>4. SpansTyped' /\ \A r \in SpanId : IsFiniteSet(span'[r].freeList)
  BY <1>1, <1>2, <1>3 DEF IInv, SpansTyped, SpanRecord, FiniteLists
<1>5. "hang" \in Where /\ pc[t] \in Fetching
  BY <1>1 DEF Where, Fetching
<1>. QED  BY <1>1, <1>2, <1>4, <1>5, ThreadMoves

LEMMA ReleaseObjectStep ==
  ASSUME IInv, NEW t \in Thread, ReleaseObject(t)
  PROVE  IInv'
<1>. DEFINE size == job[t].size
<1>1. PICK o \in job[t].start :
        LET s    == Find(PageOf(o))
            rest == job[t].start \ {o}
            left == Decrement(span[s].useCount)
        IN  /\ s \in allocated
            /\ IF left = 0
                 THEN /\ span' = [span EXCEPT ![s].freeList = {}, ![s].useCount = 0]
                      /\ centralLists' = [c \in Sizes |-> centralLists[c] \ {s}]
                      /\ bucketMtx' = [bucketMtx EXCEPT ![size] = NoThread]
                      /\ job' = [job EXCEPT ![t].start = rest, ![t].span = s]
                      /\ Goto(t, "lockPagesGive")
                 ELSE /\ span' = [span EXCEPT ![s].freeList = @ \cup {o},
                                              ![s].useCount = left]
                      /\ job' = [job EXCEPT ![t].start = rest]
                      /\ UNCHANGED <<centralLists, bucketMtx, pc>>
  BY DEF ReleaseObject
<1>. DEFINE s     == Find(PageOf(o))
            rest  == job[t].start \ {o}
            left  == Decrement(span[s].useCount)
            list  == span[s].freeList \cup {o}
<1>2. /\ pc[t] = "release"
      /\ UNCHANGED <<threadVars, idSpanMap, pageLists, allocated>>
      /\ s \in SpanId /\ span[s] \in SpanRecord
      /\ job[t] \in JobRecord /\ o \in Int /\ rest \in SUBSET Int
  BY <1>1 DEF ReleaseObject, At, pageVars, IInv, SpansTyped, ThreadsTyped, JobRecord
<1>3. left \in Int
  BY <1>2, SizeClassAssumption DEF Decrement, SpanRecord
<1>4. IsFiniteSet(list) /\ list \in SUBSET Int
  BY <1>2, FS_AddElement DEF IInv, FiniteLists, SpanRecord
<1>5. IsFiniteSet({}) /\ {} \in SUBSET Int /\ 0 \in Int
  BY FS_EmptySet
<1>. HIDE DEF s, rest, left, list
<1>6. CASE left = 0
  <2>1. /\ span' = [span EXCEPT ![s].freeList = {}, ![s].useCount = 0]
        /\ centralLists' = [c \in Sizes |-> centralLists[c] \ {s}]
        /\ job' = [job EXCEPT ![t].start = rest, ![t].span = s]
        /\ pc' = [pc EXCEPT ![t] = "lockPagesGive"]
    BY <1>1, <1>6 DEF Goto, s, rest, left
  <2>2. SpansTyped' /\ \A r \in SpanId : IsFiniteSet(span'[r].freeList)
    <3>1. span' \in [SpanId -> SpanRecord]
      BY <2>1, <1>2, <1>5, CountedSpan DEF IInv, SpansTyped
    <3>2. centralLists' \in [Sizes -> SUBSET SpanId]
      BY <2>1 DEF IInv, SpansTyped
    <3>3. \A r \in SpanId : IsFiniteSet(span'[r].freeList)
      BY <2>1, <1>2, <1>5 DEF IInv, SpansTyped, FiniteLists, SpanRecord
    <3>. QED  BY <3>1, <3>2, <3>3, <1>2 DEF IInv, SpansTyped
  <2>3. PICK j \in JobRecord : job' = [job EXCEPT ![t] = j] /\ j.span = s
    <3>1. /\ [job[t] EXCEPT !.start = rest, !.span = s] \in JobRecord
          /\ [job[t] EXCEPT !.start = rest, !.span = s].span = s
      BY <1>2 DEF JobRecord
    <3>2. job' = [job EXCEPT ![t] = [job[t] EXCEPT !.start = rest, !.span = s]]
      BY <2>1 DEF IInv, ThreadsTyped
    <3>. QED  BY <3>1, <3>2
  <2>4. "lockPagesGive" \in Where /\ "lockPagesGive" \notin Fetching
    BY DEF Where, Fetching
  <2>. QED  BY <1>2, <2>1, <2>2, <2>3, <2>4, ThreadMoves
<1>7. CASE left # 0
  <2>1. /\ span' = [span EXCEPT ![s].freeList = list, ![s].useCount = left]
        /\ job' = [job EXCEPT ![t].start = rest]
        /\ UNCHANGED <<centralLists, pc>>
    BY <1>1, <1>7 DEF s, rest, left, list
  <2>2. SpansTyped' /\ \A r \in SpanId : IsFiniteSet(span'[r].freeList)
    <3>1. span' \in [SpanId -> SpanRecord]
      BY <2>1, <1>2, <1>3, <1>4, CountedSpan DEF IInv, SpansTyped
    <3>2. \A r \in SpanId : IsFiniteSet(span'[r].freeList)
      BY <2>1, <1>2, <1>4 DEF IInv, SpansTyped, FiniteLists, SpanRecord
    <3>. QED  BY <2>1, <3>1, <3>2, <1>2 DEF IInv, SpansTyped
  <2>3. PICK j \in JobRecord : job' = [job EXCEPT ![t] = j]
    <3>1. [job[t] EXCEPT !.start = rest] \in JobRecord
      BY <1>2 DEF JobRecord
    <3>2. job' = [job EXCEPT ![t] = [job[t] EXCEPT !.start = rest]]
      BY <2>1 DEF IInv, ThreadsTyped
    <3>. QED  BY <3>1, <3>2
  <2>4. pc' = [pc EXCEPT ![t] = "release"]
    BY <1>2, <2>1 DEF IInv, ThreadsTyped
  <2>5. "release" \in Where /\ "release" \notin Fetching /\ "release" \notin WithSpan
    BY DEF Where, Fetching, WithSpan
  <2>6. UNCHANGED threadVars
    BY <1>2
  <2>. QED  BY <2>2, <2>3, <2>4, <2>5, <2>6, ThreadMoves
<1>. QED  BY <1>6, <1>7

LEMMA ReleaseStep ==
  ASSUME IInv, NEW t \in Thread, LockBucket(t) \/ ReleaseDone(t)
  PROVE  IInv'
<1>1. UNCHANGED <<allocated, span, idSpanMap, pageLists, centralLists, threadVars>>
  BY DEF LockBucket, ReleaseDone, pageVars
<1>2. SpansTyped' /\ \A s \in SpanId : IsFiniteSet(span'[s].freeList)
  BY <1>1 DEF IInv, SpansTyped, FiniteLists
<1>3. PICK j \in JobRecord, where \in {"release", "idle"} :
        job' = [job EXCEPT ![t] = j] /\ pc' = [pc EXCEPT ![t] = where]
  <2>1. job[t] \in JobRecord /\ NoJob \in JobRecord
    BY SizeClassAssumption DEF IInv, ThreadsTyped, NoJob, NewJob, JobRecord
  <2>2. job = [job EXCEPT ![t] = job[t]]
    BY DEF IInv, ThreadsTyped
  <2>. QED  BY <2>1, <2>2 DEF LockBucket, ReleaseDone, Goto
<1>4. where \in Where /\ where \notin Fetching
  BY DEF Where, Fetching
<1>5. where \notin WithSpan
  BY DEF WithSpan
<1>. QED  BY <1>1, <1>2, <1>3, <1>4, <1>5, ThreadMoves

LEMMA MissStep ==
  ASSUME IInv, NEW t \in Thread, FetchMiss(t) \/ LockPages(t)
  PROVE  IInv'
<1>1. UNCHANGED <<allocated, span, idSpanMap, pageLists, centralLists, threadVars>>
  BY DEF FetchMiss, LockPages, pageVars
<1>2. SpansTyped' /\ \A s \in SpanId : IsFiniteSet(span'[s].freeList)
  BY <1>1 DEF IInv, SpansTyped, FiniteLists
<1>3. job[t] \in JobRecord /\ job' = [job EXCEPT ![t] = job[t]]
  BY DEF FetchMiss, LockPages, IInv, ThreadsTyped
<1>4. PICK where \in {"lockPagesNew", "newSpan", "mergePrev"} :
        /\ pc' = [pc EXCEPT ![t] = where]
        /\ where # "mergePrev" => pc[t] \in {"fetch", "lockPagesNew"}
        /\ where = "mergePrev" => pc[t] = "lockPagesGive"
  BY DEF FetchMiss, LockPages, At, Goto
<1>5. where \in Where /\ (where \in Fetching => pc[t] \in Fetching)
  BY <1>4 DEF Where, Fetching
<1>6. where \in WithSpan => job[t].span \in SpanId
  BY <1>4 DEF WithSpan, IInv, HasSpan
<1>. QED  BY <1>1, <1>2, <1>3, <1>4, <1>5, <1>6, ThreadMoves

(* NewSpan from a list of the page cache: the thread gets a span.          *)
LEMMA NewSpanStep ==
  ASSUME IInv, NEW t \in Thread, NewSpanExact(t) \/ NewSpanSplit(t)
  PROVE  IInv'
<1>. DEFINE k == NumMovePage(job[t].size)
<1>1. /\ pc[t] = "newSpan" /\ pc' = [pc EXCEPT ![t] = "carve"]
      /\ UNCHANGED <<centralLists, threadVars>>
      /\ job[t].size \in Sizes
  BY DEF NewSpanExact, NewSpanSplit, At, Goto, IInv, FetchFits, Fetching
<1>2. k \in Nat \ {0} /\ k \in 1 .. (NPAGES - 1)
  <2>1. k \in Nat \ {0}
    BY <1>1, NumMovePageType
  <2>2. k < NPAGES
    BY <1>1, MemPoolAssumption
  <2>. QED  BY <2>1, <2>2, SizeClassAssumption
<1>3. PICK s \in SpanId :
        /\ job' = [job EXCEPT ![t].span = s]
        /\ SpansTyped'
        /\ \A r \in SpanId : IsFiniteSet(span'[r].freeList)
  <2>1. CASE NewSpanExact(t)
    <3>1. PICK s \in pageLists[k] :
            /\ pageLists' = [pageLists EXCEPT ![k] = @ \ {s}]
            /\ span' = [span EXCEPT ![s].isUse = TRUE]
            /\ job' = [job EXCEPT ![t].span = s]
      BY <2>1 DEF NewSpanExact
    <3>2. s \in SpanId
      BY <1>2 DEF IInv, SpansTyped
    <3>3. UNCHANGED <<allocated, idSpanMap, centralLists>>
      BY <2>1 DEF NewSpanExact
    <3>. HIDE DEF k
    <3>4. span' \in [SpanId -> SpanRecord]
      <4>1. span \in [SpanId -> SpanRecord]
        BY DEF IInv, SpansTyped
      <4>2. [span[s] EXCEPT !.isUse = TRUE] \in SpanRecord
        BY <3>2, <4>1 DEF SpanRecord
      <4>3. span' = [span EXCEPT ![s] = [span[s] EXCEPT !.isUse = TRUE]]
        BY <3>1
      <4>. HIDE DEF SpanRecord
      <4>. QED  BY <3>2, <4>1, <4>2, <4>3
    <3>5. pageLists' \in [1 .. (NPAGES - 1) -> SUBSET SpanId]
      BY <1>2, <3>1 DEF IInv, SpansTyped
    <3>6. SpansTyped'
      BY <3>3, <3>4, <3>5 DEF IInv, SpansTyped
    <3>7. \A r \in SpanId : span'[r].freeList = span[r].freeList
      BY <3>1, <3>2 DEF IInv, SpansTyped, SpanRecord
    <3>. QED  BY <3>1, <3>2, <3>6, <3>7 DEF IInv, FiniteLists
  <2>2. CASE NewSpanSplit(t)
    <3>1. PICK i \in (k + 1) .. (NPAGES - 1) :
           \E nSpan \in pageLists[i], kSpan \in SpanId \ allocated :
                LET first == span[nSpan].pageId
                    left  == span[nSpan].n - k
                IN  /\ allocated' = allocated \cup {kSpan}
                    /\ span' = [span EXCEPT
                         ![kSpan] = SpanOf(first, k, TRUE),
                         ![nSpan].pageId = first + k,
                         ![nSpan].n = left]
                    /\ pageLists' = [pageLists EXCEPT ![i] = @ \ {nSpan},
                                                      ![left] = @ \cup {nSpan}]
                    /\ idSpanMap' = MapSplit(kSpan, nSpan, first, k, left)
                    /\ job' = [job EXCEPT ![t].span = kSpan]
      BY <2>2 DEF NewSpanSplit
    <3>2. PICK nSpan \in pageLists[i], kSpan \in SpanId \ allocated :
                LET first == span[nSpan].pageId
                    left  == span[nSpan].n - k
                IN  /\ allocated' = allocated \cup {kSpan}
                    /\ span' = [span EXCEPT
                         ![kSpan] = SpanOf(first, k, TRUE),
                         ![nSpan].pageId = first + k,
                         ![nSpan].n = left]
                    /\ pageLists' = [pageLists EXCEPT ![i] = @ \ {nSpan},
                                                      ![left] = @ \cup {nSpan}]
                    /\ idSpanMap' = MapSplit(kSpan, nSpan, first, k, left)
                    /\ job' = [job EXCEPT ![t].span = kSpan]
      BY <3>1
    <3>. DEFINE first == span[nSpan].pageId
                left  == span[nSpan].n - k
    <3>3. i \in 1 .. (NPAGES - 1) /\ nSpan \in SpanId /\ kSpan \in SpanId
      BY <1>2, SizeClassAssumption DEF IInv, SpansTyped
    <3>4. first \in Int /\ left \in Int /\ first + k \in Int
      BY <1>2, <3>3 DEF IInv, SpansTyped, SpanRecord
    <3>. DEFINE next == first + k
    <3>5. span' = [span EXCEPT ![kSpan] = SpanOf(first, k, TRUE),
                               ![nSpan].pageId = next, ![nSpan].n = left]
      BY <3>2
    <3>6. /\ pageLists' = [pageLists EXCEPT ![i] = @ \ {nSpan}, ![left] = @ \cup {nSpan}]
          /\ allocated' = allocated \cup {kSpan}
          /\ idSpanMap' = MapSplit(kSpan, nSpan, first, k, left)
          /\ job' = [job EXCEPT ![t].span = kSpan]
      BY <3>2
    <3>7. idSpanMap' \in [Page -> SpanId \cup {NoSpan}]
      BY <3>3, <3>6 DEF MapSplit, IInv, SpansTyped
    <3>8. SpanOf(first, k, TRUE) \in SpanRecord /\ SpanOf(first, k, TRUE).freeList = {}
      BY <1>2, <3>4 DEF SpanOf, SpanRecord
    <3>. HIDE DEF first, left, next, k
    <3>9. /\ span' \in [SpanId -> SpanRecord]
          /\ \A r \in SpanId : span'[r].freeList \in {span[r].freeList, {}}
      BY <3>3, <3>4, <3>5, <3>8 DEF IInv, SpansTyped, SpanRecord, next
    <3>10. \A r \in SpanId : IsFiniteSet(span'[r].freeList)
      BY <3>9, FS_EmptySet DEF IInv, FiniteLists
    <3>11. pageLists' \in [1 .. (NPAGES - 1) -> SUBSET SpanId]
      BY <3>3, <3>6 DEF IInv, SpansTyped
    <3>12. UNCHANGED centralLists
      BY <2>2 DEF NewSpanSplit
    <3>. QED  BY <3>3, <3>6, <3>7, <3>9, <3>10, <3>11, <3>12 DEF IInv, SpansTyped
  <2>. QED  BY <2>1, <2>2
<1>4. PICK j \in JobRecord :
        /\ job' = [job EXCEPT ![t] = j]
        /\ j.size = job[t].size /\ j.batch = job[t].batch /\ j.span = s
  <2>. DEFINE j == [job[t] EXCEPT !.span = s]
  <2>1. j \in JobRecord /\ j.size = job[t].size /\ j.batch = job[t].batch /\ j.span = s
    BY DEF IInv, ThreadsTyped, JobRecord
  <2>2. job' = [job EXCEPT ![t] = j]
    BY <1>3 DEF IInv, ThreadsTyped
  <2>. QED  BY <2>1, <2>2
<1>5. "carve" \in Where /\ pc[t] \in Fetching
  BY <1>1 DEF Where, Fetching
<1>. QED  BY <1>1, <1>3, <1>4, <1>5, ThreadMoves

LEMMA GrowStep ==
  ASSUME IInv, NEW t \in Thread, NewSpanGrow(t)
  PROVE  IInv'
<1>1. PICK base \in Base, bigSpan \in SpanId \ allocated :
        /\ allocated' = allocated \cup {bigSpan}
        /\ span' = [span EXCEPT ![bigSpan] = SpanOf(base, NPAGES - 1, FALSE)]
        /\ pageLists' = [pageLists EXCEPT ![NPAGES - 1] = @ \cup {bigSpan}]
  BY DEF NewSpanGrow
<1>2. UNCHANGED <<idSpanMap, centralLists, threadVars, pc, job>>
  BY DEF NewSpanGrow
<1>3. /\ SpanOf(base, NPAGES - 1, FALSE) \in SpanRecord
      /\ SpanOf(base, NPAGES - 1, FALSE).freeList = {}
  BY MemPoolAssumption, SizeClassAssumption DEF SpanOf, SpanRecord
<1>. DEFINE big == SpanOf(base, NPAGES - 1, FALSE)
<1>. HIDE DEF big
<1>4. SpansTyped'
  BY <1>1, <1>2, <1>3 DEF IInv, SpansTyped, big
<1>5. \A r \in SpanId : span'[r].freeList \in {span[r].freeList, {}}
  BY <1>1, <1>3 DEF IInv, SpansTyped, big
<1>6. \A r \in SpanId : IsFiniteSet(span'[r].freeList)
  BY <1>5, FS_EmptySet DEF IInv, FiniteLists
<1>. QED  BY <1>2, <1>4, <1>6, SpansMove

(* A span of the page cache changes its place, length or use, and its      *)
(* neighbour may be deleted.                                               *)
LEMMA MergeTyped ==
  ASSUME IInv, NEW s \in SpanId, NEW q \in SpanId, NEW first \in Int, Merge(s, q, first)
  PROVE  /\ span' \in [SpanId -> SpanRecord]
         /\ allocated' \subseteq SpanId
         /\ pageLists' \in [1 .. (NPAGES - 1) -> SUBSET SpanId]
         /\ \A r \in SpanId : IsFiniteSet(span'[r].freeList)
<1>. DEFINE length == span[s].n + span[q].n
<1>1. length \in Int
  BY DEF IInv, SpansTyped, SpanRecord
<1>2. span' = [span EXCEPT ![s].pageId = first, ![s].n = length, ![q] = NewSpanRecord]
  BY DEF Merge
<1>3. NewSpanRecord \in SpanRecord /\ NewSpanRecord.freeList = {}
  BY DEF NewSpanRecord, SpanOf, SpanRecord
<1>. HIDE DEF length
<1>4. /\ span' \in [SpanId -> SpanRecord]
      /\ \A r \in SpanId : span'[r].freeList \in {span[r].freeList, {}}
  BY <1>1, <1>2, <1>3 DEF IInv, SpansTyped, SpanRecord
<1>5. \A r \in SpanId : IsFiniteSet(span'[r].freeList)
  BY <1>4, FS_EmptySet DEF IInv, FiniteLists
<1>6. /\ allocated' \subseteq SpanId
      /\ pageLists' \in [1 .. (NPAGES - 1) -> SUBSET SpanId]
  BY DEF Merge, IInv, SpansTyped
<1>. QED  BY <1>4, <1>5, <1>6

LEMMA MergeStep ==
  ASSUME IInv, NEW t \in Thread, MergePrev(t) \/ MergeNext(t)
  PROVE  IInv'
<1>. DEFINE s == job[t].span
<1>1. /\ pc[t] \in {"mergePrev", "mergeNext"}
      /\ UNCHANGED <<centralLists, threadVars>>
      /\ s \in SpanId /\ job[t] \in JobRecord
  BY DEF MergePrev, MergeNext, At, IInv, HasSpan, WithSpan, ThreadsTyped
<1>2. /\ SpansTyped'
      /\ \A r \in SpanId : IsFiniteSet(span'[r].freeList)
  <2>1. CASE MergePrev(t)
    <3>. DEFINE q == Find(span[s].pageId - 1)
    <3>1. q \in SpanId \cup {NoSpan}
      BY DEF Find, IInv, SpansTyped
    <3>2. UNCHANGED idSpanMap
      BY <2>1 DEF MergePrev
    <3>3. CASE CanMerge(s, q)
      <4>1. Merge(s, q, span[q].pageId) /\ q \in SpanId
        BY <2>1, <3>1, <3>3 DEF MergePrev, CanMerge
      <4>2. span[q].pageId \in Int
        BY <4>1 DEF IInv, SpansTyped, SpanRecord
      <4>. HIDE DEF s, q
      <4>. QED  BY <1>1, <3>2, <4>1, <4>2, MergeTyped DEF IInv, SpansTyped
    <3>4. CASE ~ CanMerge(s, q)
      <4>1. UNCHANGED <<span, pageLists, allocated>>
        BY <2>1, <3>4 DEF MergePrev
      <4>. QED  BY <1>1, <3>2, <4>1 DEF IInv, SpansTyped, FiniteLists
    <3>. QED  BY <3>3, <3>4
  <2>2. CASE MergeNext(t)
    <3>. DEFINE q == Find(span[s].pageId + span[s].n)
    <3>1. q \in SpanId \cup {NoSpan}
      BY DEF Find, IInv, SpansTyped
    <3>2. CASE CanMerge(s, q)
      <4>1. Merge(s, q, span[s].pageId) /\ q \in SpanId /\ UNCHANGED idSpanMap
        BY <2>2, <3>1, <3>2 DEF MergeNext, CanMerge
      <4>2. span[s].pageId \in Int
        BY <1>1 DEF IInv, SpansTyped, SpanRecord
      <4>. HIDE DEF s, q
      <4>. QED  BY <1>1, <4>1, <4>2, MergeTyped DEF IInv, SpansTyped
    <3>3. CASE ~ CanMerge(s, q)
      <4>1. /\ pageLists' = [pageLists EXCEPT ![span[s].n] = @ \cup {s}]
            /\ span' = [span EXCEPT ![s].isUse = FALSE]
            /\ idSpanMap' = MapEnds(s)
            /\ UNCHANGED allocated
        BY <2>2, <3>3 DEF MergeNext
      <4>. HIDE DEF s
      <4>2. /\ span' \in [SpanId -> SpanRecord]
            /\ \A r \in SpanId : span'[r].freeList = span[r].freeList
        BY <1>1, <4>1 DEF IInv, SpansTyped, SpanRecord
      <4>3. /\ pageLists' \in [1 .. (NPAGES - 1) -> SUBSET SpanId]
            /\ idSpanMap' \in [Page -> SpanId \cup {NoSpan}]
        BY <1>1, <4>1 DEF IInv, SpansTyped, MapEnds
      <4>. QED  BY <1>1, <4>1, <4>2, <4>3 DEF IInv, SpansTyped, FiniteLists
    <3>. QED  BY <3>2, <3>3
  <2>. QED  BY <2>1, <2>2
<1>3. PICK j \in JobRecord, where \in {"mergePrev", "mergeNext", "return"} :
        /\ job' = [job EXCEPT ![t] = j]
        /\ pc' = [pc EXCEPT ![t] = where]
        /\ where # "return" => j.span = s
  <2>1. job = [job EXCEPT ![t] = job[t]] /\ pc = [pc EXCEPT ![t] = pc[t]]
    BY DEF IInv, ThreadsTyped
  <2>2. CASE MergePrev(t)
    BY <1>1, <2>1, <2>2 DEF MergePrev, At, Goto
  <2>3. CASE MergeNext(t)
    <3>1. CASE UNCHANGED <<pc, job>>
      BY <1>1, <2>1, <3>1
    <3>2. CASE job' = [job EXCEPT ![t].span = NoSpan] /\ Goto(t, "return")
      <4>1. [job[t] EXCEPT !.span = NoSpan] \in JobRecord
        BY <1>1 DEF JobRecord
      <4>2. job' = [job EXCEPT ![t] = [job[t] EXCEPT !.span = NoSpan]]
        BY <3>2 DEF IInv, ThreadsTyped
      <4>. QED  BY <3>2, <4>1, <4>2 DEF Goto
    <3>. QED  BY <2>3, <3>1, <3>2 DEF MergeNext
  <2>. QED  BY <2>2, <2>3
<1>4. where \in Where /\ where \notin Fetching /\ (where \in WithSpan => j.span \in SpanId)
  BY <1>1, <1>3 DEF Where, Fetching, WithSpan
<1>. QED  BY <1>1, <1>2, <1>3, <1>4, ThreadMoves

(* The process ends, or has ended.                                         *)
LEMMA EndStep ==
  ASSUME IInv,
         \/ UNCHANGED vars
         \/ \E t \in Thread :
              \/ \E size \in Sizes : AllocateWild(t, size)
              \/ FetchBeyond(t) \/ ReleaseLost(t) \/ ReleaseRaces(t) \/ NewSpanExit(t)
  PROVE  IInv'
<1>1. UNCHANGED <<span, idSpanMap, pageLists, allocated, centralLists, threadVars, pc, job>>
  BY DEF vars, AllocateWild, FetchBeyond, ReleaseLost, ReleaseRaces, NewSpanExit, pageVars,
         threadVars
<1>. QED  BY <1>1, SpansMove DEF IInv, SpansTyped, FiniteLists

(* No step breaks the first invariant.                                     *)
LEMMA InvariantStep ==
  ASSUME IInv, [Next]_vars
  PROVE  IInv'
<1>1. CASE UNCHANGED vars \/ Ended
  BY <1>1, EndStep DEF Ended
<1>2. ASSUME NEW t \in Thread, Call(t) PROVE IInv'
  BY <1>2, AllocateCachedStep, AllocateFetchStep, DeAllocateStep, EndStep DEF Call
<1>3. ASSUME NEW t \in Thread, InPool(t) PROVE IInv'
  BY <1>3, FetchStep, CarveStep, ReleaseObjectStep, ReleaseStep, MissStep, NewSpanStep,
     GrowStep, MergeStep, EndStep DEF InPool
<1>. QED  BY <1>1, <1>2, <1>3 DEF Next

-------------------------------------------------------------------------------

(* A thread's caches are bounded, for any number of threads, any sizes and *)
(* any number of pages, whatever has become of the spans: between two      *)
(* calls a list has fewer than _maxSize objects, so PopRange is never      *)
(* asked for more than there are, and _maxSize is at most one more than    *)
(* the largest batch.                                                      *)
THEOREM CachesAreBounded == Spec => []CacheBounded
<1>1. Init => IInv
  BY InitInvariant
<1>2. IInv /\ [Next]_vars => IInv'
  BY InvariantStep
<1>3. IInv => CacheBounded
  BY DEF IInv
<1>. QED  BY <1>1, <1>2, <1>3, PTL DEF Spec

-------------------------------------------------------------------------------
(* The whole pool, as long as no stale entry of _idSpanMap is followed.    *)
(* This second invariant stands on the first one.                          *)

(* The first and the last page of a span.                                  *)
First(s) == span[s].pageId
Last(s) == span[s].pageId + span[s].n - 1

(* Pages that mmap has returned.                                           *)
Mapped(p) == \E b \in regions : b <= p /\ p <= b + NPAGES - 2

Measured == \A s \in allocated : span[s].pageId \in Nat \ {0} /\ span[s].n \in 1 .. (NPAGES - 1)
Unused == \A s \in SpanId \ allocated : span[s] = NewSpanRecord

(* The spans cover the mapped pages and do not overlap.                    *)
Apart == \A s, r \in allocated : s # r => Last(s) < First(r) \/ Last(r) < First(s)
Covered == \A p \in Page : Mapped(p) <=> \E s \in allocated : First(s) <= p /\ p <= Last(s)
Inside == \A s \in allocated : \A p \in First(s) .. Last(s) : p \in Page

InUse == \A size \in Sizes : \A s \in centralLists[size] :
  s \in allocated /\ span[s].isUse /\ span[s].n = NumMovePage(size)

Merging(t) == pc[t] \in {"mergePrev", "mergeNext"}

(* The span a thread has in hand was made for it or taken off a bucket.    *)
HandsSound == \A t \in Thread :
  IF pc[t] \in WithSpan
    THEN /\ job[t].span \in allocated /\ span[job[t].span].isUse
         /\ pc[t] \in {"carve", "hang"} => span[job[t].span].n = NumMovePage(job[t].size)
    ELSE job[t].span = NoSpan

PageLock == \A t \in Thread : Merging(t) \/ pc[t] = "newSpan" => pageMtx = t

(* The ends of a span lead to it, unless it is a whole region that was     *)
(* never entered; only a span that is being joined is not up to date.      *)
EndsKnown(s) ==
  \/ idSpanMap[First(s)] = s /\ idSpanMap[Last(s)] = s
  \/ span[s].n = NPAGES - 1 /\ idSpanMap[First(s)] = NoSpan /\ idSpanMap[Last(s)] = NoSpan

EndsMapped == \A s \in allocated :
  EndsKnown(s) \/ \E t \in Thread : Merging(t) /\ job[t].span = s

FreshUnmapped == \A p \in Page : ~ Mapped(p) => idSpanMap[p] = NoSpan

(* Regions that do not touch.  Then free neighbours are always joined: the *)
(* loop over the pages before a span leaves no free span there.            *)
Gaps == \A a, b \in Base : a < b => a + NPAGES <= b

NothingBefore == \A t \in Thread : pc[t] = "mergeNext" =>
  \A k \in 1 .. (NPAGES - 1) : \A r \in pageLists[k] : Last(r) + 1 # First(job[t].span)

Joined == Gaps => Coalesced /\ NothingBefore

PagesSound ==
  /\ regions \subseteq Base
  /\ Measured /\ Unused /\ Apart /\ Covered /\ Inside /\ InUse /\ HandsSound /\ PageLock
  /\ EndsMapped /\ FreshUnmapped /\ SpanInOnePlace /\ Joined

(* A span outside the buckets counts no object.                            *)
Empty(s) == span[s].useCount = 0 /\ span[s].freeList = {}

SparesEmpty ==
  /\ \A k \in 1 .. (NPAGES - 1) : \A s \in pageLists[k] : Empty(s)
  /\ \A t \in Thread : pc[t] \in WithSpan =>
       IF pc[t] = "hang"
         THEN /\ span[job[t].span].useCount = 0
              /\ span[job[t].span].freeList = Pieces(job[t].span, job[t].size)
         ELSE Empty(job[t].span)

JobsSound == \A t \in Thread :
  /\ pc[t] = "idle" => job[t] = NoJob
  /\ pc[t] # "idle" => job[t].size \in Sizes
  /\ pc[t] \in Fetching => job[t].batch >= 1 /\ job[t].start = {}

RestTyped ==
  /\ process \in {"running"} \cup Endings
  /\ pageMtx \in Thread \cup {NoThread}
  /\ bucketMtx \in [Sizes -> Thread \cup {NoThread}]
  /\ held \in Int
  /\ carved \subseteq Nat
  /\ loose \subseteq SpanId

(* The objects of one size that are away are in one place each.            *)
HomesApart(size) ==
  \A t \in Thread :
    /\ cache[t][size] \cap Held(size) = {}
    /\ Returning(t, size) \cap Held(size) = {}
    /\ \A u \in Thread :
         /\ cache[t][size] \cap Returning(u, size) = {}
         /\ t # u => /\ cache[t][size] \cap cache[u][size] = {}
                     /\ Returning(t, size) \cap Returning(u, size) = {}

(* A span lists the objects that are not away and counts those that are.   *)
Counted(s, size) ==
  /\ span[s].freeList \subseteq Pieces(s, size)
  /\ \A o \in Pieces(s, size) : o \in span[s].freeList <=> o \notin Outside(size)
  /\ span[s].useCount = Cardinality(Pieces(s, size) \ span[s].freeList)

(* An object that is away belongs to a span in the bucket of its size.     *)
Owned(size) == \A o \in Outside(size) : \E s \in centralLists[size] : o \in Pieces(s, size)

BucketSound(size) ==
  /\ HomesApart(size)
  /\ \A s \in centralLists[size] : Counted(s, size) /\ span[s].useCount > 0
  /\ Owned(size)

Buckets == \A size \in Sizes : BucketSound(size)

ObjectsSound == SparesEmpty /\ JobsSound /\ RestTyped /\ Buckets

Sound == PagesSound /\ ObjectsSound

(* What ReleaseListToSpans relies on (CentralCache.cpp:91): the page of an *)
(* object leads to the span the object belongs to.  It may not: inner      *)
(* pages of a span that was taken as it is (PageCache.cpp:8) have entries  *)
(* of an earlier life, and a region that was never split has none.         *)
LookupFindsOwner == \A t \in Thread : At(t, "release") =>
  \A o \in job[t].start : \E s \in centralLists[job[t].size] :
    o \in Pieces(s, job[t].size) /\ Find(PageOf(o)) = s

-------------------------------------------------------------------------------
LEMMA PageIs ==
  /\ \A p : p \in Page <=> /\ p \in Nat \ {0}
                           /\ \E b \in Base : b <= p /\ p <= b + NPAGES - 2
  /\ Page \subseteq Nat \ {0}
BY MemPoolAssumption, SizeClassAssumption DEF Page

(* Every end of a span is a page, and so is what is between.               *)
LEMMA SpanPages ==
  ASSUME PagesSound, NEW s \in allocated
  PROVE  /\ First(s) \in Page /\ Last(s) \in Page /\ First(s) <= Last(s)
         /\ First(s) \in Nat \ {0} /\ Last(s) \in Nat \ {0}
         /\ span[s].n \in 1 .. (NPAGES - 1) /\ Last(s) = First(s) + span[s].n - 1
         /\ \A p \in Int : First(s) <= p /\ p <= Last(s) => p \in Page /\ Mapped(p)
<1>1. /\ span[s].pageId \in Nat \ {0} /\ span[s].n \in 1 .. (NPAGES - 1)
      /\ NPAGES \in Nat
  BY SizeClassAssumption DEF PagesSound, Measured
<1>2. \A p \in Int : First(s) <= p /\ p <= Last(s) => p \in Page
  BY <1>1 DEF PagesSound, Inside, First, Last
<1>3. \A p \in Int : First(s) <= p /\ p <= Last(s) => Mapped(p)
  BY <1>2 DEF PagesSound, Covered
<1>. QED  BY <1>1, <1>2, <1>3 DEF First, Last

(* The span of a page.                                                     *)
LEMMA SpanOfPage ==
  ASSUME PagesSound, NEW p \in Page, Mapped(p)
  PROVE  \E s \in allocated : First(s) <= p /\ p <= Last(s)
BY DEF PagesSound, Covered

(* The page before the span a thread is joining belongs to the span that   *)
(* the map names, if it names one, and that one ends there.                *)
LEMMA NeighbourBefore ==
  ASSUME IInv, PagesSound, NEW t \in Thread, Merging(t),
         NEW s, s = job[t].span, NEW q, q = Find(First(s) - 1), q # NoSpan
  PROVE  q \in allocated /\ q # s /\ Last(q) + 1 = First(s)
<1>1. s \in allocated
  BY DEF PagesSound, HandsSound, Merging, WithSpan
<1>. DEFINE p == First(s) - 1
<1>2. p \in Page /\ idSpanMap[p] = q
  BY DEF Find
<1>3. Mapped(p)
  BY <1>2 DEF PagesSound, FreshUnmapped
<1>4. PICK r \in allocated : First(r) <= p /\ p <= Last(r)
  BY <1>2, <1>3, SpanOfPage
<1>5. First(s) \in Nat /\ First(r) \in Nat /\ Last(r) \in Nat /\ Last(s) \in Nat
      /\ First(s) <= Last(s)
  BY <1>1, <1>4, SpanPages
<1>6. r # s
  BY <1>4, <1>5
<1>7. Last(r) = p
  BY <1>1, <1>4, <1>5, <1>6 DEF PagesSound, Apart
<1>8. EndsKnown(r)
  <2>1. \A u \in Thread : Merging(u) => u = t
    BY DEF PagesSound, PageLock
  <2>. QED  BY <1>6, <2>1 DEF PagesSound, EndsMapped
<1>9. q = r
  BY <1>2, <1>7, <1>8 DEF EndsKnown
<1>. QED  BY <1>5, <1>6, <1>7, <1>9

LEMMA NeighbourAfter ==
  ASSUME IInv, PagesSound, NEW t \in Thread, Merging(t),
         NEW s, s = job[t].span, NEW q, q = Find(Last(s) + 1), q # NoSpan
  PROVE  q \in allocated /\ q # s /\ Last(s) + 1 = First(q)
<1>1. s \in allocated
  BY DEF PagesSound, HandsSound, Merging, WithSpan
<1>. DEFINE p == Last(s) + 1
<1>2. p \in Page /\ idSpanMap[p] = q
  BY DEF Find
<1>3. Mapped(p)
  BY <1>2 DEF PagesSound, FreshUnmapped
<1>4. PICK r \in allocated : First(r) <= p /\ p <= Last(r)
  BY <1>2, <1>3, SpanOfPage
<1>5. First(s) \in Nat /\ First(r) \in Nat /\ Last(r) \in Nat /\ Last(s) \in Nat
      /\ First(s) <= Last(s)
  BY <1>1, <1>4, SpanPages
<1>6. r # s
  BY <1>4, <1>5
<1>7. First(r) = p
  BY <1>1, <1>4, <1>5, <1>6 DEF PagesSound, Apart
<1>8. EndsKnown(r)
  <2>1. \A u \in Thread : Merging(u) => u = t
    BY DEF PagesSound, PageLock
  <2>. QED  BY <1>6, <2>1 DEF PagesSound, EndsMapped
<1>9. q = r
  BY <1>2, <1>7, <1>8 DEF EndsKnown
<1>. QED  BY <1>5, <1>6, <1>7, <1>9

(* With regions that do not touch, mapped pages in a row are in one.       *)
LEMMA OneRegion ==
  ASSUME Gaps, regions \subseteq Base, NEW x \in Nat, NEW y \in Nat, x <= y,
         \A p \in x .. y : Mapped(p)
  PROVE  y - x + 1 <= NPAGES - 1
<1>1. NPAGES \in Nat /\ NPAGES > 1 /\ Base \subseteq Nat
  BY MemPoolAssumption, SizeClassAssumption
<1>2. PICK b \in regions : b <= x /\ x <= b + NPAGES - 2
  BY DEF Mapped
<1>3. b \in Nat
  BY <1>1, <1>2
<1>4. SUFFICES ASSUME y > b + NPAGES - 2 PROVE FALSE
  BY <1>1, <1>2, <1>3
<1>5. PICK c \in regions : c <= b + NPAGES - 1 /\ b + NPAGES - 1 <= c + NPAGES - 2
  <2>1. b + NPAGES - 1 \in x .. y
    BY <1>1, <1>2, <1>3, <1>4
  <2>. QED  BY <2>1 DEF Mapped
<1>6. c \in Nat /\ c \in Base /\ b \in Base
  BY <1>1, <1>5
<1>. QED  BY <1>1, <1>3, <1>5, <1>6 DEF Gaps

LEMMA SoundInitially == Init => Sound
<1>. SUFFICES ASSUME Init PROVE Sound
  OBVIOUS
<1>1. /\ allocated = {} /\ regions = {}
      /\ \A s \in SpanId : span[s] = NewSpanRecord
      /\ \A p \in Page : idSpanMap[p] = NoSpan
      /\ \A k \in 1 .. (NPAGES - 1) : pageLists[k] = {}
      /\ \A size \in Sizes : centralLists[size] = {}
      /\ \A t \in Thread : pc[t] = "idle" /\ job[t] = NoJob /\ job[t].span = NoSpan
                           /\ job[t].start = {}
      /\ \A t \in Thread : \A size \in Sizes : cache[t][size] = {}
      /\ live = {} /\ held = 0
  BY DEF Init, NoJob, NewJob
<1>2. Hung = {} /\ InHand = {}
  BY <1>1 DEF Hung, InHand
<1>3. PagesSound
  <2>1. Measured /\ Unused /\ Apart /\ Inside /\ EndsMapped
    BY <1>1 DEF Measured, Unused, Apart, Inside, EndsMapped
  <2>2. Covered /\ FreshUnmapped
    BY <1>1 DEF Covered, FreshUnmapped, Mapped
  <2>3. InUse /\ HandsSound /\ PageLock
    BY <1>1 DEF InUse, HandsSound, PageLock, Merging, WithSpan
  <2>4. SpanInOnePlace
    BY <1>1, <1>2 DEF SpanInOnePlace
  <2>5. Joined
    BY <1>1 DEF Joined, Coalesced, NothingBefore
  <2>. QED  BY <1>1, <2>1, <2>2, <2>3, <2>4, <2>5 DEF PagesSound
<1>4. ObjectsSound
  <2>1. SparesEmpty /\ JobsSound
    BY <1>1 DEF SparesEmpty, JobsSound, WithSpan, Fetching
  <2>2. RestTyped
    BY DEF RestTyped, Init
  <2>3. \A size \in Sizes : Outside(size) = {}
    BY <1>1 DEF Outside, Held, Returning
  <2>4. \A size \in Sizes : HomesApart(size)
    BY <1>1 DEF HomesApart, Returning, Held
  <2>5. Buckets
    BY <1>1, <2>3, <2>4 DEF Buckets, BucketSound, Owned
  <2>. QED  BY <2>1, <2>2, <2>5 DEF ObjectsSound
<1>. QED  BY <1>3, <1>4 DEF Sound

-------------------------------------------------------------------------------
(* The pages.                                                              *)

(* No span moves.                                                          *)
LEMMA SpansStay ==
  ASSUME IInv, PagesSound, UNCHANGED <<regions, allocated, idSpanMap, pageLists>>,
         \A s \in SpanId : /\ span'[s].pageId = span[s].pageId
                           /\ span'[s].n = span[s].n
                           /\ span'[s].isUse = span[s].isUse,
         \A s \in SpanId \ allocated : span'[s] = span[s]
  PROVE  /\ regions' \subseteq Base
         /\ Measured' /\ Unused' /\ Apart' /\ Covered' /\ Inside' /\ FreshUnmapped'
         /\ \A s \in allocated : EndsKnown(s)' <=> EndsKnown(s)
         /\ Coalesced => Coalesced'
<1>1. allocated \subseteq SpanId
  BY DEF IInv, SpansTyped
<1>2. \A k \in 1 .. (NPAGES - 1) : pageLists[k] \subseteq allocated
  BY DEF PagesSound, SpanInOnePlace
<1>3. \A s \in allocated : First(s)' = First(s) /\ Last(s)' = Last(s)
  BY <1>1 DEF First, Last
<1>4. regions' \subseteq Base /\ Measured' /\ Unused'
  BY <1>1 DEF PagesSound, Measured, Unused
<1>5. Apart'
  BY <1>3 DEF PagesSound, Apart
<1>6. Covered'
  BY <1>3 DEF PagesSound, Covered, Mapped
<1>7. Inside'
  BY <1>3 DEF PagesSound, Inside
<1>8. FreshUnmapped'
  BY DEF PagesSound, FreshUnmapped, Mapped
<1>9. \A s \in allocated : EndsKnown(s)' <=> EndsKnown(s)
  BY <1>1, <1>3 DEF EndsKnown
<1>10. Coalesced => Coalesced'
  BY <1>1, <1>2 DEF Coalesced
<1>. QED  BY <1>4, <1>5, <1>6, <1>7, <1>8, <1>9, <1>10

LEMMA JoinedStays ==
  ASSUME IInv, PagesSound, UNCHANGED <<regions, allocated, idSpanMap, pageLists>>,
         \A s \in SpanId : /\ span'[s].pageId = span[s].pageId
                           /\ span'[s].n = span[s].n
                           /\ span'[s].isUse = span[s].isUse,
         \A s \in SpanId \ allocated : span'[s] = span[s],
         \A t \in Thread : pc'[t] = "mergeNext" =>
           pc[t] = "mergeNext" /\ job'[t].span = job[t].span
  PROVE  Joined'
<1>1. /\ allocated \subseteq SpanId
      /\ \A k \in 1 .. (NPAGES - 1) : pageLists[k] \subseteq allocated
  BY DEF IInv, SpansTyped, PagesSound, SpanInOnePlace
<1>2. ASSUME NothingBefore PROVE NothingBefore'
  <2>. SUFFICES ASSUME NEW t \in Thread, pc'[t] = "mergeNext",
                       NEW k \in 1 .. (NPAGES - 1), NEW r \in pageLists[k]
                PROVE  Last(r)' + 1 # span'[job'[t].span].pageId
    BY DEF NothingBefore, First
  <2>1. pc[t] = "mergeNext" /\ job'[t].span = job[t].span /\ job[t].span \in allocated
    BY DEF PagesSound, HandsSound, WithSpan
  <2>2. Last(r)' = Last(r) /\ span'[job[t].span].pageId = First(job[t].span)
    BY <1>1, <2>1 DEF First, Last
  <2>. QED  BY <1>2, <2>1, <2>2 DEF NothingBefore
<1>. QED  BY <1>2, SpansStay DEF PagesSound, Joined

LEMMA PagesStay ==
  ASSUME IInv, PagesSound,
         UNCHANGED <<regions, allocated, idSpanMap, pageLists, pageMtx, centralLists>>,
         \A s \in SpanId : /\ span'[s].pageId = span[s].pageId
                           /\ span'[s].n = span[s].n
                           /\ span'[s].isUse = span[s].isUse,
         \A s \in SpanId \ allocated : span'[s] = span[s],
         \A t \in Thread :
           /\ job'[t].span = job[t].span
           /\ pc'[t] \in WithSpan <=> pc[t] \in WithSpan
           /\ pc'[t] \in {"carve", "hang"} =>
                pc[t] \in {"carve", "hang"} /\ job'[t].size = job[t].size
           /\ pc'[t] \in {"newSpan", "mergePrev", "mergeNext"} => pc'[t] = pc[t]
           /\ Merging(t) => Merging(t)'
  PROVE  PagesSound'
<1>1. /\ allocated \subseteq SpanId
      /\ \A k \in 1 .. (NPAGES - 1) : pageLists[k] \subseteq allocated
      /\ \A size \in Sizes : centralLists[size] \subseteq allocated
  BY DEF IInv, SpansTyped, PagesSound, SpanInOnePlace, InUse
<1>2. InUse'
  BY <1>1 DEF PagesSound, InUse
<1>3. HandsSound'
  BY <1>1 DEF PagesSound, HandsSound
<1>4. PageLock'
  BY DEF PagesSound, PageLock, Merging
<1>5. EndsMapped'
  BY SpansStay DEF PagesSound, EndsMapped
<1>6. SpanInOnePlace'
  <2>1. Hung' = Hung /\ InHand' = InHand
    BY DEF Hung, InHand
  <2>. QED  BY <1>1, <2>1 DEF PagesSound, SpanInOnePlace
<1>7. Joined'
  BY JoinedStays
<1>. QED  BY <1>2, <1>3, <1>4, <1>5, <1>6, <1>7, SpansStay DEF PagesSound

(* A thread takes the page lock; nobody was joining spans.                 *)
LEMMA LockPagesStep ==
  ASSUME IInv, PagesSound, NEW t \in Thread, LockPages(t)
  PROVE  PagesSound'
<1>1. /\ pageMtx = NoThread /\ pageMtx' = t
      /\ UNCHANGED <<regions, allocated, idSpanMap, pageLists, centralLists, span, job>>
      /\ \/ pc[t] = "lockPagesNew" /\ pc' = [pc EXCEPT ![t] = "newSpan"]
         \/ pc[t] = "lockPagesGive" /\ pc' = [pc EXCEPT ![t] = "mergePrev"]
  BY DEF LockPages, At, Goto, pageVars
<1>2. \A u \in Thread : ~ Merging(u) /\ pc[u] # "newSpan"
  BY <1>1, MemPoolAssumption DEF PagesSound, PageLock
<1>3. /\ \A u \in Thread : u # t => pc'[u] = pc[u]
      /\ \/ pc[t] = "lockPagesNew" /\ pc'[t] = "newSpan"
         \/ pc[t] = "lockPagesGive" /\ pc'[t] = "mergePrev"
  BY <1>1 DEF IInv, ThreadsTyped
<1>4. InUse' /\ HandsSound'
  BY <1>1, <1>3 DEF PagesSound, InUse, HandsSound, WithSpan
<1>5. PageLock'
  BY <1>1, <1>2, <1>3 DEF PageLock, Merging
<1>6. EndsMapped'
  BY <1>1, <1>2, SpansStay DEF PagesSound, EndsMapped
<1>7. SpanInOnePlace'
  <2>1. Hung' = Hung /\ InHand' = InHand
    BY <1>1 DEF Hung, InHand
  <2>. QED  BY <1>1, <2>1 DEF PagesSound, SpanInOnePlace
<1>8. Joined'
  <2>1. NothingBefore'
    BY <1>2, <1>3 DEF NothingBefore, Merging
  <2>. QED  BY <1>1, <2>1, SpansStay DEF PagesSound, Joined
<1>. QED  BY <1>1, <1>4, <1>5, <1>6, <1>7, <1>8, SpansStay DEF PagesSound

(* The holder of the page lock is the only one at work on the spans.       *)
LEMMA OneAtWork ==
  ASSUME PagesSound, NEW t \in Thread, Merging(t) \/ pc[t] = "newSpan"
  PROVE  /\ pageMtx = t
         /\ \A u \in Thread : Merging(u) \/ pc[u] = "newSpan" => u = t
BY DEF PagesSound, PageLock

(* Thread t, which had none, takes a span that was in nobody's hands.      *)
LEMMA TakesSpan ==
  ASSUME IInv, PagesSound, NEW t \in Thread, pc[t] = "newSpan",
         pc' = [pc EXCEPT ![t] = "carve"], NEW s \in SpanId, s \notin InHand,
         job' = [job EXCEPT ![t].span = s]
  PROVE  /\ pc'[t] = "carve" /\ \A u \in Thread : u # t => pc'[u] = pc[u]
         /\ job'[t].span = s /\ job'[t].size = job[t].size
         /\ \A u \in Thread : u # t => job'[u] = job[u] /\ job'[u].span # s
         /\ InHand' = InHand \cup {s}
         /\ \A u \in Thread : ~ Merging(u)'
<1>1. /\ pc'[t] = "carve" /\ \A u \in Thread : u # t => pc'[u] = pc[u]
      /\ job'[t].span = s /\ job'[t].size = job[t].size
      /\ \A u \in Thread : u # t => job'[u] = job[u]
  BY DEF IInv, ThreadsTyped, JobRecord
<1>2. s # NoSpan
  BY MemPoolAssumption
<1>3. \A u \in Thread : u # t => job'[u].span # s
  BY <1>1, <1>2 DEF InHand
<1>4. job[t].span = NoSpan
  BY DEF PagesSound, HandsSound, WithSpan
<1>5. InHand' = InHand \cup {s}
  BY <1>1, <1>2, <1>4 DEF InHand
<1>6. \A u \in Thread : ~ Merging(u)'
  BY <1>1, OneAtWork DEF Merging
<1>. QED  BY <1>1, <1>3, <1>5, <1>6

LEMMA NewSpanExactStep ==
  ASSUME IInv, PagesSound, NEW t \in Thread, NewSpanExact(t)
  PROVE  PagesSound'
<1>. DEFINE k == NumMovePage(job[t].size)
<1>1. PICK s \in pageLists[k] :
        /\ pageLists' = [pageLists EXCEPT ![k] = @ \ {s}]
        /\ span' = [span EXCEPT ![s].isUse = TRUE]
        /\ job' = [job EXCEPT ![t].span = s]
  BY DEF NewSpanExact
<1>2. /\ pc[t] = "newSpan" /\ pc' = [pc EXCEPT ![t] = "carve"] /\ pageMtx' = NoThread
      /\ UNCHANGED <<regions, allocated, idSpanMap, centralLists>>
  BY DEF NewSpanExact, At, Goto
<1>3. k \in 1 .. (NPAGES - 1)
  <2>1. job[t].size \in Sizes
    BY <1>2 DEF IInv, FetchFits, Fetching
  <2>2. k \in Nat \ {0}
    BY <2>1, NumMovePageType
  <2>3. k < NPAGES
    BY <2>1, MemPoolAssumption
  <2>. QED  BY <2>2, <2>3, SizeClassAssumption
<1>4. /\ s \in allocated /\ span[s].n = k /\ ~ span[s].isUse
      /\ s \notin Hung /\ s \notin InHand /\ s \in SpanId
      /\ allocated \subseteq SpanId
  BY <1>1, <1>3 DEF PagesSound, SpanInOnePlace, IInv, SpansTyped
<1>. HIDE DEF k
<1>5. /\ span'[s].isUse /\ span'[s].n = k
      /\ \A r \in SpanId : r # s => span'[r] = span[r]
      /\ \A r \in SpanId : span'[r].pageId = span[r].pageId /\ span'[r].n = span[r].n
  BY <1>1, <1>4 DEF IInv, SpansTyped, SpanRecord
<1>6. /\ \A j \in 1 .. (NPAGES - 1) : pageLists'[j] = pageLists[j] \ {s}
  <2>1. \A j \in 1 .. (NPAGES - 1) : j # k => s \notin pageLists[j]
    BY <1>4 DEF PagesSound, SpanInOnePlace
  <2>. QED  BY <1>1, <1>3, <2>1 DEF IInv, SpansTyped
<1>7. /\ pc'[t] = "carve" /\ \A u \in Thread : u # t => pc'[u] = pc[u]
      /\ job'[t].span = s /\ job'[t].size = job[t].size
      /\ \A u \in Thread : u # t => job'[u] = job[u] /\ job'[u].span # s
      /\ InHand' = InHand \cup {s}
      /\ \A u \in Thread : ~ Merging(u)'
  BY <1>1, <1>2, <1>4, TakesSpan
<1>8. \A r \in allocated : First(r)' = First(r) /\ Last(r)' = Last(r)
  BY <1>4, <1>5 DEF First, Last
<1>9. Measured' /\ Unused'
  BY <1>2, <1>4, <1>5 DEF PagesSound, Measured, Unused
<1>10. Apart' /\ Covered' /\ Inside' /\ FreshUnmapped'
  BY <1>2, <1>8 DEF PagesSound, Apart, Covered, Inside, FreshUnmapped, Mapped
<1>11. InUse'
  BY <1>2, <1>4, <1>5 DEF PagesSound, InUse, IInv, SpansTyped, Hung
<1>12. HandsSound'
  <2>. SUFFICES ASSUME NEW u \in Thread
                PROVE  IF pc'[u] \in WithSpan
                         THEN /\ job'[u].span \in allocated /\ span'[job'[u].span].isUse
                              /\ pc'[u] \in {"carve", "hang"} =>
                                   span'[job'[u].span].n = NumMovePage(job'[u].size)
                         ELSE job'[u].span = NoSpan
    BY <1>2 DEF HandsSound
  <2>1. CASE u = t
    BY <1>4, <1>5, <1>7, <2>1 DEF WithSpan, k
  <2>2. CASE u # t
    BY <1>4, <1>5, <1>7, <2>2 DEF PagesSound, HandsSound
  <2>. QED  BY <2>1, <2>2
<1>13. PageLock'
  <2>1. \A u \in Thread : pc'[u] # "newSpan"
    BY <1>2, <1>7, OneAtWork
  <2>. QED  BY <1>7, <2>1 DEF PageLock
<1>14. EndsMapped'
  <2>1. \A r \in allocated : EndsKnown(r)
    BY <1>2, OneAtWork DEF PagesSound, EndsMapped, Merging
  <2>2. \A r \in allocated : EndsKnown(r)'
    BY <1>2, <1>4, <1>5, <1>8, <2>1 DEF EndsKnown
  <2>. QED  BY <1>2, <2>2 DEF EndsMapped
<1>15. SpanInOnePlace'
  <2>1. Hung' = Hung
    BY <1>2 DEF Hung
  <2>2. \A j \in 1 .. (NPAGES - 1) : \A r \in pageLists'[j] :
          r \in allocated /\ span'[r].n = j /\ ~ span'[r].isUse /\ r \notin Hung' \cup InHand'
    BY <1>4, <1>5, <1>6, <1>7, <2>1 DEF PagesSound, SpanInOnePlace
  <2>3. \A r \in allocated : ~ span'[r].isUse => \E j \in 1 .. (NPAGES - 1) : r \in pageLists'[j]
    BY <1>4, <1>5, <1>6 DEF PagesSound, SpanInOnePlace
  <2>4. \A r \in Hung' : r \in allocated /\ r \notin InHand'
    BY <1>4, <1>7, <2>1 DEF PagesSound, SpanInOnePlace
  <2>5. \A u, v \in Thread : u # v /\ job'[u].span # NoSpan => job'[u].span # job'[v].span
    BY <1>7 DEF PagesSound, SpanInOnePlace
  <2>20. \A r \in allocated' : span'[r].isUse => r \in Hung' \cup InHand'
    BY <1>2, <1>4, <1>5, <1>7, <2>1 DEF PagesSound, SpanInOnePlace
  <2>. QED  BY <1>2, <2>2, <2>3, <2>4, <2>5, <2>20 DEF PagesSound, SpanInOnePlace
<1>16. Joined'
  <2>1. NothingBefore'
    BY <1>7 DEF NothingBefore, Merging
  <2>2. Coalesced => Coalesced'
    <3>1. \A j \in 1 .. (NPAGES - 1) : pageLists'[j] \subseteq pageLists[j] /\ pageLists[j] \subseteq SpanId
      BY <1>6 DEF IInv, SpansTyped
    <3>. QED  BY <1>5, <3>1 DEF Coalesced
  <2>. QED  BY <2>1, <2>2 DEF PagesSound, Joined
<1>. QED
  BY <1>2, <1>9, <1>10, <1>11, <1>12, <1>13, <1>14, <1>15, <1>16 DEF PagesSound

LEMMA NewSpanSplitStep ==
  ASSUME IInv, PagesSound, NEW t \in Thread, NewSpanSplit(t)
  PROVE  PagesSound'
<1>. DEFINE k == NumMovePage(job[t].size)
<1>1. PICK i \in (k + 1) .. (NPAGES - 1) :
        \E nSpan \in pageLists[i], kSpan \in SpanId \ allocated :
          /\ allocated' = allocated \cup {kSpan}
          /\ span' = [span EXCEPT
               ![kSpan] = SpanOf(span[nSpan].pageId, k, TRUE),
               ![nSpan].pageId = span[nSpan].pageId + k,
               ![nSpan].n = span[nSpan].n - k]
          /\ pageLists' = [pageLists EXCEPT ![i] = @ \ {nSpan},
                                            ![span[nSpan].n - k] = @ \cup {nSpan}]
          /\ idSpanMap' = MapSplit(kSpan, nSpan, span[nSpan].pageId, k, span[nSpan].n - k)
          /\ job' = [job EXCEPT ![t].span = kSpan]
  BY DEF NewSpanSplit
<1>2. PICK nSpan \in pageLists[i], kSpan \in SpanId \ allocated :
        /\ allocated' = allocated \cup {kSpan}
        /\ span' = [span EXCEPT
             ![kSpan] = SpanOf(span[nSpan].pageId, k, TRUE),
             ![nSpan].pageId = span[nSpan].pageId + k,
             ![nSpan].n = span[nSpan].n - k]
        /\ pageLists' = [pageLists EXCEPT ![i] = @ \ {nSpan},
                                          ![span[nSpan].n - k] = @ \cup {nSpan}]
        /\ idSpanMap' = MapSplit(kSpan, nSpan, span[nSpan].pageId, k, span[nSpan].n - k)
        /\ job' = [job EXCEPT ![t].span = kSpan]
  BY <1>1
<1>3. /\ pc[t] = "newSpan" /\ pc' = [pc EXCEPT ![t] = "carve"] /\ pageMtx' = NoThread
      /\ UNCHANGED <<regions, centralLists>>
  BY DEF NewSpanSplit, At, Goto
<1>4. k \in Nat \ {0} /\ i \in Nat /\ i \in 1 .. (NPAGES - 1) /\ k < i
      /\ NPAGES \in Nat
  <2>1. job[t].size \in Sizes
    BY <1>3 DEF IInv, FetchFits, Fetching
  <2>2. k \in Nat \ {0}
    BY <2>1, NumMovePageType
  <2>. QED  BY <2>2, SizeClassAssumption
<1>5. /\ nSpan \in allocated /\ span[nSpan].n = i /\ ~ span[nSpan].isUse
      /\ nSpan \notin Hung /\ nSpan \notin InHand
      /\ allocated \subseteq SpanId /\ nSpan # kSpan /\ kSpan # NoSpan
  BY <1>4, MemPoolAssumption DEF PagesSound, SpanInOnePlace, IInv, SpansTyped
<1>6. kSpan \notin Hung /\ kSpan \notin InHand
  <2>1. \A u \in Thread : job[u].span \in allocated \cup {NoSpan}
    BY DEF PagesSound, HandsSound
  <2>. QED  BY <1>5, <2>1 DEF Hung, InHand, PagesSound, SpanInOnePlace
<1>. HIDE DEF k
<1>7. PICK first \in Nat \ {0} : first = span[nSpan].pageId
  BY <1>5 DEF PagesSound, Measured
<1>8. /\ span'[kSpan] = SpanOf(first, k, TRUE)
      /\ span'[nSpan].pageId = first + k /\ span'[nSpan].n = i - k
      /\ ~ span'[nSpan].isUse
      /\ \A r \in SpanId : r # kSpan /\ r # nSpan => span'[r] = span[r]
  <2>1. span \in [SpanId -> SpanRecord]
    BY DEF IInv, SpansTyped
  <2>. QED  BY <1>2, <1>5, <1>7, <2>1 DEF SpanRecord
<1>9. /\ span'[kSpan].pageId = first /\ span'[kSpan].n = k /\ span'[kSpan].isUse
  BY <1>8 DEF SpanOf
<1>10. \A j \in 1 .. (NPAGES - 1) :
         pageLists'[j] = IF j = i - k THEN pageLists[j] \cup {nSpan} ELSE pageLists[j] \ {nSpan}
  <2>1. \A j \in 1 .. (NPAGES - 1) : j # i => nSpan \notin pageLists[j]
    BY <1>5 DEF PagesSound, SpanInOnePlace
  <2>2. i - k \in 1 .. (NPAGES - 1) /\ i - k # i /\ span[nSpan].n - k = i - k
    BY <1>4, <1>5
  <2>3. pageLists' = [pageLists EXCEPT ![i] = @ \ {nSpan}, ![i - k] = @ \cup {nSpan}]
    BY <1>2, <2>2
  <2>. QED  BY <1>4, <2>1, <2>2, <2>3 DEF IInv, SpansTyped
<1>11. /\ pc'[t] = "carve" /\ \A u \in Thread : u # t => pc'[u] = pc[u]
       /\ job'[t].span = kSpan /\ job'[t].size = job[t].size
       /\ \A u \in Thread : u # t => job'[u] = job[u] /\ job'[u].span # kSpan
       /\ InHand' = InHand \cup {kSpan}
       /\ \A u \in Thread : ~ Merging(u)'
  BY <1>2, <1>3, <1>6, TakesSpan
<1>12. /\ First(nSpan) = first /\ Last(nSpan) = first + i - 1
       /\ First(kSpan)' = first /\ Last(kSpan)' = first + k - 1
       /\ First(nSpan)' = first + k /\ Last(nSpan)' = first + i - 1
       /\ \A r \in allocated : r # nSpan => First(r)' = First(r) /\ Last(r)' = Last(r)
  <2>1. \A r \in allocated : r # nSpan => span'[r] = span[r]
    BY <1>5, <1>8
  <2>2. First(nSpan) = first /\ Last(nSpan) = first + i - 1
    BY <1>5, <1>7 DEF First, Last
  <2>3. First(kSpan)' = first /\ Last(kSpan)' = first + k - 1
    BY <1>9 DEF First, Last
  <2>4. First(nSpan)' = first + k /\ Last(nSpan)' = first + i - 1
    <3>1. first + k + (i - k) - 1 = first + i - 1  BY <1>4
    <3>. QED  BY <1>8, <3>1 DEF First, Last
  <2>. QED  BY <2>1, <2>2, <2>3, <2>4 DEF First, Last
<1>13. \A r \in allocated : /\ First(r) \in Nat /\ Last(r) \in Nat /\ First(r) <= Last(r)
                            /\ First(r) \in Page /\ Last(r) \in Page
  BY SpanPages
<1>14. Measured' /\ Unused'
  <2>1. Unused'
    BY <1>2, <1>5, <1>8 DEF PagesSound, Unused
  <2>. SUFFICES ASSUME NEW r \in allocated'
                PROVE  span'[r].pageId \in Nat \ {0} /\ span'[r].n \in 1 .. (NPAGES - 1)
    BY <2>1 DEF Measured
  <2>2. CASE r = kSpan
    BY <1>4, <1>9, <2>2
  <2>3. CASE r = nSpan
    BY <1>4, <1>8, <2>3
  <2>4. CASE r # kSpan /\ r # nSpan
    <3>1. r \in allocated /\ span'[r] = span[r]
      BY <1>2, <1>5, <1>8, <2>4
    <3>. QED  BY <3>1 DEF PagesSound, Measured
  <2>. QED  BY <2>2, <2>3, <2>4
<1>15. Apart'
  <2>1. \A r \in allocated : r # nSpan => Last(r) < first \/ first + i - 1 < First(r)
    BY <1>5, <1>12 DEF PagesSound, Apart
  <2>. SUFFICES ASSUME NEW s \in allocated', NEW r \in allocated', s # r
                PROVE  Last(s)' < First(r)' \/ Last(r)' < First(s)'
    BY DEF Apart
  <2>2. CASE s = kSpan /\ r = nSpan  BY <1>4, <1>12, <2>2
  <2>3. CASE s = nSpan /\ r = kSpan  BY <1>4, <1>12, <2>3
  <2>4. CASE s \in {kSpan, nSpan} /\ r \notin {kSpan, nSpan}
    BY <1>2, <1>4, <1>12, <1>13, <2>1, <2>4
  <2>5. CASE r \in {kSpan, nSpan} /\ s \notin {kSpan, nSpan}
    BY <1>2, <1>4, <1>12, <1>13, <2>1, <2>5
  <2>6. CASE s \notin {kSpan, nSpan} /\ r \notin {kSpan, nSpan}
    BY <1>2, <1>12, <2>6 DEF PagesSound, Apart
  <2>. QED  BY <2>2, <2>3, <2>4, <2>5, <2>6
<1>16. \A p \in Int : (\E s \in allocated : First(s) <= p /\ p <= Last(s)) <=>
                      (\E s \in allocated' : First(s)' <= p /\ p <= Last(s)')
  <2>. SUFFICES ASSUME NEW p \in Int
                PROVE  (\E s \in allocated : First(s) <= p /\ p <= Last(s)) <=>
                       (\E s \in allocated' : First(s)' <= p /\ p <= Last(s)')
    OBVIOUS
  <2>1. ASSUME NEW s \in allocated, First(s) <= p, p <= Last(s)
        PROVE  \E r \in allocated' : First(r)' <= p /\ p <= Last(r)'
    <3>1. CASE s # nSpan  BY <1>2, <1>12, <2>1, <3>1
    <3>2. CASE s = nSpan /\ p < first + k
      <4>1. First(kSpan)' <= p /\ p <= Last(kSpan)'
        BY <1>4, <1>12, <2>1, <3>2
      <4>. QED  BY <1>2, <4>1
    <3>3. CASE s = nSpan /\ p >= first + k
      <4>1. First(nSpan)' <= p /\ p <= Last(nSpan)'
        BY <1>4, <1>12, <2>1, <3>3
      <4>. QED  BY <1>2, <1>5, <4>1
    <3>. QED  BY <1>4, <3>1, <3>2, <3>3
  <2>2. ASSUME NEW s \in allocated', First(s)' <= p, p <= Last(s)'
        PROVE  \E r \in allocated : First(r) <= p /\ p <= Last(r)
    <3>1. CASE s \notin {nSpan, kSpan}  BY <1>2, <1>12, <2>2, <3>1
    <3>2. CASE s \in {nSpan, kSpan}
      <4>1. First(nSpan) <= p /\ p <= Last(nSpan)
        BY <1>4, <1>12, <2>2, <3>2
      <4>. QED  BY <1>5, <4>1
    <3>. QED  BY <3>1, <3>2
  <2>. QED  BY <2>1, <2>2
<1>17. Covered' /\ FreshUnmapped' /\ Inside'
  <2>1. Covered'
    <3>1. \A p \in Page : p \in Int  BY PageIs
    <3>2. \A p : Mapped(p)' <=> Mapped(p)  BY <1>3 DEF Mapped
    <3>. QED  BY <1>16, <3>1, <3>2 DEF PagesSound, Covered
  <2>2. FreshUnmapped'
    <3>. SUFFICES ASSUME NEW p \in Page, ~ Mapped(p)
                  PROVE  idSpanMap'[p] = NoSpan
      BY <1>3 DEF FreshUnmapped, Mapped
    <3>1. idSpanMap[p] = NoSpan /\ p \in Int
      BY PageIs DEF PagesSound, FreshUnmapped
    <3>2. ~ (first <= p /\ p <= first + i - 1)
      BY <1>5, <1>12, <3>1, SpanPages
    <3>3. p \notin first .. (first + k - 1) /\ p # first + k /\ p # first + k + (i - k) - 1
      BY <1>4, <3>1, <3>2
    <3>. QED  BY <1>2, <1>5, <1>7, <3>1, <3>3 DEF MapSplit
  <2>3. Inside'
    <3>. SUFFICES ASSUME NEW s \in allocated', NEW p \in First(s)' .. Last(s)'
                  PROVE  p \in Page
      BY DEF Inside
    <3>1. p \in Int /\ First(s)' <= p /\ p <= Last(s)'
      BY <1>2, <1>4, <1>12, <1>13
    <3>2. PICK r \in allocated : First(r) <= p /\ p <= Last(r)
      BY <1>16, <3>1
    <3>. QED  BY <3>1, <3>2, SpanPages
  <2>. QED  BY <2>1, <2>2, <2>3
<1>18. InUse'
  <2>. SUFFICES ASSUME NEW size \in Sizes, NEW s \in centralLists[size]
                PROVE  s \in allocated' /\ span'[s].isUse /\ span'[s].n = NumMovePage(size)
    BY <1>3 DEF InUse
  <2>1. s \in Hung  BY DEF Hung
  <2>2. s \in allocated /\ span'[s] = span[s]
    BY <1>5, <1>6, <1>8, <2>1 DEF PagesSound, SpanInOnePlace
  <2>. QED  BY <1>2, <2>2 DEF PagesSound, InUse
<1>19. HandsSound'
  <2>. SUFFICES ASSUME NEW u \in Thread
                PROVE  IF pc'[u] \in WithSpan
                         THEN /\ job'[u].span \in allocated' /\ span'[job'[u].span].isUse
                              /\ pc'[u] \in {"carve", "hang"} =>
                                   span'[job'[u].span].n = NumMovePage(job'[u].size)
                         ELSE job'[u].span = NoSpan
    BY DEF HandsSound
  <2>1. CASE u = t
    <3>1. kSpan \in allocated'  BY <1>2
    <3>2. NumMovePage(job'[t].size) = k  BY <1>11 DEF k
    <3>. QED  BY <1>9, <1>11, <2>1, <3>1, <3>2 DEF WithSpan
  <2>2. CASE u # t /\ pc[u] \in WithSpan
    <3>1. job[u].span \in allocated /\ job[u].span # nSpan
      BY <1>5, <2>2 DEF PagesSound, HandsSound
    <3>2. span'[job[u].span] = span[job[u].span]
      BY <1>5, <1>8, <3>1
    <3>. QED  BY <1>2, <1>11, <2>2, <3>1, <3>2 DEF PagesSound, HandsSound
  <2>3. CASE u # t /\ pc[u] \notin WithSpan
    BY <1>11, <2>3 DEF PagesSound, HandsSound
  <2>. QED  BY <2>1, <2>2, <2>3
<1>20. PageLock'
  <2>1. \A u \in Thread : pc'[u] # "newSpan"
    BY <1>3, <1>11, OneAtWork
  <2>. QED  BY <1>11, <2>1 DEF PageLock
<1>21. EndsMapped'
  <2>. SUFFICES ASSUME NEW r \in allocated' PROVE EndsKnown(r)'
    BY DEF EndsMapped
  <2>1. \A p \in Page : idSpanMap'[p] =
          IF p \in first .. (first + k - 1) THEN kSpan
          ELSE IF p \in {first + k, first + i - 1} THEN nSpan ELSE idSpanMap[p]
    <3>1. {first + k, first + k + (i - k) - 1} = {first + k, first + i - 1}
      BY <1>4
    <3>2. idSpanMap' = MapSplit(kSpan, nSpan, first, k, i - k)
      BY <1>2, <1>5, <1>7
    <3>. QED  BY <3>1, <3>2 DEF MapSplit
  <2>2. \A p \in Int : first <= p /\ p <= first + i - 1 => p \in Page
    BY <1>5, <1>12, SpanPages
  <2>3. CASE r = kSpan
    <3>1. first \in Page /\ first + k - 1 \in Page
      BY <1>4, <2>2
    <3>2. idSpanMap'[first] = kSpan /\ idSpanMap'[first + k - 1] = kSpan
      BY <1>4, <2>1, <3>1
    <3>. QED  BY <1>12, <2>3, <3>2 DEF EndsKnown
  <2>4. CASE r = nSpan
    <3>1. first + k \in Page /\ first + i - 1 \in Page
      BY <1>4, <2>2
    <3>2. idSpanMap'[first + k] = nSpan /\ idSpanMap'[first + i - 1] = nSpan
      BY <1>4, <2>1, <3>1
    <3>. QED  BY <1>12, <2>4, <3>2 DEF EndsKnown
  <2>5. CASE r \notin {kSpan, nSpan}
    <3>1. r \in allocated /\ (Last(r) < first \/ first + i - 1 < First(r))
      BY <1>2, <1>5, <1>12, <2>5 DEF PagesSound, Apart
    <3>2. EndsKnown(r)
      BY <1>3, <3>1, OneAtWork DEF PagesSound, EndsMapped, Merging
    <3>3. idSpanMap'[First(r)] = idSpanMap[First(r)] /\ idSpanMap'[Last(r)] = idSpanMap[Last(r)]
      BY <1>4, <1>13, <2>1, <3>1
    <3>4. First(r)' = First(r) /\ Last(r)' = Last(r) /\ span'[r].n = span[r].n
      BY <1>5, <1>8, <1>12, <2>5, <3>1
    <3>. QED  BY <3>2, <3>3, <3>4 DEF EndsKnown
  <2>. QED  BY <2>3, <2>4, <2>5
<1>22. SpanInOnePlace'
  <2>1. Hung' = Hung
    BY <1>3 DEF Hung
  <2>2. ASSUME NEW j \in 1 .. (NPAGES - 1), NEW r \in pageLists'[j]
        PROVE  r \in allocated' /\ span'[r].n = j /\ ~ span'[r].isUse /\ r \notin Hung' \cup InHand'
    <3>1. CASE r = nSpan
      <4>1. j = i - k  BY <1>10, <2>2, <3>1
      <4>. QED  BY <1>2, <1>5, <1>8, <1>11, <2>1, <3>1, <4>1
    <3>2. CASE r # nSpan
      <4>1. r \in pageLists[j]  BY <1>10, <2>2, <3>2
      <4>2. r \in allocated /\ span[r].n = j /\ ~ span[r].isUse /\ r \notin Hung \cup InHand
        BY <4>1 DEF PagesSound, SpanInOnePlace
      <4>. QED  BY <1>2, <1>5, <1>8, <1>11, <2>1, <3>2, <4>2
    <3>. QED  BY <3>1, <3>2
  <2>3. ASSUME NEW r \in allocated', ~ span'[r].isUse
        PROVE  \E j \in 1 .. (NPAGES - 1) : r \in pageLists'[j]
    <3>1. CASE r = nSpan
      <4>1. i - k \in 1 .. (NPAGES - 1)  BY <1>4
      <4>. QED  BY <1>10, <3>1, <4>1
    <3>2. CASE r # nSpan
      <4>1. r \in allocated /\ ~ span[r].isUse
        BY <1>2, <1>5, <1>8, <1>9, <2>3, <3>2
      <4>2. PICK j \in 1 .. (NPAGES - 1) : r \in pageLists[j]
        BY <4>1 DEF PagesSound, SpanInOnePlace
      <4>. QED  BY <1>10, <3>2, <4>2
    <3>. QED  BY <3>1, <3>2
  <2>4. \A r \in Hung' : r \in allocated' /\ r \notin InHand'
    BY <1>2, <1>6, <1>11, <2>1 DEF PagesSound, SpanInOnePlace
  <2>5. \A u, v \in Thread : u # v /\ job'[u].span # NoSpan => job'[u].span # job'[v].span
    BY <1>11 DEF PagesSound, SpanInOnePlace
  <2>6. \A c, d \in Sizes : c # d => centralLists'[c] \cap centralLists'[d] = {}
    BY <1>3 DEF PagesSound, SpanInOnePlace
  <2>20. \A r \in allocated' : span'[r].isUse => r \in Hung' \cup InHand'
    <3>. SUFFICES ASSUME NEW r \in allocated', span'[r].isUse PROVE r \in Hung \cup InHand'
      BY <2>1
    <3>1. r = kSpan \/ (r # kSpan /\ r # nSpan /\ r \in allocated)
      BY <1>2, <1>8
    <3>2. CASE r # kSpan /\ r # nSpan /\ r \in allocated
      BY <1>5, <1>8, <1>11, <3>2 DEF PagesSound, SpanInOnePlace
    <3>. QED  BY <1>11, <3>1, <3>2
  <2>. QED  BY <2>2, <2>3, <2>4, <2>5, <2>6, <2>20 DEF SpanInOnePlace
<1>23. Joined'
  <2>1. NothingBefore'
    BY <1>11 DEF NothingBefore, Merging
  <2>2. ASSUME Coalesced PROVE Coalesced'
    <3>. SUFFICES ASSUME NEW j \in 1 .. (NPAGES - 1), NEW m \in 1 .. (NPAGES - 1),
                         NEW s \in pageLists'[j], NEW r \in pageLists'[m]
                  PROVE  span'[s].pageId + span'[s].n # span'[r].pageId
      BY DEF Coalesced
    <3>1. /\ s = nSpan \/ (s \in pageLists[j] /\ s \in allocated)
          /\ r = nSpan \/ (r \in pageLists[m] /\ r \in allocated)
      <4>1. /\ s # nSpan => s \in pageLists[j]
            /\ r # nSpan => r \in pageLists[m]
        BY <1>10
      <4>2. \A l \in 1 .. (NPAGES - 1) : \A q \in pageLists[l] : q \in allocated
        BY DEF PagesSound, SpanInOnePlace
      <4>. QED  BY <4>1, <4>2
    <3>2. CASE s = nSpan /\ r = nSpan  BY <1>4, <1>8, <3>2
    <3>3. CASE s = nSpan /\ r # nSpan
      <4>1. span[nSpan].pageId + span[nSpan].n # span[r].pageId
        BY <1>4, <2>2, <3>1, <3>3 DEF Coalesced
      <4>2. span'[r] = span[r]  BY <1>2, <1>5, <1>8, <3>1, <3>3
      <4>. QED  BY <1>4, <1>5, <1>7, <1>8, <3>3, <4>1, <4>2
    <3>4. CASE s # nSpan /\ r = nSpan
      <4>1. s \in allocated /\ span'[s] = span[s]
        BY <1>2, <1>5, <1>8, <3>1, <3>4
      <4>2. Last(s) < first \/ first + i - 1 < First(s)
        BY <1>5, <1>12, <3>4, <4>1 DEF PagesSound, Apart
      <4>3. span[s].pageId \in Nat /\ span[s].n \in Nat /\ span[s].n >= 1
        BY <1>4, <4>1 DEF PagesSound, Measured
      <4>4. span'[nSpan].pageId = first + k  BY <1>8
      <4>. QED  BY <1>4, <3>4, <4>1, <4>2, <4>3, <4>4 DEF First, Last
    <3>5. CASE s # nSpan /\ r # nSpan
      <4>1. span'[s] = span[s] /\ span'[r] = span[r]
        BY <1>5, <1>8, <3>1, <3>5
      <4>2. s \in pageLists[j] /\ r \in pageLists[m]
        BY <3>1, <3>5
      <4>3. span[s].pageId + span[s].n # span[r].pageId
        BY <2>2, <4>2 DEF Coalesced
      <4>. QED  BY <4>1, <4>3
    <3>. QED  BY <3>2, <3>3, <3>4, <3>5
  <2>. QED  BY <2>1, <2>2 DEF PagesSound, Joined
<1>. QED
  BY <1>3, <1>14, <1>15, <1>17, <1>18, <1>19, <1>20, <1>21, <1>22, <1>23 DEF PagesSound

(* A new region meets no span, and touches none if regions do not touch.   *)
LEMMA NewRegion ==
  ASSUME IInv, PagesSound, NEW base \in Base \ regions, NEW s \in allocated
  PROVE  /\ Last(s) < base \/ base + NPAGES - 2 < First(s)
         /\ Gaps => Last(s) + 1 # base /\ base + NPAGES - 1 # First(s)
<1>1. /\ First(s) \in Nat /\ Last(s) \in Nat /\ First(s) <= Last(s)
      /\ base \in Nat /\ NPAGES \in Nat /\ NPAGES > 1
      /\ \A p \in Int : First(s) <= p /\ p <= Last(s) => Mapped(p)
      /\ regions \subseteq Base /\ Base \subseteq Nat
  BY SpanPages, MemPoolAssumption, SizeClassAssumption DEF PagesSound
<1>2. \A b \in regions : b # base /\ b \in Nat /\ (b + NPAGES - 1 <= base \/ base + NPAGES - 1 <= b)
  BY <1>1, MemPoolAssumption
<1>3. PICK b \in regions : b <= First(s) /\ First(s) <= b + NPAGES - 2
  BY <1>1 DEF Mapped
<1>4. PICK c \in regions : c <= Last(s) /\ Last(s) <= c + NPAGES - 2
  BY <1>1 DEF Mapped
<1>5. Last(s) < base \/ base + NPAGES - 2 < First(s)
  <2>1. CASE First(s) <= base /\ base <= Last(s)
    <3>1. PICK d \in regions : d <= base /\ base <= d + NPAGES - 2
      BY <1>1, <2>1 DEF Mapped
    <3>. QED  BY <1>1, <1>2, <3>1
  <2>2. CASE base < First(s)
    BY <1>1, <1>2, <1>3, <2>2
  <2>. QED  BY <1>1, <2>1, <2>2
<1>6. ASSUME Gaps PROVE Last(s) + 1 # base /\ base + NPAGES - 1 # First(s)
  <2>1. \A d \in regions : d + NPAGES <= base \/ base + NPAGES <= d
    BY <1>1, <1>2, <1>6 DEF Gaps
  <2>. QED  BY <1>1, <1>2, <1>3, <1>4, <2>1
<1>. QED  BY <1>5, <1>6

LEMMA NewSpanGrowStep ==
  ASSUME IInv, PagesSound, NEW t \in Thread, NewSpanGrow(t)
  PROVE  PagesSound'
<1>1. PICK base \in Base \ regions, bigSpan \in SpanId \ allocated :
        /\ regions' = regions \cup {base}
        /\ allocated' = allocated \cup {bigSpan}
        /\ span' = [span EXCEPT ![bigSpan] = SpanOf(base, NPAGES - 1, FALSE)]
        /\ pageLists' = [pageLists EXCEPT ![NPAGES - 1] = @ \cup {bigSpan}]
  BY DEF NewSpanGrow
<1>2. /\ pc[t] = "newSpan"
      /\ UNCHANGED <<idSpanMap, pageMtx, centralLists, pc, job>>
  BY DEF NewSpanGrow, At
<1>3. /\ base \in Nat \ {0} /\ base \in Base /\ NPAGES \in Nat /\ NPAGES > 1
      /\ NPAGES - 1 \in 1 .. (NPAGES - 1) /\ allocated \subseteq SpanId
  BY MemPoolAssumption, SizeClassAssumption DEF IInv, SpansTyped
<1>4. \A r \in SpanId : r # bigSpan => span'[r] = span[r]
  BY <1>1 DEF IInv, SpansTyped
<1>5. /\ span'[bigSpan].pageId = base /\ span'[bigSpan].n = NPAGES - 1
      /\ ~ span'[bigSpan].isUse
  BY <1>1 DEF IInv, SpansTyped, SpanOf
<1>6. /\ First(bigSpan)' = base /\ Last(bigSpan)' = base + NPAGES - 2
      /\ \A r \in allocated : First(r)' = First(r) /\ Last(r)' = Last(r)
  <2>1. base + (NPAGES - 1) - 1 = base + NPAGES - 2  BY <1>3
  <2>. QED  BY <1>3, <1>4, <1>5, <2>1 DEF First, Last
<1>7. \A j \in 1 .. (NPAGES - 1) : \A r \in pageLists'[j] :
        r \in pageLists[j] \/ (r = bigSpan /\ j = NPAGES - 1)
  BY <1>1, <1>3 DEF IInv, SpansTyped
<1>8. \A j \in 1 .. (NPAGES - 1) :
        /\ pageLists[j] \subseteq pageLists'[j] /\ pageLists[j] \subseteq allocated
        /\ bigSpan \in pageLists'[NPAGES - 1]
  BY <1>1, <1>3 DEF IInv, SpansTyped, PagesSound, SpanInOnePlace
<1>9. bigSpan \notin Hung /\ bigSpan \notin InHand
  <2>1. \A u \in Thread : job[u].span \in allocated \cup {NoSpan}
    BY DEF PagesSound, HandsSound
  <2>. QED  BY <2>1, MemPoolAssumption DEF Hung, InHand, PagesSound, SpanInOnePlace
<1>10. Measured' /\ Unused'
  BY <1>1, <1>3, <1>4, <1>5 DEF PagesSound, Measured, Unused
<1>11. Apart'
  <2>1. \A s \in allocated : Last(s) < base \/ base + NPAGES - 2 < First(s)
    BY NewRegion
  <2>. QED  BY <1>1, <1>6, <2>1 DEF PagesSound, Apart
<1>12. Covered'
  <2>. SUFFICES ASSUME NEW p \in Page
                PROVE  Mapped(p)' <=> \E s \in allocated' : First(s)' <= p /\ p <= Last(s)'
    BY DEF Covered
  <2>1. Mapped(p)' <=> Mapped(p) \/ (base <= p /\ p <= base + NPAGES - 2)
    BY <1>1 DEF Mapped
  <2>2. Mapped(p) <=> \E s \in allocated : First(s) <= p /\ p <= Last(s)
    BY DEF PagesSound, Covered
  <2>. QED  BY <1>1, <1>6, <2>1, <2>2
<1>13. Inside'
  <2>. SUFFICES ASSUME NEW s \in allocated', NEW p \in First(s)' .. Last(s)'
                PROVE  p \in Page
    BY DEF Inside
  <2>1. CASE s = bigSpan
    <3>1. p \in Nat \ {0} /\ base <= p /\ p <= base + NPAGES - 2
      BY <1>3, <1>6, <2>1
    <3>. QED  BY <1>3, <3>1, PageIs
  <2>2. CASE s \in allocated
    BY <1>6, <2>2 DEF PagesSound, Inside
  <2>. QED  BY <1>1, <2>1, <2>2
<1>14. FreshUnmapped'
  BY <1>1, <1>2 DEF PagesSound, FreshUnmapped, Mapped
<1>15. InUse'
  <2>1. \A size \in Sizes : \A s \in centralLists[size] : s \in allocated /\ span'[s] = span[s]
    BY <1>3, <1>4 DEF PagesSound, InUse
  <2>. QED  BY <1>1, <1>2, <2>1 DEF PagesSound, InUse
<1>16. HandsSound'
  <2>1. \A u \in Thread : pc[u] \in WithSpan => span'[job[u].span] = span[job[u].span]
    BY <1>3, <1>4 DEF PagesSound, HandsSound
  <2>. QED  BY <1>1, <1>2, <2>1 DEF PagesSound, HandsSound
<1>17. PageLock'
  BY <1>2 DEF PagesSound, PageLock, Merging
<1>18. EndsMapped'
  <2>. SUFFICES ASSUME NEW s \in allocated' PROVE EndsKnown(s)'
    BY DEF EndsMapped
  <2>1. CASE s = bigSpan
    <3>1. base \in Page /\ base + NPAGES - 2 \in Page
      BY <1>3, PageIs
    <3>2. ~ Mapped(base) /\ ~ Mapped(base + NPAGES - 2)
      <4>1. \A b \in regions : b \in Base /\ b \in Nat /\ b # base
        BY MemPoolAssumption DEF PagesSound
      <4>2. \A b \in regions : b + NPAGES - 1 <= base \/ base + NPAGES - 1 <= b
        BY <1>3, <4>1, MemPoolAssumption
      <4>. QED  BY <1>3, <4>1, <4>2 DEF Mapped
    <3>. QED  BY <1>2, <1>5, <1>6, <2>1, <3>1, <3>2 DEF PagesSound, FreshUnmapped, EndsKnown
  <2>2. CASE s \in allocated
    <3>1. EndsKnown(s)
      BY <1>2, <2>2, OneAtWork DEF PagesSound, EndsMapped, Merging
    <3>2. span'[s] = span[s]
      BY <1>3, <1>4, <2>2
    <3>. QED  BY <1>2, <1>6, <2>2, <3>1, <3>2 DEF EndsKnown
  <2>. QED  BY <1>1, <2>1, <2>2
<1>19. SpanInOnePlace'
  <2>1. Hung' = Hung /\ InHand' = InHand
    BY <1>2 DEF Hung, InHand
  <2>2. ASSUME NEW j \in 1 .. (NPAGES - 1), NEW r \in pageLists'[j]
        PROVE  r \in allocated' /\ span'[r].n = j /\ ~ span'[r].isUse /\ r \notin Hung' \cup InHand'
    <3>1. CASE r = bigSpan /\ j = NPAGES - 1
      BY <1>1, <1>5, <1>9, <2>1, <3>1
    <3>2. CASE r \in pageLists[j]
      <4>1. r \in allocated /\ span[r].n = j /\ ~ span[r].isUse /\ r \notin Hung \cup InHand
        BY <3>2 DEF PagesSound, SpanInOnePlace
      <4>. QED  BY <1>1, <1>3, <1>4, <2>1, <4>1
    <3>. QED  BY <1>7, <2>2, <3>1, <3>2
  <2>3. ASSUME NEW r \in allocated', ~ span'[r].isUse
        PROVE  \E j \in 1 .. (NPAGES - 1) : r \in pageLists'[j]
    <3>1. CASE r = bigSpan  BY <1>3, <1>8, <3>1
    <3>2. CASE r \in allocated
      <4>1. ~ span[r].isUse  BY <1>3, <1>4, <2>3, <3>2
      <4>2. PICK j \in 1 .. (NPAGES - 1) : r \in pageLists[j]
        BY <3>2, <4>1 DEF PagesSound, SpanInOnePlace
      <4>. QED  BY <1>8, <4>2
    <3>. QED  BY <1>1, <2>3, <3>1, <3>2
  <2>4. \A r \in Hung' : r \in allocated' /\ r \notin InHand'
    BY <1>1, <2>1 DEF PagesSound, SpanInOnePlace
  <2>5. \A u, v \in Thread : u # v /\ job'[u].span # NoSpan => job'[u].span # job'[v].span
    BY <1>2 DEF PagesSound, SpanInOnePlace
  <2>6. \A c, d \in Sizes : c # d => centralLists'[c] \cap centralLists'[d] = {}
    BY <1>2 DEF PagesSound, SpanInOnePlace
  <2>20. \A r \in allocated' : span'[r].isUse => r \in Hung' \cup InHand'
    <3>. SUFFICES ASSUME NEW r \in allocated', span'[r].isUse PROVE r \in Hung \cup InHand
      BY <2>1
    <3>1. r \in allocated /\ span'[r] = span[r]
      BY <1>1, <1>3, <1>4, <1>5
    <3>. QED  BY <3>1 DEF PagesSound, SpanInOnePlace
  <2>. QED  BY <2>2, <2>3, <2>4, <2>5, <2>6, <2>20 DEF SpanInOnePlace
<1>20. Joined'
  <2>. SUFFICES ASSUME Gaps PROVE Coalesced' /\ NothingBefore'
    BY DEF Joined
  <2>1. NothingBefore'
    BY <1>2, OneAtWork DEF NothingBefore, Merging
  <2>. SUFFICES ASSUME NEW j \in 1 .. (NPAGES - 1), NEW m \in 1 .. (NPAGES - 1),
                       NEW s \in pageLists'[j], NEW r \in pageLists'[m]
                PROVE  span'[s].pageId + span'[s].n # span'[r].pageId
    BY <2>1 DEF Coalesced
  <2>2. /\ s = bigSpan \/ (s \in pageLists[j] /\ s \in allocated /\ span'[s] = span[s])
        /\ r = bigSpan \/ (r \in pageLists[m] /\ r \in allocated /\ span'[r] = span[r])
    <3>1. s = bigSpan \/ s \in pageLists[j]  BY <1>7
    <3>2. r = bigSpan \/ r \in pageLists[m]  BY <1>7
    <3>. QED  BY <1>3, <1>4, <1>8, <3>1, <3>2
  <2>3. CASE s = bigSpan /\ r = bigSpan  BY <1>3, <1>5, <2>3
  <2>4. CASE s = bigSpan /\ r # bigSpan
    <3>1. base + NPAGES - 1 # First(r)  BY <2>2, <2>4, NewRegion
    <3>. QED  BY <1>3, <1>5, <2>2, <2>4, <3>1 DEF First
  <2>5. CASE s # bigSpan /\ r = bigSpan
    <3>1. Last(s) + 1 # base  BY <2>2, <2>5, NewRegion
    <3>2. span[s].pageId \in Int /\ span[s].n \in Int
      BY <2>2, <2>5 DEF IInv, SpansTyped, SpanRecord
    <3>. QED  BY <1>5, <2>2, <2>5, <3>1, <3>2 DEF Last
  <2>6. CASE s # bigSpan /\ r # bigSpan
    BY <2>2, <2>6 DEF PagesSound, Joined, Coalesced
  <2>. QED  BY <2>3, <2>4, <2>5, <2>6
<1>21. regions' \subseteq Base
  BY <1>1 DEF PagesSound
<1>. QED
  BY <1>10, <1>11, <1>12, <1>13, <1>14, <1>15, <1>16, <1>17, <1>18, <1>19, <1>20, <1>21
  DEF PagesSound


(* A thread joins the span it has in hand with a free neighbour.           *)
LEMMA MergeKeeps ==
  ASSUME IInv, PagesSound, NEW t \in Thread, Merging(t),
         NEW s, s = job[t].span, NEW q \in allocated, q # s, ~ span[q].isUse,
         span[s].n + span[q].n <= NPAGES - 1,
         NEW first, Merge(s, q, first),
         \/ pc[t] = "mergePrev" /\ first = First(q) /\ Last(q) + 1 = First(s)
         \/ first = First(s) /\ Last(s) + 1 = First(q),
         UNCHANGED <<regions, idSpanMap, pageMtx, centralLists, pc, job>>
  PROVE  PagesSound'
<1>1. /\ s \in allocated /\ span[s].isUse /\ s \in InHand
      /\ allocated \subseteq SpanId /\ s \in SpanId /\ q \in SpanId /\ s # NoSpan
  BY MemPoolAssumption DEF PagesSound, HandsSound, Merging, WithSpan, IInv, SpansTyped, InHand
<1>2. PICK k \in 1 .. (NPAGES - 1) : q \in pageLists[k] /\ span[q].n = k
  BY DEF PagesSound, SpanInOnePlace
<1>3. q \notin Hung /\ q \notin InHand /\ s \notin Hung
  BY <1>1, <1>2 DEF PagesSound, SpanInOnePlace
<1>4. \A j \in 1 .. (NPAGES - 1) : pageLists'[j] = pageLists[j] \ {q}
  <2>1. \A j \in 1 .. (NPAGES - 1) : j # k => q \notin pageLists[j]
    BY <1>2 DEF PagesSound, SpanInOnePlace
  <2>2. pageLists' = [pageLists EXCEPT ![k] = @ \ {q}]
    BY <1>2 DEF Merge
  <2>. QED  BY <2>1, <2>2 DEF IInv, SpansTyped
<1>5. /\ span'[s].pageId = first /\ span'[s].n = span[s].n + span[q].n /\ span'[s].isUse
      /\ span'[q] = NewSpanRecord
      /\ \A r \in SpanId : r # s /\ r # q => span'[r] = span[r]
  <2>1. span \in [SpanId -> SpanRecord]
    BY DEF IInv, SpansTyped
  <2>. QED  BY <1>1, <2>1 DEF Merge, SpanRecord
<1>6. allocated' = allocated \ {q}
  BY DEF Merge
<1>7. /\ \A r \in allocated : /\ First(r) \in Nat /\ First(r) # 0 /\ Last(r) \in Nat
                              /\ First(r) <= Last(r) /\ Last(r) = First(r) + span[r].n - 1
                              /\ span[r].n \in 1 .. (NPAGES - 1)
      /\ NPAGES \in Nat
  BY SpanPages, SizeClassAssumption
<1>8. \A r \in allocated' : r # s =>
        /\ r \in allocated /\ r # q /\ r \in SpanId /\ span'[r] = span[r]
        /\ First(r)' = First(r) /\ Last(r)' = Last(r)
  BY <1>1, <1>5, <1>6 DEF First, Last
<1>9. /\ First(s)' = first /\ Last(s)' = first + span[s].n + span[q].n - 1
      /\ first \in Nat \ {0}
  BY <1>1, <1>5, <1>7 DEF First, Last
<1>10. \/ first = First(q) /\ Last(q) + 1 = First(s) /\ Last(s)' = Last(s)
       \/ first = First(s) /\ Last(s) + 1 = First(q) /\ Last(s)' = Last(q)
  BY <1>1, <1>7, <1>9
<1>11. \A p \in Int : (First(s)' <= p /\ p <= Last(s)') <=>
                      ((First(s) <= p /\ p <= Last(s)) \/ (First(q) <= p /\ p <= Last(q)))
  BY <1>1, <1>7, <1>9, <1>10
<1>12. Measured' /\ Unused'
  <2>1. Unused'
    BY <1>1, <1>5, <1>6 DEF PagesSound, Unused
  <2>2. span[s].n + span[q].n \in 1 .. (NPAGES - 1)
    BY <1>1, <1>7
  <2>. QED  BY <1>5, <1>6, <1>8, <1>9, <2>1, <2>2 DEF PagesSound, Measured
<1>13. Apart'
  <2>1. \A r \in allocated' : r # s => Last(s)' < First(r) \/ Last(r) < First(s)'
    <3>. SUFFICES ASSUME NEW r \in allocated', r # s
                  PROVE  Last(s)' < First(r) \/ Last(r) < First(s)'
      OBVIOUS
    <3>1. r \in allocated /\ r # q /\ r # s
      BY <1>8
    <3>2. Last(s) < First(r) \/ Last(r) < First(s)
      BY <1>1, <3>1 DEF PagesSound, Apart
    <3>3. Last(q) < First(r) \/ Last(r) < First(q)
      BY <3>1 DEF PagesSound, Apart
    <3>. QED  BY <1>1, <1>7, <1>9, <1>10, <3>1, <3>2, <3>3
  <2>2. \A r, v \in allocated' : r # v /\ r # s /\ v # s =>
          Last(r)' < First(v)' \/ Last(v)' < First(r)'
    BY <1>8 DEF PagesSound, Apart
  <2>. QED  BY <1>8, <2>1, <2>2 DEF Apart
<1>14. \A p \in Int : (\E r \in allocated : First(r) <= p /\ p <= Last(r)) <=>
                      (\E r \in allocated' : First(r)' <= p /\ p <= Last(r)')
  <2>. SUFFICES ASSUME NEW p \in Int
                PROVE  (\E r \in allocated : First(r) <= p /\ p <= Last(r)) <=>
                       (\E r \in allocated' : First(r)' <= p /\ p <= Last(r)')
    OBVIOUS
  <2>1. s \in allocated'
    BY <1>1, <1>6
  <2>2. ASSUME NEW r \in allocated, First(r) <= p, p <= Last(r)
        PROVE  \E v \in allocated' : First(v)' <= p /\ p <= Last(v)'
    <3>1. CASE r \in {s, q}  BY <1>11, <2>1, <2>2, <3>1
    <3>2. CASE r \notin {s, q}
      <4>1. r \in allocated' /\ First(r)' = First(r) /\ Last(r)' = Last(r)
        BY <1>6, <1>8, <3>2
      <4>. QED  BY <2>2, <4>1
    <3>. QED  BY <3>1, <3>2
  <2>3. ASSUME NEW r \in allocated', First(r)' <= p, p <= Last(r)'
        PROVE  \E v \in allocated : First(v) <= p /\ p <= Last(v)
    <3>1. CASE r = s  BY <1>1, <1>11, <2>3, <3>1
    <3>2. CASE r # s  BY <1>8, <2>3, <3>2
    <3>. QED  BY <3>1, <3>2
  <2>. QED  BY <2>2, <2>3
<1>15. Covered' /\ Inside' /\ FreshUnmapped'
  <2>1. \A p : Mapped(p)' <=> Mapped(p)
    BY DEF Mapped
  <2>2. \A p \in Page : p \in Int
    BY PageIs
  <2>3. Covered'
    BY <1>14, <2>1, <2>2 DEF PagesSound, Covered
  <2>4. FreshUnmapped'
    BY <2>1 DEF PagesSound, FreshUnmapped
  <2>5. Inside'
    <3>. SUFFICES ASSUME NEW r \in allocated', NEW p \in First(r)' .. Last(r)'
                  PROVE  p \in Page
      BY DEF Inside
    <3>1. First(r)' \in Int /\ Last(r)' \in Int
      <4>1. CASE r = s  BY <1>1, <1>7, <1>9, <4>1
      <4>2. CASE r # s  BY <1>7, <1>8, <4>2
      <4>. QED  BY <4>1, <4>2
    <3>2. p \in Int /\ First(r)' <= p /\ p <= Last(r)'
      BY <3>1
    <3>3. PICK v \in allocated : First(v) <= p /\ p <= Last(v)
      BY <1>14, <3>2
    <3>. QED  BY <3>2, <3>3, SpanPages
  <2>. QED  BY <2>3, <2>4, <2>5
<1>16. InUse'
  <2>. SUFFICES ASSUME NEW size \in Sizes, NEW r \in centralLists[size]
                PROVE  r \in allocated' /\ span'[r].isUse /\ span'[r].n = NumMovePage(size)
    BY DEF InUse
  <2>1. r \in Hung  BY DEF Hung
  <2>2. r \in allocated /\ r # s /\ r # q
    BY <1>3, <2>1 DEF PagesSound, SpanInOnePlace
  <2>3. r \in allocated' /\ span'[r] = span[r]
    BY <1>6, <1>8, <2>2
  <2>. QED  BY <2>3 DEF PagesSound, InUse
<1>17. HandsSound'
  <2>. SUFFICES ASSUME NEW u \in Thread
                PROVE  IF pc[u] \in WithSpan
                         THEN /\ job[u].span \in allocated' /\ span'[job[u].span].isUse
                              /\ pc[u] \in {"carve", "hang"} =>
                                   span'[job[u].span].n = NumMovePage(job[u].size)
                         ELSE job[u].span = NoSpan
    BY DEF HandsSound
  <2>1. CASE u = t
    BY <1>1, <1>5, <1>6, <2>1 DEF Merging, WithSpan
  <2>2. CASE u # t /\ pc[u] \in WithSpan
    <3>1. job[u].span \in allocated /\ job[u].span \in InHand
      BY <1>1, <2>2, MemPoolAssumption DEF PagesSound, HandsSound, InHand
    <3>2. job[u].span # s
      BY <1>1, <2>2 DEF PagesSound, SpanInOnePlace
    <3>3. job[u].span \in allocated' /\ span'[job[u].span] = span[job[u].span]
      BY <1>3, <1>6, <1>8, <3>1, <3>2
    <3>. QED  BY <2>2, <3>3 DEF PagesSound, HandsSound
  <2>3. CASE pc[u] \notin WithSpan
    BY <2>3 DEF PagesSound, HandsSound
  <2>. QED  BY <2>1, <2>2, <2>3
<1>18. PageLock'
  BY DEF PagesSound, PageLock, Merging
<1>19. EndsMapped'
  <2>. SUFFICES ASSUME NEW r \in allocated', r # s PROVE EndsKnown(r)'
    BY DEF EndsMapped, Merging
  <2>1. EndsKnown(r)
    <3>1. \A u \in Thread : Merging(u) => u = t
      BY OneAtWork
    <3>. QED  BY <1>8, <3>1 DEF PagesSound, EndsMapped
  <2>. QED  BY <1>8, <2>1 DEF EndsKnown
<1>20. SpanInOnePlace'
  <2>1. Hung' = Hung /\ InHand' = InHand
    BY DEF Hung, InHand
  <2>2. ASSUME NEW j \in 1 .. (NPAGES - 1), NEW r \in pageLists'[j]
        PROVE  r \in allocated' /\ span'[r].n = j /\ ~ span'[r].isUse /\ r \notin Hung' \cup InHand'
    <3>1. r \in pageLists[j] /\ r # q
      BY <1>4, <2>2
    <3>2. r \in allocated /\ span[r].n = j /\ ~ span[r].isUse /\ r \notin Hung \cup InHand
      BY <3>1 DEF PagesSound, SpanInOnePlace
    <3>3. r \in allocated' /\ span'[r] = span[r]
      BY <1>1, <1>6, <1>8, <3>1, <3>2
    <3>. QED  BY <2>1, <3>2, <3>3
  <2>3. ASSUME NEW r \in allocated', ~ span'[r].isUse
        PROVE  \E j \in 1 .. (NPAGES - 1) : r \in pageLists'[j]
    <3>1. r # s
      BY <1>5, <2>3
    <3>2. r \in allocated /\ r # q /\ ~ span[r].isUse
      BY <1>8, <2>3, <3>1
    <3>3. PICK j \in 1 .. (NPAGES - 1) : r \in pageLists[j]
      BY <3>2 DEF PagesSound, SpanInOnePlace
    <3>. QED  BY <1>4, <3>2, <3>3
  <2>4. \A r \in Hung' : r \in allocated' /\ r \notin InHand'
    BY <1>3, <1>6, <2>1 DEF PagesSound, SpanInOnePlace
  <2>5. \A u, v \in Thread : u # v /\ job'[u].span # NoSpan => job'[u].span # job'[v].span
    BY DEF PagesSound, SpanInOnePlace
  <2>6. \A c, d \in Sizes : c # d => centralLists'[c] \cap centralLists'[d] = {}
    BY DEF PagesSound, SpanInOnePlace
  <2>20. \A r \in allocated' : span'[r].isUse => r \in Hung' \cup InHand'
    <3>. SUFFICES ASSUME NEW r \in allocated', r # s, span'[r].isUse PROVE r \in Hung \cup InHand
      BY <1>1, <2>1
    <3>. QED  BY <1>8 DEF PagesSound, SpanInOnePlace
  <2>. QED  BY <2>2, <2>3, <2>4, <2>5, <2>6, <2>20 DEF SpanInOnePlace
<1>21. Joined'
  <2>1. \A j \in 1 .. (NPAGES - 1) : \A r \in pageLists'[j] :
          r \in pageLists[j] /\ r # s /\ r # q /\ r \in allocated /\ span'[r] = span[r]
    <3>1. \A j \in 1 .. (NPAGES - 1) : \A r \in pageLists[j] : r \in allocated /\ r # s
      BY <1>1 DEF PagesSound, SpanInOnePlace
    <3>. QED  BY <1>1, <1>4, <1>5, <3>1
  <2>2. Coalesced => Coalesced'
    BY <2>1 DEF Coalesced
  <2>3. NothingBefore => NothingBefore'
    <3>. SUFFICES ASSUME NothingBefore, NEW u \in Thread, pc[u] = "mergeNext",
                         NEW j \in 1 .. (NPAGES - 1), NEW r \in pageLists'[j]
                  PROVE  Last(r)' + 1 # span'[job[u].span].pageId
      BY DEF NothingBefore, First
    <3>1. u = t
      BY OneAtWork DEF Merging
    <3>2. first = First(s)
      BY <3>1
    <3>3. Last(r)' = Last(r) /\ Last(r) + 1 # First(s)
      BY <2>1, <3>1 DEF NothingBefore, Last
    <3>. QED  BY <1>5, <3>1, <3>2, <3>3
  <2>. QED  BY <2>2, <2>3 DEF PagesSound, Joined
<1>. QED
  BY <1>12, <1>13, <1>15, <1>16, <1>17, <1>18, <1>19, <1>20, <1>21 DEF PagesSound

(* A free neighbour is found and short enough: with regions that do not    *)
(* touch, the two are in one region.                                       *)
LEMMA FreeNeighbourJoins ==
  ASSUME Gaps, IInv, PagesSound, NEW t \in Thread, Merging(t),
         NEW s, s = job[t].span, NEW k \in 1 .. (NPAGES - 1), NEW r \in pageLists[k]
  PROVE  /\ Last(r) + 1 = First(s) => Find(First(s) - 1) = r /\ CanMerge(s, r)
         /\ Last(s) + 1 = First(r) => Find(Last(s) + 1) = r /\ CanMerge(s, r)
<1>1. s \in allocated /\ span[s].isUse
  BY DEF PagesSound, HandsSound, Merging, WithSpan
<1>2. r \in allocated /\ ~ span[r].isUse /\ r # s /\ r # NoSpan
  BY <1>1, MemPoolAssumption DEF PagesSound, SpanInOnePlace, IInv, SpansTyped
<1>3. /\ First(s) \in Nat /\ Last(s) \in Nat /\ Last(s) = First(s) + span[s].n - 1
      /\ span[s].n \in 1 .. (NPAGES - 1) /\ First(s) <= Last(s)
      /\ \A p \in Int : First(s) <= p /\ p <= Last(s) => Mapped(p)
  BY <1>1, SpanPages
<1>4. /\ First(r) \in Nat /\ Last(r) \in Nat /\ Last(r) = First(r) + span[r].n - 1
      /\ span[r].n \in 1 .. (NPAGES - 1) /\ First(r) <= Last(r)
      /\ First(r) \in Page /\ Last(r) \in Page
      /\ \A p \in Int : First(r) <= p /\ p <= Last(r) => Mapped(p)
  BY <1>2, SpanPages
<1>5. NPAGES \in Nat /\ regions \subseteq Base
  BY SizeClassAssumption DEF PagesSound
<1>6. EndsKnown(r)
  <2>1. \A u \in Thread : Merging(u) => u = t
    BY OneAtWork
  <2>. QED  BY <1>2, <2>1 DEF PagesSound, EndsMapped
<1>7. ASSUME Last(r) + 1 = First(s)
      PROVE  Find(First(s) - 1) = r /\ CanMerge(s, r)
  <2>1. \A p \in First(r) .. Last(s) : Mapped(p)
    BY <1>3, <1>4, <1>7
  <2>2. First(r) <= Last(s)
    BY <1>3, <1>4, <1>7
  <2>3. Last(s) - First(r) + 1 <= NPAGES - 1
    BY <1>3, <1>4, <1>5, <2>1, <2>2, OneRegion
  <2>4. span[s].n + span[r].n <= NPAGES - 1
    BY <1>3, <1>4, <1>5, <1>7, <2>3
  <2>5. idSpanMap[Last(r)] = r
    BY <1>3, <1>4, <1>5, <1>6, <2>4 DEF EndsKnown
  <2>6. First(s) - 1 = Last(r)
    BY <1>3, <1>4, <1>7
  <2>. QED  BY <1>2, <1>4, <2>4, <2>5, <2>6 DEF Find, CanMerge
<1>8. ASSUME Last(s) + 1 = First(r)
      PROVE  Find(Last(s) + 1) = r /\ CanMerge(s, r)
  <2>1. \A p \in First(s) .. Last(r) : Mapped(p)
    BY <1>3, <1>4, <1>8
  <2>2. First(s) <= Last(r)
    BY <1>3, <1>4, <1>8
  <2>3. Last(r) - First(s) + 1 <= NPAGES - 1
    BY <1>3, <1>4, <1>5, <2>1, <2>2, OneRegion
  <2>4. span[s].n + span[r].n <= NPAGES - 1
    BY <1>3, <1>4, <1>5, <1>8, <2>3
  <2>5. idSpanMap[First(r)] = r
    BY <1>3, <1>4, <1>5, <1>6, <2>4 DEF EndsKnown
  <2>. QED  BY <1>2, <1>4, <1>8, <2>4, <2>5 DEF Find, CanMerge
<1>. QED  BY <1>7, <1>8

LEMMA MergePrevStep ==
  ASSUME IInv, PagesSound, NEW t \in Thread, MergePrev(t)
  PROVE  PagesSound'
<1>1. PICK s : s = job[t].span
  OBVIOUS
<1>2. PICK q : q = Find(First(s) - 1)
  OBVIOUS
<1>3. /\ pc[t] = "mergePrev" /\ Merging(t)
      /\ UNCHANGED <<regions, idSpanMap, pageMtx, centralLists, job>>
      /\ IF CanMerge(s, q)
           THEN Merge(s, q, span[q].pageId) /\ UNCHANGED pc
           ELSE Goto(t, "mergeNext") /\ UNCHANGED <<span, pageLists, allocated>>
  BY <1>1, <1>2 DEF MergePrev, At, Merging, First
<1>4. CASE CanMerge(s, q)
  <2>1. q # NoSpan /\ ~ span[q].isUse /\ span[s].n + span[q].n <= NPAGES - 1
    BY <1>4 DEF CanMerge
  <2>2. q \in allocated /\ q # s /\ Last(q) + 1 = First(s)
    BY <1>1, <1>2, <1>3, <2>1, NeighbourBefore
  <2>3. Merge(s, q, First(q)) /\ UNCHANGED pc
    BY <1>3, <1>4 DEF First
  <2>4. PICK first : first = First(q)
    OBVIOUS
  <2>5. Merge(s, q, first)
    BY <2>3, <2>4
  <2>. QED  BY <1>1, <1>3, <2>1, <2>2, <2>3, <2>4, <2>5, MergeKeeps
<1>5. CASE ~ CanMerge(s, q)
  <2>1. /\ pc' = [pc EXCEPT ![t] = "mergeNext"]
        /\ UNCHANGED <<span, pageLists, allocated>>
    BY <1>3, <1>5 DEF Goto
  <2>2. pc'[t] = "mergeNext" /\ \A u \in Thread : u # t => pc'[u] = pc[u]
    BY <2>1 DEF IInv, ThreadsTyped
  <2>3. \A u \in Thread : Merging(u)' <=> Merging(u)
    BY <1>3, <2>2 DEF Merging
  <2>4. InUse' /\ HandsSound'
    BY <1>3, <2>1, <2>2 DEF PagesSound, InUse, HandsSound, WithSpan
  <2>5. PageLock'
    BY <1>3, <2>2, <2>3 DEF PagesSound, PageLock
  <2>6. EndsMapped'
    BY <1>3, <2>1, <2>3, SpansStay DEF PagesSound, EndsMapped
  <2>7. SpanInOnePlace'
    <3>1. Hung' = Hung /\ InHand' = InHand
      BY <1>3 DEF Hung, InHand
    <3>. QED  BY <1>3, <2>1, <3>1 DEF PagesSound, SpanInOnePlace
  <2>8. Joined'
    <3>1. ASSUME Gaps PROVE NothingBefore'
      <4>. SUFFICES ASSUME NEW u \in Thread, pc'[u] = "mergeNext",
                           NEW k \in 1 .. (NPAGES - 1), NEW r \in pageLists[k]
                    PROVE  Last(r) + 1 # First(job[u].span)
        BY <1>3, <2>1 DEF NothingBefore, First, Last
      <4>1. u = t
        BY <1>3, <2>3, OneAtWork DEF Merging
      <4>. QED  BY <1>1, <1>2, <1>3, <1>5, <3>1, <4>1, FreeNeighbourJoins
    <3>. QED  BY <1>3, <2>1, <3>1, SpansStay DEF PagesSound, Joined
  <2>. QED  BY <1>3, <2>1, <2>4, <2>5, <2>6, <2>7, <2>8, SpansStay DEF PagesSound
<1>. QED  BY <1>4, <1>5

(* The loop over the pages after a span ends: the span is free.            *)
LEMMA ListKeeps ==
  ASSUME IInv, PagesSound, NEW t \in Thread, pc[t] = "mergeNext",
         NEW s, s = job[t].span, ~ CanMerge(s, Find(Last(s) + 1)),
         pageLists' = [pageLists EXCEPT ![span[s].n] = @ \cup {s}],
         span' = [span EXCEPT ![s].isUse = FALSE],
         idSpanMap' = MapEnds(s), pageMtx' = NoThread,
         job' = [job EXCEPT ![t].span = NoSpan], pc' = [pc EXCEPT ![t] = "return"],
         UNCHANGED <<regions, allocated, centralLists>>
  PROVE  PagesSound'
<1>1. /\ s \in allocated /\ span[s].isUse /\ s \in InHand /\ Merging(t)
      /\ allocated \subseteq SpanId /\ s \in SpanId /\ s # NoSpan
  BY MemPoolAssumption DEF PagesSound, HandsSound, Merging, WithSpan, IInv, SpansTyped, InHand
<1>2. s \notin Hung /\ \A j \in 1 .. (NPAGES - 1) : s \notin pageLists[j]
  BY <1>1 DEF PagesSound, SpanInOnePlace
<1>3. /\ First(s) \in Page /\ Last(s) \in Page /\ First(s) <= Last(s)
      /\ First(s) \in Nat /\ Last(s) \in Nat /\ span[s].n \in 1 .. (NPAGES - 1)
      /\ Last(s) = First(s) + span[s].n - 1 /\ Mapped(First(s)) /\ Mapped(Last(s))
  BY <1>1, SpanPages
<1>4. /\ ~ span'[s].isUse
      /\ \A r \in SpanId : span'[r].pageId = span[r].pageId /\ span'[r].n = span[r].n
      /\ \A r \in SpanId : r # s => span'[r] = span[r]
  BY <1>1 DEF IInv, SpansTyped, SpanRecord
<1>5. \A j \in 1 .. (NPAGES - 1) :
        pageLists'[j] = IF j = span[s].n THEN pageLists[j] \cup {s} ELSE pageLists[j]
  BY <1>3 DEF IInv, SpansTyped
<1>6. /\ pc'[t] = "return" /\ \A u \in Thread : u # t => pc'[u] = pc[u]
      /\ job'[t].span = NoSpan /\ \A u \in Thread : u # t => job'[u] = job[u]
  BY DEF IInv, ThreadsTyped, JobRecord
<1>7. \A u \in Thread : ~ Merging(u)' /\ pc'[u] # "newSpan"
  BY <1>1, <1>6, OneAtWork DEF Merging
<1>8. \A u \in Thread : u # t => job[u].span # s
  BY <1>1 DEF PagesSound, SpanInOnePlace
<1>9. \A r \in allocated : First(r)' = First(r) /\ Last(r)' = Last(r)
  BY <1>1, <1>4 DEF First, Last
<1>10. \A p \in Page : idSpanMap'[p] = IF p \in {First(s), Last(s)} THEN s ELSE idSpanMap[p]
  BY DEF MapEnds, First, Last
<1>11. Measured' /\ Unused'
  BY <1>1, <1>4 DEF PagesSound, Measured, Unused
<1>12. Apart' /\ Covered' /\ Inside'
  BY <1>9 DEF PagesSound, Apart, Covered, Inside, Mapped
<1>13. FreshUnmapped'
  BY <1>3, <1>10 DEF PagesSound, FreshUnmapped, Mapped
<1>14. InUse'
  <2>1. \A size \in Sizes : \A r \in centralLists[size] : r \in allocated /\ r # s
    BY <1>2 DEF PagesSound, InUse, Hung
  <2>. QED  BY <1>1, <1>4, <2>1 DEF PagesSound, InUse
<1>15. HandsSound'
  <2>. SUFFICES ASSUME NEW u \in Thread
                PROVE  IF pc'[u] \in WithSpan
                         THEN /\ job'[u].span \in allocated /\ span'[job'[u].span].isUse
                              /\ pc'[u] \in {"carve", "hang"} =>
                                   span'[job'[u].span].n = NumMovePage(job'[u].size)
                         ELSE job'[u].span = NoSpan
    BY DEF HandsSound
  <2>1. CASE u = t
    BY <1>6, <2>1 DEF WithSpan
  <2>2. CASE u # t /\ pc[u] \in WithSpan
    <3>1. job[u].span \in allocated /\ span'[job[u].span] = span[job[u].span]
      BY <1>1, <1>4, <1>8, <2>2 DEF PagesSound, HandsSound
    <3>2. job'[u] = job[u] /\ pc'[u] = pc[u]
      BY <1>6, <2>2
    <3>3. /\ job[u].span \in allocated /\ span[job[u].span].isUse
          /\ pc[u] \in {"carve", "hang"} =>
               span[job[u].span].n = NumMovePage(job[u].size)
      BY <2>2 DEF PagesSound, HandsSound
    <3>. QED  BY <2>2, <3>1, <3>2, <3>3
  <2>3. CASE u # t /\ pc[u] \notin WithSpan
    BY <1>6, <2>3 DEF PagesSound, HandsSound
  <2>. QED  BY <2>1, <2>2, <2>3
<1>16. PageLock'
  BY <1>7 DEF PageLock
<1>17. EndsMapped'
  <2>. SUFFICES ASSUME NEW r \in allocated PROVE EndsKnown(r)'
    BY DEF EndsMapped
  <2>1. CASE r = s
    BY <1>1, <1>3, <1>9, <1>10, <2>1 DEF EndsKnown
  <2>2. CASE r # s
    <3>1. EndsKnown(r)
      <4>1. \A u \in Thread : Merging(u) => u = t
        BY <1>1, OneAtWork
      <4>. QED  BY <2>2, <4>1 DEF PagesSound, EndsMapped
    <3>2. First(r) \in Nat /\ Last(r) \in Nat /\ First(r) <= Last(r)
          /\ First(r) \in Page /\ Last(r) \in Page
      BY SpanPages
    <3>3. Last(r) < First(s) \/ Last(s) < First(r)
      BY <1>1, <2>2 DEF PagesSound, Apart
    <3>4. idSpanMap'[First(r)] = idSpanMap[First(r)] /\ idSpanMap'[Last(r)] = idSpanMap[Last(r)]
      BY <1>3, <1>10, <3>2, <3>3
    <3>5. span'[r].n = span[r].n
      BY <1>1, <1>4
    <3>. QED  BY <1>9, <3>1, <3>4, <3>5 DEF EndsKnown
  <2>. QED  BY <2>1, <2>2
<1>18. SpanInOnePlace'
  <2>1. Hung' = Hung /\ InHand' = InHand \ {s}
    BY <1>1, <1>6, <1>8 DEF Hung, InHand
  <2>2. ASSUME NEW j \in 1 .. (NPAGES - 1), NEW r \in pageLists'[j]
        PROVE  r \in allocated' /\ span'[r].n = j /\ ~ span'[r].isUse /\ r \notin Hung' \cup InHand'
    <3>1. CASE r = s
      <4>1. j = span[s].n
        BY <1>2, <1>5, <2>2, <3>1
      <4>. QED  BY <1>1, <1>2, <1>4, <2>1, <3>1, <4>1
    <3>2. CASE r # s
      <4>1. r \in pageLists[j]
        BY <1>5, <2>2, <3>2
      <4>2. r \in allocated /\ span[r].n = j /\ ~ span[r].isUse /\ r \notin Hung \cup InHand
        BY <4>1 DEF PagesSound, SpanInOnePlace
      <4>. QED  BY <1>1, <1>4, <2>1, <3>2, <4>2
    <3>. QED  BY <3>1, <3>2
  <2>3. ASSUME NEW r \in allocated', ~ span'[r].isUse
        PROVE  \E j \in 1 .. (NPAGES - 1) : r \in pageLists'[j]
    <3>1. CASE r = s
      <4>1. PICK n \in 1 .. (NPAGES - 1) : n = span[s].n
        BY <1>3
      <4>2. pageLists'[n] = pageLists[n] \cup {s}
        BY <1>5, <4>1
      <4>. QED  BY <3>1, <4>1, <4>2
    <3>2. CASE r # s
      <4>1. r \in allocated /\ ~ span[r].isUse
        BY <1>1, <1>4, <2>3, <3>2
      <4>2. PICK j \in 1 .. (NPAGES - 1) : r \in pageLists[j]
        BY <4>1 DEF PagesSound, SpanInOnePlace
      <4>. QED  BY <1>5, <4>2
    <3>. QED  BY <3>1, <3>2
  <2>4. \A r \in Hung' : r \in allocated' /\ r \notin InHand'
    BY <2>1 DEF PagesSound, SpanInOnePlace
  <2>5. \A u, v \in Thread : u # v /\ job'[u].span # NoSpan => job'[u].span # job'[v].span
    BY <1>6 DEF PagesSound, SpanInOnePlace
  <2>6. \A c, d \in Sizes : c # d => centralLists'[c] \cap centralLists'[d] = {}
    BY DEF PagesSound, SpanInOnePlace
  <2>20. \A r \in allocated' : span'[r].isUse => r \in Hung' \cup InHand'
    <3>. SUFFICES ASSUME NEW r \in allocated, span'[r].isUse PROVE r \in Hung \cup (InHand \ {s})
      BY <2>1
    <3>1. r # s /\ span[r].isUse
      BY <1>1, <1>4
    <3>. QED  BY <3>1 DEF PagesSound, SpanInOnePlace
  <2>. QED  BY <2>2, <2>3, <2>4, <2>5, <2>6, <2>20 DEF SpanInOnePlace
<1>19. Joined'
  <2>. SUFFICES ASSUME Gaps PROVE Coalesced' /\ NothingBefore'
    BY DEF Joined
  <2>1. NothingBefore'
    BY <1>7 DEF NothingBefore, Merging
  <2>. SUFFICES ASSUME NEW j \in 1 .. (NPAGES - 1), NEW m \in 1 .. (NPAGES - 1),
                       NEW x \in pageLists'[j], NEW y \in pageLists'[m]
                PROVE  span'[x].pageId + span'[x].n # span'[y].pageId
    BY <2>1 DEF Coalesced
  <2>2. /\ x = s \/ (x # s /\ x \in pageLists[j])
        /\ y = s \/ (y # s /\ y \in pageLists[m])
        /\ x \in allocated /\ y \in allocated
    <3>1. \A i \in 1 .. (NPAGES - 1) : pageLists[i] \subseteq allocated
      BY DEF PagesSound, SpanInOnePlace
    <3>2. x = s \/ (x # s /\ x \in pageLists[j])
      BY <1>5
    <3>3. y = s \/ (y # s /\ y \in pageLists[m])
      BY <1>5
    <3>. QED  BY <1>1, <3>1, <3>2, <3>3
  <2>3. SUFFICES Last(x) + 1 # First(y)
    <3>1. /\ span'[x].pageId = span[x].pageId /\ span'[x].n = span[x].n
          /\ span'[y].pageId = span[y].pageId
      BY <1>1, <1>4, <2>2
    <3>2. span[x].pageId \in Int /\ span[x].n \in Int
      BY <2>2 DEF PagesSound, Measured
    <3>. QED  BY <2>3, <3>1, <3>2 DEF First, Last
  <2>4. CASE x = s /\ y = s
    BY <1>3, <2>4
  <2>5. CASE x = s /\ y # s
    <3>1. y \in pageLists[m]
      BY <2>2, <2>5
    <3>2. ~ CanMerge(s, y) \/ Find(Last(s) + 1) # y
      OBVIOUS
    <3>. QED  BY <1>1, <2>5, <3>1, <3>2, FreeNeighbourJoins
  <2>6. CASE x # s /\ y = s
    <3>1. x \in pageLists[j]
      BY <2>2, <2>6
    <3>. QED  BY <2>6, <3>1 DEF PagesSound, Joined, NothingBefore
  <2>7. CASE x # s /\ y # s
    <3>1. x \in pageLists[j] /\ y \in pageLists[m]
      BY <2>2, <2>7
    <3>2. span[x].pageId + span[x].n # span[y].pageId
      BY <3>1 DEF PagesSound, Joined, Coalesced
    <3>3. span[x].pageId \in Int /\ span[x].n \in Int
      BY <2>2 DEF PagesSound, Measured
    <3>. QED  BY <3>2, <3>3 DEF First, Last
  <2>. QED  BY <2>4, <2>5, <2>6, <2>7
<1>20. regions' \subseteq Base
  BY DEF PagesSound
<1>. QED
  BY <1>11, <1>12, <1>13, <1>14, <1>15, <1>16, <1>17, <1>18, <1>19, <1>20 DEF PagesSound

LEMMA MergeNextStep ==
  ASSUME IInv, PagesSound, NEW t \in Thread, MergeNext(t)
  PROVE  PagesSound'
<1>1. PICK s : s = job[t].span
  OBVIOUS
<1>2. PICK q : q = Find(Last(s) + 1)
  OBVIOUS
<1>3. pc[t] = "mergeNext" /\ Merging(t) /\ UNCHANGED <<regions, centralLists>>
  BY DEF MergeNext, At, Merging
<1>4. span[s].pageId + span[s].n = Last(s) + 1
  <2>1. s \in allocated
    BY <1>1, <1>3 DEF PagesSound, HandsSound, WithSpan
  <2>2. span[s].pageId \in Int /\ span[s].n \in Int
    BY <2>1 DEF PagesSound, Measured
  <2>. QED  BY <2>2 DEF Last
<1>5. IF CanMerge(s, q)
        THEN /\ Merge(s, q, span[s].pageId)
             /\ UNCHANGED <<idSpanMap, pageMtx, pc, job>>
        ELSE /\ pageLists' = [pageLists EXCEPT ![span[s].n] = @ \cup {s}]
             /\ span' = [span EXCEPT ![s].isUse = FALSE]
             /\ idSpanMap' = MapEnds(s)
             /\ pageMtx' = NoThread
             /\ job' = [job EXCEPT ![t].span = NoSpan]
             /\ Goto(t, "return")
             /\ UNCHANGED allocated
  BY <1>1, <1>2, <1>4 DEF MergeNext
<1>6. CASE CanMerge(s, q)
  <2>1. q # NoSpan /\ ~ span[q].isUse /\ span[s].n + span[q].n <= NPAGES - 1
    BY <1>6 DEF CanMerge
  <2>2. q \in allocated /\ q # s /\ Last(s) + 1 = First(q)
    BY <1>1, <1>2, <1>3, <2>1, NeighbourAfter
  <2>3. PICK first : first = First(s)
    OBVIOUS
  <2>4. Merge(s, q, first) /\ UNCHANGED <<idSpanMap, pageMtx, pc, job>>
    BY <1>5, <1>6, <2>3 DEF First
  <2>. QED  BY <1>1, <1>3, <2>1, <2>2, <2>3, <2>4, MergeKeeps
<1>7. CASE ~ CanMerge(s, q)
  BY <1>1, <1>2, <1>3, <1>5, <1>7, ListKeeps DEF Goto
<1>. QED  BY <1>6, <1>7

-------------------------------------------------------------------------------
(* The steps outside the page cache.                                       *)

(* Objects move, spans do not.                                             *)
SpansKept ==
  /\ UNCHANGED <<regions, allocated, idSpanMap, pageLists, pageMtx>>
  /\ \A s \in SpanId : /\ span'[s].pageId = span[s].pageId
                       /\ span'[s].n = span[s].n
                       /\ span'[s].isUse = span[s].isUse
  /\ \A s \in SpanId \ allocated : span'[s] = span[s]

LEMMA SpanCounts ==
  ASSUME IInv, PagesSound, NEW s \in allocated, NEW list, NEW count,
         span' = [span EXCEPT ![s].freeList = list, ![s].useCount = count],
         UNCHANGED <<regions, allocated, idSpanMap, pageLists, pageMtx>>
  PROVE  SpansKept
<1>1. s \in SpanId /\ span \in [SpanId -> SpanRecord]
  BY DEF IInv, SpansTyped
<1>2. \A r \in SpanId : r # s => span'[r] = span[r]
  BY <1>1
<1>3. /\ span'[s].pageId = span[s].pageId /\ span'[s].n = span[s].n
      /\ span'[s].isUse = span[s].isUse
  BY <1>1 DEF SpanRecord
<1>. QED  BY <1>1, <1>2, <1>3 DEF SpansKept

(* A thread that keeps the span it has, or has none, moves.                *)
LEMMA ThreadPagesStay ==
  ASSUME IInv, PagesSound, SpansKept, UNCHANGED centralLists,
         NEW t \in Thread, NEW j, NEW where,
         job' = [job EXCEPT ![t] = j], pc' = [pc EXCEPT ![t] = where],
         where \notin {"newSpan", "lockPagesGive", "mergePrev", "mergeNext"},
         IF where \in {"carve", "hang"}
           THEN pc[t] \in {"carve", "hang"} /\ j.size = job[t].size /\ j.span = job[t].span
           ELSE pc[t] \notin WithSpan /\ j.span = NoSpan
  PROVE  PagesSound'
<1>1. /\ pc'[t] = where /\ \A u \in Thread : u # t => pc'[u] = pc[u]
      /\ job'[t] = j /\ \A u \in Thread : u # t => job'[u] = job[u]
  BY DEF IInv, ThreadsTyped
<1>2. /\ job'[t].span = job[t].span
      /\ pc'[t] \in WithSpan <=> pc[t] \in WithSpan
      /\ ~ Merging(t)
  BY <1>1 DEF PagesSound, HandsSound, WithSpan, Merging
<1>3. \A u \in Thread :
        /\ job'[u].span = job[u].span
        /\ pc'[u] \in WithSpan <=> pc[u] \in WithSpan
        /\ pc'[u] \in {"carve", "hang"} =>
             pc[u] \in {"carve", "hang"} /\ job'[u].size = job[u].size
        /\ pc'[u] \in {"newSpan", "mergePrev", "mergeNext"} => pc'[u] = pc[u]
        /\ Merging(u) => Merging(u)'
  BY <1>1, <1>2 DEF Merging
<1>. QED  BY <1>3, PagesStay DEF SpansKept

LEMMA PagesUnchanged ==
  ASSUME IInv, PagesSound,
         UNCHANGED <<regions, allocated, span, idSpanMap, pageLists, pageMtx, centralLists, pc, job>>
  PROVE  PagesSound'
BY PagesStay DEF Merging

LEMMA CallKeepsPages ==
  ASSUME IInv, PagesSound, NEW t \in Thread, Call(t)
  PROVE  PagesSound'
<1>1. /\ pc[t] = "idle"
      /\ UNCHANGED <<regions, allocated, span, idSpanMap, pageLists, pageMtx, centralLists>>
  BY DEF Call, AllocateCached, AllocateFetch, AllocateWild, DeAllocate, At, pageVars
<1>2. SpansKept
  BY <1>1 DEF SpansKept
<1>3. CASE UNCHANGED <<pc, job>>
  BY <1>1, <1>3, PagesUnchanged
<1>4. CASE \E j, where : /\ job' = [job EXCEPT ![t] = j] /\ j.span = NoSpan
                         /\ pc' = [pc EXCEPT ![t] = where] /\ where \in {"fetch", "return"}
  BY <1>1, <1>2, <1>4, ThreadPagesStay DEF WithSpan
<1>5. ASSUME NEW size \in Sizes,
             AllocateCached(t, size) \/ AllocateFetch(t, size) \/ AllocateWild(t, size)
      PROVE  PagesSound'
  <2>1. CASE AllocateFetch(t, size)
    <3>1. PICK batchNum : job' = [job EXCEPT ![t] = NewJob(size, batchNum, {})]
      BY <2>1 DEF AllocateFetch
    <3>2. pc' = [pc EXCEPT ![t] = "fetch"] /\ NewJob(size, batchNum, {}).span = NoSpan
      BY <2>1 DEF AllocateFetch, Goto, NewJob
    <3>. QED  BY <1>4, <3>1, <3>2
  <2>. QED  BY <1>3, <1>5, <2>1 DEF AllocateCached, AllocateWild
<1>6. ASSUME NEW block \in live, DeAllocate(t, block)
      PROVE  PagesSound'
  <2>1. \A size, range : NewJob(size, 0, range).span = NoSpan
    BY DEF NewJob
  <2>. QED  BY <1>3, <1>4, <1>6, <2>1 DEF DeAllocate, Goto
<1>. QED  BY <1>5, <1>6 DEF Call

(* The steps of the central cache that move no span.                       *)
LEMMA QuietStep ==
  ASSUME IInv, PagesSound, NEW t \in Thread,
         FetchMiss(t) \/ Carve(t) \/ LockBucket(t) \/ ReleaseDone(t)
  PROVE  PagesSound'
<1>1. UNCHANGED <<regions, allocated, idSpanMap, pageLists, pageMtx, centralLists>>
  BY DEF FetchMiss, Carve, LockBucket, ReleaseDone, pageVars
<1>2. job = [job EXCEPT ![t] = job[t]]
  BY DEF IInv, ThreadsTyped
<1>3. pc[t] \notin WithSpan => job[t].span = NoSpan
  BY DEF PagesSound, HandsSound
<1>4. CASE FetchMiss(t)
  BY <1>1, <1>2, <1>3, <1>4, ThreadPagesStay DEF FetchMiss, At, Goto, WithSpan, SpansKept
<1>5. CASE LockBucket(t)
  BY <1>1, <1>2, <1>3, <1>5, ThreadPagesStay DEF LockBucket, At, Goto, WithSpan, SpansKept
<1>6. CASE ReleaseDone(t)
  <2>1. NoJob.span = NoSpan
    BY DEF NoJob, NewJob
  <2>. QED  BY <1>1, <1>6, <2>1, ThreadPagesStay DEF ReleaseDone, At, Goto, WithSpan, SpansKept
<1>7. CASE Carve(t)
  <2>1. PICK s : s = job[t].span
    OBVIOUS
  <2>2. s \in allocated /\ s \in SpanId
    BY <1>7, <2>1 DEF Carve, At, PagesSound, HandsSound, WithSpan, IInv, SpansTyped
  <2>3. PICK list : span' = [span EXCEPT ![s].freeList = list]
    BY <1>7, <2>1 DEF Carve
  <2>4. span' = [span EXCEPT ![s].freeList = list, ![s].useCount = span[s].useCount]
    BY <2>2, <2>3 DEF IInv, SpansTyped, SpanRecord
  <2>5. SpansKept
    BY <1>1, <2>2, <2>4, SpanCounts
  <2>. QED  BY <1>1, <1>2, <1>7, <2>5, ThreadPagesStay DEF Carve, At, Goto
<1>. QED  BY <1>4, <1>5, <1>6, <1>7

LEMMA FetchHitKeepsPages ==
  ASSUME IInv, PagesSound, NEW t \in Thread, FetchHit(t)
  PROVE  PagesSound'
<1>1. /\ pc[t] = "fetch" /\ job[t].size \in Sizes
      /\ UNCHANGED <<regions, allocated, idSpanMap, pageLists, pageMtx, centralLists>>
  BY DEF FetchHit, At, pageVars, IInv, FetchFits, Fetching
<1>2. PICK s \in centralLists[job[t].size] : HandOut(t, s)
  BY DEF FetchHit
<1>3. s \in allocated
  BY <1>1, <1>2 DEF PagesSound, InUse
<1>4. PICK objects : span' = Take(s, objects)
  BY <1>2 DEF HandOut
<1>5. SpansKept
  BY <1>1, <1>3, <1>4, SpanCounts DEF Take
<1>6. job' = [job EXCEPT ![t] = NoJob] /\ pc' = [pc EXCEPT ![t] = "idle"] /\ NoJob.span = NoSpan
  BY <1>2 DEF HandOut, Goto, NoJob, NewJob
<1>. QED  BY <1>1, <1>5, <1>6, ThreadPagesStay DEF WithSpan

(* A span in hand goes to the bucket of its size.                          *)
LEMMA HangKeepsPages ==
  ASSUME IInv, PagesSound, NEW t \in Thread, Hang(t)
  PROVE  PagesSound'
<1>1. PICK s, size : s = job[t].span /\ size = job[t].size
  OBVIOUS
<1>2. /\ pc[t] = "hang" /\ size \in Sizes /\ HandOut(t, s)
      /\ centralLists' = [centralLists EXCEPT ![size] = @ \cup {s}]
      /\ UNCHANGED <<regions, allocated, idSpanMap, pageLists, pageMtx>>
  BY <1>1 DEF Hang, At, pageVars, IInv, FetchFits, Fetching
<1>3. /\ s \in allocated /\ span[s].isUse /\ span[s].n = NumMovePage(size)
      /\ s \in SpanId /\ s # NoSpan /\ s \in InHand
  BY <1>1, <1>2, MemPoolAssumption DEF PagesSound, HandsSound, WithSpan, IInv, SpansTyped, InHand
<1>4. s \notin Hung /\ \A k \in 1 .. (NPAGES - 1) : s \notin pageLists[k]
  BY <1>3 DEF PagesSound, SpanInOnePlace
<1>5. PICK objects : span' = Take(s, objects)
  BY <1>2 DEF HandOut
<1>6. SpansKept
  BY <1>2, <1>3, <1>5, SpanCounts DEF Take
<1>7. /\ pc'[t] = "idle" /\ \A u \in Thread : u # t => pc'[u] = pc[u]
      /\ job'[t].span = NoSpan /\ \A u \in Thread : u # t => job'[u] = job[u]
  BY <1>2 DEF HandOut, Goto, NoJob, NewJob, IInv, ThreadsTyped
<1>8. \A c \in Sizes : centralLists'[c] = IF c = size THEN centralLists[c] \cup {s} ELSE centralLists[c]
  BY <1>2 DEF IInv, SpansTyped
<1>9. Hung' = Hung \cup {s}
  BY <1>2, <1>8 DEF Hung
<1>10. \A u \in Thread : u # t => job[u].span # s
  BY <1>1, <1>3 DEF PagesSound, SpanInOnePlace
<1>11. InHand' = InHand \ {s}
  BY <1>1, <1>7, <1>10 DEF InHand
<1>12. allocated \subseteq SpanId
  BY DEF IInv, SpansTyped
<1>13. InUse'
  <2>. SUFFICES ASSUME NEW c \in Sizes, NEW r \in centralLists'[c]
                PROVE  r \in allocated /\ span'[r].isUse /\ span'[r].n = NumMovePage(c)
    BY <1>2 DEF InUse
  <2>1. r \in allocated /\ span[r].isUse /\ span[r].n = NumMovePage(c)
    BY <1>3, <1>8 DEF PagesSound, InUse
  <2>. QED  BY <1>6, <1>12, <2>1 DEF SpansKept
<1>14. HandsSound'
  <2>. SUFFICES ASSUME NEW u \in Thread
                PROVE  IF pc'[u] \in WithSpan
                         THEN /\ job'[u].span \in allocated /\ span'[job'[u].span].isUse
                              /\ pc'[u] \in {"carve", "hang"} =>
                                   span'[job'[u].span].n = NumMovePage(job'[u].size)
                         ELSE job'[u].span = NoSpan
    BY <1>2 DEF HandsSound
  <2>1. CASE u = t
    BY <1>7, <2>1 DEF WithSpan
  <2>2. CASE u # t
    BY <1>6, <1>7, <1>12, <2>2 DEF PagesSound, HandsSound, SpansKept
  <2>. QED  BY <2>1, <2>2
<1>15. PageLock'
  BY <1>2, <1>7 DEF PagesSound, PageLock, Merging
<1>16. EndsMapped'
  <2>1. \A u \in Thread : Merging(u) => Merging(u)' /\ job'[u] = job[u]
    BY <1>2, <1>7 DEF Merging
  <2>2. \A r \in allocated : EndsKnown(r)' <=> EndsKnown(r)
    BY <1>6, SpansStay DEF SpansKept
  <2>. QED  BY <1>2, <2>1, <2>2 DEF PagesSound, EndsMapped
<1>17. SpanInOnePlace'
  <2>1. \A k \in 1 .. (NPAGES - 1) : \A r \in pageLists'[k] :
          r \in allocated' /\ span'[r].n = k /\ ~ span'[r].isUse /\ r \notin Hung' \cup InHand'
    BY <1>2, <1>4, <1>6, <1>9, <1>11, <1>12 DEF PagesSound, SpanInOnePlace, SpansKept
  <2>2. \A r \in allocated' : ~ span'[r].isUse => \E k \in 1 .. (NPAGES - 1) : r \in pageLists'[k]
    BY <1>2, <1>6, <1>12 DEF PagesSound, SpanInOnePlace, SpansKept
  <2>3. \A r \in Hung' : r \in allocated' /\ r \notin InHand'
    BY <1>2, <1>3, <1>9, <1>11 DEF PagesSound, SpanInOnePlace
  <2>4. \A c, d \in Sizes : c # d => centralLists'[c] \cap centralLists'[d] = {}
    <3>. SUFFICES ASSUME NEW c \in Sizes, NEW d \in Sizes, c # d,
                         NEW r \in centralLists'[c], r \in centralLists'[d]
                  PROVE  FALSE
      OBVIOUS
    <3>1. \A e \in Sizes : s \notin centralLists[e]
      BY <1>4 DEF Hung
    <3>2. CASE r = s
      BY <1>8, <3>1, <3>2
    <3>3. CASE r # s
      <4>1. \A e \in Sizes : r \in centralLists'[e] => r \in centralLists[e]
        BY <1>8, <3>3
      <4>. QED  BY <4>1 DEF PagesSound, SpanInOnePlace
    <3>. QED  BY <3>2, <3>3
  <2>5. \A u, v \in Thread : u # v /\ job'[u].span # NoSpan => job'[u].span # job'[v].span
    BY <1>7 DEF PagesSound, SpanInOnePlace
  <2>20. \A r \in allocated' : span'[r].isUse => r \in Hung' \cup InHand'
    BY <1>2, <1>6, <1>9, <1>11, <1>12 DEF PagesSound, SpanInOnePlace, SpansKept
  <2>. QED  BY <2>1, <2>2, <2>3, <2>4, <2>5, <2>20 DEF SpanInOnePlace
<1>18. Joined'
  <2>1. \A u \in Thread : pc'[u] = "mergeNext" => pc[u] = "mergeNext" /\ job'[u].span = job[u].span
    BY <1>7
  <2>. QED  BY <1>6, <2>1, JoinedStays DEF SpansKept
<1>. QED
  BY <1>2, <1>6, <1>13, <1>14, <1>15, <1>16, <1>17, <1>18, SpansStay DEF PagesSound, SpansKept

(* The last object of a span comes back: the span leaves its bucket.       *)
LEMMA TakeDownKeepsPages ==
  ASSUME IInv, PagesSound, NEW t \in Thread, pc[t] = "release", NEW s \in Hung, SpansKept,
         \A c \in Sizes : centralLists'[c] = centralLists[c] \ {s},
         pc'[t] = "lockPagesGive", \A u \in Thread : u # t => pc'[u] = pc[u],
         job'[t].span = s, \A u \in Thread : u # t => job'[u] = job[u]
  PROVE  PagesSound'
<1>1. /\ s \in allocated /\ s \notin InHand /\ span[s].isUse
      /\ allocated \subseteq SpanId /\ s \in SpanId /\ s # NoSpan
  BY MemPoolAssumption DEF PagesSound, SpanInOnePlace, InUse, Hung, IInv, SpansTyped
<1>2. \A k \in 1 .. (NPAGES - 1) : \A r \in pageLists[k] :
        r # s /\ r \in allocated /\ span[r].n = k /\ ~ span[r].isUse /\ r \notin Hung \cup InHand
  BY DEF PagesSound, SpanInOnePlace
<1>3. /\ UNCHANGED <<regions, allocated, idSpanMap, pageLists, pageMtx>>
      /\ \A r \in SpanId : /\ span'[r].pageId = span[r].pageId
                           /\ span'[r].n = span[r].n
                           /\ span'[r].isUse = span[r].isUse
      /\ \A r \in SpanId \ allocated : span'[r] = span[r]
  BY DEF SpansKept
<1>4. job[t].span = NoSpan /\ \A u \in Thread : job[u].span # s
  BY <1>1 DEF PagesSound, HandsSound, WithSpan, InHand
<1>5. Hung' = Hung \ {s}
  BY DEF Hung
<1>6. InHand' = InHand \cup {s}
  BY <1>1, <1>4 DEF InHand
<1>7. InUse'
  BY <1>1, <1>3 DEF PagesSound, InUse
<1>8. HandsSound'
  <2>. SUFFICES ASSUME NEW u \in Thread
                PROVE  IF pc'[u] \in WithSpan
                         THEN /\ job'[u].span \in allocated /\ span'[job'[u].span].isUse
                              /\ pc'[u] \in {"carve", "hang"} =>
                                   span'[job'[u].span].n = NumMovePage(job'[u].size)
                         ELSE job'[u].span = NoSpan
    BY <1>3 DEF HandsSound
  <2>1. CASE u = t
    BY <1>1, <1>3, <2>1 DEF WithSpan
  <2>2. CASE u # t /\ pc[u] \in WithSpan
    <3>1. /\ job[u].span \in allocated /\ span[job[u].span].isUse
          /\ pc[u] \in {"carve", "hang"} =>
               span[job[u].span].n = NumMovePage(job[u].size)
      BY <2>2 DEF PagesSound, HandsSound
    <3>2. job'[u] = job[u] /\ pc'[u] = pc[u]
      BY <2>2
    <3>. QED  BY <1>1, <1>3, <2>2, <3>1, <3>2
  <2>3. CASE u # t /\ pc[u] \notin WithSpan
    BY <2>3 DEF PagesSound, HandsSound
  <2>. QED  BY <2>1, <2>2, <2>3
<1>9. PageLock'
  BY <1>3 DEF PagesSound, PageLock, Merging
<1>10. EndsMapped'
  <2>1. \A u \in Thread : Merging(u) => Merging(u)' /\ job'[u] = job[u]
    BY DEF Merging
  <2>2. \A r \in allocated : EndsKnown(r)' <=> EndsKnown(r)
    BY <1>3, SpansStay
  <2>. QED  BY <1>3, <2>1, <2>2 DEF PagesSound, EndsMapped
<1>11. SpanInOnePlace'
  <2>1. \A k \in 1 .. (NPAGES - 1) : \A r \in pageLists'[k] :
          r \in allocated' /\ span'[r].n = k /\ ~ span'[r].isUse /\ r \notin Hung' \cup InHand'
    BY <1>1, <1>2, <1>3, <1>5, <1>6
  <2>2. \A r \in allocated' : ~ span'[r].isUse => \E k \in 1 .. (NPAGES - 1) : r \in pageLists'[k]
    BY <1>1, <1>3 DEF PagesSound, SpanInOnePlace
  <2>3. \A r \in Hung' : r \in allocated' /\ r \notin InHand'
    BY <1>3, <1>5, <1>6 DEF PagesSound, SpanInOnePlace
  <2>4. \A c, d \in Sizes : c # d => centralLists'[c] \cap centralLists'[d] = {}
    BY DEF PagesSound, SpanInOnePlace
  <2>5. ASSUME NEW u \in Thread, NEW v \in Thread, u # v, job'[u].span # NoSpan
        PROVE  job'[u].span # job'[v].span
    <3>1. CASE u = t  BY <1>4, <2>5, <3>1
    <3>2. CASE v = t  BY <1>4, <2>5, <3>2
    <3>3. CASE u # t /\ v # t
      BY <2>5, <3>3 DEF PagesSound, SpanInOnePlace
    <3>. QED  BY <3>1, <3>2, <3>3
  <2>20. \A r \in allocated' : span'[r].isUse => r \in Hung' \cup InHand'
    BY <1>1, <1>3, <1>5, <1>6 DEF PagesSound, SpanInOnePlace
  <2>. QED  BY <2>1, <2>2, <2>3, <2>4, <2>5, <2>20 DEF SpanInOnePlace
<1>12. Joined'
  <2>1. \A u \in Thread : pc'[u] = "mergeNext" => pc[u] = "mergeNext" /\ job'[u].span = job[u].span
    OBVIOUS
  <2>. QED  BY <1>3, <2>1, JoinedStays
<1>. QED
  BY <1>3, <1>7, <1>8, <1>9, <1>10, <1>11, <1>12, SpansStay DEF PagesSound

(* What a step of ReleaseListToSpans does when the map finds the owner.    *)
LEMMA ReleaseFindsOwner ==
  ASSUME LookupFindsOwner, NEW t \in Thread, ReleaseObject(t)
  PROVE  \E o \in job[t].start, s \in centralLists[job[t].size] :
           /\ o \in Pieces(s, job[t].size)
           /\ IF Decrement(span[s].useCount) = 0
                THEN /\ span' = [span EXCEPT ![s].freeList = {}, ![s].useCount = 0]
                     /\ centralLists' = [c \in Sizes |-> centralLists[c] \ {s}]
                     /\ job' = [job EXCEPT ![t].start = job[t].start \ {o}, ![t].span = s]
                     /\ pc' = [pc EXCEPT ![t] = "lockPagesGive"]
                ELSE /\ span' = [span EXCEPT ![s].freeList = @ \cup {o},
                                             ![s].useCount = Decrement(span[s].useCount)]
                     /\ job' = [job EXCEPT ![t].start = job[t].start \ {o}]
                     /\ UNCHANGED <<centralLists, pc>>
<1>1. PICK o \in job[t].start :
        LET s    == Find(PageOf(o))
            rest == job[t].start \ {o}
            left == Decrement(span[s].useCount)
        IN  /\ s \in allocated
            /\ IF left = 0
                 THEN /\ span' = [span EXCEPT ![s].freeList = {}, ![s].useCount = 0]
                      /\ centralLists' = [c \in Sizes |-> centralLists[c] \ {s}]
                      /\ bucketMtx' = [bucketMtx EXCEPT ![job[t].size] = NoThread]
                      /\ job' = [job EXCEPT ![t].start = rest, ![t].span = s]
                      /\ Goto(t, "lockPagesGive")
                 ELSE /\ span' = [span EXCEPT ![s].freeList = @ \cup {o},
                                              ![s].useCount = left]
                      /\ job' = [job EXCEPT ![t].start = rest]
                      /\ UNCHANGED <<centralLists, bucketMtx, pc>>
  BY DEF ReleaseObject
<1>2. At(t, "release")
  BY DEF ReleaseObject
<1>3. PICK s \in centralLists[job[t].size] :
        o \in Pieces(s, job[t].size) /\ Find(PageOf(o)) = s
  BY <1>2 DEF LookupFindsOwner
<1>. QED  BY <1>1, <1>3 DEF Goto

LEMMA ReleaseKeepsPages ==
  ASSUME IInv, PagesSound, LookupFindsOwner, NEW t \in Thread, ReleaseObject(t), job[t].size \in Sizes
  PROVE  PagesSound'
<1>1. PICK o \in job[t].start, s \in centralLists[job[t].size] :
        /\ o \in Pieces(s, job[t].size)
        /\ IF Decrement(span[s].useCount) = 0
             THEN /\ span' = [span EXCEPT ![s].freeList = {}, ![s].useCount = 0]
                  /\ centralLists' = [c \in Sizes |-> centralLists[c] \ {s}]
                  /\ job' = [job EXCEPT ![t].start = job[t].start \ {o}, ![t].span = s]
                  /\ pc' = [pc EXCEPT ![t] = "lockPagesGive"]
             ELSE /\ span' = [span EXCEPT ![s].freeList = @ \cup {o},
                                          ![s].useCount = Decrement(span[s].useCount)]
                  /\ job' = [job EXCEPT ![t].start = job[t].start \ {o}]
                  /\ UNCHANGED <<centralLists, pc>>
  BY ReleaseFindsOwner
<1>2. /\ pc[t] = "release" /\ UNCHANGED <<regions, allocated, idSpanMap, pageLists, pageMtx>>
  BY DEF ReleaseObject, At, pageVars
<1>3. s \in Hung /\ s \in allocated
  BY DEF Hung, PagesSound, InUse
<1>4. CASE Decrement(span[s].useCount) = 0
  <2>1. /\ span' = [span EXCEPT ![s].freeList = {}, ![s].useCount = 0]
        /\ centralLists' = [c \in Sizes |-> centralLists[c] \ {s}]
        /\ job' = [job EXCEPT ![t].start = job[t].start \ {o}, ![t].span = s]
        /\ pc' = [pc EXCEPT ![t] = "lockPagesGive"]
    BY <1>1, <1>4
  <2>2. SpansKept
    BY <1>2, <1>3, <2>1, SpanCounts
  <2>3. /\ pc'[t] = "lockPagesGive" /\ \A u \in Thread : u # t => pc'[u] = pc[u]
        /\ job'[t].span = s /\ \A u \in Thread : u # t => job'[u] = job[u]
    BY <2>1 DEF IInv, ThreadsTyped, JobRecord
  <2>4. \A c \in Sizes : centralLists'[c] = centralLists[c] \ {s}
    BY <2>1
  <2>. QED  BY <1>2, <1>3, <2>2, <2>3, <2>4, TakeDownKeepsPages
<1>5. CASE Decrement(span[s].useCount) # 0
  <2>1. /\ span' = [span EXCEPT ![s].freeList = @ \cup {o},
                                ![s].useCount = Decrement(span[s].useCount)]
        /\ job' = [job EXCEPT ![t].start = job[t].start \ {o}]
        /\ UNCHANGED <<centralLists, pc>>
    BY <1>1, <1>5
  <2>2. SpansKept
    BY <1>2, <1>3, <2>1, SpanCounts
  <2>3. \A u \in Thread : job'[u].span = job[u].span /\ job'[u].size = job[u].size
    BY <2>1 DEF IInv, ThreadsTyped, JobRecord
  <2>. QED  BY <1>2, <2>1, <2>2, <2>3, PagesStay DEF SpansKept, Merging
<1>. QED  BY <1>4, <1>5

LEMMA PagesStep ==
  ASSUME IInv, PagesSound, LookupFindsOwner, JobsSound, [Next]_vars
  PROVE  PagesSound'
<1>1. CASE UNCHANGED vars \/ Ended
  BY <1>1, PagesUnchanged DEF Ended, vars
<1>2. ASSUME NEW t \in Thread, Call(t) PROVE PagesSound'
  BY <1>2, CallKeepsPages
<1>3. ASSUME NEW t \in Thread, InPool(t) PROVE PagesSound'
  <2>1. CASE FetchBeyond(t) \/ ReleaseLost(t) \/ ReleaseRaces(t) \/ NewSpanExit(t)
    BY <2>1, PagesUnchanged DEF FetchBeyond, ReleaseLost, ReleaseRaces, NewSpanExit, pageVars
  <2>2. CASE ReleaseObject(t)
    BY <2>2, ReleaseKeepsPages DEF ReleaseObject, At, JobsSound
  <2>. QED  BY <1>3, <2>1, <2>2, FetchHitKeepsPages, HangKeepsPages, QuietStep, LockPagesStep,
               NewSpanExactStep, NewSpanSplitStep, NewSpanGrowStep, MergePrevStep, MergeNextStep
            DEF InPool
<1>. QED  BY <1>1, <1>2, <1>3 DEF Next

-------------------------------------------------------------------------------
(* The objects: where the pieces of a span lie.                            *)

LEMMA MulMono ==
  ASSUME NEW a \in Int, NEW b \in Int, NEW c \in Nat, a <= b
  PROVE  a * c <= b * c
OBVIOUS

LEMMA MulDist ==
  ASSUME NEW a \in Int, NEW b \in Int, NEW c \in Int
  PROVE  (a + b) * c = a * c + b * c /\ (a - b) * c = a * c - b * c
OBVIOUS

LEMMA DivBound ==
  ASSUME NEW a \in Nat, NEW b \in Nat \ {0}
  PROVE  (a \div b) \in Nat /\ (a \div b) * b <= a /\ a < ((a \div b) + 1) * b
OBVIOUS

LEMMA DivGeq ==
  ASSUME NEW a \in Nat, NEW b \in Nat \ {0}, NEW q \in Nat, q * b <= a
  PROVE  q <= a \div b
<1>1. a < ((a \div b) + 1) * b /\ a \div b \in Nat
  BY DivBound
<1>2. CASE q >= (a \div b) + 1
  <2>1. ((a \div b) + 1) * b <= q * b
    BY <1>1, <1>2, MulMono
  <2>. QED  BY <1>1, <2>1
<1>. QED  BY <1>1, <1>2

LEMMA DivLess ==
  ASSUME NEW a \in Nat, NEW b \in Nat \ {0}, NEW q \in Nat, a < q * b
  PROVE  a \div b < q
<1>1. (a \div b) * b <= a /\ a \div b \in Nat
  BY DivBound
<1>2. CASE q <= (a \div b)
  <2>1. q * b <= (a \div b) * b
    BY <1>1, <1>2, MulMono
  <2>. QED  BY <1>1, <2>1
<1>. QED  BY <1>1, <1>2

(* Every piece starts inside its span.                                     *)
LEMMA PieceInSpan ==
  ASSUME PagesSound, NEW s \in allocated, NEW size \in Sizes, NEW o \in Pieces(s, size)
  PROVE  /\ o \in Nat
         /\ First(s) * PAGE_BYTES <= o /\ o < (Last(s) + 1) * PAGE_BYTES
         /\ PageOf(o) \in First(s) .. Last(s)
<1>1. /\ First(s) \in Nat /\ Last(s) + 1 = First(s) + span[s].n /\ span[s].n \in Nat
      /\ span[s].pageId = First(s) /\ Last(s) \in Nat
  BY SpanPages, SizeClassAssumption DEF First, Last
<1>2. size \in Nat \ {0} /\ PAGE_BYTES \in Nat \ {0}
  BY SizesArePositive, SizeClassAssumption
<1>3. PICK m \in Nat : m = span[s].n * PAGE_BYTES
  BY <1>1, <1>2
<1>4. PICK c \in Nat : c = (m + size - 1) \div size /\ c * size <= m + size - 1
  BY <1>2, <1>3, DivBound
<1>5. PICK i \in 0 .. (c - 1) : o = First(s) * PAGE_BYTES + i * size
  BY <1>1, <1>3, <1>4 DEF Pieces, CarveCount
<1>6. PICK d \in Nat : d = i * size
  BY <1>2, <1>5
<1>7. d < m
  <2>1. (i + 1) * size <= c * size
    BY <1>2, <1>4, <1>5, MulMono
  <2>2. (i + 1) * size = i * size + 1 * size /\ 1 * size = size
    BY <1>2, <1>5, MulDist
  <2>3. c * size \in Nat
    BY <1>2, <1>4
  <2>. QED  BY <1>2, <1>3, <1>4, <1>6, <2>1, <2>2, <2>3
<1>8. PICK f \in Nat : f = First(s) * PAGE_BYTES
  BY <1>1, <1>2
<1>9. (Last(s) + 1) * PAGE_BYTES = f + m
  <2>1. (First(s) + span[s].n) * PAGE_BYTES = First(s) * PAGE_BYTES + span[s].n * PAGE_BYTES
    BY <1>1, <1>2, MulDist
  <2>. QED  BY <1>1, <1>3, <1>8, <2>1
<1>10. o \in Nat /\ f <= o /\ o < f + m
  BY <1>3, <1>5, <1>6, <1>7, <1>8
<1>11. First(s) <= o \div PAGE_BYTES
  BY <1>1, <1>2, <1>8, <1>10, DivGeq
<1>12. o \div PAGE_BYTES < Last(s) + 1
  <2>1. PICK q \in Nat : q = Last(s) + 1
    BY <1>1
  <2>2. o < q * PAGE_BYTES
    BY <1>9, <1>10, <2>1
  <2>. QED  BY <1>2, <1>10, <2>1, <2>2, DivLess
<1>13. o \div PAGE_BYTES \in Nat
  BY <1>2, <1>10, DivBound
<1>. QED  BY <1>1, <1>8, <1>9, <1>10, <1>11, <1>12, <1>13 DEF PageOf

(* Two spans have no piece in common.                                      *)
LEMMA PiecesApart ==
  ASSUME PagesSound, NEW s \in allocated, NEW r \in allocated, s # r, NEW size \in Sizes
  PROVE  Pieces(s, size) \cap Pieces(r, size) = {}
<1>. SUFFICES ASSUME NEW o, o \in Pieces(s, size), o \in Pieces(r, size) PROVE FALSE
  OBVIOUS
<1>1. PageOf(o) \in First(s) .. Last(s) /\ PageOf(o) \in First(r) .. Last(r)
  BY PieceInSpan
<1>2. First(s) \in Nat /\ Last(s) \in Nat /\ First(r) \in Nat /\ Last(r) \in Nat
  BY SpanPages
<1>3. Last(s) < First(r) \/ Last(r) < First(s)
  BY DEF PagesSound, Apart
<1>. QED  BY <1>1, <1>2, <1>3

LEMMA PiecesType ==
  ASSUME IInv, PagesSound, NEW s \in allocated, NEW size \in Sizes
  PROVE  Pieces(s, size) \subseteq Nat /\ IsFiniteSet(Pieces(s, size))
<1>1. s \in SpanId /\ span \in [SpanId -> SpanRecord]
  BY DEF IInv, SpansTyped
<1>. QED  BY <1>1, PieceInSpan, PiecesAreFinite

LEMMA PiecesStay ==
  ASSUME NEW s, NEW size, span'[s].pageId = span[s].pageId, span'[s].n = span[s].n
  PROVE  Pieces(s, size)' = Pieces(s, size)
BY DEF Pieces

-------------------------------------------------------------------------------
(* The objects: what a step leaves as it is.                               *)

(* Carving marks pages of the program, and a span.                         *)
LEMMA CarvedPages ==
  ASSUME IInv, PagesSound, RestTyped, NEW t \in Thread, Carve(t)
  PROVE  carved' \subseteq Nat /\ loose' \subseteq SpanId
<1>. DEFINE s    == job[t].span
            size == job[t].size
            last == LastPiece(s, size)
<1>1. pc[t] = "carve"
  BY DEF Carve, At
<1>2. s \in allocated /\ s \in SpanId /\ size \in Sizes
  BY <1>1 DEF PagesSound, HandsSound, WithSpan, IInv, FetchFits, Fetching, HasSpan
<1>3. /\ span[s].pageId \in Nat /\ span[s].n \in Nat \ {0}
      /\ size \in Nat \ {0} /\ PAGE_BYTES \in Nat \ {0}
  BY <1>2, SizesArePositive, SizeClassAssumption DEF PagesSound, Measured
<1>4. PagesOf(s) \subseteq Nat
  BY <1>3 DEF PagesOf
<1>5. last \in Nat
  <2>1. PICK m \in Nat : m = span[s].n * PAGE_BYTES /\ 1 <= m
    BY <1>3
  <2>2. PICK c \in Nat : c = (m + size - 1) \div size /\ 1 <= c
    <3>1. m + size - 1 \in Nat /\ 1 * size <= m + size - 1
      BY <1>3, <2>1
    <3>. QED  BY <1>3, <3>1, DivGeq, DivBound
  <2>3. last = span[s].pageId * PAGE_BYTES + (c - 1) * size
    BY <2>1, <2>2 DEF LastPiece, CarveCount
  <2>4. span[s].pageId * PAGE_BYTES \in Nat /\ (c - 1) * size \in Nat
    BY <1>3, <2>2
  <2>. QED  BY <2>3, <2>4
<1>6. PageOf(last + size - 1) \in Nat
  BY <1>3, <1>5, DivBound DEF PageOf
<1>7. /\ carved' = carved \cup PagesOf(s) \cup {PageOf(last + size - 1)}
      /\ loose' \subseteq loose \cup {s}
  BY DEF Carve
<1>. QED  BY <1>2, <1>4, <1>6, <1>7 DEF RestTyped

LEMMA RestStep ==
  ASSUME IInv, PagesSound, RestTyped, [Next]_vars
  PROVE  RestTyped'
<1>1. CASE UNCHANGED vars \/ Ended
  BY <1>1 DEF Ended, vars, RestTyped
<1>2. ASSUME NEW t \in Thread, Call(t) PROVE RestTyped'
  <2>1. /\ UNCHANGED <<pageMtx, bucketMtx, carved, loose>>
        /\ process' \in {process, "wild pointer"}
    BY <1>2 DEF Call, AllocateCached, AllocateFetch, AllocateWild, DeAllocate, links
  <2>2. held' \in Int
    <3>1. held \in Int
      BY DEF RestTyped
    <3>2. held' = held \/ held' = held + 1 \/ held' = held - 1
      BY <1>2 DEF Call, AllocateCached, AllocateFetch, AllocateWild, DeAllocate, threadVars
    <3>. QED  BY <3>1, <3>2
  <2>3. process' \in {"running"} \cup Endings
    BY <2>1 DEF RestTyped, Endings
  <2>. QED  BY <2>1, <2>2, <2>3 DEF RestTyped
<1>3. ASSUME NEW t \in Thread, InPool(t) PROVE RestTyped'
  <2>1. CASE FetchHit(t) \/ FetchMiss(t) \/ Hang(t)
    <3>1. UNCHANGED <<process, pageMtx, bucketMtx, carved, loose>> /\ held' \in {held, held + 1}
      BY <2>1 DEF FetchHit, FetchMiss, Hang, HandOut, threadVars, links
    <3>. QED  BY <3>1 DEF RestTyped
  <2>5. CASE Carve(t)
    <3>1. UNCHANGED <<process, pageMtx, bucketMtx, held>>
      BY <2>5 DEF Carve, threadVars
    <3>. QED  BY <2>5, <3>1, CarvedPages DEF RestTyped
  <2>2. CASE LockBucket(t) \/ ReleaseObject(t) \/ ReleaseDone(t)
    <3>1. UNCHANGED <<process, pageMtx, held, carved>> /\ loose' \subseteq loose
      BY <2>2 DEF LockBucket, ReleaseObject, ReleaseDone, threadVars, links
    <3>2. \/ UNCHANGED bucketMtx
          \/ bucketMtx' = [bucketMtx EXCEPT ![job[t].size] = t]
          \/ bucketMtx' = [bucketMtx EXCEPT ![job[t].size] = NoThread]
      BY <2>2 DEF LockBucket, ReleaseObject, ReleaseDone
    <3>. QED  BY <3>1, <3>2 DEF RestTyped
  <2>3. CASE FetchBeyond(t) \/ ReleaseLost(t) \/ ReleaseRaces(t) \/ NewSpanExit(t)
    <3>1. /\ UNCHANGED <<pageMtx, bucketMtx, held, carved, loose>>
          /\ process' \in {"stale link", "page not mapped", "deleted span",
                           "crash in the map", "exited"}
      BY <2>3 DEF FetchBeyond, ReleaseLost, ReleaseRaces, NewSpanExit, threadVars, links
    <3>. QED  BY <3>1 DEF RestTyped, Endings
  <2>4. CASE \/ LockPages(t) \/ NewSpanExact(t) \/ NewSpanSplit(t) \/ NewSpanGrow(t)
             \/ MergePrev(t) \/ MergeNext(t)
    <3>1. /\ UNCHANGED <<process, bucketMtx, held, carved, loose>>
          /\ pageMtx' \in {pageMtx, t, NoThread}
      BY <2>4 DEF LockPages, NewSpanExact, NewSpanSplit, NewSpanGrow, MergePrev, MergeNext,
                  threadVars, links
    <3>. QED  BY <3>1 DEF RestTyped
  <2>. QED  BY <1>3, <2>1, <2>2, <2>3, <2>4, <2>5 DEF InPool
<1>. QED  BY <1>1, <1>2, <1>3 DEF Next

(* One thread goes on with its call, begins one or ends one.               *)
LEMMA JobMoves ==
  ASSUME IInv, JobsSound, NEW t \in Thread, NEW j, NEW where,
         job' = [job EXCEPT ![t] = j], pc' = [pc EXCEPT ![t] = where],
         where = "idle" => j = NoJob, where # "idle" => j.size \in Sizes,
         where \in Fetching => j.batch >= 1 /\ j.start = {}
  PROVE  JobsSound'
<1>1. /\ job'[t] = j /\ pc'[t] = where
      /\ \A u \in Thread : u # t => job'[u] = job[u] /\ pc'[u] = pc[u]
  BY DEF IInv, ThreadsTyped
<1>. SUFFICES ASSUME NEW u \in Thread
              PROVE  /\ pc'[u] = "idle" => job'[u] = NoJob
                     /\ pc'[u] # "idle" => job'[u].size \in Sizes
                     /\ pc'[u] \in Fetching => job'[u].batch >= 1 /\ job'[u].start = {}
  BY DEF JobsSound
<1>. QED  BY <1>1 DEF JobsSound

(* The same call, with another span or list.                               *)
LEMMA JobGoesOn ==
  ASSUME IInv, JobsSound, NEW t \in Thread, pc[t] # "idle", NEW where, where # "idle",
         pc' = [pc EXCEPT ![t] = where], where \in Fetching => pc[t] \in Fetching,
         NEW s, NEW start, job' = [job EXCEPT ![t].span = s, ![t].start = start],
         start = job[t].start \/ where \notin Fetching
  PROVE  JobsSound'
<1>1. PICK j : j = [job[t] EXCEPT !.span = s, !.start = start]
  OBVIOUS
<1>2. j.size = job[t].size /\ j.batch = job[t].batch /\ j.start = start
  BY <1>1 DEF IInv, ThreadsTyped, JobRecord
<1>3. job' = [job EXCEPT ![t] = j]
  BY <1>1 DEF IInv, ThreadsTyped
<1>. QED  BY <1>2, <1>3, JobMoves DEF JobsSound

LEMMA JobsStep ==
  ASSUME IInv, JobsSound, [Next]_vars
  PROVE  JobsSound'
<1>1. ASSUME UNCHANGED <<pc, job>> PROVE JobsSound'
  BY <1>1 DEF JobsSound
<1>2. CASE UNCHANGED vars \/ Ended
  BY <1>1, <1>2 DEF Ended, vars
<1>3. ASSUME NEW t \in Thread, Call(t) PROVE JobsSound'
  <2>1. ASSUME NEW size \in Sizes, AllocateCached(t, size) \/ AllocateWild(t, size)
        PROVE  JobsSound'
    BY <1>1, <2>1 DEF AllocateCached, AllocateWild
  <2>2. ASSUME NEW size \in Sizes, AllocateFetch(t, size)
        PROVE  JobsSound'
    <3>1. PICK batchNum : /\ batchNum = MinOf(maxSize[t][size], NumMoveSize(size))
                          /\ job' = [job EXCEPT ![t] = NewJob(size, batchNum, {})]
      BY <2>2 DEF AllocateFetch
    <3>2. pc' = [pc EXCEPT ![t] = "fetch"]
      BY <2>2 DEF AllocateFetch, Goto
    <3>3. maxSize[t][size] \in Nat /\ maxSize[t][size] >= 1
      <4>1. Cardinality(cache[t][size]) \in Nat
        BY FS_CardinalityType DEF IInv, FiniteLists
      <4>2. maxSize[t][size] \in Nat /\ Cardinality(cache[t][size]) < maxSize[t][size]
        BY DEF IInv, ThreadsTyped, CacheBounded
      <4>. QED  BY <4>1, <4>2
    <3>4. batchNum >= 1
      BY <3>1, <3>3, NumMoveSizeBounds DEF MinOf
    <3>. QED  BY <3>1, <3>2, <3>4, JobMoves DEF NewJob
  <2>3. ASSUME NEW block \in live, DeAllocate(t, block)
        PROVE  JobsSound'
    <3>1. CASE UNCHANGED <<pc, job>>
      BY <1>1, <3>1
    <3>2. CASE ~ UNCHANGED <<pc, job>>
      <4>1. PICK range : /\ job' = [job EXCEPT ![t] = NewJob(block[2], 0, range)]
                         /\ pc' = [pc EXCEPT ![t] = "return"]
        BY <2>3, <3>2 DEF DeAllocate, Goto
      <4>2. block[2] \in Sizes
        BY DEF IInv, ThreadsTyped
      <4>. QED  BY <4>1, <4>2, JobMoves DEF NewJob, Fetching
    <3>. QED  BY <3>1, <3>2
  <2>. QED  BY <1>3, <2>1, <2>2, <2>3 DEF Call
<1>4. ASSUME NEW t \in Thread, InPool(t) PROVE JobsSound'
  <2>a. job[t] \in JobRecord
    BY DEF IInv, ThreadsTyped
  <2>b. job = [job EXCEPT ![t].span = job[t].span, ![t].start = job[t].start]
    BY DEF IInv, ThreadsTyped, JobRecord
  <2>1. CASE FetchHit(t) \/ Hang(t) \/ ReleaseDone(t)
    <3>1. job' = [job EXCEPT ![t] = NoJob] /\ pc' = [pc EXCEPT ![t] = "idle"]
      BY <2>1 DEF FetchHit, Hang, ReleaseDone, HandOut, Goto
    <3>. QED  BY <3>1, JobMoves DEF Fetching
  <2>2. CASE FetchMiss(t) \/ Carve(t) \/ LockBucket(t) \/ LockPages(t)
    <3>1. PICK where : /\ pc' = [pc EXCEPT ![t] = where] /\ where # "idle"
                       /\ pc[t] # "idle"
                       /\ where \in Fetching => pc[t] \in Fetching
      BY <2>2 DEF FetchMiss, Carve, LockBucket, LockPages, At, Goto, Fetching
    <3>2. UNCHANGED job
      BY <2>2 DEF FetchMiss, Carve, LockBucket, LockPages
    <3>3. PICK s, start : /\ job' = [job EXCEPT ![t].span = s, ![t].start = start]
                          /\ start = job[t].start
      BY <2>b, <3>2
    <3>. QED  BY <3>1, <3>3, JobGoesOn
  <2>3. CASE \/ FetchBeyond(t) \/ ReleaseLost(t) \/ ReleaseRaces(t)
             \/ NewSpanExit(t) \/ NewSpanGrow(t)
    BY <1>1, <2>3 DEF FetchBeyond, ReleaseLost, ReleaseRaces, NewSpanExit, NewSpanGrow
  <2>4. CASE NewSpanExact(t) \/ NewSpanSplit(t)
    <3>1. PICK s : job' = [job EXCEPT ![t].span = s]
      BY <2>4 DEF NewSpanExact, NewSpanSplit
    <3>2. job' = [job EXCEPT ![t].span = s, ![t].start = job[t].start]
      BY <3>1 DEF IInv, ThreadsTyped, JobRecord
    <3>3. pc[t] = "newSpan" /\ pc' = [pc EXCEPT ![t] = "carve"]
      BY <2>4 DEF NewSpanExact, NewSpanSplit, At, Goto
    <3>. QED  BY <3>2, <3>3, JobGoesOn DEF Fetching
  <2>5. CASE ReleaseObject(t)
    <3>1. pc[t] = "release" /\ pc = [pc EXCEPT ![t] = "release"]
      BY <2>5 DEF ReleaseObject, At, IInv, ThreadsTyped
    <3>2. PICK s, rest, where :
            /\ job' = [job EXCEPT ![t].span = s, ![t].start = rest]
            /\ pc' = [pc EXCEPT ![t] = where] /\ where \in {"release", "lockPagesGive"}
      <4>1. \/ \E s, rest : /\ job' = [job EXCEPT ![t].start = rest, ![t].span = s]
                            /\ pc' = [pc EXCEPT ![t] = "lockPagesGive"]
            \/ \E rest : job' = [job EXCEPT ![t].start = rest] /\ UNCHANGED pc
        BY <2>5 DEF ReleaseObject, Goto
      <4>2. \A s, rest : [job EXCEPT ![t].start = rest, ![t].span = s] =
                         [job EXCEPT ![t].span = s, ![t].start = rest]
        BY DEF IInv, ThreadsTyped, JobRecord
      <4>3. \A rest : [job EXCEPT ![t].start = rest] =
                      [job EXCEPT ![t].span = job[t].span, ![t].start = rest]
        BY DEF IInv, ThreadsTyped, JobRecord
      <4>4. CASE \E s, rest : /\ job' = [job EXCEPT ![t].start = rest, ![t].span = s]
                              /\ pc' = [pc EXCEPT ![t] = "lockPagesGive"]
        <5>1. PICK s, rest : /\ job' = [job EXCEPT ![t].start = rest, ![t].span = s]
                             /\ pc' = [pc EXCEPT ![t] = "lockPagesGive"]
          BY <4>4
        <5>2. job' = [job EXCEPT ![t].span = s, ![t].start = rest]
          BY <4>2, <5>1
        <5>3. PICK where : where = "lockPagesGive"
          OBVIOUS
        <5>. QED  BY <5>1, <5>2, <5>3
      <4>5. CASE \E rest : job' = [job EXCEPT ![t].start = rest] /\ UNCHANGED pc
        <5>1. PICK rest : job' = [job EXCEPT ![t].start = rest]
          BY <4>5
        <5>2. job' = [job EXCEPT ![t].span = job[t].span, ![t].start = rest]
          BY <4>3, <5>1
        <5>3. pc' = [pc EXCEPT ![t] = "release"]
          BY <3>1, <4>5
        <5>. QED  BY <5>2, <5>3
      <4>. QED  BY <4>1, <4>4, <4>5
    <3>. QED  BY <3>1, <3>2, JobGoesOn DEF Fetching
  <2>6. CASE MergePrev(t) \/ MergeNext(t)
    <3>1. pc[t] \in {"mergePrev", "mergeNext"} /\ pc = [pc EXCEPT ![t] = pc[t]]
      BY <2>6 DEF MergePrev, MergeNext, At, IInv, ThreadsTyped
    <3>2. PICK where : pc' = [pc EXCEPT ![t] = where] /\ where \in {pc[t], "mergeNext", "return"}
      BY <2>6, <3>1 DEF MergePrev, MergeNext, Goto
    <3>3. PICK s : job' = [job EXCEPT ![t].span = s]
      <4>1. job = [job EXCEPT ![t].span = job[t].span]
        BY DEF IInv, ThreadsTyped, JobRecord
      <4>2. UNCHANGED job \/ job' = [job EXCEPT ![t].span = NoSpan]
        BY <2>6 DEF MergePrev, MergeNext
      <4>3. CASE UNCHANGED job
        BY <4>1, <4>3
      <4>. QED  BY <4>2, <4>3
    <3>4. job' = [job EXCEPT ![t].span = s, ![t].start = job[t].start]
      BY <3>3 DEF IInv, ThreadsTyped, JobRecord
    <3>. QED  BY <3>1, <3>2, <3>4, JobGoesOn DEF Fetching
  <2>. QED  BY <1>4, <2>1, <2>2, <2>3, <2>4, <2>5, <2>6 DEF InPool
<1>. QED  BY <1>2, <1>3, <1>4 DEF Next

(* The homes of the objects of one size move, the spans do not.            *)
LEMMA BucketMoves ==
  ASSUME NEW size \in Sizes, BucketSound(size),
         centralLists'[size] = centralLists[size],
         \A s \in centralLists[size] : span'[s] = span[s],
         HomesApart(size)', Outside(size)' = Outside(size)
  PROVE  BucketSound(size)'
<1>1. \A s \in centralLists[size] : Pieces(s, size)' = Pieces(s, size)
  BY DEF Pieces
<1>2. \A s \in centralLists[size] : Counted(s, size)' /\ span'[s].useCount > 0
  BY <1>1 DEF BucketSound, Counted
<1>3. Owned(size)'
  BY <1>1 DEF BucketSound, Owned
<1>. QED  BY <1>2, <1>3 DEF BucketSound

LEMMA BucketStays ==
  ASSUME NEW size \in Sizes, BucketSound(size),
         centralLists'[size] = centralLists[size],
         \A s \in centralLists[size] : span'[s] = span[s],
         Held(size)' = Held(size),
         \A t \in Thread : /\ cache'[t][size] = cache[t][size]
                           /\ Returning(t, size)' = Returning(t, size)
  PROVE  BucketSound(size)'
<1>1. HomesApart(size)'
  BY DEF BucketSound, HomesApart
<1>2. Outside(size)' = Outside(size)
  BY DEF Outside
<1>. QED  BY <1>1, <1>2, BucketMoves

(* A step that moves no object.                                            *)
ObjectsKept ==
  /\ UNCHANGED <<cache, live, centralLists>>
  /\ \A s \in Hung : span'[s] = span[s]
  /\ \A t \in Thread : \A size \in Sizes : Returning(t, size)' = Returning(t, size)

LEMMA BucketsStay ==
  ASSUME Buckets, ObjectsKept
  PROVE  Buckets'
<1>. SUFFICES ASSUME NEW size \in Sizes PROVE BucketSound(size)'
  BY DEF Buckets
<1>1. \A s \in centralLists[size] : span'[s] = span[s]
  BY DEF ObjectsKept, Hung
<1>2. Held(size)' = Held(size)
  BY DEF ObjectsKept, Held
<1>. QED  BY <1>1, <1>2, BucketStays DEF Buckets, ObjectsKept

LEMMA ReturningStays ==
  ASSUME \A t \in Thread : job'[t].size = job[t].size /\ job'[t].start = job[t].start
  PROVE  \A t \in Thread : \A size \in Sizes : Returning(t, size)' = Returning(t, size)
BY DEF Returning

(* Spans that are in no bucket stay as they are.                           *)
LEMMA SparesStay ==
  ASSUME IInv, SparesEmpty, PagesSound, UNCHANGED pageLists,
         \A s \in allocated : s \notin Hung => span'[s] = span[s],
         \A t \in Thread : pc'[t] \in WithSpan =>
           /\ pc[t] \in WithSpan /\ job'[t].span = job[t].span /\ job'[t].size = job[t].size
           /\ pc'[t] = "hang" <=> pc[t] = "hang"
  PROVE  SparesEmpty'
<1>1. \A k \in 1 .. (NPAGES - 1) : \A s \in pageLists[k] : span'[s] = span[s]
  BY DEF PagesSound, SpanInOnePlace
<1>2. \A t \in Thread : pc[t] \in WithSpan => span'[job[t].span] = span[job[t].span]
  <2>. SUFFICES ASSUME NEW t \in Thread, pc[t] \in WithSpan
                PROVE  span'[job[t].span] = span[job[t].span]
    OBVIOUS
  <2>1. job[t].span \in allocated
    BY DEF PagesSound, HandsSound
  <2>2. job[t].span \notin Hung
    <3>1. job[t].span # NoSpan
      BY <2>1, MemPoolAssumption DEF IInv, SpansTyped
    <3>2. job[t].span \in InHand
      BY <3>1 DEF InHand
    <3>. QED  BY <3>2 DEF PagesSound, SpanInOnePlace
  <2>. QED  BY <2>1, <2>2
<1>3. \A k \in 1 .. (NPAGES - 1) : \A s \in pageLists[k] : Empty(s)'
  BY <1>1 DEF SparesEmpty, Empty
<1>. SUFFICES ASSUME NEW t \in Thread, pc'[t] \in WithSpan
              PROVE  IF pc'[t] = "hang"
                       THEN /\ span'[job'[t].span].useCount = 0
                            /\ span'[job'[t].span].freeList = Pieces(job[t].span, job[t].size)'
                       ELSE /\ span'[job'[t].span].useCount = 0
                            /\ span'[job'[t].span].freeList = {}
  BY <1>3 DEF SparesEmpty, Empty
<1>. QED  BY <1>2 DEF SparesEmpty, Empty, Pieces

-------------------------------------------------------------------------------
(* The objects: the steps that move none.                                  *)

(* A span in another thread's hands is nowhere else.                       *)
LEMMA OtherHands ==
  ASSUME IInv, PagesSound, NEW t \in Thread, pc[t] \in WithSpan
  PROVE  /\ job[t].span \in allocated /\ job[t].span \in SpanId
         /\ job[t].span \notin Hung
         /\ \A k \in 1 .. (NPAGES - 1) : job[t].span \notin pageLists[k]
         /\ \A u \in Thread : u # t => job[u].span # job[t].span
<1>1. job[t].span \in allocated /\ job[t].span \in SpanId /\ job[t].span # NoSpan
  BY MemPoolAssumption DEF PagesSound, HandsSound, IInv, SpansTyped
<1>2. job[t].span \in InHand
  BY <1>1 DEF InHand
<1>. QED  BY <1>1, <1>2 DEF PagesSound, SpanInOnePlace

(* One thread moves, the spans of the others stay as they are.             *)
LEMMA HandsMove ==
  ASSUME SparesEmpty, NEW t \in Thread,
         \A u \in Thread : u # t =>
           /\ pc'[u] = pc[u] /\ job'[u] = job[u]
           /\ pc[u] \in WithSpan => span'[job[u].span] = span[job[u].span],
         pc'[t] \in WithSpan =>
           IF pc'[t] = "hang"
             THEN /\ span'[job'[t].span].useCount = 0
                  /\ span'[job'[t].span].freeList = Pieces(job[t].span, job[t].size)'
             ELSE Empty(job[t].span)',
         \A k \in 1 .. (NPAGES - 1) : \A s \in pageLists'[k] : Empty(s)'
  PROVE  SparesEmpty'
<1>. SUFFICES ASSUME NEW u \in Thread, pc'[u] \in WithSpan
              PROVE  IF pc'[u] = "hang"
                       THEN /\ span'[job'[u].span].useCount = 0
                            /\ span'[job'[u].span].freeList = Pieces(job[u].span, job[u].size)'
                       ELSE Empty(job[u].span)'
  BY DEF SparesEmpty
<1>1. CASE u = t
  BY <1>1
<1>2. CASE u # t
  <2>1. pc[u] \in WithSpan /\ pc'[u] = pc[u] /\ job'[u] = job[u]
        /\ span'[job[u].span] = span[job[u].span]
    BY <1>2
  <2>2. Pieces(job[u].span, job[u].size)' = Pieces(job[u].span, job[u].size)
    BY <2>1 DEF Pieces
  <2>. QED  BY <2>1, <2>2 DEF SparesEmpty, Empty
<1>. QED  BY <1>1, <1>2

LEMMA NewSpanExactObjects ==
  ASSUME IInv, PagesSound, SparesEmpty, NEW t \in Thread, NewSpanExact(t)
  PROVE  ObjectsKept /\ SparesEmpty'
<1>. DEFINE k == NumMovePage(job[t].size)
<1>1. PICK s \in pageLists[k] :
        /\ pageLists' = [pageLists EXCEPT ![k] = @ \ {s}]
        /\ span' = [span EXCEPT ![s].isUse = TRUE]
        /\ job' = [job EXCEPT ![t].span = s]
  BY DEF NewSpanExact
<1>2. /\ pc[t] = "newSpan" /\ pc' = [pc EXCEPT ![t] = "carve"]
      /\ UNCHANGED <<cache, live, centralLists>>
  BY DEF NewSpanExact, At, Goto, threadVars
<1>3. k \in 1 .. (NPAGES - 1)
  <2>1. job[t].size \in Sizes
    BY <1>2 DEF IInv, FetchFits, Fetching
  <2>2. k \in Nat \ {0}
    BY <2>1, NumMovePageType
  <2>3. k < NPAGES
    BY <2>1, MemPoolAssumption
  <2>. QED  BY <2>2, <2>3, SizeClassAssumption
<1>4. s \notin Hung /\ s \in SpanId /\ allocated \subseteq SpanId /\ Empty(s)
  BY <1>1, <1>3 DEF PagesSound, SpanInOnePlace, IInv, SpansTyped, SparesEmpty
<1>5. /\ span'[s].useCount = span[s].useCount /\ span'[s].freeList = span[s].freeList
      /\ \A r \in SpanId : r # s => span'[r] = span[r]
  BY <1>1, <1>4 DEF IInv, SpansTyped, SpanRecord
<1>6. \A j \in 1 .. (NPAGES - 1) : pageLists'[j] \subseteq pageLists[j] /\ pageLists[j] \subseteq SpanId
  BY <1>1, <1>3 DEF IInv, SpansTyped
<1>. HIDE DEF k
<1>7. /\ pc'[t] = "carve" /\ job'[t].span = s
      /\ \A u \in Thread : u # t => pc'[u] = pc[u] /\ job'[u] = job[u]
      /\ \A u \in Thread : job'[u].size = job[u].size /\ job'[u].start = job[u].start
  BY <1>1, <1>2 DEF IInv, ThreadsTyped, JobRecord
<1>8. ObjectsKept
  <2>1. \A r \in Hung : span'[r] = span[r]
    BY <1>4, <1>5 DEF PagesSound, SpanInOnePlace
  <2>. QED  BY <1>2, <1>7, <2>1, ReturningStays DEF ObjectsKept
<1>9. SparesEmpty'
  <2>1. Empty(s)'
    BY <1>4, <1>5 DEF Empty
  <2>2. \A u \in Thread : u # t /\ pc[u] \in WithSpan => span'[job[u].span] = span[job[u].span]
    BY <1>1, <1>3, <1>5, OtherHands
  <2>3. \A j \in 1 .. (NPAGES - 1) : \A r \in pageLists'[j] : Empty(r)'
    BY <1>5, <1>6, <2>1 DEF SparesEmpty, Empty
  <2>4. Empty(job[t].span)'
    BY <1>7, <2>1 DEF Empty
  <2>. QED  BY <1>7, <2>2, <2>3, <2>4, HandsMove
<1>. QED  BY <1>8, <1>9

LEMMA NewSpanSplitObjects ==
  ASSUME IInv, PagesSound, SparesEmpty, NEW t \in Thread, NewSpanSplit(t)
  PROVE  ObjectsKept /\ SparesEmpty'
<1>. DEFINE k == NumMovePage(job[t].size)
<1>1. PICK i \in (k + 1) .. (NPAGES - 1) :
        \E nSpan \in pageLists[i], kSpan \in SpanId \ allocated :
          /\ allocated' = allocated \cup {kSpan}
          /\ span' = [span EXCEPT
               ![kSpan] = SpanOf(span[nSpan].pageId, k, TRUE),
               ![nSpan].pageId = span[nSpan].pageId + k,
               ![nSpan].n = span[nSpan].n - k]
          /\ pageLists' = [pageLists EXCEPT ![i] = @ \ {nSpan},
                                            ![span[nSpan].n - k] = @ \cup {nSpan}]
          /\ idSpanMap' = MapSplit(kSpan, nSpan, span[nSpan].pageId, k, span[nSpan].n - k)
          /\ job' = [job EXCEPT ![t].span = kSpan]
  BY DEF NewSpanSplit
<1>2. PICK nSpan \in pageLists[i], kSpan \in SpanId \ allocated :
        /\ span' = [span EXCEPT
             ![kSpan] = SpanOf(span[nSpan].pageId, k, TRUE),
             ![nSpan].pageId = span[nSpan].pageId + k,
             ![nSpan].n = span[nSpan].n - k]
        /\ pageLists' = [pageLists EXCEPT ![i] = @ \ {nSpan},
                                          ![span[nSpan].n - k] = @ \cup {nSpan}]
        /\ job' = [job EXCEPT ![t].span = kSpan]
  BY <1>1
<1>3. /\ pc[t] = "newSpan" /\ pc' = [pc EXCEPT ![t] = "carve"]
      /\ UNCHANGED <<cache, live, centralLists>>
  BY DEF NewSpanSplit, At, Goto, threadVars
<1>4. i \in 1 .. (NPAGES - 1)
  <2>1. job[t].size \in Sizes
    BY <1>3 DEF IInv, FetchFits, Fetching
  <2>2. k \in Nat \ {0}
    BY <2>1, NumMovePageType
  <2>. QED  BY <2>2, SizeClassAssumption
<1>5. /\ nSpan \in allocated /\ nSpan \in SpanId /\ nSpan \notin Hung
      /\ nSpan # kSpan /\ Empty(nSpan) /\ allocated \subseteq SpanId
      /\ \A r \in Hung : r \in allocated
  BY <1>4 DEF PagesSound, SpanInOnePlace, IInv, SpansTyped, SparesEmpty
<1>. HIDE DEF k
<1>6. /\ \A r \in SpanId : r # kSpan /\ r # nSpan => span'[r] = span[r]
      /\ span'[nSpan].useCount = span[nSpan].useCount
      /\ span'[nSpan].freeList = span[nSpan].freeList
      /\ \E id : span'[kSpan] = SpanOf(id, k, TRUE)
  <2>1. span \in [SpanId -> SpanRecord]
    BY DEF IInv, SpansTyped
  <2>. QED  BY <1>2, <1>5, <2>1 DEF SpanRecord
<1>7. Empty(kSpan)' /\ Empty(nSpan)'
  BY <1>5, <1>6 DEF Empty, SpanOf
<1>8. \A j \in 1 .. (NPAGES - 1) : \A r \in pageLists'[j] : r = nSpan \/ r \in pageLists[j]
  <2>1. pageLists \in [1 .. (NPAGES - 1) -> SUBSET SpanId]
    BY DEF IInv, SpansTyped
  <2>. QED  BY <1>2, <2>1
<1>9. /\ pc'[t] = "carve" /\ job'[t].span = kSpan
      /\ \A u \in Thread : u # t => pc'[u] = pc[u] /\ job'[u] = job[u]
      /\ \A u \in Thread : job'[u].size = job[u].size /\ job'[u].start = job[u].start
  BY <1>2, <1>3 DEF IInv, ThreadsTyped, JobRecord
<1>10. ObjectsKept
  <2>1. \A r \in Hung : span'[r] = span[r]
    BY <1>5, <1>6
  <2>. QED  BY <1>3, <1>9, <2>1, ReturningStays DEF ObjectsKept
<1>11. SparesEmpty'
  <2>1. \A u \in Thread : u # t /\ pc[u] \in WithSpan => span'[job[u].span] = span[job[u].span]
    <3>. SUFFICES ASSUME NEW u \in Thread, pc[u] \in WithSpan
                  PROVE  span'[job[u].span] = span[job[u].span]
      OBVIOUS
    <3>1. /\ job[u].span \in allocated /\ job[u].span \in SpanId
          /\ \A j \in 1 .. (NPAGES - 1) : job[u].span \notin pageLists[j]
      BY OtherHands
    <3>2. job[u].span # nSpan /\ job[u].span # kSpan
      BY <1>4, <3>1
    <3>. QED  BY <1>6, <3>1, <3>2
  <2>2. \A j \in 1 .. (NPAGES - 1) : \A r \in pageLists'[j] : Empty(r)'
    <3>. SUFFICES ASSUME NEW j \in 1 .. (NPAGES - 1), NEW r \in pageLists'[j], r # nSpan
                  PROVE  Empty(r)'
      BY <1>7
    <3>1. r \in pageLists[j]
      BY <1>8
    <3>2. r \in allocated /\ Empty(r)
      BY <3>1 DEF PagesSound, SpanInOnePlace, SparesEmpty
    <3>3. span'[r] = span[r]
      BY <1>2, <1>5, <1>6, <3>2
    <3>. QED  BY <3>2, <3>3 DEF Empty
  <2>3. Empty(job[t].span)'
    BY <1>7, <1>9 DEF Empty
  <2>. QED  BY <1>9, <2>1, <2>2, <2>3, HandsMove
<1>. QED  BY <1>10, <1>11

LEMMA NewSpanGrowObjects ==
  ASSUME IInv, PagesSound, SparesEmpty, NEW t \in Thread, NewSpanGrow(t)
  PROVE  ObjectsKept /\ SparesEmpty'
<1>1. PICK base \in Base \ regions, bigSpan \in SpanId \ allocated :
        /\ regions' = regions \cup {base}
        /\ allocated' = allocated \cup {bigSpan}
        /\ span' = [span EXCEPT ![bigSpan] = SpanOf(base, NPAGES - 1, FALSE)]
        /\ pageLists' = [pageLists EXCEPT ![NPAGES - 1] = @ \cup {bigSpan}]
  BY DEF NewSpanGrow
<1>2. UNCHANGED <<cache, live, centralLists, pc, job>>
  BY DEF NewSpanGrow, threadVars
<1>3. /\ \A r \in SpanId : r # bigSpan => span'[r] = span[r]
      /\ span'[bigSpan] = SpanOf(base, NPAGES - 1, FALSE)
      /\ allocated \subseteq SpanId
  BY <1>1 DEF IInv, SpansTyped
<1>4. \A j \in 1 .. (NPAGES - 1) : \A r \in pageLists'[j] : r = bigSpan \/ r \in pageLists[j]
  BY <1>1 DEF IInv, SpansTyped
<1>5. ObjectsKept
  <2>1. \A r \in Hung : span'[r] = span[r]
    BY <1>3 DEF PagesSound, SpanInOnePlace
  <2>. QED  BY <1>2, <2>1, ReturningStays DEF ObjectsKept
<1>6. SparesEmpty'
  <2>1. \A u \in Thread : pc[u] \in WithSpan => span'[job[u].span] = span[job[u].span]
    BY <1>3, OtherHands
  <2>2. \A j \in 1 .. (NPAGES - 1) : \A r \in pageLists'[j] : Empty(r)'
    <3>. SUFFICES ASSUME NEW j \in 1 .. (NPAGES - 1), NEW r \in pageLists'[j]
                  PROVE  Empty(r)'
      OBVIOUS
    <3>1. CASE r = bigSpan
      BY <1>3, <3>1 DEF Empty, SpanOf
    <3>2. CASE r # bigSpan
      <4>1. r \in allocated /\ Empty(r)
        BY <1>4, <3>2 DEF PagesSound, SpanInOnePlace, SparesEmpty
      <4>. QED  BY <1>3, <3>2, <4>1 DEF Empty
    <3>. QED  BY <3>1, <3>2
  <2>3. pc'[t] \in WithSpan =>
          IF pc'[t] = "hang"
            THEN /\ span'[job'[t].span].useCount = 0
                 /\ span'[job'[t].span].freeList = Pieces(job[t].span, job[t].size)'
            ELSE Empty(job[t].span)'
    <3>. SUFFICES ASSUME pc[t] \in WithSpan
                  PROVE  IF pc[t] = "hang"
                           THEN /\ span'[job[t].span].useCount = 0
                                /\ span'[job[t].span].freeList = Pieces(job[t].span, job[t].size)'
                           ELSE Empty(job[t].span)'
      BY <1>2
    <3>1. Pieces(job[t].span, job[t].size)' = Pieces(job[t].span, job[t].size)
      BY <1>2, <2>1 DEF Pieces
    <3>. QED  BY <1>2, <2>1, <3>1 DEF SparesEmpty, Empty
  <2>. QED  BY <1>2, <2>1, <2>2, <2>3, HandsMove
<1>. QED  BY <1>5, <1>6

LEMMA MergeObjects ==
  ASSUME IInv, PagesSound, SparesEmpty, NEW t \in Thread, Merging(t),
         NEW s, s = job[t].span, NEW q \in allocated, q # s, ~ span[q].isUse,
         NEW first, Merge(s, q, first),
         UNCHANGED <<cache, live, centralLists, pc, job>>
  PROVE  ObjectsKept /\ SparesEmpty'
<1>1. /\ s \in allocated /\ s \in SpanId /\ s \notin Hung /\ Empty(s)
      /\ allocated \subseteq SpanId /\ q \in SpanId
  BY OtherHands DEF SparesEmpty, Merging, WithSpan, IInv, SpansTyped
<1>2. PICK k \in 1 .. (NPAGES - 1) : q \in pageLists[k] /\ span[q].n = k
  BY DEF PagesSound, SpanInOnePlace
<1>3. q \notin Hung
  BY <1>2 DEF PagesSound, SpanInOnePlace
<1>4. \A j \in 1 .. (NPAGES - 1) : pageLists'[j] = pageLists[j] \ {q}
  <2>1. \A j \in 1 .. (NPAGES - 1) : j # k => q \notin pageLists[j]
    BY <1>2 DEF PagesSound, SpanInOnePlace
  <2>2. pageLists' = [pageLists EXCEPT ![k] = @ \ {q}]
    BY <1>2 DEF Merge
  <2>. QED  BY <2>1, <2>2 DEF IInv, SpansTyped
<1>5. /\ span'[s].useCount = span[s].useCount /\ span'[s].freeList = span[s].freeList
      /\ \A r \in SpanId : r # s /\ r # q => span'[r] = span[r]
  <2>1. span \in [SpanId -> SpanRecord]
    BY DEF IInv, SpansTyped
  <2>. QED  BY <1>1, <2>1 DEF Merge, SpanRecord
<1>6. ObjectsKept
  <2>1. \A r \in Hung : span'[r] = span[r]
    BY <1>1, <1>3, <1>5 DEF PagesSound, SpanInOnePlace
  <2>. QED  BY <2>1, ReturningStays DEF ObjectsKept
<1>7. SparesEmpty'
  <2>1. \A u \in Thread : u # t /\ pc[u] \in WithSpan => span'[job[u].span] = span[job[u].span]
    BY <1>2, <1>5, OtherHands
  <2>2. \A j \in 1 .. (NPAGES - 1) : \A r \in pageLists'[j] : Empty(r)'
    <3>. SUFFICES ASSUME NEW j \in 1 .. (NPAGES - 1), NEW r \in pageLists[j], r # q
                  PROVE  Empty(r)'
      BY <1>4
    <3>1. r \in allocated /\ r # s /\ Empty(r)
      BY OtherHands DEF PagesSound, SpanInOnePlace, SparesEmpty, Merging, WithSpan
    <3>. QED  BY <1>1, <1>5, <3>1 DEF Empty
  <2>3. Empty(job[t].span)' /\ pc'[t] # "hang"
    BY <1>1, <1>5 DEF Empty, Merging
  <2>. QED  BY <2>1, <2>2, <2>3, HandsMove
<1>. QED  BY <1>6, <1>7

LEMMA ListObjects ==
  ASSUME IInv, PagesSound, SparesEmpty, NEW t \in Thread, Merging(t),
         NEW s, s = job[t].span,
         pageLists' = [pageLists EXCEPT ![span[s].n] = @ \cup {s}],
         span' = [span EXCEPT ![s].isUse = FALSE],
         job' = [job EXCEPT ![t].span = NoSpan], pc' = [pc EXCEPT ![t] = "return"],
         UNCHANGED <<cache, live, centralLists>>
  PROVE  ObjectsKept /\ SparesEmpty'
<1>1. /\ s \in allocated /\ s \in SpanId /\ s \notin Hung /\ Empty(s)
      /\ allocated \subseteq SpanId
  BY OtherHands DEF SparesEmpty, Merging, WithSpan, IInv, SpansTyped
<1>2. \A j \in 1 .. (NPAGES - 1) : \A r \in pageLists'[j] : r = s \/ r \in pageLists[j]
  BY DEF IInv, SpansTyped
<1>3. /\ span'[s].useCount = span[s].useCount /\ span'[s].freeList = span[s].freeList
      /\ \A r \in SpanId : r # s => span'[r] = span[r]
  BY <1>1 DEF IInv, SpansTyped, SpanRecord
<1>4. /\ pc'[t] = "return"
      /\ \A u \in Thread : u # t => pc'[u] = pc[u] /\ job'[u] = job[u]
      /\ \A u \in Thread : job'[u].size = job[u].size /\ job'[u].start = job[u].start
  BY DEF IInv, ThreadsTyped, JobRecord
<1>5. ObjectsKept
  <2>1. \A r \in Hung : span'[r] = span[r]
    BY <1>1, <1>3 DEF PagesSound, SpanInOnePlace
  <2>. QED  BY <1>4, <2>1, ReturningStays DEF ObjectsKept
<1>6. SparesEmpty'
  <2>1. \A u \in Thread : u # t /\ pc[u] \in WithSpan => span'[job[u].span] = span[job[u].span]
    BY <1>3, OtherHands
  <2>2. \A j \in 1 .. (NPAGES - 1) : \A r \in pageLists'[j] : Empty(r)'
    <3>. SUFFICES ASSUME NEW j \in 1 .. (NPAGES - 1), NEW r \in pageLists'[j]
                  PROVE  Empty(r)'
      OBVIOUS
    <3>1. r \in SpanId /\ Empty(r)
      BY <1>1, <1>2 DEF PagesSound, SpanInOnePlace, SparesEmpty
    <3>. QED  BY <1>3, <3>1 DEF Empty
  <2>3. pc'[t] \notin WithSpan
    BY <1>4 DEF WithSpan
  <2>. QED  BY <1>4, <2>1, <2>2, <2>3, HandsMove
<1>. QED  BY <1>5, <1>6

LEMMA MergeStepObjects ==
  ASSUME IInv, PagesSound, SparesEmpty, NEW t \in Thread, MergePrev(t) \/ MergeNext(t)
  PROVE  ObjectsKept /\ SparesEmpty'
<1>1. PICK s : s = job[t].span
  OBVIOUS
<1>2. /\ Merging(t) /\ UNCHANGED <<cache, live, centralLists>>
      /\ s \in allocated /\ span[s].pageId + span[s].n = Last(s) + 1
  <2>1. pc[t] \in {"mergePrev", "mergeNext"} /\ UNCHANGED <<cache, live, centralLists>>
    BY DEF MergePrev, MergeNext, At, threadVars
  <2>2. s \in allocated
    BY <1>1, <2>1 DEF PagesSound, HandsSound, WithSpan
  <2>3. span[s].pageId \in Int /\ span[s].n \in Int
    BY <2>2 DEF PagesSound, Measured
  <2>. QED  BY <2>1, <2>2, <2>3 DEF Merging, Last
<1>3. ASSUME NEW q, q = Find(First(s) - 1) \/ q = Find(Last(s) + 1), CanMerge(s, q),
             NEW first, Merge(s, q, first), UNCHANGED <<pc, job>>
      PROVE  ObjectsKept /\ SparesEmpty'
  <2>1. q \in allocated /\ q # s /\ ~ span[q].isUse
    BY <1>1, <1>2, <1>3, NeighbourBefore, NeighbourAfter DEF CanMerge
  <2>. QED  BY <1>1, <1>2, <1>3, <2>1, MergeObjects
<1>4. CASE MergePrev(t)
  <2>1. PICK q : q = Find(First(s) - 1)
    OBVIOUS
  <2>2. /\ UNCHANGED job
        /\ IF CanMerge(s, q)
             THEN Merge(s, q, span[q].pageId) /\ UNCHANGED pc
             ELSE /\ pc' = [pc EXCEPT ![t] = "mergeNext"] /\ pc[t] = "mergePrev"
                  /\ UNCHANGED <<span, pageLists, allocated>>
    BY <1>1, <1>4, <2>1 DEF MergePrev, First, Goto, At
  <2>3. CASE CanMerge(s, q)
    BY <1>3, <2>1, <2>2, <2>3
  <2>4. CASE ~ CanMerge(s, q)
    <3>1. /\ pc'[t] = "mergeNext" /\ pc[t] = "mergePrev"
          /\ \A u \in Thread : u # t => pc'[u] = pc[u]
          /\ UNCHANGED <<span, pageLists, job>>
      BY <2>2, <2>4 DEF IInv, ThreadsTyped
    <3>2. SparesEmpty'
      BY <3>1, SparesStay DEF WithSpan
    <3>. QED  BY <1>2, <3>1, <3>2, ReturningStays DEF ObjectsKept
  <2>. QED  BY <2>3, <2>4
<1>5. CASE MergeNext(t)
  <2>1. PICK q : q = Find(Last(s) + 1)
    OBVIOUS
  <2>2. IF CanMerge(s, q)
          THEN Merge(s, q, span[s].pageId) /\ UNCHANGED <<pc, job>>
          ELSE /\ pageLists' = [pageLists EXCEPT ![span[s].n] = @ \cup {s}]
               /\ span' = [span EXCEPT ![s].isUse = FALSE]
               /\ job' = [job EXCEPT ![t].span = NoSpan]
               /\ pc' = [pc EXCEPT ![t] = "return"]
    BY <1>1, <1>2, <1>5, <2>1 DEF MergeNext, Goto
  <2>3. CASE CanMerge(s, q)
    BY <1>3, <2>1, <2>2, <2>3
  <2>4. CASE ~ CanMerge(s, q)
    BY <1>1, <1>2, <2>2, <2>4, ListObjects
  <2>. QED  BY <2>3, <2>4
<1>. QED  BY <1>4, <1>5

(* No span changes and no object moves.                                    *)
LEMMA QuietObjects ==
  ASSUME IInv, PagesSound, SparesEmpty, JobsSound, NEW t \in Thread,
         \/ FetchMiss(t) \/ LockBucket(t) \/ ReleaseDone(t) \/ LockPages(t)
         \/ \E size \in Sizes : AllocateFetch(t, size)
  PROVE  ObjectsKept /\ SparesEmpty'
<1>1. UNCHANGED <<cache, live, centralLists, span, pageLists>>
  BY DEF FetchMiss, LockBucket, ReleaseDone, LockPages, AllocateFetch, pageVars, threadVars
<1>2. \A u \in Thread : u # t => job'[u] = job[u] /\ pc'[u] = pc[u]
  BY DEF FetchMiss, LockBucket, ReleaseDone, LockPages, AllocateFetch, Goto, IInv, ThreadsTyped
<1>3. CASE FetchMiss(t) \/ LockBucket(t) \/ LockPages(t)
  <2>1. UNCHANGED job
    BY <1>3 DEF FetchMiss, LockBucket, LockPages
  <2>2. \/ pc'[t] \notin WithSpan
        \/ pc'[t] = "mergePrev" /\ pc[t] = "lockPagesGive"
    BY <1>3 DEF FetchMiss, LockBucket, LockPages, At, Goto, WithSpan, IInv, ThreadsTyped
  <2>3. SparesEmpty'
    BY <1>1, <1>2, <2>1, <2>2, SparesStay DEF WithSpan
  <2>. QED  BY <1>1, <2>1, <2>3, ReturningStays DEF ObjectsKept
<1>4. CASE ReleaseDone(t) \/ \E size \in Sizes : AllocateFetch(t, size)
  <2>1. pc'[t] \notin WithSpan
    BY <1>4 DEF ReleaseDone, AllocateFetch, Goto, WithSpan, IInv, ThreadsTyped
  <2>2. job[t].start = {}
    BY <1>4 DEF ReleaseDone, AllocateFetch, At, JobsSound, NoJob, NewJob
  <2>3. job'[t].start = {}
    BY <1>4 DEF ReleaseDone, AllocateFetch, NoJob, NewJob, IInv, ThreadsTyped
  <2>4. \A u \in Thread : \A size \in Sizes : Returning(u, size)' = Returning(u, size)
    BY <1>2, <2>2, <2>3 DEF Returning
  <2>5. SparesEmpty'
    BY <1>1, <1>2, <2>1, SparesStay
  <2>. QED  BY <1>1, <2>4, <2>5 DEF ObjectsKept
<1>. QED  BY <1>3, <1>4

LEMMA CarveObjects ==
  ASSUME IInv, PagesSound, SparesEmpty, NEW t \in Thread, Carve(t)
  PROVE  ObjectsKept /\ SparesEmpty'
<1>1. PICK s, list : s = job[t].span /\ list = Pieces(s, job[t].size)
  OBVIOUS
<1>2. /\ pc[t] = "carve" /\ pc' = [pc EXCEPT ![t] = "hang"]
      /\ span' = [span EXCEPT ![s].freeList = list]
      /\ UNCHANGED <<cache, live, centralLists, pageLists, job>>
  BY <1>1 DEF Carve, At, Goto, pageVars, threadVars
<1>3. /\ s \in SpanId /\ s \in allocated /\ s \notin Hung /\ Empty(s)
      /\ \A k \in 1 .. (NPAGES - 1) : s \notin pageLists[k]
  BY <1>1, <1>2, OtherHands DEF SparesEmpty, WithSpan
<1>4. /\ span'[s].freeList = list /\ span'[s].useCount = span[s].useCount
      /\ span'[s].pageId = span[s].pageId /\ span'[s].n = span[s].n
      /\ \A r \in SpanId : r # s => span'[r] = span[r]
      /\ allocated \subseteq SpanId
  BY <1>2, <1>3 DEF IInv, SpansTyped, SpanRecord
<1>5. pc'[t] = "hang" /\ \A u \in Thread : u # t => pc'[u] = pc[u]
  BY <1>2 DEF IInv, ThreadsTyped
<1>6. ObjectsKept
  <2>1. \A r \in Hung : span'[r] = span[r]
    BY <1>3, <1>4 DEF PagesSound, SpanInOnePlace
  <2>. QED  BY <1>2, <2>1, ReturningStays DEF ObjectsKept
<1>7. SparesEmpty'
  <2>1. \A u \in Thread : u # t /\ pc[u] \in WithSpan => span'[job[u].span] = span[job[u].span]
    BY <1>1, <1>4, OtherHands
  <2>2. \A j \in 1 .. (NPAGES - 1) : \A r \in pageLists'[j] : Empty(r)'
    BY <1>2, <1>3, <1>4 DEF PagesSound, SpanInOnePlace, SparesEmpty, Empty
  <2>3. Pieces(job[t].span, job[t].size)' = list
    BY <1>1, <1>2, <1>4 DEF Pieces
  <2>4. /\ span'[job'[t].span].useCount = 0
        /\ span'[job'[t].span].freeList = Pieces(job[t].span, job[t].size)'
    BY <1>1, <1>2, <1>3, <1>4, <2>3 DEF Empty
  <2>. QED  BY <1>2, <1>5, <2>1, <2>2, <2>4, HandsMove
<1>. QED  BY <1>6, <1>7

(* The process ends or has ended.                                          *)
LEMMA EndObjects ==
  ASSUME SparesEmpty, UNCHANGED <<span, pageLists, centralLists, threadVars, pc, job>>
  PROVE  ObjectsKept /\ SparesEmpty'
<1>1. \A s, size : Pieces(s, size)' = Pieces(s, size)
  BY DEF Pieces
<1>2. SparesEmpty'
  BY <1>1 DEF SparesEmpty, Empty
<1>3. ObjectsKept
  BY DEF ObjectsKept, Returning, threadVars
<1>. QED  BY <1>2, <1>3

-------------------------------------------------------------------------------
(* The objects: the calls of the program.                                  *)

LEMMA HeldIs ==
  ASSUME NEW size
  PROVE  /\ \A o : o \in Held(size) <=> <<o, size>> \in live
         /\ \A o : o \in Held(size)' <=> <<o, size>> \in live'
BY DEF Held

LEMMA AllocateCachedObjects ==
  ASSUME IInv, PagesSound, SparesEmpty, Buckets,
         NEW t \in Thread, NEW size \in Sizes, AllocateCached(t, size)
  PROVE  Buckets' /\ SparesEmpty'
<1>1. PICK o \in cache[t][size] :
        /\ cache' = [cache EXCEPT ![t][size] = @ \ {o}]
        /\ live' = live \cup {<<o, size>>}
  BY DEF AllocateCached
<1>2. UNCHANGED <<span, pageLists, centralLists, pc, job>>
  BY DEF AllocateCached, pageVars
<1>3. /\ cache'[t][size] = cache[t][size] \ {o}
      /\ \A u \in Thread : u # t => cache'[u][size] = cache[u][size]
      /\ \A u \in Thread : \A c \in Sizes : c # size => cache'[u][c] = cache[u][c]
  BY <1>1 DEF IInv, ThreadsTyped
<1>4. Held(size)' = Held(size) \cup {o}
  BY <1>1, HeldIs
<1>5. \A c \in Sizes : c # size => Held(c)' = Held(c)
  BY <1>1, HeldIs
<1>6. \A u \in Thread : \A c \in Sizes : Returning(u, c)' = Returning(u, c)
  BY <1>2, ReturningStays
<1>7. HomesApart(size)
  BY DEF Buckets, BucketSound
<1>8. HomesApart(size)'
  <2>. SUFFICES ASSUME NEW u \in Thread
                PROVE  /\ cache'[u][size] \cap Held(size)' = {}
                       /\ Returning(u, size)' \cap Held(size)' = {}
                       /\ \A v \in Thread :
                            /\ cache'[u][size] \cap Returning(v, size)' = {}
                            /\ u # v => /\ cache'[u][size] \cap cache'[v][size] = {}
                                        /\ Returning(u, size)' \cap Returning(v, size)' = {}
    BY DEF HomesApart
  <2>1. cache'[u][size] \cap Held(size)' = {}
    BY <1>3, <1>4, <1>7 DEF HomesApart
  <2>2. Returning(u, size)' \cap Held(size)' = {}
    BY <1>4, <1>6, <1>7 DEF HomesApart
  <2>3. \A v \in Thread : cache'[u][size] \subseteq cache[u][size] /\ cache'[v][size] \subseteq cache[v][size]
    BY <1>3
  <2>. QED  BY <1>6, <1>7, <2>1, <2>2, <2>3 DEF HomesApart
<1>9. Outside(size)' = Outside(size)
  BY <1>3, <1>4, <1>6 DEF Outside
<1>10. Buckets'
  <2>1. BucketSound(size)'
    BY <1>2, <1>8, <1>9, BucketMoves DEF Buckets
  <2>2. ASSUME NEW c \in Sizes, c # size PROVE BucketSound(c)'
    BY <1>2, <1>3, <1>5, <1>6, <2>2, BucketStays DEF Buckets
  <2>. QED  BY <2>1, <2>2 DEF Buckets
<1>11. SparesEmpty'
  BY <1>2, SparesStay
<1>. QED  BY <1>10, <1>11

LEMMA DeAllocateObjects ==
  ASSUME IInv, PagesSound, SparesEmpty, JobsSound, Buckets,
         NEW t \in Thread, NEW block \in live, DeAllocate(t, block)
  PROVE  Buckets' /\ SparesEmpty'
<1>1. PICK o, size : o = block[1] /\ size = block[2] /\ size \in Sizes /\ block = <<o, size>>
  BY DEF IInv, ThreadsTyped
<1>2. /\ pc[t] = "idle" /\ job[t] = NoJob
      /\ live' = live \ {block}
      /\ UNCHANGED <<span, pageLists, centralLists>>
  BY DEF DeAllocate, At, JobsSound, pageVars
<1>3. PICK range \in SUBSET (cache[t][size] \cup {o}) :
        /\ cache' = [cache EXCEPT ![t][size] = (cache[t][size] \cup {o}) \ range]
        /\ \/ /\ job' = [job EXCEPT ![t] = NewJob(size, 0, range)]
              /\ pc' = [pc EXCEPT ![t] = "return"]
           \/ range = {} /\ UNCHANGED <<pc, job>>
  <2>1. CASE TooLong(t, size, cache[t][size] \cup {o})
    BY <1>1, <2>1 DEF DeAllocate, Goto
  <2>2. CASE ~ TooLong(t, size, cache[t][size] \cup {o})
    <3>1. cache' = [cache EXCEPT ![t][size] = cache[t][size] \cup {o}] /\ UNCHANGED <<pc, job>>
      BY <1>1, <2>2 DEF DeAllocate
    <3>2. PICK range : range = {}
      OBVIOUS
    <3>3. (cache[t][size] \cup {o}) \ range = cache[t][size] \cup {o}
      BY <3>2
    <3>. QED  BY <3>1, <3>2, <3>3
  <2>. QED  BY <2>1, <2>2
<1>4. /\ cache'[t][size] = (cache[t][size] \cup {o}) \ range
      /\ \A u \in Thread : u # t => cache'[u][size] = cache[u][size]
      /\ \A u \in Thread : \A c \in Sizes : c # size => cache'[u][c] = cache[u][c]
  BY <1>1, <1>3 DEF IInv, ThreadsTyped
<1>5. /\ o \in Held(size) /\ Held(size)' = Held(size) \ {o}
      /\ \A c \in Sizes : c # size => Held(c)' = Held(c)
  <2>1. o \in Held(size) /\ Held(size)' = Held(size) \ {o}
    <3>1. o \in Held(size)
      BY <1>1, HeldIs
    <3>2. \A x : <<x, size>> \in live' <=> <<x, size>> \in live /\ x # o
      BY <1>1, <1>2
    <3>3. \A x : x \in Held(size)' <=> x \in Held(size) \ {o}
      BY <3>2, HeldIs
    <3>. QED  BY <3>1, <3>3
  <2>2. ASSUME NEW c \in Sizes, c # size PROVE Held(c)' = Held(c)
    <3>1. \A x : <<x, c>> \in live' <=> <<x, c>> \in live
      BY <1>1, <1>2, <2>2
    <3>2. \A x : x \in Held(c)' <=> x \in Held(c)
      BY <3>1, HeldIs
    <3>. QED  BY <3>2
  <2>. QED  BY <2>1, <2>2
<1>6. /\ \A u \in Thread : u # t => job'[u] = job[u] /\ pc'[u] = pc[u]
      /\ pc'[t] \notin WithSpan
  BY <1>2, <1>3 DEF IInv, ThreadsTyped, WithSpan
<1>7. /\ \A c \in Sizes : Returning(t, c) = {}
      /\ Returning(t, size)' = range
      /\ \A c \in Sizes : c # size => Returning(t, c)' = {}
  <2>1. \A c \in Sizes : c # 0
    BY SizesArePositive
  <2>2. job[t].size = 0 /\ job[t].start = {}
    BY <1>2 DEF NoJob, NewJob
  <2>3. \/ job'[t].size = size /\ job'[t].start = range
        \/ range = {} /\ job'[t] = job[t]
    BY <1>3 DEF NewJob, IInv, ThreadsTyped
  <2>. QED  BY <2>1, <2>2, <2>3 DEF Returning
<1>8. \A u \in Thread : u # t => \A c \in Sizes : Returning(u, c)' = Returning(u, c)
  BY <1>6 DEF Returning
<1>9. HomesApart(size)
  BY <1>1 DEF Buckets, BucketSound
<1>10. HomesApart(size)'
  <2>. SUFFICES ASSUME NEW u \in Thread
                PROVE  /\ cache'[u][size] \cap Held(size)' = {}
                       /\ Returning(u, size)' \cap Held(size)' = {}
                       /\ \A v \in Thread :
                            /\ cache'[u][size] \cap Returning(v, size)' = {}
                            /\ u # v => /\ cache'[u][size] \cap cache'[v][size] = {}
                                        /\ Returning(u, size)' \cap Returning(v, size)' = {}
    BY DEF HomesApart
  <2>1. \A v \in Thread : /\ o \notin cache[v][size] /\ o \notin Returning(v, size)
    BY <1>5, <1>9 DEF HomesApart
  <2>2. \A v \in Thread : v # t => range \cap (cache[v][size] \cup Returning(v, size) \cup Held(size)') = {}
    BY <1>3, <1>5, <1>9, <2>1 DEF HomesApart
  <2>3. range \cap Held(size)' = {}
    BY <1>3, <1>5, <1>9 DEF HomesApart
  <2>4. cache'[u][size] \cap Held(size)' = {}
    BY <1>4, <1>5, <1>9 DEF HomesApart
  <2>5. Returning(u, size)' \cap Held(size)' = {}
    BY <1>1, <1>5, <1>7, <1>8, <1>9, <2>3 DEF HomesApart
  <2>. SUFFICES ASSUME NEW v \in Thread
                PROVE  /\ cache'[u][size] \cap Returning(v, size)' = {}
                       /\ u # v => /\ cache'[u][size] \cap cache'[v][size] = {}
                                   /\ Returning(u, size)' \cap Returning(v, size)' = {}
    BY <2>4, <2>5
  <2>6. cache'[u][size] \cap Returning(v, size)' = {}
    <3>1. CASE v = t
      BY <1>4, <1>7, <2>2, <3>1
    <3>2. CASE v # t
      BY <1>1, <1>4, <1>8, <1>9, <2>1, <3>2 DEF HomesApart
    <3>. QED  BY <3>1, <3>2
  <2>7. ASSUME u # v PROVE cache'[u][size] \cap cache'[v][size] = {}
    BY <1>4, <1>9, <2>1, <2>7 DEF HomesApart
  <2>8. ASSUME u # v PROVE Returning(u, size)' \cap Returning(v, size)' = {}
    BY <1>1, <1>7, <1>8, <1>9, <2>2, <2>8 DEF HomesApart
  <2>. QED  BY <2>6, <2>7, <2>8
<1>11. Outside(size)' = Outside(size)
  <2>1. \A u \in Thread : u # t =>
          cache'[u][size] \cup Returning(u, size)' = cache[u][size] \cup Returning(u, size)
    BY <1>1, <1>4, <1>8
  <2>2. cache'[t][size] \cup Returning(t, size)' = cache[t][size] \cup Returning(t, size) \cup {o}
    BY <1>1, <1>3, <1>4, <1>7
  <2>. QED  BY <1>5, <2>1, <2>2 DEF Outside
<1>12. Buckets'
  <2>1. BucketSound(size)'
    BY <1>1, <1>2, <1>10, <1>11, BucketMoves DEF Buckets
  <2>2. ASSUME NEW c \in Sizes, c # size PROVE BucketSound(c)'
    <3>1. \A u \in Thread : cache'[u][c] = cache[u][c] /\ Returning(u, c)' = Returning(u, c)
      BY <1>4, <1>7, <1>8, <2>2
    <3>. QED  BY <1>2, <1>5, <2>2, <3>1, BucketStays DEF Buckets
  <2>. QED  BY <2>1, <2>2 DEF Buckets
<1>13. SparesEmpty'
  <2>1. \A u \in Thread : pc'[u] \in WithSpan => pc'[u] = pc[u] /\ job'[u] = job[u]
    BY <1>6
  <2>. QED  BY <1>2, <2>1, SparesStay
<1>. QED  BY <1>12, <1>13

-------------------------------------------------------------------------------
(* The objects: the central cache hands out a batch.                       *)

(* The pieces away from a span after a batch has left its free list.       *)
LEMMA BatchCount ==
  ASSUME NEW pieces, IsFiniteSet(pieces), NEW free \in SUBSET pieces,
         NEW objects \in SUBSET free, NEW o \in objects
  PROVE  /\ Cardinality(pieces \ (free \ objects)) =
              Cardinality(pieces \ free) + Cardinality(objects)
         /\ Cardinality(pieces \ (free \ objects)) > 0
<1>1. IsFiniteSet(pieces \ free) /\ IsFiniteSet(objects)
  BY FS_Subset
<1>2. pieces \ (free \ objects) = (pieces \ free) \cup objects /\ (pieces \ free) \cap objects = {}
  OBVIOUS
<1>3. Cardinality((pieces \ free) \cup objects) =
        Cardinality(pieces \ free) + Cardinality(objects) - Cardinality((pieces \ free) \cap objects)
  BY <1>1, FS_Union
<1>4. Cardinality((pieces \ free) \cap objects) = 0
  BY <1>2, FS_EmptySet
<1>5. /\ Cardinality(pieces \ free) \in Nat /\ Cardinality(objects) \in Nat
      /\ Cardinality(objects) # 0
  BY <1>1, FS_CardinalityType, FS_EmptySet
<1>6. Cardinality(pieces \ (free \ objects)) =
        Cardinality(pieces \ free) + Cardinality(objects)
  <2>1. PICK away, taken : away = Cardinality(pieces \ free) /\ taken = Cardinality(objects)
    OBVIOUS
  <2>2. away + taken - 0 = away + taken
    BY <1>5, <2>1
  <2>3. Cardinality((pieces \ free) \cup objects) = away + taken - 0
    BY <1>3, <1>4, <2>1
  <2>. QED  BY <1>2, <2>1, <2>2, <2>3
<1>. QED  BY <1>5, <1>6

(* Span s, in the bucket or about to enter it, gives objects to a thread   *)
(* that returns nothing.                                                   *)
LEMMA HandOutBuckets ==
  ASSUME IInv, PagesSound, JobsSound, Buckets,
         NEW t \in Thread, pc[t] \in Fetching, NEW size \in Sizes, size = job[t].size,
         NEW s \in allocated, Counted(s, size), HandOut(t, s),
         centralLists'[size] = centralLists[size] \cup {s},
         \A c \in Sizes : c # size => centralLists'[c] = centralLists[c] /\ s \notin centralLists[c]
  PROVE  Buckets'
<1>1. PICK free : free = span[s].freeList
  OBVIOUS
<1>a. PICK objects \in SUBSET free :
        \E o \in objects :
          /\ span' = Take(s, objects)
          /\ cache' = [cache EXCEPT ![t][size] = @ \cup Keep(objects, o)]
          /\ live' = live \cup {<<o, size>>}
  BY <1>1 DEF HandOut
<1>2. PICK o \in objects :
        /\ span' = Take(s, objects)
        /\ cache' = [cache EXCEPT ![t][size] = @ \cup Keep(objects, o)]
        /\ live' = live \cup {<<o, size>>}
  BY <1>a
<1>3. /\ span'[s].freeList = free \ objects
      /\ span'[s].useCount = span[s].useCount + Cardinality(objects)
      /\ span'[s].pageId = span[s].pageId /\ span'[s].n = span[s].n
      /\ \A r \in SpanId : r # s => span'[r] = span[r]
      /\ allocated \subseteq SpanId
  BY <1>1, <1>2 DEF Take, IInv, SpansTyped, SpanRecord
<1>4. /\ cache'[t][size] = cache[t][size] \cup (objects \ {o})
      /\ \A u \in Thread : u # t => cache'[u][size] = cache[u][size]
      /\ \A u \in Thread : \A c \in Sizes : c # size => cache'[u][c] = cache[u][c]
  BY <1>2 DEF Keep, IInv, ThreadsTyped
<1>5. Held(size)' = Held(size) \cup {o} /\ \A c \in Sizes : c # size => Held(c)' = Held(c)
  <2>1. \A x : <<x, size>> \in live' <=> <<x, size>> \in live \/ x = o
    BY <1>2
  <2>2. \A x : x \in Held(size)' <=> x \in Held(size) \cup {o}
    BY <2>1, HeldIs
  <2>3. ASSUME NEW c \in Sizes, c # size PROVE Held(c)' = Held(c)
    <3>1. \A x : <<x, c>> \in live' <=> <<x, c>> \in live
      BY <1>2, <2>3
    <3>2. \A x : x \in Held(c)' <=> x \in Held(c)
      BY <3>1, HeldIs
    <3>. QED  BY <3>2
  <2>. QED  BY <2>2, <2>3
<1>6. \A u \in Thread : \A c \in Sizes : Returning(u, c)' = Returning(u, c)
  <2>1. job'[t].start = {} /\ job[t].start = {} /\ \A u \in Thread : u # t => job'[u] = job[u]
    BY DEF HandOut, NoJob, NewJob, IInv, ThreadsTyped, JobsSound
  <2>. QED  BY <2>1 DEF Returning
<1>7. HomesApart(size) /\ Owned(size)
  BY DEF Buckets, BucketSound
<1>8. objects \subseteq Pieces(s, size) /\ objects \cap Outside(size) = {}
  BY <1>1 DEF Counted
<1>9. /\ objects \cap Held(size) = {}
      /\ \A u \in Thread : objects \cap cache[u][size] = {} /\ objects \cap Returning(u, size) = {}
  BY <1>8 DEF Outside
<1>10. HomesApart(size)'
  <2>. SUFFICES ASSUME NEW u \in Thread
                PROVE  /\ cache'[u][size] \cap Held(size)' = {}
                       /\ Returning(u, size)' \cap Held(size)' = {}
                       /\ \A v \in Thread :
                            /\ cache'[u][size] \cap Returning(v, size)' = {}
                            /\ u # v => /\ cache'[u][size] \cap cache'[v][size] = {}
                                        /\ Returning(u, size)' \cap Returning(v, size)' = {}
    BY DEF HomesApart
  <2>1. cache'[u][size] \cap Held(size)' = {}
    BY <1>4, <1>5, <1>7, <1>9 DEF HomesApart
  <2>2. Returning(u, size)' \cap Held(size)' = {}
    BY <1>5, <1>6, <1>7, <1>9 DEF HomesApart
  <2>3. ASSUME NEW v \in Thread PROVE cache'[u][size] \cap Returning(v, size)' = {}
    BY <1>4, <1>6, <1>7, <1>9 DEF HomesApart
  <2>4. ASSUME NEW v \in Thread, u # v PROVE cache'[u][size] \cap cache'[v][size] = {}
    BY <1>4, <1>7, <1>9, <2>4 DEF HomesApart
  <2>5. ASSUME NEW v \in Thread, u # v PROVE Returning(u, size)' \cap Returning(v, size)' = {}
    BY <1>6, <1>7, <2>5 DEF HomesApart
  <2>. QED  BY <2>1, <2>2, <2>3, <2>4, <2>5
<1>11. Outside(size)' = Outside(size) \cup objects
  <2>1. \A u \in Thread : u # t =>
          cache'[u][size] \cup Returning(u, size)' = cache[u][size] \cup Returning(u, size)
    BY <1>4, <1>6
  <2>2. cache'[t][size] \cup Returning(t, size)' \cup {o} =
          cache[t][size] \cup Returning(t, size) \cup objects
    BY <1>4, <1>6
  <2>. QED  BY <1>5, <2>1, <2>2 DEF Outside
<1>12. \A r \in allocated : Pieces(r, size)' = Pieces(r, size)
  BY <1>3, PiecesStay
<1>13. ASSUME NEW r \in centralLists'[size] PROVE Counted(r, size)' /\ span'[r].useCount > 0
  <2>1. CASE r = s
    <3>1. PICK pieces : pieces = Pieces(s, size)
      OBVIOUS
    <3>2. IsFiniteSet(pieces) /\ free \in SUBSET pieces
      BY <1>1, <3>1, PiecesType DEF Counted
    <3>3. span[s].useCount = Cardinality(pieces \ free)
      BY <1>1, <3>1 DEF Counted
    <3>4. span'[s].useCount = Cardinality(pieces \ (free \ objects)) /\ span'[s].useCount > 0
      <4>1. /\ Cardinality(pieces \ (free \ objects)) =
                  Cardinality(pieces \ free) + Cardinality(objects)
            /\ Cardinality(pieces \ (free \ objects)) > 0
        BY <3>2, BatchCount
      <4>. QED  BY <1>3, <3>3, <4>1
    <3>5. ASSUME NEW x \in pieces PROVE x \in free \ objects <=> x \notin Outside(size) \cup objects
      <4>1. x \in free <=> x \notin Outside(size)
        BY <1>1, <3>1 DEF Counted
      <4>. QED  BY <4>1
    <3>6. /\ Pieces(s, size)' = pieces /\ span'[s].freeList = free \ objects
          /\ Outside(size)' = Outside(size) \cup objects
      BY <1>3, <1>11, <1>12, <3>1
    <3>7. Counted(s, size)'
      BY <3>2, <3>4, <3>5, <3>6 DEF Counted
    <3>. QED  BY <2>1, <3>4, <3>7
  <2>2. CASE r # s
    <3>1. r \in centralLists[size] /\ r \in allocated
      BY <2>2 DEF PagesSound, InUse
    <3>2. Counted(r, size) /\ span[r].useCount > 0
      BY <3>1 DEF Buckets, BucketSound
    <3>3. Pieces(r, size) \cap objects = {}
      BY <1>8, <2>2, <3>1, PiecesApart
    <3>4. /\ span'[r] = span[r] /\ Pieces(r, size)' = Pieces(r, size)
          /\ Outside(size)' = Outside(size) \cup objects
      BY <1>3, <1>11, <1>12, <2>2, <3>1
    <3>. QED  BY <3>2, <3>3, <3>4 DEF Counted
  <2>. QED  BY <2>1, <2>2
<1>14. Owned(size)'
  <2>. SUFFICES ASSUME NEW x \in Outside(size)'
                PROVE  \E r \in centralLists'[size] : x \in Pieces(r, size)'
    BY DEF Owned
  <2>1. CASE x \in objects
    BY <1>8, <1>12, <2>1
  <2>2. CASE x \in Outside(size)
    <3>1. PICK r \in centralLists[size] : x \in Pieces(r, size)
      BY <1>7, <2>2 DEF Owned
    <3>2. r \in allocated
      BY DEF PagesSound, InUse
    <3>. QED  BY <1>12, <3>1, <3>2
  <2>. QED  BY <1>11, <2>1, <2>2
<1>15. BucketSound(size)'
  BY <1>10, <1>13, <1>14 DEF BucketSound
<1>16. ASSUME NEW c \in Sizes, c # size PROVE BucketSound(c)'
  <2>1. \A r \in centralLists[c] : span'[r] = span[r]
    BY <1>3, <1>16 DEF PagesSound, InUse
  <2>. QED  BY <1>4, <1>5, <1>6, <1>16, <2>1, BucketStays DEF Buckets
<1>. QED  BY <1>15, <1>16 DEF Buckets

LEMMA FetchHitObjects ==
  ASSUME IInv, PagesSound, SparesEmpty, JobsSound, Buckets, NEW t \in Thread, FetchHit(t)
  PROVE  Buckets' /\ SparesEmpty'
<1>1. PICK s \in centralLists[job[t].size] : HandOut(t, s)
  BY DEF FetchHit
<1>2. PICK size \in Sizes : size = job[t].size
  BY DEF FetchHit, At, JobsSound
<1>3. pc[t] \in Fetching /\ UNCHANGED <<pageLists, centralLists>>
  BY DEF FetchHit, At, Fetching, pageVars
<1>4. s \in allocated /\ s \in Hung /\ Counted(s, size)
  BY <1>1, <1>2 DEF PagesSound, InUse, Hung, Buckets, BucketSound
<1>5. \A c \in Sizes : c # size => s \notin centralLists[c]
  BY <1>1, <1>2 DEF PagesSound, SpanInOnePlace
<1>6. Buckets'
  BY <1>1, <1>2, <1>3, <1>4, <1>5, HandOutBuckets
<1>7. SparesEmpty'
  <2>1. \A r \in allocated : r # s => span'[r] = span[r]
    BY <1>1, <1>4 DEF HandOut, Take, IInv, SpansTyped
  <2>2. /\ \A u \in Thread : u # t => job'[u] = job[u] /\ pc'[u] = pc[u]
        /\ pc'[t] \notin WithSpan
    BY <1>1 DEF HandOut, Goto, IInv, ThreadsTyped, WithSpan
  <2>. QED  BY <1>3, <1>4, <2>1, <2>2, SparesStay
<1>. QED  BY <1>6, <1>7

LEMMA HangObjects ==
  ASSUME IInv, PagesSound, SparesEmpty, JobsSound, Buckets, NEW t \in Thread, Hang(t)
  PROVE  Buckets' /\ SparesEmpty'
<1>1. PICK s : s = job[t].span
  OBVIOUS
<1>2. PICK size \in Sizes : size = job[t].size
  BY DEF Hang, At, JobsSound
<1>3. /\ pc[t] = "hang" /\ HandOut(t, s) /\ UNCHANGED pageLists
      /\ centralLists' = [centralLists EXCEPT ![size] = @ \cup {s}]
  BY <1>1, <1>2 DEF Hang, At, pageVars
<1>4. /\ s \in allocated /\ s \in SpanId /\ s \notin Hung
      /\ \A k \in 1 .. (NPAGES - 1) : s \notin pageLists[k]
      /\ \A u \in Thread : u # t => job[u].span # s
  BY <1>1, <1>3, OtherHands DEF WithSpan
<1>5. span[s].useCount = 0 /\ span[s].freeList = Pieces(s, size)
  BY <1>1, <1>2, <1>3 DEF SparesEmpty, WithSpan
<1>6. Pieces(s, size) \cap Outside(size) = {}
  <2>. SUFFICES ASSUME NEW x \in Outside(size), x \in Pieces(s, size) PROVE FALSE
    OBVIOUS
  <2>1. PICK r \in centralLists[size] : x \in Pieces(r, size)
    BY DEF Buckets, BucketSound, Owned
  <2>2. r \in allocated /\ r # s
    BY <1>4 DEF PagesSound, InUse, Hung
  <2>. QED  BY <1>4, <2>1, <2>2, PiecesApart
<1>7. Counted(s, size)
  <2>1. Pieces(s, size) \ Pieces(s, size) = {}
    OBVIOUS
  <2>2. Cardinality(Pieces(s, size) \ Pieces(s, size)) = 0
    BY <2>1, FS_EmptySet
  <2>. QED  BY <1>5, <1>6, <2>2 DEF Counted
<1>8. \A c \in Sizes : s \notin centralLists[c]
  BY <1>4 DEF Hung
<1>9. /\ centralLists'[size] = centralLists[size] \cup {s}
      /\ \A c \in Sizes : c # size => centralLists'[c] = centralLists[c]
  BY <1>3 DEF IInv, SpansTyped
<1>10. Buckets'
  BY <1>2, <1>3, <1>4, <1>7, <1>8, <1>9, HandOutBuckets DEF Fetching
<1>11. SparesEmpty'
  <2>1. \A r \in SpanId : r # s => span'[r] = span[r]
    BY <1>3, <1>4 DEF HandOut, Take, IInv, SpansTyped
  <2>2. /\ \A u \in Thread : u # t => job'[u] = job[u] /\ pc'[u] = pc[u]
        /\ pc'[t] \notin WithSpan
    BY <1>3 DEF HandOut, Goto, IInv, ThreadsTyped, WithSpan
  <2>3. \A u \in Thread : u # t /\ pc[u] \in WithSpan => span'[job[u].span] = span[job[u].span]
    BY <1>4, <2>1, OtherHands
  <2>4. \A k \in 1 .. (NPAGES - 1) : \A r \in pageLists'[k] : Empty(r)'
    <3>1. \A k \in 1 .. (NPAGES - 1) : \A r \in pageLists[k] : span'[r] = span[r]
      BY <1>4, <2>1 DEF IInv, SpansTyped
    <3>. QED  BY <1>3, <3>1 DEF SparesEmpty, Empty
  <2>. QED  BY <2>2, <2>3, <2>4, HandsMove
<1>. QED  BY <1>10, <1>11

-------------------------------------------------------------------------------
(* The objects: one goes back to its span.                                 *)

(* The pieces away from a span that gets one back.                         *)
LEMMA OneBack ==
  ASSUME NEW pieces, IsFiniteSet(pieces), NEW free \in SUBSET pieces,
         NEW o \in pieces \ free, NEW count, count = Cardinality(pieces \ free)
  PROVE  /\ count \in Nat /\ Decrement(count) \in Nat
         /\ Decrement(count) = Cardinality(pieces \ (free \cup {o}))
         /\ Decrement(count) = 0 => pieces \ free = {o}
<1>1. PICK away : away = pieces \ free /\ o \in away
  OBVIOUS
<1>2. IsFiniteSet(away) /\ IsFiniteSet(away \ {o})
  BY <1>1, FS_Subset
<1>3. /\ Cardinality(away) \in Nat /\ Cardinality(away \ {o}) \in Nat
      /\ Cardinality(away \ {o}) = Cardinality(away) - 1
  BY <1>1, <1>2, FS_CardinalityType, FS_RemoveElement
<1>4. Decrement(count) = Cardinality(away \ {o})
  BY <1>1, <1>3 DEF Decrement
<1>5. pieces \ (free \cup {o}) = away \ {o}
  BY <1>1
<1>6. Cardinality(away \ {o}) = 0 => away = {o}
  <2>1. Cardinality(away \ {o}) = 0 => away \ {o} = {}
    BY <1>2, FS_EmptySet
  <2>. QED  BY <1>1, <2>1
<1>. QED  BY <1>1, <1>3, <1>4, <1>5, <1>6

LEMMA ReleaseObjects ==
  ASSUME IInv, PagesSound, SparesEmpty, JobsSound, Buckets, LookupFindsOwner,
         NEW t \in Thread, ReleaseObject(t)
  PROVE  Buckets' /\ SparesEmpty'
<1>1. PICK size \in Sizes : size = job[t].size
  BY DEF ReleaseObject, At, JobsSound
<1>a. PICK o \in job[t].start, s \in centralLists[job[t].size] :
        /\ o \in Pieces(s, job[t].size)
        /\ IF Decrement(span[s].useCount) = 0
             THEN /\ span' = [span EXCEPT ![s].freeList = {}, ![s].useCount = 0]
                  /\ centralLists' = [c \in Sizes |-> centralLists[c] \ {s}]
                  /\ job' = [job EXCEPT ![t].start = job[t].start \ {o}, ![t].span = s]
                  /\ pc' = [pc EXCEPT ![t] = "lockPagesGive"]
             ELSE /\ span' = [span EXCEPT ![s].freeList = @ \cup {o},
                                          ![s].useCount = Decrement(span[s].useCount)]
                  /\ job' = [job EXCEPT ![t].start = job[t].start \ {o}]
                  /\ UNCHANGED <<centralLists, pc>>
  BY ReleaseFindsOwner
<1>2. s \in centralLists[size] /\ o \in Pieces(s, size)
  BY <1>1, <1>a
<1>3. pc[t] = "release" /\ UNCHANGED <<cache, live, pageLists>>
  BY DEF ReleaseObject, At, pageVars, threadVars
<1>4. /\ s \in allocated /\ s \in SpanId /\ s \in Hung
      /\ Counted(s, size)
      /\ \A c \in Sizes : c # size => s \notin centralLists[c]
  BY <1>2 DEF PagesSound, InUse, Hung, IInv, SpansTyped, SpanInOnePlace, Buckets, BucketSound
<1>5. PICK pieces, free, left :
        /\ pieces = Pieces(s, size) /\ free = span[s].freeList
        /\ left = Decrement(span[s].useCount)
  OBVIOUS
<1>b. ASSUME left = 0
      PROVE  /\ span' = [span EXCEPT ![s].freeList = {}, ![s].useCount = 0]
             /\ centralLists' = [c \in Sizes |-> centralLists[c] \ {s}]
             /\ job' = [job EXCEPT ![t].start = job[t].start \ {o}, ![t].span = s]
             /\ pc' = [pc EXCEPT ![t] = "lockPagesGive"]
  BY <1>a, <1>5, <1>b
<1>c. ASSUME left # 0
      PROVE  /\ span' = [span EXCEPT ![s].freeList = free \cup {o}, ![s].useCount = left]
             /\ job' = [job EXCEPT ![t].start = job[t].start \ {o}]
             /\ UNCHANGED <<centralLists, pc>>
  BY <1>a, <1>4, <1>5, <1>c DEF IInv, SpansTyped
<1>6. /\ HomesApart(size) /\ Owned(size)
      /\ o \in Returning(t, size) /\ o \in Outside(size)
  BY <1>1, <1>2 DEF Buckets, BucketSound, Returning, Outside
<1>7. /\ IsFiniteSet(pieces) /\ free \in SUBSET pieces /\ o \in pieces \ free
      /\ span[s].useCount = Cardinality(pieces \ free)
  BY <1>2, <1>4, <1>5, <1>6, PiecesType DEF Counted
<1>8. /\ left \in Nat /\ left = Cardinality(pieces \ (free \cup {o}))
      /\ left = 0 => pieces \ free = {o}
  <2>1. PICK count : count = Cardinality(pieces \ free)
    OBVIOUS
  <2>2. IsFiniteSet(pieces) /\ free \in SUBSET pieces /\ o \in pieces \ free
    BY <1>7
  <2>3. /\ Decrement(count) \in Nat
        /\ Decrement(count) = Cardinality(pieces \ (free \cup {o}))
        /\ Decrement(count) = 0 => pieces \ free = {o}
    BY <2>1, <2>2, OneBack
  <2>. QED  BY <1>5, <1>7, <2>1, <2>3
<1>9. /\ \A u \in Thread : u # t => job'[u] = job[u] /\ pc'[u] = pc[u]
      /\ job'[t].size = size /\ job'[t].start = job[t].start \ {o}
  <2>1. job[t] \in JobRecord /\ job \in [Thread -> JobRecord] /\ pc \in [Thread -> Where]
    BY DEF IInv, ThreadsTyped
  <2>2. CASE left = 0
    BY <1>1, <1>b, <2>1, <2>2 DEF JobRecord
  <2>3. CASE left # 0
    BY <1>1, <1>c, <2>1, <2>3 DEF JobRecord
  <2>. QED  BY <2>2, <2>3
<1>10. /\ \A u \in Thread : \A c \in Sizes :
             u # t \/ c # size => Returning(u, c)' = Returning(u, c)
       /\ Returning(t, size)' = Returning(t, size) \ {o}
  BY <1>1, <1>9 DEF Returning
<1>11. \A c \in Sizes : Held(c)' = Held(c)
  BY <1>3 DEF Held
<1>12. HomesApart(size)'
  <2>1. \A u \in Thread : Returning(u, size)' \subseteq Returning(u, size)
    BY <1>1, <1>10
  <2>. SUFFICES ASSUME NEW u \in Thread
                PROVE  /\ cache'[u][size] \cap Held(size)' = {}
                       /\ Returning(u, size)' \cap Held(size)' = {}
                       /\ \A v \in Thread :
                            /\ cache'[u][size] \cap Returning(v, size)' = {}
                            /\ u # v => /\ cache'[u][size] \cap cache'[v][size] = {}
                                        /\ Returning(u, size)' \cap Returning(v, size)' = {}
    BY DEF HomesApart
  <2>. QED  BY <1>1, <1>3, <1>6, <1>11, <2>1 DEF HomesApart
<1>13. Outside(size)' = Outside(size) \ {o}
  <2>1. \A u \in Thread : o \notin cache[u][size] /\ o \notin Held(size)
    BY <1>6 DEF HomesApart
  <2>2. \A u \in Thread : u # t => o \notin Returning(u, size)
    BY <1>6 DEF HomesApart
  <2>3. \A u \in Thread :
          cache'[u][size] \cup Returning(u, size)' = (cache[u][size] \cup Returning(u, size)) \ {o}
    BY <1>1, <1>3, <1>10, <2>1, <2>2
  <2>. QED  BY <1>1, <1>11, <2>1, <2>3 DEF Outside
<1>14. /\ span'[s].pageId = span[s].pageId /\ span'[s].n = span[s].n
       /\ \A r \in SpanId : r # s => span'[r] = span[r]
       /\ allocated \subseteq SpanId
  <2>1. span \in [SpanId -> SpanRecord] /\ allocated \subseteq SpanId
    BY DEF IInv, SpansTyped
  <2>2. CASE left = 0
    BY <1>4, <1>b, <2>1, <2>2 DEF SpanRecord
  <2>3. CASE left # 0
    BY <1>4, <1>c, <2>1, <2>3 DEF SpanRecord
  <2>. QED  BY <2>2, <2>3
<1>15. \A r \in allocated : Pieces(r, size)' = Pieces(r, size)
  BY <1>14, PiecesStay
<1>16. /\ span'[s].freeList = IF left = 0 THEN {} ELSE free \cup {o}
       /\ span'[s].useCount = left
  <2>1. span \in [SpanId -> SpanRecord]
    BY DEF IInv, SpansTyped
  <2>2. CASE left = 0
    BY <1>4, <1>b, <2>1, <2>2 DEF SpanRecord
  <2>3. CASE left # 0
    BY <1>4, <1>c, <2>1, <2>3 DEF SpanRecord
  <2>. QED  BY <2>2, <2>3
<1>17. /\ \A c \in Sizes : c # size => centralLists'[c] = centralLists[c]
       /\ centralLists'[size] = IF left = 0 THEN centralLists[size] \ {s} ELSE centralLists[size]
  <2>1. CASE left = 0
    <3>1. \A c \in Sizes : centralLists'[c] = centralLists[c] \ {s}
      BY <1>b, <2>1
    <3>2. \A c \in Sizes : c # size => centralLists[c] \ {s} = centralLists[c]
      BY <1>4
    <3>. QED  BY <1>1, <2>1, <3>1, <3>2
  <2>2. CASE left # 0
    BY <1>c, <2>2
  <2>. QED  BY <2>1, <2>2
<1>18. ASSUME NEW r \in centralLists'[size] PROVE Counted(r, size)' /\ span'[r].useCount > 0
  <2>1. CASE r = s
    <3>1. left # 0
      BY <1>17, <2>1
    <3>2. left > 0
      BY <1>8, <3>1
    <3>3. ASSUME NEW x \in pieces PROVE x \in free \cup {o} <=> x \notin Outside(size) \ {o}
      <4>1. x \in free <=> x \notin Outside(size)
        BY <1>4, <1>5 DEF Counted
      <4>. QED  BY <4>1
    <3>4. /\ Pieces(s, size)' = pieces /\ span'[s].freeList = free \cup {o}
          /\ Outside(size)' = Outside(size) \ {o}
      BY <1>4, <1>5, <1>13, <1>15, <1>16, <3>1
    <3>5. Counted(s, size)'
      BY <1>7, <1>8, <1>16, <3>3, <3>4 DEF Counted
    <3>. QED  BY <1>16, <2>1, <3>2, <3>5
  <2>2. CASE r # s
    <3>1. r \in centralLists[size]
      BY <1>17
    <3>2. r \in allocated /\ Counted(r, size) /\ span[r].useCount > 0
      BY <3>1 DEF PagesSound, InUse, Buckets, BucketSound
    <3>3. o \notin Pieces(r, size)
      BY <1>2, <1>4, <2>2, <3>2, PiecesApart
    <3>4. /\ span'[r] = span[r] /\ Pieces(r, size)' = Pieces(r, size)
          /\ Outside(size)' = Outside(size) \ {o}
      BY <1>13, <1>14, <1>15, <2>2, <3>2
    <3>. QED  BY <3>2, <3>3, <3>4 DEF Counted
  <2>. QED  BY <2>1, <2>2
<1>19. Owned(size)'
  <2>. SUFFICES ASSUME NEW x \in Outside(size)'
                PROVE  \E r \in centralLists'[size] : x \in Pieces(r, size)'
    BY DEF Owned
  <2>1. x \in Outside(size) /\ x # o
    BY <1>13
  <2>2. PICK r \in centralLists[size] : x \in Pieces(r, size)
    BY <1>6, <2>1 DEF Owned
  <2>3. r \in allocated
    BY DEF PagesSound, InUse
  <2>4. r \in centralLists'[size]
    <3>1. ASSUME r = s, left = 0 PROVE FALSE
      <4>1. x \in pieces /\ x \notin free
        BY <1>4, <1>5, <2>1, <2>2, <3>1 DEF Counted
      <4>. QED  BY <1>8, <2>1, <3>1, <4>1
    <3>. QED  BY <1>17, <3>1
  <2>. QED  BY <1>15, <2>2, <2>3, <2>4
<1>20. Buckets'
  <2>1. BucketSound(size)'
    BY <1>12, <1>18, <1>19 DEF BucketSound
  <2>2. ASSUME NEW c \in Sizes, c # size PROVE BucketSound(c)'
    <3>1. \A r \in centralLists[c] : span'[r] = span[r]
      BY <1>4, <1>14, <2>2 DEF PagesSound, InUse
    <3>2. \A u \in Thread : cache'[u][c] = cache[u][c] /\ Returning(u, c)' = Returning(u, c)
      BY <1>3, <1>10, <2>2
    <3>. QED  BY <1>11, <1>17, <2>2, <3>1, <3>2, BucketStays DEF Buckets
  <2>. QED  BY <2>1, <2>2 DEF Buckets
<1>21. SparesEmpty'
  <2>1. \A r \in allocated : r \notin Hung => span'[r] = span[r]
    BY <1>4, <1>14
  <2>2. CASE left # 0
    <3>1. UNCHANGED pc /\ pc[t] \notin WithSpan
      BY <1>3, <1>c, <2>2 DEF WithSpan
    <3>. QED  BY <1>3, <1>9, <2>1, <3>1, SparesStay
  <2>3. CASE left = 0
    <3>1. pc'[t] = "lockPagesGive" /\ job'[t].span = s
      BY <1>b, <2>3 DEF IInv, ThreadsTyped, JobRecord
    <3>2. Empty(s)'
      BY <1>16, <2>3 DEF Empty
    <3>3. \A u \in Thread : u # t /\ pc[u] \in WithSpan => span'[job[u].span] = span[job[u].span]
      BY <2>1, OtherHands
    <3>4. \A k \in 1 .. (NPAGES - 1) : \A r \in pageLists'[k] : Empty(r)'
      <4>1. \A k \in 1 .. (NPAGES - 1) : \A r \in pageLists[k] : span'[r] = span[r]
        BY <2>1 DEF PagesSound, SpanInOnePlace
      <4>. QED  BY <1>3, <4>1 DEF SparesEmpty, Empty
    <3>5. pc'[t] \in WithSpan /\ Empty(job[t].span)'
      BY <3>1, <3>2 DEF WithSpan, Empty
    <3>. QED  BY <1>9, <3>1, <3>3, <3>4, <3>5, HandsMove
  <2>. QED  BY <2>2, <2>3
<1>. QED  BY <1>20, <1>21

(* Every step keeps the objects, while the lookup finds the owner.         *)
LEMMA ObjectsStep ==
  ASSUME IInv, PagesSound, ObjectsSound, LookupFindsOwner, [Next]_vars
  PROVE  ObjectsSound'
<1>. USE DEF ObjectsSound
<1>1. JobsSound' /\ RestTyped'
  BY JobsStep, RestStep
<1>2. CASE UNCHANGED vars \/ Ended
  <2>1. UNCHANGED <<span, pageLists, centralLists, threadVars, pc, job>>
    BY <1>2 DEF Ended, vars, threadVars
  <2>. QED  BY <1>1, <2>1, EndObjects, BucketsStay
<1>3. ASSUME NEW t \in Thread, Call(t) PROVE Buckets' /\ SparesEmpty'
  <2>1. ASSUME NEW size \in Sizes, AllocateWild(t, size) PROVE Buckets' /\ SparesEmpty'
    BY <2>1, EndObjects, BucketsStay DEF AllocateWild, pageVars
  <2>. QED  BY <1>3, <2>1, AllocateCachedObjects, DeAllocateObjects, QuietObjects, BucketsStay
            DEF Call
<1>4. ASSUME NEW t \in Thread, InPool(t) PROVE Buckets' /\ SparesEmpty'
  <2>1. CASE FetchBeyond(t) \/ ReleaseLost(t) \/ ReleaseRaces(t) \/ NewSpanExit(t)
    BY <2>1, EndObjects, BucketsStay DEF FetchBeyond, ReleaseLost, ReleaseRaces, NewSpanExit,
       pageVars
  <2>2. CASE \/ FetchMiss(t) \/ LockBucket(t) \/ ReleaseDone(t) \/ LockPages(t) \/ Carve(t)
             \/ NewSpanExact(t) \/ NewSpanSplit(t) \/ NewSpanGrow(t)
             \/ MergePrev(t) \/ MergeNext(t)
    BY <2>2, QuietObjects, CarveObjects, NewSpanExactObjects, NewSpanSplitObjects,
       NewSpanGrowObjects, MergeStepObjects, BucketsStay
  <2>. QED  BY <1>4, <2>1, <2>2, FetchHitObjects, HangObjects, ReleaseObjects DEF InPool
<1>. QED  BY <1>1, <1>2, <1>3, <1>4 DEF Next

-------------------------------------------------------------------------------
(* What the two invariants say.                                            *)

LEMMA TypesFollow ==
  ASSUME IInv, Sound
  PROVE  TypeOK
<1>. USE DEF Sound, ObjectsSound
<1>1. \A size \in Sizes : Outside(size) \subseteq Nat
  <2>. SUFFICES ASSUME NEW size \in Sizes, NEW o \in Outside(size) PROVE o \in Nat
    OBVIOUS
  <2>1. PICK s \in centralLists[size] : o \in Pieces(s, size)
    BY DEF Buckets, BucketSound, Owned
  <2>2. s \in allocated
    BY DEF PagesSound, InUse
  <2>. QED  BY <2>1, <2>2, PieceInSpan
<1>2. cache \in [Thread -> [Sizes -> SUBSET Nat]]
  <2>1. \A t \in Thread : \A size \in Sizes : cache[t][size] \subseteq Nat
    BY <1>1 DEF Outside
  <2>. QED  BY <2>1 DEF IInv, ThreadsTyped
<1>3. live \subseteq Nat \X Sizes
  <2>. SUFFICES ASSUME NEW block \in live PROVE block \in Nat \X Sizes
    OBVIOUS
  <2>1. block[2] \in Sizes /\ block = <<block[1], block[2]>>
    BY DEF IInv, ThreadsTyped
  <2>2. block[1] \in Held(block[2])
    BY <2>1, HeldIs
  <2>3. block[1] \in Nat
    BY <1>1, <2>1, <2>2 DEF Outside
  <2>. QED  BY <2>1, <2>3
<1>4. job \in [Thread -> [size : Sizes \cup {0}, batch : 0 .. MAX_MOVE,
                          span : SpanId \cup {NoSpan}, start : SUBSET Nat]]
  <2>1. \A t \in Thread : job[t].start \subseteq Nat
    <3>. SUFFICES ASSUME NEW t \in Thread PROVE job[t].start \subseteq Nat
      OBVIOUS
    <3>1. CASE pc[t] = "idle"
      BY <3>1 DEF JobsSound, NoJob, NewJob
    <3>2. CASE pc[t] # "idle"
      <4>1. job[t].size \in Sizes
        BY <3>2 DEF JobsSound
      <4>2. job[t].start = Returning(t, job[t].size)
        BY DEF Returning
      <4>. QED  BY <1>1, <4>1, <4>2 DEF Outside
    <3>. QED  BY <3>1, <3>2
  <2>2. job \in [Thread -> JobRecord]
    BY DEF IInv, ThreadsTyped
  <2>. QED  BY <2>1, <2>2 DEF JobRecord
<1>5. ASSUME NEW s \in SpanId
      PROVE  /\ span[s].pageId \in Nat /\ span[s].n \in Nat
             /\ span[s].useCount \in Nat /\ span[s].freeList \subseteq Nat
  <2>1. CASE s \notin allocated
    BY <2>1 DEF PagesSound, Unused, NewSpanRecord, SpanOf
  <2>2. CASE s \in allocated
    <3>1. span[s].pageId \in Nat /\ span[s].n \in Nat
      BY <2>2, SizeClassAssumption DEF PagesSound, Measured
    <3>2. CASE Empty(s)
      BY <3>1, <3>2 DEF Empty
    <3>3. CASE \E size \in Sizes : s \in centralLists[size]
      <4>1. PICK size \in Sizes : s \in centralLists[size]
        BY <3>3
      <4>2. Counted(s, size)
        BY <4>1 DEF Buckets, BucketSound
      <4>3. Pieces(s, size) \subseteq Nat /\ IsFiniteSet(Pieces(s, size))
        BY <2>2, PiecesType
      <4>4. IsFiniteSet(Pieces(s, size) \ span[s].freeList)
        BY <4>3, FS_Difference
      <4>. QED  BY <3>1, <4>2, <4>3, <4>4, FS_CardinalityType DEF Counted
    <3>4. CASE \E t \in Thread : job[t].span = s /\ pc[t] = "hang"
      <4>1. PICK t \in Thread : job[t].span = s /\ pc[t] = "hang"
        BY <3>4
      <4>2. /\ span[s].useCount = 0 /\ span[s].freeList = Pieces(s, job[t].size)
            /\ job[t].size \in Sizes
        BY <4>1 DEF SparesEmpty, WithSpan, JobsSound
      <4>3. Pieces(s, job[t].size) \subseteq Nat
        BY <2>2, <4>2, PiecesType
      <4>. QED  BY <3>1, <4>2, <4>3
    <3>5. \/ Empty(s) \/ \E size \in Sizes : s \in centralLists[size]
          \/ \E t \in Thread : job[t].span = s /\ pc[t] = "hang"
      <4>1. CASE ~ span[s].isUse
        BY <2>2, <4>1 DEF PagesSound, SpanInOnePlace, SparesEmpty
      <4>2. CASE s \in Hung
        BY <4>2 DEF Hung
      <4>3. CASE s \in InHand
        <5>1. PICK t \in Thread : job[t].span = s /\ s # NoSpan
          BY <4>3 DEF InHand
        <5>2. pc[t] \in WithSpan
          BY <5>1 DEF PagesSound, HandsSound
        <5>. QED  BY <5>1, <5>2 DEF SparesEmpty
      <4>4. span[s].isUse => s \in Hung \/ s \in InHand
        BY <2>2 DEF PagesSound, SpanInOnePlace
      <4>. QED  BY <4>1, <4>2, <4>3, <4>4
    <3>. QED  BY <3>2, <3>3, <3>4, <3>5
  <2>. QED  BY <2>1, <2>2
<1>6. span \in [SpanId -> [pageId : Nat, n : Nat, isUse : BOOLEAN,
                           useCount : Nat, freeList : SUBSET Nat]]
  BY <1>5 DEF IInv, SpansTyped, SpanRecord
<1>7. process \in {"running"} \cup Endings /\ regions \subseteq Base
  BY DEF RestTyped, PagesSound
<1>. QED  BY <1>2, <1>3, <1>4, <1>6, <1>7 DEF TypeOK, IInv, SpansTyped, ThreadsTyped, RestTyped

LEMMA ObjectsFollow ==
  ASSUME Sound
  PROVE  ObjectsAccounted
<1>1. OneHome
  BY DEF Sound, ObjectsSound, Buckets, BucketSound, HomesApart, Counted, OneHome
<1>2. UseCountExact
  BY DEF Sound, ObjectsSound, Buckets, BucketSound, Counted, UseCountExact
<1>. QED  BY <1>1, <1>2 DEF ObjectsAccounted

LEMMA PagesFollow ==
  ASSUME PagesSound
  PROVE  PagesPartitioned /\ SpanInOnePlace
<1>1. \A s \in allocated : \A p : p \in PagesOf(s) <=> p \in Int /\ First(s) <= p /\ p <= Last(s)
  BY SpanPages DEF PagesOf, First, Last
<1>2. ASSUME NEW s \in allocated, NEW r \in allocated, s # r
      PROVE  PagesOf(s) \cap PagesOf(r) = {}
  <2>1. Last(s) < First(r) \/ Last(r) < First(s)
    BY <1>2 DEF PagesSound, Apart
  <2>2. First(s) \in Nat /\ Last(s) \in Nat /\ First(r) \in Nat /\ Last(r) \in Nat
    BY SpanPages
  <2>. QED  BY <1>1, <2>1, <2>2
<1>3. ASSUME NEW p, NEW s \in allocated, p \in PagesOf(s)
      PROVE  \E b \in regions : p \in b .. (b + NPAGES - 2)
  <2>1. p \in Int /\ Mapped(p)
    BY <1>1, <1>3, SpanPages
  <2>2. PICK b \in regions : b <= p /\ p <= b + NPAGES - 2
    BY <2>1 DEF Mapped
  <2>. QED  BY <2>1, <2>2
<1>4. ASSUME NEW p, NEW b \in regions, p \in b .. (b + NPAGES - 2)
      PROVE  \E s \in allocated : p \in PagesOf(s)
  <2>1. b \in Base /\ b \in Nat \ {0} /\ NPAGES \in Nat
    BY MemPoolAssumption, SizeClassAssumption DEF PagesSound
  <2>2. p \in Nat \ {0} /\ b <= p /\ p <= b + NPAGES - 2
    BY <1>4, <2>1
  <2>3. p \in Page /\ Mapped(p)
    BY <2>1, <2>2, PageIs DEF Mapped
  <2>4. PICK s \in allocated : First(s) <= p /\ p <= Last(s)
    BY <2>3, SpanOfPage
  <2>. QED  BY <1>1, <2>2, <2>4
<1>5. UNION {PagesOf(s) : s \in allocated} = UNION {b .. (b + NPAGES - 2) : b \in regions}
  BY <1>3, <1>4
<1>. QED  BY <1>2, <1>5 DEF PagesPartitioned, PagesSound

(* Spans shorter than a region are mapped with both their ends.            *)
Shorter == \A size \in Sizes : NumMovePage(size) < NPAGES - 1

LEMMA OwnersFollow ==
  ASSUME IInv, Sound, Shorter
  PROVE  MapFindsOwner
<1>. SUFFICES ASSUME NEW size \in Sizes, NEW o \in Outside(size)
              PROVE  \E s \in centralLists[size] :
                       /\ o \in Pieces(s, size)
                       /\ PageOf(o) \in Ends(s) => Find(PageOf(o)) = s
  BY DEF MapFindsOwner
<1>1. PICK s \in centralLists[size] : o \in Pieces(s, size)
  BY DEF Sound, ObjectsSound, Buckets, BucketSound, Owned
<1>2. s \in allocated /\ span[s].n = NumMovePage(size) /\ s \in Hung
  BY DEF Sound, PagesSound, InUse, Hung
<1>3. \A t \in Thread : job[t].span # s
  <2>1. s # NoSpan
    BY <1>2, MemPoolAssumption DEF IInv, SpansTyped
  <2>2. s \notin InHand
    BY <1>2 DEF Sound, PagesSound, SpanInOnePlace
  <2>. QED  BY <2>1, <2>2 DEF InHand
<1>4. EndsKnown(s)
  BY <1>2, <1>3 DEF Sound, PagesSound, EndsMapped
<1>5. span[s].n # NPAGES - 1
  BY <1>2, NumMovePageType, SizeClassAssumption DEF Shorter
<1>6. idSpanMap[First(s)] = s /\ idSpanMap[Last(s)] = s
  BY <1>4, <1>5 DEF EndsKnown
<1>7. First(s) \in Page /\ Last(s) \in Page
  BY <1>2, SpanPages DEF Sound
<1>8. PageOf(o) \in Ends(s) => Find(PageOf(o)) = s
  BY <1>6, <1>7 DEF Ends, First, Last, Find
<1>. QED  BY <1>1, <1>8

(* Spans of one or two pages have no inner pages, so no lookup can go      *)
(* wrong.                                                                  *)
NoInnerPages == \A size \in Sizes : NumMovePage(size) <= 2

LEMMA LookupFollows ==
  ASSUME IInv, Sound, Shorter, NoInnerPages
  PROVE  LookupFindsOwner
<1>. SUFFICES ASSUME NEW t \in Thread, At(t, "release"), NEW o \in job[t].start
              PROVE  \E s \in centralLists[job[t].size] :
                       o \in Pieces(s, job[t].size) /\ Find(PageOf(o)) = s
  BY DEF LookupFindsOwner
<1>1. PICK size \in Sizes : size = job[t].size
  BY DEF At, Sound, ObjectsSound, JobsSound
<1>2. o \in Outside(size)
  BY <1>1 DEF Returning, Outside
<1>3. PICK s \in centralLists[size] :
        /\ o \in Pieces(s, size)
        /\ PageOf(o) \in Ends(s) => Find(PageOf(o)) = s
  BY <1>2, OwnersFollow DEF MapFindsOwner
<1>4. s \in allocated /\ span[s].n = NumMovePage(size)
  BY DEF Sound, PagesSound, InUse
<1>5. PageOf(o) \in First(s) .. Last(s)
  BY <1>3, <1>4, PieceInSpan DEF Sound
<1>6. /\ First(s) \in Nat /\ span[s].n \in 1 .. 2 /\ Last(s) = First(s) + span[s].n - 1
  <2>1. span[s].n <= 2
    BY <1>4 DEF NoInnerPages
  <2>2. /\ First(s) \in Nat /\ Last(s) = First(s) + span[s].n - 1
        /\ span[s].n \in 1 .. (NPAGES - 1)
    BY <1>4, SpanPages DEF Sound
  <2>. QED  BY <2>1, <2>2, SizeClassAssumption
<1>7. PageOf(o) = First(s) \/ PageOf(o) = Last(s)
  BY <1>5, <1>6
<1>8. PageOf(o) \in Ends(s)
  BY <1>7 DEF Ends, First, Last
<1>. QED  BY <1>1, <1>3, <1>8

-------------------------------------------------------------------------------
(* The theorems about the whole pool, up to the end of the process.        *)

(* Both invariants hold as long as the lookup finds the owner: one bad     *)
(* lookup, and a span may count the objects of another.                    *)
LEMMA PoolIsSound == Spec /\ []LookupFindsOwner => [](IInv /\ Sound)
<1>1. Init => IInv /\ Sound
  BY InitInvariant, SoundInitially
<1>2. IInv /\ Sound /\ LookupFindsOwner /\ [Next]_vars => (IInv /\ Sound)'
  BY InvariantStep, PagesStep, ObjectsStep DEF Sound, ObjectsSound
<1>. QED  BY <1>1, <1>2, PTL DEF Spec

(* The pool's state has its type: what a lookup, a list or a thread has in *)
(* hand is a span, and objects are addresses (natural numbers), also those *)
(* of spans that were split and joined.  A counter that wraps has its type *)
(* too; that none does is in ObjectsAreAccounted.                          *)
THEOREM TypeCorrect == Spec /\ []LookupFindsOwner => []TypeOK
<1>1. IInv /\ Sound => TypeOK
  BY TypesFollow
<1>. QED  BY <1>1, PoolIsSound, PTL

(* Every object is in one place and _useCount of a span is the number of   *)
(* its objects that are away, for any number of threads and any sizes: no  *)
(* object is lost or given out twice, although a batch moves between the   *)
(* central cache and a thread under one lock at a time, and a span goes    *)
(* back to the page cache when and only when its last object is back.      *)
(* Until a fetch reads past the last piece of a span carved from used      *)
(* memory, which ends the model's process.                                 *)
THEOREM ObjectsAreAccounted == Spec /\ []LookupFindsOwner => []ObjectsAccounted
<1>1. Sound => ObjectsAccounted
  BY ObjectsFollow
<1>. QED  BY <1>1, PoolIsSound, PTL

(* The spans partition the pages of the regions and each is in one list,   *)
(* one bucket or one thread's hands, through every split, join and growth, *)
(* until a fetch reads past an unterminated list.                          *)
THEOREM PagesAreKept == Spec /\ []LookupFindsOwner => [](PagesPartitioned /\ SpanInOnePlace)
<1>1. Sound => PagesPartitioned /\ SpanInOnePlace
  BY PagesFollow DEF Sound
<1>. QED  BY <1>1, PoolIsSound, PTL

(* With regions that do not touch, moreover, no two free spans are         *)
(* neighbours: each release joins all it can (with the same end).          *)
THEOREM PagesAreAccounted ==
  ASSUME Gaps
  PROVE  Spec /\ []LookupFindsOwner => []PagesAccounted
<1>1. Sound => PagesAccounted
  BY PagesFollow DEF Sound, PagesSound, Joined, PagesAccounted
<1>. QED  BY <1>1, PoolIsSound, PTL

(* When no size asks for a whole region, an object in the first or last    *)
(* page of its span always finds the span, until a fetch reads past an     *)
(* unterminated list.                                                      *)
THEOREM OwnersAreFound ==
  ASSUME Shorter
  PROVE  Spec /\ []LookupFindsOwner => []MapFindsOwner
<1>1. IInv /\ Sound => MapFindsOwner
  BY OwnersFollow
<1>. QED  BY <1>1, PoolIsSound, PTL

(* Neither assert of a release can fail because of the map.                *)
NeverLost == process \notin {"page not mapped", "deleted span"}

LEMMA StaysFound ==
  ASSUME IInv, Sound, LookupFindsOwner, NeverLost, [Next]_vars
  PROVE  NeverLost'
<1>1. CASE UNCHANGED vars \/ Ended
  BY <1>1 DEF Ended, vars, NeverLost
<1>2. ASSUME NEW t \in Thread, Call(t) PROVE NeverLost'
  BY <1>2 DEF Call, AllocateCached, AllocateFetch, AllocateWild, DeAllocate, NeverLost
<1>3. ASSUME NEW t \in Thread, ReleaseLost(t) PROVE FALSE
  <2>1. At(t, "release")
    BY <1>3 DEF ReleaseLost
  <2>2. PICK o \in job[t].start :
          \/ Find(PageOf(o)) = NoSpan
          \/ Find(PageOf(o)) \notin allocated
    BY <1>3 DEF ReleaseLost
  <2>3. PICK s \in centralLists[job[t].size] : Find(PageOf(o)) = s
    BY <2>1 DEF LookupFindsOwner
  <2>4. s \in allocated
    <3>1. job[t].size \in Sizes
      BY <2>1 DEF At, Sound, ObjectsSound, JobsSound
    <3>. QED  BY <3>1 DEF Sound, PagesSound, InUse
  <2>5. Find(PageOf(o)) # NoSpan
    BY <2>3, <2>4, MemPoolAssumption DEF IInv, SpansTyped
  <2>. QED  BY <2>2, <2>3, <2>4, <2>5
<1>4. ASSUME NEW t \in Thread, InPool(t) PROVE NeverLost'
  <2>1. CASE FetchBeyond(t) \/ ReleaseRaces(t) \/ NewSpanExit(t)
    BY <2>1 DEF FetchBeyond, ReleaseRaces, NewSpanExit, NeverLost
  <2>2. CASE ~ (FetchBeyond(t) \/ ReleaseLost(t) \/ ReleaseRaces(t) \/ NewSpanExit(t))
    <3>1. UNCHANGED process
      BY <1>4, <2>2 DEF InPool, FetchHit, FetchMiss, Carve, Hang, LockBucket, ReleaseObject,
         ReleaseDone, LockPages, NewSpanExact, NewSpanSplit, NewSpanGrow, MergePrev, MergeNext
    <3>. QED  BY <3>1 DEF NeverLost
  <2>. QED  BY <1>3, <2>1, <2>2
<1>. QED  BY <1>1, <1>2, <1>4 DEF Next

(* For spans of one or two pages nothing need be assumed of the lookup: it *)
(* finds the owner whatever the order in which the threads run, because    *)
(* such a span has no inner page; so the theorems above hold of Spec alone *)
(* and no release ends in an assert or in a deleted span.  What remains is *)
(* the other end: a small span that is carved again may lack the end of    *)
(* its list, and nothing is said once a fetch has read past it.            *)
THEOREM SmallSpansAreSafe ==
  ASSUME Shorter, NoInnerPages
  PROVE  Spec => [](/\ TypeOK /\ ObjectsAccounted /\ MapFindsOwner
                    /\ PagesPartitioned /\ SpanInOnePlace
                    /\ LookupFindsOwner /\ NeverLost)
<1>1. Init => IInv /\ Sound /\ NeverLost
  BY InitInvariant, SoundInitially DEF Init, NeverLost
<1>2. IInv /\ Sound /\ NeverLost /\ [Next]_vars => (IInv /\ Sound /\ NeverLost)'
  BY LookupFollows, InvariantStep, PagesStep, ObjectsStep, StaysFound DEF Sound, ObjectsSound
<1>3. IInv /\ Sound => /\ TypeOK /\ ObjectsAccounted /\ MapFindsOwner
                      /\ PagesPartitioned /\ SpanInOnePlace /\ LookupFindsOwner
  BY TypesFollow, ObjectsFollow, PagesFollow, OwnersFollow, LookupFollows DEF Sound
<1>. QED  BY <1>1, <1>2, <1>3, PTL DEF Spec

-------------------------------------------------------------------------------
(* The pool implements Heap, for sizes that divide their spans: otherwise  *)
(* the last piece of a span lies partly behind it (CentralCache.cpp:38).   *)
Fits == \A size \in Sizes :
  CarveCount(NumMovePage(size), size) * size <= NumMovePage(size) * PAGE_BYTES

LEMMA PieceFits ==
  ASSUME PagesSound, Fits, NEW s \in allocated, NEW size \in Sizes,
         span[s].n = NumMovePage(size), NEW o \in Pieces(s, size)
  PROVE  /\ o \in Nat /\ First(s) * PAGE_BYTES <= o
         /\ o + size <= (Last(s) + 1) * PAGE_BYTES
<1>1. o \in Nat /\ First(s) * PAGE_BYTES <= o
  BY PieceInSpan
<1>2. /\ First(s) \in Nat /\ Last(s) + 1 = First(s) + span[s].n /\ span[s].n \in Nat
      /\ span[s].pageId = First(s)
  BY SpanPages, SizeClassAssumption DEF First, Last
<1>3. size \in Nat \ {0} /\ PAGE_BYTES \in Nat \ {0}
  BY SizesArePositive, SizeClassAssumption
<1>4. PICK m \in Nat : m = span[s].n * PAGE_BYTES
  BY <1>2, <1>3
<1>5. PICK c \in Nat : c = CarveCount(span[s].n, size) /\ c * size <= m
  <2>1. (m + size - 1) \div size \in Nat
    BY <1>3, <1>4, DivBound
  <2>2. CarveCount(span[s].n, size) = (m + size - 1) \div size
    BY <1>4 DEF CarveCount
  <2>. QED  BY <1>4, <2>1, <2>2 DEF Fits
<1>6. PICK i \in 0 .. (c - 1) : o = First(s) * PAGE_BYTES + i * size
  BY <1>2, <1>5 DEF Pieces
<1>7. PICK f, d \in Nat : f = First(s) * PAGE_BYTES /\ d = i * size
  BY <1>2, <1>3, <1>6
<1>8. d + size <= m
  <2>1. (i + 1) * size <= c * size
    BY <1>3, <1>5, <1>6, MulMono
  <2>2. (i + 1) * size = i * size + 1 * size /\ 1 * size = size
    BY <1>3, <1>6, MulDist
  <2>3. c * size \in Nat
    BY <1>3, <1>5
  <2>. QED  BY <1>3, <1>4, <1>5, <1>7, <2>1, <2>2, <2>3
<1>9. (Last(s) + 1) * PAGE_BYTES = f + m
  <2>1. (First(s) + span[s].n) * PAGE_BYTES = First(s) * PAGE_BYTES + span[s].n * PAGE_BYTES
    BY <1>2, <1>3, MulDist
  <2>. QED  BY <1>2, <1>4, <1>7, <2>1
<1>10. o + size <= f + m
  BY <1>3, <1>4, <1>6, <1>7, <1>8
<1>. QED  BY <1>1, <1>9, <1>10

(* Two objects of one span do not overlap.                                 *)
LEMMA PiecesOfOneSpan ==
  ASSUME PagesSound, NEW s \in allocated, NEW size \in Sizes,
         NEW o \in Pieces(s, size), NEW p \in Pieces(s, size), o # p
  PROVE  o + size <= p \/ p + size <= o
<1>1. size \in Nat \ {0} /\ PAGE_BYTES \in Nat \ {0} /\ span[s].pageId \in Nat
  BY SizesArePositive, SizeClassAssumption, SpanPages DEF First
<1>2. span[s].n \in Nat
  BY SpanPages, SizeClassAssumption
<1>3. CarveCount(span[s].n, size) \in Nat
  <2>1. span[s].n * PAGE_BYTES + size - 1 \in Nat
    <3>1. PICK m \in Nat : m = span[s].n * PAGE_BYTES
      BY <1>1, <1>2
    <3>. QED  BY <1>1, <3>1
  <2>. QED  BY <1>1, <2>1, DivBound DEF CarveCount
<1>4. PICK f \in Nat : f = span[s].pageId * PAGE_BYTES
  BY <1>1
<1>5. PICK i \in Nat : o = f + i * size
  BY <1>3, <1>4 DEF Pieces
<1>6. PICK j \in Nat : p = f + j * size
  BY <1>3, <1>4 DEF Pieces
<1>7. ASSUME NEW a \in Nat, NEW b \in Nat, a < b PROVE a * size + size <= b * size
  <2>1. (a + 1) * size <= b * size
    BY <1>1, <1>7, MulMono
  <2>2. (a + 1) * size = a * size + 1 * size /\ 1 * size = size
    BY <1>1, MulDist
  <2>. QED  BY <2>1, <2>2
<1>8. PICK d, e \in Nat : d = i * size /\ e = j * size
  BY <1>1
<1>9. CASE i < j
  <2>1. d + size <= e
    BY <1>7, <1>8, <1>9
  <2>. QED  BY <1>1, <1>4, <1>5, <1>6, <1>8, <2>1
<1>10. CASE j < i
  <2>1. e + size <= d
    BY <1>7, <1>8, <1>10
  <2>. QED  BY <1>1, <1>4, <1>5, <1>6, <1>8, <2>1
<1>11. i # j
  BY <1>5, <1>6
<1>. QED  BY <1>9, <1>10, <1>11

(* An object of span s that is not with the program overlaps no block.     *)
LEMMA BlockIsFree ==
  ASSUME IInv, Sound, Fits, NEW s \in allocated, NEW size \in Sizes,
         span[s].n = NumMovePage(size), NEW o \in Pieces(s, size), o \notin Held(size),
         \A c \in Sizes : s \in centralLists[c] => c = size,
         live' = live \cup {<<o, size>>}, held' = held + 1
  PROVE  H!Next
<1>1. <<o, size>> \in live' \ live
  BY HeldIs
<1>2. o \in Nat /\ First(s) * PAGE_BYTES <= o /\ o + size <= (Last(s) + 1) * PAGE_BYTES
  BY PieceFits DEF Sound
<1>3. ASSUME NEW other \in live PROVE H!Cells(<<o, size>>) \cap H!Cells(other) = {}
  <2>1. PICK p, c : other = <<p, c>> /\ c \in Sizes
    BY DEF IInv, ThreadsTyped
  <2>2. p \in Outside(c)
    BY <2>1, HeldIs DEF Outside
  <2>3. PICK r \in centralLists[c] : p \in Pieces(r, c)
    BY <2>1, <2>2 DEF Sound, ObjectsSound, Buckets, BucketSound, Owned
  <2>4. r \in allocated /\ span[r].n = NumMovePage(c)
    BY <2>1 DEF Sound, PagesSound, InUse
  <2>5. p \in Nat /\ First(r) * PAGE_BYTES <= p /\ p + c <= (Last(r) + 1) * PAGE_BYTES
    BY <2>1, <2>3, <2>4, PieceFits DEF Sound
  <2>6. size \in Nat \ {0} /\ c \in Nat \ {0} /\ PAGE_BYTES \in Nat
    BY <2>1, SizesArePositive, SizeClassAssumption
  <2>7. o + size <= p \/ p + c <= o
    <3>1. CASE r = s
      <4>1. c = size
        BY <2>1, <3>1
      <4>2. o # p
        BY <2>1, <4>1, HeldIs
      <4>. QED  BY <2>3, <3>1, <4>1, <4>2, PiecesOfOneSpan DEF Sound
    <3>2. CASE r # s
      <4>1. /\ First(s) \in Nat /\ Last(s) \in Nat /\ First(r) \in Nat /\ Last(r) \in Nat
            /\ Last(s) < First(r) \/ Last(r) < First(s)
        BY <2>4, <3>2, SpanPages DEF Sound, PagesSound, Apart
      <4>2. PICK b1, e1, b2, e2 \in Nat :
              /\ b1 = First(s) * PAGE_BYTES /\ e1 = (Last(s) + 1) * PAGE_BYTES
              /\ b2 = First(r) * PAGE_BYTES /\ e2 = (Last(r) + 1) * PAGE_BYTES
        BY <2>6, <4>1
      <4>3. e1 <= b2 \/ e2 <= b1
        <5>1. Last(s) + 1 <= First(r) => e1 <= b2
          BY <2>6, <4>1, <4>2, MulMono
        <5>2. Last(r) + 1 <= First(s) => e2 <= b1
          BY <2>6, <4>1, <4>2, MulMono
        <5>. QED  BY <4>1, <5>1, <5>2
      <4>4. b1 <= o /\ o + size <= e1 /\ b2 <= p /\ p + c <= e2
        BY <1>2, <2>5, <4>2
      <4>. QED  BY <1>2, <2>5, <2>6, <4>2, <4>3, <4>4
    <3>. QED  BY <3>1, <3>2
  <2>8. H!Cells(<<o, size>>) = o .. (o + size - 1) /\ H!Cells(other) = p .. (p + c - 1)
    BY <2>1 DEF H!Cells
  <2>. QED  BY <1>2, <2>5, <2>6, <2>7, <2>8
<1>4. H!Alloc(<<o, size>>)
  BY <1>3 DEF H!Alloc
<1>5. <<o, size>>[2] \in Sizes
  OBVIOUS
<1>. QED  BY <1>1, <1>4, <1>5 DEF H!Next

LEMMA HandOutAllocates ==
  ASSUME IInv, Sound, Fits, NEW t \in Thread, NEW size \in Sizes, size = job[t].size,
         NEW s \in allocated, HandOut(t, s), span[s].n = NumMovePage(size),
         span[s].freeList \subseteq Pieces(s, size),
         \A o \in span[s].freeList : o \notin Held(size),
         \A c \in Sizes : s \in centralLists[c] => c = size
  PROVE  H!Next
<1>1. PICK objects \in SUBSET span[s].freeList :
        \E o \in objects : live' = live \cup {<<o, size>>}
  BY DEF HandOut
<1>2. PICK o \in objects : live' = live \cup {<<o, size>>}
  BY <1>1
<1>3. o \in Pieces(s, size) /\ o \notin Held(size) /\ held' = held + 1
  BY DEF HandOut
<1>. QED  BY <1>2, <1>3, BlockIsFree

LEMMA HeapStep ==
  ASSUME IInv, Sound, Fits, [Next]_vars
  PROVE  H!Next \/ UNCHANGED <<live, held>>
<1>. USE DEF Sound, ObjectsSound
<1>1. CASE UNCHANGED vars \/ Ended
  BY <1>1 DEF Ended, vars
<1>2. ASSUME NEW t \in Thread, Call(t) PROVE H!Next \/ UNCHANGED <<live, held>>
  <2>1. ASSUME NEW size \in Sizes, AllocateCached(t, size) PROVE H!Next
    <3>1. PICK o \in cache[t][size] : live' = live \cup {<<o, size>>} /\ held' = held + 1
      BY <2>1 DEF AllocateCached
    <3>2. o \in Outside(size) /\ o \notin Held(size)
      BY DEF Outside, Buckets, BucketSound, HomesApart
    <3>3. PICK s \in centralLists[size] : o \in Pieces(s, size)
      BY <3>2 DEF Buckets, BucketSound, Owned
    <3>4. s \in allocated /\ span[s].n = NumMovePage(size)
      BY DEF PagesSound, InUse
    <3>5. \A c \in Sizes : s \in centralLists[c] => c = size
      BY DEF PagesSound, SpanInOnePlace
    <3>. QED  BY <3>1, <3>2, <3>3, <3>4, <3>5, BlockIsFree
  <2>2. ASSUME NEW size \in Sizes, AllocateFetch(t, size) \/ AllocateWild(t, size)
        PROVE  UNCHANGED <<live, held>>
    BY <2>2 DEF AllocateFetch, AllocateWild, threadVars
  <2>3. ASSUME NEW block \in live, DeAllocate(t, block) PROVE H!Next
    BY <2>3 DEF DeAllocate, H!Next, H!Free
  <2>. QED  BY <1>2, <2>1, <2>2, <2>3 DEF Call
<1>3. ASSUME NEW t \in Thread, InPool(t) PROVE H!Next \/ UNCHANGED <<live, held>>
  <2>1. CASE FetchHit(t)
    <3>1. PICK size \in Sizes : size = job[t].size
      BY <2>1 DEF FetchHit, At, JobsSound
    <3>2. PICK s \in centralLists[size] : HandOut(t, s)
      BY <2>1, <3>1 DEF FetchHit
    <3>3. s \in allocated /\ span[s].n = NumMovePage(size) /\ Counted(s, size)
      BY DEF PagesSound, InUse, Buckets, BucketSound
    <3>4. \A c \in Sizes : s \in centralLists[c] => c = size
      BY DEF PagesSound, SpanInOnePlace
    <3>5. /\ span[s].freeList \subseteq Pieces(s, size)
          /\ \A o \in span[s].freeList : o \notin Held(size)
      BY <3>3 DEF Counted, Outside
    <3>. QED  BY <3>1, <3>2, <3>3, <3>4, <3>5, HandOutAllocates
  <2>2. CASE Hang(t)
    <3>1. PICK size \in Sizes : size = job[t].size
      BY <2>2 DEF Hang, At, JobsSound
    <3>2. PICK s : s = job[t].span /\ HandOut(t, s) /\ pc[t] = "hang"
      BY <2>2 DEF Hang, At
    <3>3. /\ s \in allocated /\ s \notin Hung
          /\ span[s].n = NumMovePage(size) /\ span[s].freeList = Pieces(s, size)
      BY <3>1, <3>2, OtherHands DEF PagesSound, HandsSound, SparesEmpty, WithSpan
    <3>4. \A c \in Sizes : s \notin centralLists[c]
      BY <3>3 DEF Hung
    <3>5. ASSUME NEW o \in span[s].freeList, o \in Held(size) PROVE FALSE
      <4>1. o \in Pieces(s, size) /\ o \in Outside(size)
        BY <3>3, <3>5 DEF Outside
      <4>2. PICK r \in centralLists[size] : o \in Pieces(r, size)
        BY <4>1 DEF Buckets, BucketSound, Owned
      <4>3. r \in allocated /\ r # s
        BY <3>4 DEF PagesSound, InUse
      <4>. QED  BY <3>3, <4>1, <4>2, <4>3, PiecesApart
    <3>. QED  BY <3>1, <3>2, <3>3, <3>4, <3>5, HandOutAllocates
  <2>3. CASE ~ (FetchHit(t) \/ Hang(t))
    BY <1>3, <2>3 DEF InPool, FetchMiss, FetchBeyond, Carve, LockBucket, ReleaseObject,
       ReleaseLost, ReleaseRaces, ReleaseDone, LockPages, NewSpanExact, NewSpanSplit, NewSpanGrow,
       NewSpanExit, MergePrev, MergeNext, threadVars
  <2>. QED  BY <2>1, <2>2, <2>3
<1>. QED  BY <1>1, <1>2, <1>3 DEF Next

(* The pool implements Heap: the blocks the program holds never overlap,   *)
(* until a fetch reads past an unterminated list: the next object it gives *)
(* out may be one the program holds.                                       *)
THEOREM Implements ==
  ASSUME Fits
  PROVE  Spec /\ []LookupFindsOwner => ImplementsHeap
<1>1. Init => H!Init
  BY DEF Init, H!Init
<1>2. IInv /\ Sound /\ [Next]_vars => [H!Next]_<<live, held>>
  BY HeapStep
<1>. QED  BY <1>1, <1>2, PoolIsSound, PTL DEF Spec, ImplementsHeap, H!Spec
===============================================================================
