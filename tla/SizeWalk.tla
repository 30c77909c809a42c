------------------------------- MODULE SizeWalk -------------------------------
(***************************************************************************)
(* Walks through every request size the pool serves, one byte at a time,   *)
(* to compare the arithmetic of SizeClass with what the rest of the pool   *)
(* relies on: a bucket holds objects of one size only, a bucket index is   *)
(* inside the bucket arrays, and a span of the computed size exists and    *)
(* holds an object.                                                        *)
(***************************************************************************)
EXTENDS SizeClass

CONSTANT NFREE_LIST   \* buckets of ThreadCache and CentralCache

(* The last band reaches to the largest request, each band has its buckets *)
(* (208 in all), and the page cache has a span of the pages that two       *)
(* objects of the largest size take.                                       *)
ASSUME SizeWalkAssumption ==
  /\ MAX_BYTES <= 256 * 1024
  /\ NFREE_LIST \in Nat /\ NFREE_LIST >= 208
  /\ 2 * 256 * 1024 < NPAGES * PAGE_BYTES

VARIABLE bytes        \* the size of the request looked at

WalkInit == bytes = 1

WalkNext == bytes < MAX_BYTES /\ bytes' = bytes + 1

WalkSpec == WalkInit /\ [][WalkNext]_bytes

-------------------------------------------------------------------------------

(* A request gets an object that is large enough and is not more than one  *)
(* alignment step larger, and the rounded size goes to the same bucket as  *)
(* the request: Allocate indexes by the raw size and carves by the rounded *)
(* one (ThreadCache.cpp:7-13).                                             *)
RoundedSizeServesRequest ==
  /\ RoundUp(bytes) >= bytes
  /\ RoundUp(bytes) - bytes < Bands[BandOf(bytes)].align
  /\ Index(RoundUp(bytes)) = Index(bytes)

(* Every bucket index is inside _freeLists[NFREE_LIST] and                 *)
(* _spanLists[NFREE_LIST] (ThreadCache.h:20, CentralCache.h:21).           *)
IndexInsideArrays == Index(bytes) \in 0 .. (NFREE_LIST - 1)

(* Consecutive rounded sizes have consecutive buckets, so that two sizes   *)
(* share a bucket exactly when they round to the same size: an object      *)
(* freed into a bucket is never too small for the next request of that     *)
(* bucket.                                                                 *)
BucketHoldsOneSize ==
  [][ Index(bytes') = IF RoundUp(bytes') = RoundUp(bytes)
                        THEN Index(bytes)
                        ELSE Index(bytes) + 1 ]_bytes

(* NewSpan can serve the number of pages asked for (the assert at          *)
(* PageCache.cpp:6), and a span of that size has room for at least one     *)
(* whole object (the assert at CentralCache.cpp:59 is not met by a partial *)
(* piece only).                                                            *)
SpanHoldsAnObject ==
  LET size == RoundUp(bytes)
      k    == NumMovePage(size)
  IN  k > 0 /\ k < NPAGES /\ k * PAGE_BYTES >= size

(* A request gets a large enough object, from a bucket that exists, cut    *)
(* off a span that exists.                                                 *)
RequestIsServed == RoundedSizeServesRequest /\ IndexInsideArrays /\ SpanHoldsAnObject

(* The block of a span is cut into pieces of the object size               *)
(* (CentralCache.cpp:28 and 32): the last piece ends inside the block.     *)
PiecesInsideSpan ==
  LET size == RoundUp(bytes)
      k    == NumMovePage(size)
  IN  CarveCount(k, size) * size <= k * PAGE_BYTES

===============================================================================
