------------------------------ MODULE SizeClass ------------------------------
(***************************************************************************)
(* The pure arithmetic of High_Concurrent_Memory_Pool/Comm.h: how a request *)
(* is rounded up, which bucket it goes to, how many objects move between   *)
(* the thread cache and the central cache at once, how many pages the      *)
(* central cache asks the page cache for, and how many objects a span is   *)
(* carved into.  MemPool instantiates it with a small address space,       *)
(* SizeWalk with the values of the code.                                   *)
(***************************************************************************)
EXTENDS Naturals

CONSTANTS
  MAX_BYTES,    \* the largest request the pool serves
  MAX_MOVE,     \* the upper bound of one batch, 512 in the code
  PAGE_BYTES,   \* 2^PAGE_SHIFT
  NPAGES        \* one more than the pages of the largest span

ASSUME SizeClassAssumption ==
  /\ MAX_BYTES \in Nat \ {0}
  /\ MAX_MOVE \in Nat /\ MAX_MOVE >= 2
  /\ PAGE_BYTES \in Nat \ {0}
  /\ NPAGES \in Nat /\ NPAGES > 1

MinOf(a, b) == IF a <= b THEN a ELSE b

(* The bands of RoundUp and Index: the last request of each band and its   *)
(* alignment.                                                              *)
Bands == << [last |-> 128,        align |-> 8],
            [last |-> 1024,       align |-> 16],
            [last |-> 8 * 1024,   align |-> 128],
            [last |-> 64 * 1024,  align |-> 1024],
            [last |-> 256 * 1024, align |-> 8 * 1024] >>

\* variant: one bucket too few for the third band
group_array_short == <<16, 56, 55, 56>>

(* Buckets of the bands before the last one. *)
group_array == <<16, 56, 56, 56>>

BandOf(bytes) ==
  CHOOSE i \in 1..5 : bytes <= Bands[i].last /\ (i > 1 => bytes > Bands[i - 1].last)

\* variant: a size that is already a multiple moves to the next one
_RoundUpPast(bytes, alignNum) == ((bytes + alignNum) \div alignNum) * alignNum

(* Adding alignNum - 1 and clearing the low bits: the next multiple of a   *)
(* power of two.                                                           *)
_RoundUp(bytes, alignNum) == ((bytes + alignNum - 1) \div alignNum) * alignNum

RoundUp(size) == _RoundUp(size, Bands[BandOf(size)].align)

(* The shifts of _Index divide by the alignment. *)
_Index(bytes, align) == ((bytes + align - 1) \div align) - 1

GroupBase[i \in 1..5] == IF i = 1 THEN 0 ELSE GroupBase[i - 1] + group_array[i - 1]

Index(bytes) ==
  LET i == BandOf(bytes)
  IN  _Index(IF i = 1 THEN bytes ELSE bytes - Bands[i - 1].last, Bands[i].align)
        + GroupBase[i]

\* variant: no upper limit
NumMoveSizeNoLimit(size) ==
  LET num == MAX_BYTES \div size IN IF num < 2 THEN 2 ELSE num

(* Objects that move in one batch: at least 2, at most MAX_MOVE. *)
NumMoveSize(size) ==
  LET num == MAX_BYTES \div size
  IN  IF num < 2 THEN 2 ELSE MinOf(num, MAX_MOVE)

NumMovePage(size) ==
  LET npages == (NumMoveSize(size) * size) \div PAGE_BYTES
  IN  IF npages = 0 THEN 1 ELSE npages

(* GetOneSpan links one object every size bytes while the start of the     *)
(* object is inside the span: a last, partial piece is linked too.         *)
CarveCount(npages, size) == (npages * PAGE_BYTES + size - 1) \div size

==============================================================================
