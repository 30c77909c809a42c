--------------------------------- MODULE Heap ---------------------------------
(***************************************************************************)
(* What the memory pools promise their callers: the blocks handed out and  *)
(* not yet given back never overlap.  An allocation hands out a block that *)
(* is disjoint from every live one, a release takes one back.  Nothing is  *)
(* said of threads, caches, spans, pages or chunks; MemPool and ObjectPool *)
(* implement this module.                                                  *)
(***************************************************************************)
EXTENDS Integers

CONSTANT Sizes   \* the sizes a block can have

VARIABLES
  live,   \* live blocks: <<first address, size>>
  held    \* how many blocks have been handed out and not given back

Cells(block) == block[1] .. (block[1] + block[2] - 1)

Init == live = {} /\ held = 0

Alloc(block) ==
  /\ \A other \in live : Cells(block) \cap Cells(other) = {}
  /\ live' = live \cup {block}
  /\ held' = held + 1

Free(block) ==
  /\ live' = live \ {block}
  /\ held' = held - 1

Next ==
  \/ \E block \in live' \ live : block[2] \in Sizes /\ Alloc(block)
  \/ \E block \in live : Free(block)

Spec == Init /\ [][Next]_<<live, held>>

===============================================================================
