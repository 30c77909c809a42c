------------------------------ MODULE ObjectPool ------------------------------
(***************************************************************************)
(* The fixed-size pool of High_Concurrent_Memory_Pool/ObjectPool.h: New    *)
(* takes an object from the free list, or cuts one off the chunk in use;   *)
(* Delete links the object into the free list through its first bytes.     *)
(* The chunk that has become too short is left behind.  The order of the   *)
(* free list is abstracted: it is a set and "the first" is any element.    *)
(***************************************************************************)
EXTENDS Integers

CONSTANTS
  SIZE,      \* sizeof(T)
  WORD,      \* sizeof(void *)
  CHUNK,     \* the bytes asked of the system at once, 128 * 1024
  SIZE_MAX,  \* the largest size_t
  Base       \* the addresses mmap can return for a chunk

ASSUME ObjectPoolAssumption ==
  /\ SIZE \in Nat \ {0} /\ WORD \in Nat \ {0} /\ CHUNK \in Nat \ {0}
  /\ SIZE_MAX \in Nat /\ CHUNK <= SIZE_MAX
  /\ Base \subseteq Nat \ {0}
  /\ \A a, b \in Base : a < b => a + CHUNK <= b

VARIABLES
  exited,       \* mmap has failed
  chunks,       \* the chunks mmap has returned
  memory,       \* _memory: where the unused part of the chunk begins
  remainBytes,  \* _remainBytes
  freelist,     \* _freelist
  live,         \* the objects the program holds
  held          \* history: how many News without a Delete

vars == <<exited, chunks, memory, remainBytes, freelist, live, held>>

\* variant: objects smaller than a pointer lie closer
objSizePacked == SIZE

(* The bytes an object takes: room for the link of the free list at least. *)
objSize == IF SIZE < WORD THEN WORD ELSE SIZE

Init ==
  /\ exited = FALSE
  /\ chunks = {}
  /\ memory = 0 /\ remainBytes = 0
  /\ freelist = {}
  /\ live = {}
  /\ held = 0

(* "The remaining bytes are not enough for an object": compared with       *)
(* sizeof(T), not with the bytes an object takes.                          *)
TooShort == remainBytes < SIZE

(* size_t subtraction. *)
Less(bytes, n) == IF bytes >= n THEN bytes - n ELSE bytes - n + SIZE_MAX + 1

\* variant: the unused part begins where it did
CutInPlace(p, n) ==
  /\ live' = live \cup {p}
  /\ held' = held + 1
  /\ memory' = p
  /\ remainBytes' = Less(n, objSize)

(* The object at p is cut off a chunk of which n bytes are unused. *)
Cut(p, n) ==
  /\ live' = live \cup {p}
  /\ held' = held + 1
  /\ memory' = p + objSize
  /\ remainBytes' = Less(n, objSize)

NewFromFreelist ==
  /\ ~ exited
  /\ \E obj \in freelist :
       /\ freelist' = freelist \ {obj}
       /\ live' = live \cup {obj}
  /\ held' = held + 1
  /\ UNCHANGED <<exited, chunks, memory, remainBytes>>

NewFromChunk ==
  /\ ~ exited /\ freelist = {} /\ ~ TooShort
  /\ Cut(memory, remainBytes)
  /\ UNCHANGED <<exited, chunks, freelist>>

NewFromSystem ==
  /\ ~ exited /\ freelist = {} /\ TooShort
  /\ \E base \in Base \ chunks :
       /\ chunks' = chunks \cup {base}
       /\ Cut(base, CHUNK)
  /\ UNCHANGED <<exited, freelist>>

(* mmap fails and SystemAlloc exits. *)
NewExits ==
  /\ ~ exited /\ freelist = {} /\ TooShort
  /\ exited' = TRUE
  /\ UNCHANGED <<chunks, memory, remainBytes, freelist, live, held>>

Delete(obj) ==
  /\ ~ exited
  /\ freelist' = freelist \cup {obj}
  /\ live' = live \ {obj}
  /\ held' = held - 1
  /\ UNCHANGED <<exited, chunks, memory, remainBytes>>

Next ==
  \/ NewFromFreelist \/ NewFromChunk \/ NewFromSystem \/ NewExits
  \/ \E obj \in live : Delete(obj)
  \/ exited /\ UNCHANGED vars

Spec == Init /\ [][Next]_vars

-------------------------------------------------------------------------------
(* Properties                                                              *)

TypeOK ==
  /\ exited \in BOOLEAN
  /\ chunks \subseteq Base
  /\ memory \in Nat
  /\ remainBytes \in 0 .. SIZE_MAX
  /\ freelist \subseteq Nat
  /\ live \subseteq Nat
  /\ held \in Int

Objects == live \cup freelist

(* An object is SIZE bytes to the program; Delete writes a pointer into it. *)
Extents == {SIZE, WORD}

(* Every object, live or free, with the link written into it by Delete,    *)
(* lies inside one chunk: New asks for a new chunk in time, although it    *)
(* compares the rest with sizeof(T) and takes objSize bytes (lines 53-67). *)
InsideChunks ==
  \A obj \in Objects : \E base \in chunks :
    base <= obj /\ \A n \in Extents : obj + n <= base + CHUNK

(* No two objects share a byte, so neither the program writing to one nor  *)
(* Delete linking one changes another; a freed object is not live.         *)
Disjoint ==
  /\ live \cap freelist = {}
  /\ \A a, b \in Objects : a < b => \A n \in Extents : a + n <= b

(* Every object has its place in memory to itself. *)
PlacesSound == InsideChunks /\ Disjoint

(* The pool is a heap of blocks of one size: New never returns an object   *)
(* that overlaps a live one or is live itself.                             *)
Blocks == {<<obj, SIZE>> : obj \in live}

H == INSTANCE Heap WITH live <- Blocks, Sizes <- {SIZE}
ImplementsHeap == H!Spec

===============================================================================
