---------------------------- MODULE PoolPartsProofs ----------------------------
(***************************************************************************)
(* Proofs about the two parts of the memory pool that know of no threads.  *)
(*                                                                         *)
(* ObjectPool, for every object size, chunk size and set of chunk          *)
(* addresses.  The one hypothesis beyond the assumptions of the module is  *)
(* Fits: an object fits into a chunk, and a chunk is a whole number of     *)
(* words (in the code 128 K bytes and 8).  Without the second part New     *)
(* could cut an object off a rest that is shorter than a word.             *)
(*                                                                         *)
(* SizeWalk, for every page size, number of pages, batch limit and largest *)
(* request that its assumption allows.                                     *)
(***************************************************************************)
EXTENDS ObjectPool, SizeWalk, TLAPS

-------------------------------------------------------------------------------
(* The pool of objects                                                     *)

Fits == objSize <= CHUNK /\ \E k \in Nat : CHUNK = k * WORD

(* The unused bytes end where the chunk in use ends, and no object is      *)
(* among them.                                                             *)
Unused ==
  remainBytes > 0 =>
    /\ \E base \in chunks : base <= memory /\ memory + remainBytes = base + CHUNK
    /\ \A obj \in Objects : obj + objSize <= memory \/ memory + remainBytes <= obj

(* Objects of one word leave a whole number of words.                      *)
Aligned == SIZE < WORD => \E k \in Nat : remainBytes = k * WORD

IInv == TypeOK /\ InsideChunks /\ Disjoint /\ Unused /\ Aligned

-------------------------------------------------------------------------------

LEMMA ObjSizeType ==
  /\ objSize \in Nat \ {0} /\ objSize >= SIZE
  /\ objSize \in Extents /\ \A n \in Extents : n \in Nat /\ n <= objSize
BY ObjectPoolAssumption DEF objSize, Extents

(* A positive number of words is at least one word, and taking one away    *)
(* leaves a number of words.                                               *)
LEMMA OneWordLess ==
  ASSUME NEW k \in Nat, NEW n \in Nat, n = k * WORD, n > 0
  PROVE  n >= WORD /\ k - 1 \in Nat /\ n - WORD = (k - 1) * WORD
<1>0. WORD \in Nat \ {0}
  BY ObjectPoolAssumption
<1>1. k # 0
  BY <1>0
<1>2. PICK j \in Nat : k = j + 1
  BY <1>1
<1>3. k * WORD = j * WORD + WORD
  BY <1>0, <1>2
<1>4. j * WORD \in Nat
  BY <1>0
<1>5. k - 1 = j
  BY <1>2
<1>. QED  BY <1>0, <1>3, <1>4, <1>5

(* New never cuts more than is left (ObjectPool.h:53 against 65-67).       *)
LEMMA EnoughLeft ==
  ASSUME TypeOK, Aligned, ~ TooShort
  PROVE  remainBytes >= objSize
<1>1. remainBytes \in Nat /\ remainBytes >= SIZE /\ SIZE \in Nat \ {0} /\ WORD \in Nat \ {0}
  BY ObjectPoolAssumption DEF TypeOK, TooShort
<1>2. CASE SIZE < WORD
  <2>1. PICK k \in Nat : remainBytes = k * WORD
    BY <1>2 DEF Aligned
  <2>2. remainBytes > 0
    BY <1>1
  <2>. QED  BY <1>2, <2>1, <2>2, <1>1, OneWordLess DEF objSize
<1>3. CASE ~ (SIZE < WORD)
  BY <1>1, <1>3 DEF objSize
<1>. QED  BY <1>2, <1>3

(* Cutting an object off a stretch of n unused bytes at p keeps the        *)
(* invariant, whether the stretch is the rest of the chunk in use or a new *)
(* chunk.                                                                  *)
LEMMA CutKeeps ==
  ASSUME IInv, NEW p \in Nat, NEW n \in 0 .. SIZE_MAX, n >= objSize,
         chunks' \subseteq Base, chunks \subseteq chunks',
         \E base \in chunks' : base <= p /\ p + n = base + CHUNK,
         \A obj \in Objects : obj + objSize <= p \/ p + n <= obj,
         SIZE < WORD => \E k \in Nat : n = k * WORD,
         Cut(p, n), freelist' = freelist, exited' = exited
  PROVE  IInv'
<1>0. /\ objSize \in Nat \ {0} /\ CHUNK \in Nat /\ SIZE_MAX \in Nat /\ WORD \in Nat \ {0}
      /\ SIZE \in Nat \ {0} /\ n \in Nat /\ Base \subseteq Nat
  BY ObjSizeType, ObjectPoolAssumption
<1>1. /\ memory' = p + objSize /\ remainBytes' = n - objSize
      /\ live' = live \cup {p} /\ held' = held + 1
  BY <1>0 DEF Cut, Less
<1>2. Objects \subseteq Nat /\ Objects' = Objects \cup {p}
  BY <1>1 DEF IInv, TypeOK, Objects
<1>3. p \notin Objects
  BY <1>0, <1>2
<1>4. TypeOK'
  BY <1>0, <1>1 DEF IInv, TypeOK
<1>5. InsideChunks'
  <2>1. ASSUME NEW obj \in Objects
        PROVE  \E base \in chunks' : base <= obj /\ obj + objSize <= base + CHUNK
    BY ObjSizeType DEF IInv, InsideChunks
  <2>2. \E base \in chunks' : base <= p /\ p + objSize <= base + CHUNK
    BY <1>0
  <2>3. ASSUME NEW obj \in Objects'
        PROVE  \E base \in chunks' : base <= obj /\ \A k \in Extents : obj + k <= base + CHUNK
    <3>1. PICK base \in chunks' : base <= obj /\ obj + objSize <= base + CHUNK
      BY <1>2, <2>1, <2>2
    <3>2. obj \in Nat /\ base \in Nat
      BY <1>0, <1>2
    <3>. QED  BY <3>1, <3>2, <1>0, ObjSizeType
  <2>. QED  BY <2>3 DEF InsideChunks, Extents
<1>6. Disjoint'
  <2>1. live' \cap freelist' = {}
    BY <1>1, <1>3 DEF IInv, Disjoint, Objects
  <2>2. ASSUME NEW a \in Objects', NEW b \in Objects', a < b
        PROVE  a + objSize <= b
    <3>1. CASE a \in Objects /\ b \in Objects
      BY <3>1, <2>2, ObjSizeType DEF IInv, Disjoint
    <3>2. CASE a = p /\ b \in Objects
      BY <3>2, <2>2, <1>0, <1>2
    <3>3. CASE a \in Objects /\ b = p
      BY <3>3, <2>2, <1>0, <1>2
    <3>. QED  BY <3>1, <3>2, <3>3, <2>2, <1>0, <1>2
  <2>3. ASSUME NEW a \in Objects', NEW b \in Objects', a < b, NEW k \in Extents
        PROVE  a + k <= b
    BY <2>2, <2>3, <1>0, <1>2, ObjSizeType
  <2>. QED  BY <2>1, <2>3 DEF Disjoint, Extents
<1>7. Unused'
  <2>1. \E base \in chunks' : base <= memory' /\ memory' + remainBytes' = base + CHUNK
    BY <1>0, <1>1
  <2>2. ASSUME NEW obj \in Objects'
        PROVE  obj + objSize <= memory' \/ memory' + remainBytes' <= obj
    BY <1>0, <1>1, <1>2
  <2>. QED  BY <2>1, <2>2 DEF Unused, objSize
<1>8. Aligned'
  <2>1. SUFFICES ASSUME SIZE < WORD PROVE \E k \in Nat : remainBytes' = k * WORD
    BY DEF Aligned
  <2>2. PICK k \in Nat : n = k * WORD
    BY <2>1
  <2>3. objSize = WORD
    BY <2>1 DEF objSize
  <2>. QED  BY <1>0, <1>1, <2>2, <2>3, OneWordLess
<1>. QED  BY <1>4, <1>5, <1>6, <1>7, <1>8 DEF IInv

LEMMA InitInvariant == Init => IInv
<1>0. 0 \in Nat /\ 0 = 0 * WORD
  BY ObjectPoolAssumption
<1>1. SUFFICES ASSUME Init PROVE IInv
  OBVIOUS
<1>2. Objects = {}
  BY <1>1 DEF Init, Objects
<1>3. TypeOK
  <2>1. exited \in BOOLEAN /\ chunks \subseteq Base /\ freelist \subseteq Nat /\ live \subseteq Nat
    BY <1>1 DEF Init
  <2>2. memory \in Nat /\ remainBytes \in 0 .. SIZE_MAX /\ held \in Int
    BY <1>1, ObjectPoolAssumption DEF Init
  <2>. QED  BY <2>1, <2>2 DEF TypeOK
<1>4. Unused
  BY <1>1 DEF Init, Unused
<1>5. Aligned
  BY <1>0, <1>1 DEF Init, Aligned
<1>. QED  BY <1>1, <1>2, <1>3, <1>4, <1>5 DEF IInv, InsideChunks, Disjoint, Init

(* Moving an object between the free list and the program changes neither  *)
(* the set of objects nor the chunk in use.                                *)
LEMMA MoveKeeps ==
  ASSUME IInv, NEW obj \in Objects,
         \/ obj \in freelist /\ freelist' = freelist \ {obj} /\ live' = live \cup {obj}
         \/ obj \in live /\ freelist' = freelist \cup {obj} /\ live' = live \ {obj},
         held' \in Int,
         UNCHANGED <<exited, chunks, memory, remainBytes>>
  PROVE  IInv'
<1>1. Objects' = Objects
  BY DEF Objects
<1>2. TypeOK'
  BY DEF IInv, TypeOK, Objects
<1>3. InsideChunks'
  BY <1>1 DEF IInv, InsideChunks, Extents
<1>4. Disjoint'
  BY <1>1 DEF IInv, Disjoint, Extents
<1>5. Unused'
  BY <1>1 DEF IInv, Unused, objSize
<1>6. Aligned'
  BY DEF IInv, Aligned
<1>. QED  BY <1>2, <1>3, <1>4, <1>5, <1>6 DEF IInv

(* The unused part of the chunk in use, and a new chunk, hold no object.   *)
LEMMA RestIsFree ==
  ASSUME IInv, ~ TooShort
  PROVE  /\ memory \in Nat /\ remainBytes \in 0 .. SIZE_MAX /\ remainBytes >= objSize
         /\ \E base \in chunks : base <= memory /\ memory + remainBytes = base + CHUNK
         /\ \A obj \in Objects : obj + objSize <= memory \/ memory + remainBytes <= obj
<1>1. memory \in Nat /\ remainBytes \in 0 .. SIZE_MAX /\ remainBytes >= objSize
  BY EnoughLeft DEF IInv, TypeOK
<1>2. remainBytes > 0
  BY <1>1, ObjSizeType, ObjectPoolAssumption
<1>. QED  BY <1>1, <1>2 DEF IInv, Unused

LEMMA ChunkIsFree ==
  ASSUME IInv, NEW base \in Base \ chunks
  PROVE  \A obj \in Objects : obj + objSize <= base \/ base + CHUNK <= obj
<1>1. SUFFICES ASSUME NEW obj \in Objects
               PROVE  obj + objSize <= base \/ base + CHUNK <= obj
  OBVIOUS
<1>2. PICK old \in chunks : old <= obj /\ obj + objSize <= old + CHUNK
  BY ObjSizeType DEF IInv, InsideChunks
<1>3. old \in Base /\ old \in Nat /\ base \in Nat /\ old # base /\ obj \in Nat /\ CHUNK \in Nat
  BY ObjectPoolAssumption DEF IInv, TypeOK, Objects
<1>4. old + CHUNK <= base \/ base + CHUNK <= old
  BY <1>3, ObjectPoolAssumption
<1>. QED  BY <1>2, <1>3, <1>4, ObjSizeType

(* The inductive step, one case per operation.                             *)
LEMMA NextInvariant == Fits /\ IInv /\ [Next]_vars => IInv'
<1>. SUFFICES ASSUME Fits, IInv, [Next]_vars
              PROVE  IInv'
  OBVIOUS
<1>0. /\ objSize \in Nat \ {0} /\ objSize >= SIZE /\ SIZE \in Nat \ {0} /\ CHUNK \in Nat
      /\ SIZE_MAX \in Nat /\ CHUNK <= SIZE_MAX /\ Base \subseteq Nat
      /\ \A a, b \in Base : a < b => a + CHUNK <= b
      /\ TypeOK /\ Objects \subseteq Nat
  BY ObjSizeType, ObjectPoolAssumption DEF IInv, TypeOK, Objects
<1>1. CASE NewFromFreelist
  <2>1. PICK obj \in freelist : freelist' = freelist \ {obj} /\ live' = live \cup {obj}
    BY <1>1 DEF NewFromFreelist
  <2>2. obj \in Objects /\ UNCHANGED <<exited, chunks, memory, remainBytes>> /\ held' \in Int
    BY <1>0, <1>1 DEF NewFromFreelist, Objects, TypeOK
  <2>. QED  BY <2>1, <2>2, MoveKeeps
<1>2. CASE NewFromChunk
  <2>1. /\ Cut(memory, remainBytes) /\ chunks' = chunks /\ ~ TooShort
        /\ freelist' = freelist /\ exited' = exited
    BY <1>2 DEF NewFromChunk
  <2>2. memory \in Nat /\ remainBytes \in 0 .. SIZE_MAX /\ remainBytes >= objSize
    BY <2>1, RestIsFree
  <2>4. /\ \E base \in chunks' : base <= memory /\ memory + remainBytes = base + CHUNK
        /\ \A obj \in Objects : obj + objSize <= memory \/ memory + remainBytes <= obj
    BY <2>1, RestIsFree
  <2>5. SIZE < WORD => \E k \in Nat : remainBytes = k * WORD
    BY DEF IInv, Aligned
  <2>6. chunks' \subseteq Base /\ chunks \subseteq chunks'
    BY <2>1, <1>0 DEF TypeOK
  <2>. QED  BY <2>1, <2>2, <2>4, <2>5, <2>6, CutKeeps
<1>3. CASE NewFromSystem
  <2>1. PICK base \in Base \ chunks : chunks' = chunks \cup {base} /\ Cut(base, CHUNK)
    BY <1>3 DEF NewFromSystem
  <2>2. freelist' = freelist /\ exited' = exited
    BY <1>3 DEF NewFromSystem
  <2>3. base \in Nat /\ CHUNK \in 0 .. SIZE_MAX /\ CHUNK >= objSize
    BY <1>0 DEF Fits
  <2>4. \A obj \in Objects : obj + objSize <= base \/ base + CHUNK <= obj
    BY ChunkIsFree
  <2>5. \E b \in chunks' : b <= base /\ base + CHUNK = b + CHUNK
    BY <2>1, <2>3
  <2>6. SIZE < WORD => \E k \in Nat : CHUNK = k * WORD
    BY DEF Fits
  <2>7. chunks' \subseteq Base /\ chunks \subseteq chunks'
    BY <2>1, <1>0 DEF TypeOK
  <2>. QED  BY <2>1, <2>2, <2>3, <2>4, <2>5, <2>6, <2>7, CutKeeps
<1>4. CASE \E obj \in live : Delete(obj)
  <2>1. PICK obj \in live : Delete(obj)
    BY <1>4
  <2>2. obj \in Objects /\ held' \in Int
    BY <1>0, <2>1 DEF Objects, Delete, TypeOK
  <2>. QED  BY <2>1, <2>2, MoveKeeps DEF Delete
<1>5. CASE NewExits
  BY <1>5 DEF NewExits, IInv, TypeOK, InsideChunks, Disjoint, Unused, Aligned, Objects, Extents, objSize
<1>6. CASE UNCHANGED vars
  BY <1>6 DEF vars, IInv, TypeOK, InsideChunks, Disjoint, Unused, Aligned, Objects, Extents, objSize
<1>. QED  BY <1>1, <1>2, <1>3, <1>4, <1>5, <1>6 DEF Next

(* For every object size that fits into a chunk, the type invariant holds, *)
(* objects lie inside the chunks with the link Delete writes into them, no *)
(* two overlap, and a freed object is not live.                            *)
THEOREM PoolIsSafe ==
  ASSUME Fits
  PROVE  Spec => [](TypeOK /\ PlacesSound)
<1>1. Init => IInv
  BY InitInvariant
<1>2. IInv /\ [Next]_vars => IInv'
  BY NextInvariant
<1>3. IInv => TypeOK /\ PlacesSound
  BY DEF IInv, PlacesSound
<1>. QED  BY <1>1, <1>2, <1>3, PTL DEF Spec

(* An object that becomes live makes an allocation of the heap.            *)
LEMMA AllocSimulation ==
  ASSUME IInv, IInv', NEW p \in Nat, p \notin live,
         live' = live \cup {p}, held' = held + 1
  PROVE  H!Next
<1>0. SIZE \in Nat \ {0} /\ live' \subseteq Nat /\ live \subseteq Nat
  BY ObjectPoolAssumption DEF IInv, TypeOK
<1>. DEFINE block == <<p, SIZE>>
<1>1. Blocks' = Blocks \cup {block} /\ block \notin Blocks
  BY DEF Blocks
<1>2. ASSUME NEW other \in Blocks
      PROVE  H!Cells(block) \cap H!Cells(other) = {}
  <2>1. PICK q \in live : other = <<q, SIZE>>
    BY DEF Blocks
  <2>2. q # p /\ q \in Objects' /\ p \in Objects' /\ q \in Nat
    BY <1>0 DEF Objects
  <2>3. p + SIZE <= q \/ q + SIZE <= p
    BY <2>2 DEF IInv, Disjoint, Extents
  <2>4. H!Cells(block) = p .. (p + SIZE - 1) /\ H!Cells(other) = q .. (q + SIZE - 1)
    BY <2>1 DEF H!Cells
  <2>. QED  BY <1>0, <2>2, <2>3, <2>4
<1>3. H!Alloc(block)
  BY <1>1, <1>2 DEF H!Alloc
<1>. QED  BY <1>1, <1>3 DEF H!Next

(* One step of the pool is a step of the heap or leaves the blocks alone.  *)
LEMMA StepSimulation == IInv /\ IInv' /\ [Next]_vars => [H!Next]_<<Blocks, held>>
<1>. SUFFICES ASSUME IInv, IInv', [Next]_vars
              PROVE  H!Next \/ UNCHANGED <<Blocks, held>>
  OBVIOUS
<1>0. objSize \in Nat \ {0} /\ CHUNK \in Nat \ {0} /\ Base \subseteq Nat
  BY ObjSizeType, ObjectPoolAssumption
<1>1. CASE NewFromFreelist
  <2>1. PICK obj \in freelist : live' = live \cup {obj} /\ held' = held + 1
    BY <1>1 DEF NewFromFreelist
  <2>. QED  BY <2>1, AllocSimulation DEF IInv, Disjoint, TypeOK
<1>2. CASE NewFromChunk
  <2>1. live' = live \cup {memory} /\ held' = held + 1 /\ ~ TooShort
    BY <1>2 DEF NewFromChunk, Cut
  <2>2. memory \in Nat /\ memory \notin Objects
    BY <1>0, <2>1, RestIsFree
  <2>. QED  BY <2>1, <2>2, AllocSimulation DEF Objects
<1>3. CASE NewFromSystem
  <2>1. PICK base \in Base \ chunks : live' = live \cup {base} /\ held' = held + 1
    BY <1>3 DEF NewFromSystem, Cut
  <2>2. base \in Nat /\ base \notin Objects
    BY <1>0, ChunkIsFree
  <2>. QED  BY <2>1, <2>2, AllocSimulation DEF Objects
<1>4. CASE \E obj \in live : Delete(obj)
  <2>1. PICK obj \in live : live' = live \ {obj} /\ held' = held - 1
    BY <1>4 DEF Delete
  <2>2. <<obj, SIZE>> \in Blocks /\ Blocks' = Blocks \ {<<obj, SIZE>>}
    BY <2>1 DEF Blocks
  <2>. QED  BY <2>1, <2>2 DEF H!Next, H!Free
<1>5. CASE NewExits \/ UNCHANGED vars
  BY <1>5 DEF NewExits, vars, Blocks
<1>. QED  BY <1>1, <1>2, <1>3, <1>4, <1>5 DEF Next

(* The pool implements the abstract allocator: every New returns memory no *)
(* live object uses, every Delete gives one block back.                    *)
THEOREM PoolImplementsHeap ==
  ASSUME Fits
  PROVE  Spec => ImplementsHeap
<1>1. Init => IInv
  BY InitInvariant
<1>2. Init => H!Init
  BY DEF Init, H!Init, Blocks
<1>3. IInv /\ [Next]_vars => IInv'
  BY NextInvariant
<1>4. IInv /\ IInv' /\ [Next]_vars => [H!Next]_<<Blocks, held>>
  BY StepSimulation
<1>. QED  BY <1>1, <1>2, <1>3, <1>4, PTL DEF Spec, H!Spec, ImplementsHeap

-------------------------------------------------------------------------------
(* The size classes                                                        *)

(* What a request can be rounded to. *)
Sizes == {n \in Nat : 0 < n /\ n <= 256 * 1024}

(* The values of the code, and the sums that GroupBase makes of them.      *)
LEMMA BandValues ==
  /\ Bands[1].last = 128 /\ Bands[1].align = 8
  /\ Bands[2].last = 1024 /\ Bands[2].align = 16
  /\ Bands[3].last = 8192 /\ Bands[3].align = 128
  /\ Bands[4].last = 65536 /\ Bands[4].align = 1024
  /\ Bands[5].last = 262144 /\ Bands[5].align = 8192
BY DEF Bands

LEMMA GroupBases ==
  /\ GroupBase[1] = 0 /\ GroupBase[2] = 16 /\ GroupBase[3] = 72
  /\ GroupBase[4] = 128 /\ GroupBase[5] = 184
<1>. DEFINE F(f) == [i \in 1 .. 5 |-> IF i = 1 THEN 0 ELSE f[i - 1] + group_array[i - 1]]
            g == <<0, 16, 72, 128, 184>>
<1>1. g = F(g)
  BY DEF group_array
<1>2. GroupBase = CHOOSE f : f = F(f)
  BY DEF GroupBase
<1>. HIDE DEF g
<1>3. GroupBase = F(GroupBase)
  <2>. HIDE DEF F
  <2>. QED  BY <1>1, <1>2
<1>4. GroupBase[1] = 0
  BY <1>3
<1>5. GroupBase[2] = 16
  BY <1>3, <1>4 DEF group_array
<1>6. GroupBase[3] = 72
  BY <1>3, <1>5 DEF group_array
<1>7. GroupBase[4] = 128
  BY <1>3, <1>6 DEF group_array
<1>8. GroupBase[5] = 184
  BY <1>3, <1>7 DEF group_array
<1>. QED  BY <1>4, <1>5, <1>6, <1>7, <1>8

(* Every request has a band.                                               *)
LEMMA InBand ==
  ASSUME NEW n \in Sizes
  PROVE  /\ BandOf(n) \in 1 .. 5
         /\ n <= Bands[BandOf(n)].last
         /\ BandOf(n) > 1 => n > Bands[BandOf(n) - 1].last
<1>. DEFINE P(i) == n <= Bands[i].last /\ (i > 1 => n > Bands[i - 1].last)
<1>1. n \in Nat /\ n <= 262144
  BY DEF Sizes
<1>2. P(1) \/ P(2) \/ P(3) \/ P(4) \/ P(5)
  BY <1>1, BandValues
<1>. HIDE DEF P
<1>3. \E i \in 1 .. 5 : P(i)
  BY <1>2
<1>4. BandOf(n) = CHOOSE i \in 1 .. 5 : P(i)
  BY DEF BandOf, P
<1>5. BandOf(n) \in 1 .. 5 /\ P(BandOf(n))
  BY <1>3, <1>4
<1>. QED  BY <1>5 DEF P

(* Request n lies between from and last, is rounded up to the next multiple *)
(* of align, and its bucket has the number of that multiple but for an     *)
(* offset.                                                                 *)
Served(n, from, last, align, offset) ==
  /\ from < n /\ n <= last /\ Bands[BandOf(n)].align = align
  /\ \E q \in Nat : /\ RoundUp(n) = align * q /\ Index(n) = q + offset
                     /\ n <= align * q /\ align * q < n + align

LEMMA BandServes ==
  ASSUME NEW n \in Sizes
  PROVE  \/ Served(n, 0, 128, 8, -1)
         \/ Served(n, 128, 1024, 16, 7)
         \/ Served(n, 1024, 8192, 128, 63)
         \/ Served(n, 8192, 65536, 1024, 119)
         \/ Served(n, 65536, 262144, 8192, 175)
<1>0. n \in Nat /\ n > 0 /\ n <= 262144
  BY DEF Sizes
<1>1. CASE BandOf(n) = 1
  <2>. DEFINE q == (n + 8 - 1) \div 8
  <2>1. 0 < n /\ n <= 128 /\ Bands[BandOf(n)].align = 8
    BY <1>0, <1>1, InBand, BandValues
  <2>2. RoundUp(n) = q * 8
    BY <1>1, BandValues DEF RoundUp, _RoundUp
  <2>3. Index(n) = ((n + 8 - 1) \div 8) - 1 + 0
    BY <1>1, BandValues, GroupBases DEF Index, _Index
  <2>4. /\ q \in Nat /\ n <= 8 * q /\ 8 * q < n + 8 /\ q * 8 = 8 * q
        /\ ((n + 8 - 1) \div 8) - 1 + 0 = q - 1
    BY <1>0, <2>1
  <2>. HIDE DEF q
  <2>. QED  BY <2>1, <2>2, <2>3, <2>4 DEF Served
<1>2. CASE BandOf(n) = 2
  <2>. DEFINE q == (n + 16 - 1) \div 16
  <2>1. 128 < n /\ n <= 1024 /\ Bands[BandOf(n)].align = 16
    BY <1>0, <1>2, InBand, BandValues
  <2>2. RoundUp(n) = q * 16
    BY <1>2, BandValues DEF RoundUp, _RoundUp
  <2>3. Index(n) = (((n - 128) + 16 - 1) \div 16) - 1 + 16
    BY <1>2, BandValues, GroupBases DEF Index, _Index
  <2>4. /\ q \in Nat /\ n <= 16 * q /\ 16 * q < n + 16 /\ q * 16 = 16 * q
        /\ (((n - 128) + 16 - 1) \div 16) - 1 + 16 = q + 7
    BY <1>0, <2>1
  <2>. HIDE DEF q
  <2>. QED  BY <2>1, <2>2, <2>3, <2>4 DEF Served
<1>3. CASE BandOf(n) = 3
  <2>. DEFINE q == (n + 128 - 1) \div 128
  <2>1. 1024 < n /\ n <= 8192 /\ Bands[BandOf(n)].align = 128
    BY <1>0, <1>3, InBand, BandValues
  <2>2. RoundUp(n) = q * 128
    BY <1>3, BandValues DEF RoundUp, _RoundUp
  <2>3. Index(n) = (((n - 1024) + 128 - 1) \div 128) - 1 + 72
    BY <1>3, BandValues, GroupBases DEF Index, _Index
  <2>4. /\ q \in Nat /\ n <= 128 * q /\ 128 * q < n + 128 /\ q * 128 = 128 * q
        /\ (((n - 1024) + 128 - 1) \div 128) - 1 + 72 = q + 63
    BY <1>0, <2>1
  <2>. HIDE DEF q
  <2>. QED  BY <2>1, <2>2, <2>3, <2>4 DEF Served
<1>4. CASE BandOf(n) = 4
  <2>. DEFINE q == (n + 1024 - 1) \div 1024
  <2>1. 8192 < n /\ n <= 65536 /\ Bands[BandOf(n)].align = 1024
    BY <1>0, <1>4, InBand, BandValues
  <2>2. RoundUp(n) = q * 1024
    BY <1>4, BandValues DEF RoundUp, _RoundUp
  <2>3. Index(n) = (((n - 8192) + 1024 - 1) \div 1024) - 1 + 128
    BY <1>4, BandValues, GroupBases DEF Index, _Index
  <2>4. /\ q \in Nat /\ n <= 1024 * q /\ 1024 * q < n + 1024 /\ q * 1024 = 1024 * q
        /\ (((n - 8192) + 1024 - 1) \div 1024) - 1 + 128 = q + 119
    BY <1>0, <2>1
  <2>. HIDE DEF q
  <2>. QED  BY <2>1, <2>2, <2>3, <2>4 DEF Served
<1>5. CASE BandOf(n) = 5
  <2>. DEFINE q == (n + 8192 - 1) \div 8192
  <2>1. 65536 < n /\ n <= 262144 /\ Bands[BandOf(n)].align = 8192
    BY <1>0, <1>5, InBand, BandValues
  <2>2. RoundUp(n) = q * 8192
    BY <1>5, BandValues DEF RoundUp, _RoundUp
  <2>3. Index(n) = (((n - 65536) + 8192 - 1) \div 8192) - 1 + 184
    BY <1>5, BandValues, GroupBases DEF Index, _Index
  <2>4. /\ q \in Nat /\ n <= 8192 * q /\ 8192 * q < n + 8192 /\ q * 8192 = 8192 * q
        /\ (((n - 65536) + 8192 - 1) \div 8192) - 1 + 184 = q + 175
    BY <1>0, <2>1
  <2>. HIDE DEF q
  <2>. QED  BY <2>1, <2>2, <2>3, <2>4 DEF Served
<1>6. BandOf(n) \in {1, 2, 3, 4, 5}
  BY InBand
<1>. QED  BY <1>1, <1>2, <1>3, <1>4, <1>5, <1>6

(* The rounded size is of the band of the request, and rounds to itself.   *)
LEMMA RoundedServes ==
  ASSUME NEW n \in Sizes
  PROVE  /\ RoundUp(n) \in Sizes /\ RoundUp(n) >= n
         /\ RoundUp(n) - n < Bands[BandOf(n)].align
         /\ Index(RoundUp(n)) = Index(n) /\ Index(n) \in 0 .. 207
<1>. DEFINE m == RoundUp(n)
<1>0. n \in Nat
  BY DEF Sizes
<1>1. CASE Served(n, 0, 128, 8, -1)
  <2>1. PICK q \in Nat : m = 8 * q /\ Index(n) = q - 1 /\ n <= 8 * q /\ 8 * q < n + 8
    BY <1>1 DEF Served
  <2>2. 0 < n /\ n <= 128 /\ Bands[BandOf(n)].align = 8
    BY <1>1 DEF Served
  <2>3. m \in Nat /\ 0 < m /\ m <= 128 /\ m \in Sizes
    BY <1>0, <2>1, <2>2 DEF Sizes
  <2>. HIDE DEF m
  <2>4. Served(m, 0, 128, 8, -1)
    BY <2>3, BandServes DEF Served
  <2>5. Index(m) = Index(n)
    BY <2>1, <2>4 DEF Served
  <2>. QED  BY <1>0, <2>1, <2>2, <2>3, <2>5 DEF m
<1>2. CASE Served(n, 128, 1024, 16, 7)
  <2>1. PICK q \in Nat : m = 16 * q /\ Index(n) = q + 7 /\ n <= 16 * q /\ 16 * q < n + 16
    BY <1>2 DEF Served
  <2>2. 128 < n /\ n <= 1024 /\ Bands[BandOf(n)].align = 16
    BY <1>2 DEF Served
  <2>3. m \in Nat /\ 128 < m /\ m <= 1024 /\ m \in Sizes
    BY <1>0, <2>1, <2>2 DEF Sizes
  <2>. HIDE DEF m
  <2>4. Served(m, 128, 1024, 16, 7)
    BY <2>3, BandServes DEF Served
  <2>5. Index(m) = Index(n)
    BY <2>1, <2>4 DEF Served
  <2>. QED  BY <1>0, <2>1, <2>2, <2>3, <2>5 DEF m
<1>3. CASE Served(n, 1024, 8192, 128, 63)
  <2>1. PICK q \in Nat : m = 128 * q /\ Index(n) = q + 63 /\ n <= 128 * q /\ 128 * q < n + 128
    BY <1>3 DEF Served
  <2>2. 1024 < n /\ n <= 8192 /\ Bands[BandOf(n)].align = 128
    BY <1>3 DEF Served
  <2>3. m \in Nat /\ 1024 < m /\ m <= 8192 /\ m \in Sizes
    BY <1>0, <2>1, <2>2 DEF Sizes
  <2>. HIDE DEF m
  <2>4. Served(m, 1024, 8192, 128, 63)
    BY <2>3, BandServes DEF Served
  <2>5. Index(m) = Index(n)
    BY <2>1, <2>4 DEF Served
  <2>. QED  BY <1>0, <2>1, <2>2, <2>3, <2>5 DEF m
<1>4. CASE Served(n, 8192, 65536, 1024, 119)
  <2>1. PICK q \in Nat : m = 1024 * q /\ Index(n) = q + 119 /\ n <= 1024 * q /\ 1024 * q < n + 1024
    BY <1>4 DEF Served
  <2>2. 8192 < n /\ n <= 65536 /\ Bands[BandOf(n)].align = 1024
    BY <1>4 DEF Served
  <2>3. m \in Nat /\ 8192 < m /\ m <= 65536 /\ m \in Sizes
    BY <1>0, <2>1, <2>2 DEF Sizes
  <2>. HIDE DEF m
  <2>4. Served(m, 8192, 65536, 1024, 119)
    BY <2>3, BandServes DEF Served
  <2>5. Index(m) = Index(n)
    BY <2>1, <2>4 DEF Served
  <2>. QED  BY <1>0, <2>1, <2>2, <2>3, <2>5 DEF m
<1>5. CASE Served(n, 65536, 262144, 8192, 175)
  <2>1. PICK q \in Nat : m = 8192 * q /\ Index(n) = q + 175 /\ n <= 8192 * q /\ 8192 * q < n + 8192
    BY <1>5 DEF Served
  <2>2. 65536 < n /\ n <= 262144 /\ Bands[BandOf(n)].align = 8192
    BY <1>5 DEF Served
  <2>3. m \in Nat /\ 65536 < m /\ m <= 262144 /\ m \in Sizes
    BY <1>0, <2>1, <2>2 DEF Sizes
  <2>. HIDE DEF m
  <2>4. Served(m, 65536, 262144, 8192, 175)
    BY <2>3, BandServes DEF Served
  <2>5. Index(m) = Index(n)
    BY <2>1, <2>4 DEF Served
  <2>. QED  BY <1>0, <2>1, <2>2, <2>3, <2>5 DEF m
<1>. QED  BY <1>1, <1>2, <1>3, <1>4, <1>5, BandServes

(* One byte more stays with the multiple or goes to the next one.          *)
LEMMA NextSize ==
  ASSUME NEW n \in Sizes, n + 1 \in Sizes
  PROVE  Index(n + 1) = IF RoundUp(n + 1) = RoundUp(n) THEN Index(n) ELSE Index(n) + 1
<1>0. n \in Nat /\ n + 1 <= 262144
  BY DEF Sizes
<1>. DEFINE m == n + 1
<1>1. CASE Served(n, 0, 128, 8, -1)
  <2>1. PICK q \in Nat : /\ RoundUp(n) = 8 * q /\ Index(n) = q - 1
                        /\ n <= 8 * q /\ 8 * q < n + 8
    BY <1>1 DEF Served
  <2>2. 0 < n /\ n <= 128
    BY <1>1 DEF Served
  <2>3. Served(m, 0, 128, 8, -1) \/ Served(m, 128, 1024, 16, 7)
    BY <1>0, <2>2, BandServes DEF Served
  <2>4. CASE Served(m, 0, 128, 8, -1)
    <3>1. PICK p \in Nat : /\ RoundUp(m) = 8 * p /\ Index(m) = p - 1
                          /\ m <= 8 * p /\ 8 * p < m + 8
      BY <2>4 DEF Served
    <3>. QED  BY <1>0, <2>1, <3>1
  <2>5. CASE Served(m, 128, 1024, 16, 7)
    <3>1. PICK p \in Nat : /\ RoundUp(m) = 16 * p /\ Index(m) = p + 7
                          /\ m <= 16 * p /\ 16 * p < m + 16
      BY <2>5 DEF Served
    <3>2. 128 < m
      BY <2>5 DEF Served
    <3>. QED  BY <1>0, <2>1, <2>2, <3>1, <3>2
  <2>. QED  BY <2>3, <2>4, <2>5
<1>2. CASE Served(n, 128, 1024, 16, 7)
  <2>1. PICK q \in Nat : /\ RoundUp(n) = 16 * q /\ Index(n) = q + 7
                        /\ n <= 16 * q /\ 16 * q < n + 16
    BY <1>2 DEF Served
  <2>2. 128 < n /\ n <= 1024
    BY <1>2 DEF Served
  <2>3. Served(m, 128, 1024, 16, 7) \/ Served(m, 1024, 8192, 128, 63)
    BY <1>0, <2>2, BandServes DEF Served
  <2>4. CASE Served(m, 128, 1024, 16, 7)
    <3>1. PICK p \in Nat : /\ RoundUp(m) = 16 * p /\ Index(m) = p + 7
                          /\ m <= 16 * p /\ 16 * p < m + 16
      BY <2>4 DEF Served
    <3>. QED  BY <1>0, <2>1, <3>1
  <2>5. CASE Served(m, 1024, 8192, 128, 63)
    <3>1. PICK p \in Nat : /\ RoundUp(m) = 128 * p /\ Index(m) = p + 63
                          /\ m <= 128 * p /\ 128 * p < m + 128
      BY <2>5 DEF Served
    <3>2. 1024 < m
      BY <2>5 DEF Served
    <3>. QED  BY <1>0, <2>1, <2>2, <3>1, <3>2
  <2>. QED  BY <2>3, <2>4, <2>5
<1>3. CASE Served(n, 1024, 8192, 128, 63)
  <2>1. PICK q \in Nat : /\ RoundUp(n) = 128 * q /\ Index(n) = q + 63
                        /\ n <= 128 * q /\ 128 * q < n + 128
    BY <1>3 DEF Served
  <2>2. 1024 < n /\ n <= 8192
    BY <1>3 DEF Served
  <2>3. Served(m, 1024, 8192, 128, 63) \/ Served(m, 8192, 65536, 1024, 119)
    BY <1>0, <2>2, BandServes DEF Served
  <2>4. CASE Served(m, 1024, 8192, 128, 63)
    <3>1. PICK p \in Nat : /\ RoundUp(m) = 128 * p /\ Index(m) = p + 63
                          /\ m <= 128 * p /\ 128 * p < m + 128
      BY <2>4 DEF Served
    <3>. QED  BY <1>0, <2>1, <3>1
  <2>5. CASE Served(m, 8192, 65536, 1024, 119)
    <3>1. PICK p \in Nat : /\ RoundUp(m) = 1024 * p /\ Index(m) = p + 119
                          /\ m <= 1024 * p /\ 1024 * p < m + 1024
      BY <2>5 DEF Served
    <3>2. 8192 < m
      BY <2>5 DEF Served
    <3>. QED  BY <1>0, <2>1, <2>2, <3>1, <3>2
  <2>. QED  BY <2>3, <2>4, <2>5
<1>4. CASE Served(n, 8192, 65536, 1024, 119)
  <2>1. PICK q \in Nat : /\ RoundUp(n) = 1024 * q /\ Index(n) = q + 119
                        /\ n <= 1024 * q /\ 1024 * q < n + 1024
    BY <1>4 DEF Served
  <2>2. 8192 < n /\ n <= 65536
    BY <1>4 DEF Served
  <2>3. Served(m, 8192, 65536, 1024, 119) \/ Served(m, 65536, 262144, 8192, 175)
    BY <1>0, <2>2, BandServes DEF Served
  <2>4. CASE Served(m, 8192, 65536, 1024, 119)
    <3>1. PICK p \in Nat : /\ RoundUp(m) = 1024 * p /\ Index(m) = p + 119
                          /\ m <= 1024 * p /\ 1024 * p < m + 1024
      BY <2>4 DEF Served
    <3>. QED  BY <1>0, <2>1, <3>1
  <2>5. CASE Served(m, 65536, 262144, 8192, 175)
    <3>1. PICK p \in Nat : /\ RoundUp(m) = 8192 * p /\ Index(m) = p + 175
                          /\ m <= 8192 * p /\ 8192 * p < m + 8192
      BY <2>5 DEF Served
    <3>2. 65536 < m
      BY <2>5 DEF Served
    <3>. QED  BY <1>0, <2>1, <2>2, <3>1, <3>2
  <2>. QED  BY <2>3, <2>4, <2>5
<1>5. CASE Served(n, 65536, 262144, 8192, 175)
  <2>1. PICK q \in Nat : /\ RoundUp(n) = 8192 * q /\ Index(n) = q + 175
                        /\ n <= 8192 * q /\ 8192 * q < n + 8192
    BY <1>5 DEF Served
  <2>2. 65536 < n /\ n <= 262144
    BY <1>5 DEF Served
  <2>3. Served(m, 65536, 262144, 8192, 175)
    BY <1>0, <2>2, BandServes DEF Served
  <2>4. CASE Served(m, 65536, 262144, 8192, 175)
    <3>1. PICK p \in Nat : /\ RoundUp(m) = 8192 * p /\ Index(m) = p + 175
                          /\ m <= 8192 * p /\ 8192 * p < m + 8192
      BY <2>4 DEF Served
    <3>. QED  BY <1>0, <2>1, <3>1
  <2>. QED  BY <2>3, <2>4
<1>. QED  BY <1>1, <1>2, <1>3, <1>4, <1>5, BandServes

-------------------------------------------------------------------------------
(* Batches and spans                                                       *)

LEMMA DivBounds ==
  ASSUME NEW a \in Nat, NEW b \in Nat \ {0}
  PROVE  /\ a \div b \in Nat /\ (a \div b) * b \in Nat
         /\ (a \div b) * b <= a /\ a < (a \div b) * b + b
OBVIOUS

(* A batch holds two objects at least, and takes no more bytes than two    *)
(* objects of the largest size.                                            *)
LEMMA BatchBytes ==
  ASSUME NEW size \in Sizes
  PROVE  \E b \in Nat : /\ b = NumMoveSize(size) * size
                        /\ 2 * size <= b /\ b <= 2 * 256 * 1024
                        /\ size < 256 * 1024 => b < 2 * 256 * 1024
<1>. DEFINE num == MAX_BYTES \div size
<1>1. /\ size \in Nat \ {0} /\ size <= 256 * 1024
      /\ MAX_BYTES \in Nat /\ MAX_BYTES <= 256 * 1024
      /\ MAX_MOVE \in Nat /\ MAX_MOVE >= 2
  BY SizeClassAssumption, SizeWalkAssumption DEF Sizes
<1>2. num \in Nat /\ num * size \in Nat /\ num * size <= MAX_BYTES
  BY <1>1, DivBounds
<1>3. NumMoveSize(size) = IF num < 2 THEN 2 ELSE IF num <= MAX_MOVE THEN num ELSE MAX_MOVE
  BY DEF NumMoveSize, MinOf
<1>. HIDE DEF num
<1>4. CASE NumMoveSize(size) = 2
  BY <1>1, <1>4
<1>5. CASE NumMoveSize(size) \in 2 .. num
  <2>. DEFINE k == NumMoveSize(size)
  <2>1. k \in Nat /\ 2 <= k /\ k <= num
    BY <1>2, <1>5
  <2>. HIDE DEF k
  <2>2. k * size \in Nat /\ 2 * size <= k * size /\ k * size <= num * size
    BY <1>1, <1>2, <2>1
  <2>. QED  BY <1>1, <1>2, <2>2 DEF k
<1>. QED  BY <1>1, <1>2, <1>3, <1>4, <1>5

(* The pages of a span: enough for one object, and not more than the page  *)
(* cache has.                                                              *)
LEMMA SpanPages ==
  ASSUME NEW size \in Sizes
  PROVE  /\ NumMovePage(size) \in Nat \ {0} /\ NumMovePage(size) < NPAGES
         /\ NumMovePage(size) * PAGE_BYTES >= size
<1>1. PICK b \in Nat : b = NumMoveSize(size) * size /\ 2 * size <= b /\ b <= 2 * 256 * 1024
  BY BatchBytes
<1>. DEFINE k == b \div PAGE_BYTES
<1>2. /\ size \in Nat \ {0} /\ PAGE_BYTES \in Nat \ {0}
      /\ NPAGES \in Nat /\ NPAGES > 1 /\ 2 * 256 * 1024 < NPAGES * PAGE_BYTES
  BY SizeClassAssumption, SizeWalkAssumption DEF Sizes
<1>3. /\ k \in Nat /\ k * PAGE_BYTES \in Nat
      /\ k * PAGE_BYTES <= b /\ b < k * PAGE_BYTES + PAGE_BYTES
  BY <1>2, DivBounds
<1>4. NumMovePage(size) = IF k = 0 THEN 1 ELSE k
  BY <1>1 DEF NumMovePage
<1>. HIDE DEF k
<1>5. CASE k = 0
  BY <1>1, <1>2, <1>3, <1>4, <1>5
<1>6. CASE k >= 1
  <2>1. k < NPAGES
    <3>1. SUFFICES ASSUME NPAGES <= k PROVE FALSE
      BY <1>2, <1>3
    <3>2. NPAGES * PAGE_BYTES <= k * PAGE_BYTES
      BY <1>2, <1>3, <3>1
    <3>. QED  BY <1>1, <1>2, <1>3, <3>2
  <2>2. k * PAGE_BYTES >= PAGE_BYTES
    BY <1>2, <1>3, <1>6
  <2>3. k * PAGE_BYTES >= size
    BY <1>1, <1>2, <1>3, <2>2
  <2>. QED  BY <1>3, <1>4, <1>6, <2>1, <2>3
<1>. QED  BY <1>3, <1>5, <1>6

(* Two numbers of pages that take as many bytes are the same.              *)
LEMMA PagesOfBytes ==
  ASSUME NEW k \in Nat, NEW j \in Nat,
         k * PAGE_BYTES <= j * PAGE_BYTES, j * PAGE_BYTES < k * PAGE_BYTES + PAGE_BYTES
  PROVE  k = j
<1>1. PAGE_BYTES \in Nat \ {0}
  BY SizeClassAssumption
<1>2. ASSUME k >= j + 1 PROVE FALSE
  <2>1. k * PAGE_BYTES >= (j + 1) * PAGE_BYTES
    BY <1>1, <1>2
  <2>. QED  BY <1>1, <2>1
<1>3. ASSUME j >= k + 1 PROVE FALSE
  <2>1. j * PAGE_BYTES >= (k + 1) * PAGE_BYTES
    BY <1>1, <1>3
  <2>. QED  BY <1>1, <2>1
<1>. QED  BY <1>2, <1>3

(* With the lengths of the code (two objects of 256 KiB take NPAGES - 1    *)
(* pages, and these are more than one) a span is a whole region for        *)
(* objects of the largest size and for no others: only their spans are     *)
(* handed out at PageCache.cpp:8 as mmap returned them, without an entry   *)
(* in _idSpanMap.                                                          *)
THEOREM OnlyTheLargestTakesARegion ==
  ASSUME NEW size \in Sizes, (NPAGES - 1) * PAGE_BYTES = 2 * 256 * 1024, NPAGES > 2
  PROVE  NumMovePage(size) = NPAGES - 1 <=> size = 256 * 1024
<1>1. /\ size \in Nat \ {0} /\ size <= 256 * 1024 /\ PAGE_BYTES \in Nat \ {0}
      /\ MAX_BYTES \in Nat /\ MAX_BYTES <= 256 * 1024 /\ NPAGES - 1 \in Nat \ {0}
      /\ NPAGES - 1 > 1
  BY SizeClassAssumption, SizeWalkAssumption DEF Sizes
<1>2. CASE size = 256 * 1024
  <2>1. (MAX_BYTES \div size) < 2
    BY <1>1, <1>2
  <2>2. NumMoveSize(size) * size = (NPAGES - 1) * PAGE_BYTES
    BY <1>2, <2>1 DEF NumMoveSize
  <2>. DEFINE k == ((NPAGES - 1) * PAGE_BYTES) \div PAGE_BYTES
  <2>3. /\ k \in Nat /\ k * PAGE_BYTES <= (NPAGES - 1) * PAGE_BYTES
        /\ (NPAGES - 1) * PAGE_BYTES < k * PAGE_BYTES + PAGE_BYTES
    <3>1. (NPAGES - 1) * PAGE_BYTES \in Nat
      BY <1>1
    <3>. QED  BY <1>1, <3>1, DivBounds
  <2>4. NumMovePage(size) = IF k = 0 THEN 1 ELSE k
    BY <2>2 DEF NumMovePage
  <2>. HIDE DEF k
  <2>5. k = NPAGES - 1
    BY <1>1, <2>3, PagesOfBytes
  <2>. QED  BY <1>1, <1>2, <2>4, <2>5
<1>3. CASE size < 256 * 1024
  <2>1. PICK b \in Nat : b = NumMoveSize(size) * size /\ b < 2 * 256 * 1024
    BY <1>1, <1>3, BatchBytes
  <2>. DEFINE k == b \div PAGE_BYTES
  <2>2. k \in Nat /\ k * PAGE_BYTES <= b /\ NumMovePage(size) = IF k = 0 THEN 1 ELSE k
    BY <1>1, <2>1, DivBounds DEF NumMovePage
  <2>. HIDE DEF k
  <2>3. k # NPAGES - 1
    BY <1>1, <2>1, <2>2
  <2>. QED  BY <1>1, <1>3, <2>2, <2>3
<1>. QED  BY <1>1, <1>2, <1>3

-------------------------------------------------------------------------------

Walking == bytes \in 1 .. MAX_BYTES

LEMMA WalkTypes == WalkSpec => []Walking
<1>1. WalkInit => Walking
  BY SizeClassAssumption DEF WalkInit, Walking
<1>2. Walking /\ [WalkNext]_bytes => Walking'
  BY SizeClassAssumption DEF WalkNext, Walking
<1>. QED  BY <1>1, <1>2, PTL DEF WalkSpec

LEMMA WalkedSizes == Walking => bytes \in Sizes
BY SizeClassAssumption, SizeWalkAssumption DEF Walking, Sizes

(* Whatever the page size, the longest span, the batch limit and the       *)
(* largest request (up to 256 KiB) are: a request is rounded to an object  *)
(* of its own bucket that is large enough and less than one alignment step *)
(* larger, the bucket exists, and so does a span that holds the object     *)
(* (the asserts of NewSpan and FetchRangeObj).                             *)
THEOREM RequestsAreServed == WalkSpec => []RequestIsServed
<1>1. Walking => RequestIsServed
  <2>. SUFFICES ASSUME Walking PROVE RequestIsServed
    OBVIOUS
  <2>1. bytes \in Sizes /\ RoundUp(bytes) \in Sizes
    BY WalkedSizes, RoundedServes
  <2>2. RoundedSizeServesRequest
    BY <2>1, RoundedServes DEF RoundedSizeServesRequest
  <2>3. IndexInsideArrays
    <3>1. Index(bytes) \in 0 .. 207
      BY <2>1, RoundedServes
    <3>. QED  BY <3>1, SizeWalkAssumption DEF IndexInsideArrays
  <2>4. SpanHoldsAnObject
    BY <2>1, SpanPages DEF SpanHoldsAnObject
  <2>. QED  BY <2>2, <2>3, <2>4 DEF RequestIsServed
<1>. QED  BY <1>1, WalkTypes, PTL

(* The size and the bucket go up together: objects of one bucket have one  *)
(* size, so that a freed object serves the next request of its bucket.     *)
THEOREM BucketsHoldOneSize == WalkSpec => BucketHoldsOneSize
<1>. DEFINE Stays == Index(bytes') = IF RoundUp(bytes') = RoundUp(bytes)
                                       THEN Index(bytes) ELSE Index(bytes) + 1
<1>1. Walking /\ Walking' /\ [WalkNext]_bytes => [Stays]_bytes
  <2>. SUFFICES ASSUME Walking, Walking', WalkNext PROVE Stays
    OBVIOUS
  <2>1. bytes \in Sizes /\ bytes + 1 \in Sizes /\ bytes' = bytes + 1
    BY SizeClassAssumption, SizeWalkAssumption DEF Walking, WalkNext, Sizes
  <2>. QED  BY <2>1, NextSize
<1>. QED  BY <1>1, WalkTypes, PTL DEF WalkSpec, BucketHoldsOneSize

===============================================================================
