------------------------------- MODULE MCMemPool -------------------------------
(* MemPool for TLC: threads and Span structures are interchangeable.         *)
EXTENDS MemPool, TLC

Symmetry == Permutations(Thread) \cup Permutations(SpanId)

===============================================================================
