---------------------------- MODULE MCMapAllocator ----------------------------
(* An instance of the allocator for TLC: 16 words of map memory, of which  *)
(* 14 may be given out, and maps of at most three entries.                 *)
EXTENDS MapAllocator

KeyMasks == [size \in 0 .. 3 |-> 2^(size + 1)]
=============================================================================
