------------------------------- MODULE MCHeap -------------------------------
(***************************************************************************)
(* Heap with memory for two chunks, in one region and in two.  The sizes   *)
(* are scaled: a tag takes 2 cells, a page 4, a chunk 20, and the smallest *)
(* bin holds blocks of 2 and 3.  A request for 3 leaves a free block that  *)
(* one for 8 cuts again, and one for 16 takes a whole chunk.               *)
(***************************************************************************)
EXTENDS Heap

Usable(first, bytes) == [addr |-> first, size |-> bytes, type |-> E820_USABLE]

MCMaps == { <<Usable(0, 3), Usable(4, 40)>>, <<Usable(4, 16), Usable(60, 20)>> }
=============================================================================
