------------------------------- MODULE MCHeap -------------------------------
(***************************************************************************)
(* Heap instantiated for TLC, and the refinement mapping to BlockHeap: a   *)
(* unit of its arena is a word, and a block is as long as its payload, its *)
(* header and its footer.                                                  *)
(***************************************************************************)
EXTENDS Heap

\* The runs do not go beyond the first accident: the free list may be a circle
\* after it, and then heap.c's searches do not return.
NoMishap == mishaps = {}

\* Before heap_init the arena counts as one free block.
lenOfWords ==
    LET blocks == Blocks
    IN  [g \in 0 .. (PAGE - 1) |->
            IF HeapInited
              THEN IF FirstHeader + g \in blocks THEN size(mem[FirstHeader + g]) + 2 ELSE 0
              ELSE IF g = 0 THEN PAGE ELSE 0]
usedByWords == {h - FirstHeader : h \in {b \in Blocks : in_use(mem[b])}}

Tiles == INSTANCE BlockHeap WITH
            Units <- PAGE,
            Requests <- {s + 2 : s \in Requests},
            Overhead <- 2,
            len <- lenOfWords,
            used <- usedByWords

\* Until the first accident, the words written by spilt_block, merge_block and
\* the free-list functions amount to the splitting and merging of BlockHeap:
\* headers, footers and the list always tell alloc_memory and free_memory the
\* truth.
ImplementsBlockHeap ==
    Tiles!Init /\ [][mishaps' = {} => Tiles!Next \/ UNCHANGED Tiles!vars]_vars
=============================================================================
