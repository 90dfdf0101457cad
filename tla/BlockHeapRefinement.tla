------------------------- MODULE BlockHeapRefinement -------------------------
(* The blocks of BlockHeap implement the promise of Allocator.             *)
EXTENDS BlockHeap

liveExtents == {[at |-> a, length |-> len[a]] : a \in used}

Promise == INSTANCE Allocator WITH live <- liveExtents

\* Every behaviour of the blocks is one of the abstract allocator: each
\* allocation is new memory, and only the caller's free takes it back.
ImplementsAllocator == Promise!Spec
=============================================================================
