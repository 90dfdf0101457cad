------------------------------ MODULE BlockHeap ------------------------------
(***************************************************************************)
(* What the heap of core/heap.c does to its blocks, without the words that *)
(* record it: an arena of Units grains is tiled by blocks, alloc_memory    *)
(* splits the smallest free block that holds the request and leaves room   *)
(* for another header and footer, and free_memory merges the freed block   *)
(* with its free neighbours.  A grain is the unit of length, for heap.c a  *)
(* word.                                                                   *)
(***************************************************************************)
EXTENDS Integers

CONSTANTS
    Units,      \* length of the arena
    Requests,   \* lengths of the blocks that are asked for
    Overhead    \* length of a header and a footer

ASSUME BlockHeapAssumption ==
    /\ Units \in Nat \ {0}
    /\ Requests \subseteq Nat \ {0}
    /\ Overhead \in Nat \ {0}

VARIABLES
    len,        \* length of the block that starts at a grain, 0 where none does
    used        \* where the blocks in use start

vars == <<len, used>>

Grains == 0 .. (Units - 1)
heads == {a \in Grains : len[a] > 0}
Free == heads \ used

Init ==
    /\ len = [a \in Grains |-> IF a = 0 THEN Units ELSE 0]
    /\ used = {}

\* A slip the runs must notice: the rest of the split block is forgotten.
Alloc_LosesRest(r) ==
    \E b \in Free :
        /\ len[b] >= r + Overhead
        /\ \A c \in Free : len[c] >= r + Overhead => len[b] <= len[c]
        /\ len' = [len EXCEPT ![b] = r]
        /\ used' = used \cup {b}

\* alloc_memory: free_list_find_can_fill asks for room for the request and for
\* the header and footer of the rest.
Alloc(r) ==
    \E b \in Free :
        /\ len[b] >= r + Overhead
        /\ \A c \in Free : len[c] >= r + Overhead => len[b] <= len[c]
        /\ len' = [len EXCEPT ![b] = r, ![b + r] = len[b] - r]
        /\ used' = used \cup {b}

\* Slips the runs must notice: a neighbour is merged without a look at in_use;
\* or the next block is not merged at all.
FirstAfterMerge_InUse(b, first) ==
    \/ first = b /\ \A p \in heads : p + len[p] # b
    \/ first \in heads /\ first + len[first] = b
StopAfterMerge_InUse(b, stop) ==
    LET next == b + len[b]
    IN  \/ next \notin heads /\ stop = next
        \/ next \in heads /\ stop = next + len[next]
StopAfterMerge_Never(b, stop) == stop = b + len[b]

\* The block that a release leaves behind runs from first up to stop.
FirstAfterMerge(b, first) ==
    \/ first = b /\ \A p \in Free : p + len[p] # b
    \/ first \in Free /\ first + len[first] = b

StopAfterMerge(b, stop) ==
    LET next == b + len[b]
    IN  \/ next \notin Free /\ stop = next
        \/ next \in Free /\ stop = next + len[next]

\* free_memory: one block from first to stop, nothing else inside it.
Release(b) ==
    \E first \in heads :
        /\ FirstAfterMerge(b, first)
        /\ \E stop \in 1 .. Units :
               /\ StopAfterMerge(b, stop)
               /\ len' = [a \in Grains |->
                            IF a = first THEN stop - first
                              ELSE IF a > first /\ a < stop THEN 0 ELSE len[a]]
        /\ used' = used \ {b}

Next ==
    \/ \E r \in Requests : Alloc(r)
    \/ \E b \in used : Release(b)

Spec == Init /\ [][Next]_vars

-----------------------------------------------------------------------------
\* The types of the variables: blocks lie in the grains of the heap.
TypeOK ==
    /\ len \in [Grains -> 0 .. Units]
    /\ used \subseteq heads

\* The blocks tile the arena: each ends where the next one starts or where the
\* arena ends, and no block starts inside another one.
Tiled ==
    /\ 0 \in heads
    /\ \A a \in heads : a + len[a] = Units \/ a + len[a] \in heads
    /\ \A a \in heads : \A c \in Grains : a < c /\ c < a + len[a] => len[c] = 0

\* No two allocations share a grain, whatever was split and merged before.
UsedDisjoint ==
    \A a, b \in used : a < b => a + len[a] <= b

\* free_memory never leaves two free blocks side by side.
Merged ==
    \A a \in Free : a + len[a] \notin Free

\* A call never moves, shortens or lengthens an allocation that stays in use.
UsedStable == [][\A a \in used \cap used' : len'[a] = len[a]]_vars

=============================================================================
