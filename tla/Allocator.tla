------------------------------ MODULE Allocator ------------------------------
(***************************************************************************)
(* What heap_malloc and heap_free promise the kernel, and nothing about    *)
(* how: an allocation is a run of memory of the requested length that no   *)
(* other live allocation touches, and it stays the caller's, unmoved,      *)
(* until it is given back.                                                 *)
(***************************************************************************)
EXTENDS Integers

CONSTANTS Units, Requests

VARIABLE live   \* the live allocations

vars == <<live>>

Extents == [at : 0 .. (Units - 1), length : Requests]
Overlap(x, y) == x.at < y.at + y.length /\ y.at < x.at + x.length

Init == live = {}

heap_malloc(r) ==
    \E x \in Extents :
        /\ x.length = r
        /\ x.at + r <= Units
        /\ \A y \in live : ~Overlap(x, y)
        /\ live' = live \cup {x}

heap_free(x) == live' = live \ {x}

Next ==
    \/ \E r \in Requests : heap_malloc(r)
    \/ \E x \in live : heap_free(x)

Spec == Init /\ [][Next]_vars
=============================================================================
