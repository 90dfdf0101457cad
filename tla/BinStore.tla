----------------------------- MODULE BinStore -----------------------------
(* What the bins of malloc.c promise the rest of dlmalloc: a bag of free   *)
(* chunks besides the designated victim, and the chunk dlmalloc's opening  *)
(* comment ("Basic algorithm") says a request is served from.  Bins shows  *)
(* that the lists and tries implement it.  Sizes count MALLOC_ALIGNMENT    *)
(* units of 8 bytes.                                                       *)
EXTENDS Integers, FiniteSets
LOCAL INSTANCE Functions

CONSTANTS Chunk, NULL,
          Sizes, Requests,  \* sizes of freed chunks, and of requests
          NSMALLBINS        \* sizes below it are kept in the small bins

MIN_CHUNK_SIZE == 2

VARIABLES free,             \* binned chunk -> its size
          dv, dvsize        \* the designated victim

vars == <<free, dv, dvsize>>

is_small(s) == s < NSMALLBINS
Without(v)  == Restrict(free, DOMAIN free \ {v})
With(f, c, s) == [x \in DOMAIN f \cup {c} |-> IF x = c THEN s ELSE f[x]]
Spare       == Chunk \ (DOMAIN free \cup {dv})
Fits(nb)    == {c \in DOMAIN free : free[c] >= nb}
Best(S)     == {c \in S : \A d \in S : free[c] <= free[d]}

Init == free = [c \in {} |-> 0] /\ dv = NULL /\ dvsize = 0

\* free() bins a chunk; a freed neighbour takes a binned chunk out again,
\* or grows the victim, or swallows it.
Insert(p, s) == free' = With(free, p, s) /\ UNCHANGED <<dv, dvsize>>
Remove(p)    == p \in DOMAIN free /\ free' = Without(p) /\ UNCHANGED <<dv, dvsize>>
GrowDv(s)    == dv # NULL /\ dvsize' = dvsize + s /\ UNCHANGED <<free, dv>>
DropDv       == dv # NULL /\ dv' = NULL /\ dvsize' = 0 /\ UNCHANGED free

\* 1. of the algorithm for small requests: a small chunk of the size asked
\* for, or of one unit more, is handed out whole.
Remainderless(nb) == {c \in Fits(nb) : is_small(free[c]) /\ free[c] <= nb + 1}
TakeExact(nb) ==
    /\ is_small(nb)
    /\ \E v \in Best(Remainderless(nb)) : free' = Without(v)
    /\ UNCHANGED <<dv, dvsize>>

\* 2.: the victim, when it is big enough; also 2. for large requests, when
\* no binned chunk fits better.
UseDv(nb) ==
    /\ nb <= dvsize
    /\ IF is_small(nb) THEN Remainderless(nb) = {}
                       ELSE \A c \in Fits(nb) : free[c] >= dvsize
    /\ \/ /\ dvsize - nb >= MIN_CHUNK_SIZE
          /\ dv' \in Spare
          /\ dvsize' = dvsize - nb
       \/ dvsize - nb < MIN_CHUNK_SIZE /\ dv' = NULL /\ dvsize' = 0
    /\ UNCHANGED free

\* 3.: the smallest chunk that fits is split, the rest becomes the victim
\* and the old victim is binned.
SplitToDv(nb) ==
    /\ is_small(nb) /\ nb > dvsize /\ Remainderless(nb) = {}
    /\ \E v \in Best(Fits(nb)) :
        IF free[v] - nb < MIN_CHUNK_SIZE
        THEN free' = Without(v) /\ UNCHANGED <<dv, dvsize>>
        ELSE /\ dv' \in Spare
             /\ dvsize' = free[v] - nb
             /\ free' = IF dv = NULL THEN Without(v) ELSE With(Without(v), dv, dvsize)

\* 1. for large requests: the smallest chunk that fits, when it fits better
\* than the victim; the rest is binned.
SplitBest(nb) ==
    /\ ~is_small(nb)
    /\ \E v \in Best(Fits(nb)) :
        /\ dvsize < nb \/ free[v] < dvsize
        /\ IF free[v] - nb < MIN_CHUNK_SIZE
           THEN free' = Without(v)
           ELSE \E r \in Spare : free' = With(Without(v), r, free[v] - nb)
    /\ UNCHANGED <<dv, dvsize>>

Malloc(nb) == TakeExact(nb) \/ UseDv(nb) \/ SplitToDv(nb) \/ SplitBest(nb)

Next == \/ \E p \in Spare, s \in Sizes : Insert(p, s)
        \/ \E p \in Chunk : Remove(p)
        \/ \E s \in Sizes : GrowDv(s)
        \/ \E nb \in Requests : Malloc(nb)
        \/ DropDv

Spec == Init /\ [][Next]_vars
===========================================================================
