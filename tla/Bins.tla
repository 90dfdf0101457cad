------------------------------- MODULE Bins -------------------------------
(* The bins of malloc.c (dlmalloc 2.8.5): circular lists for small free    *)
(* chunks, bitwise tries for large ones, the two bit maps, the designated  *)
(* victim, and the part of dlmalloc() and dlfree() that works on them.     *)
(* A size counts units of MALLOC_ALIGNMENT = 8 bytes, so SMALLBIN_SHIFT is *)
(* 0; the numbers of bins and the width of a size are scaled down together.*)
EXTENDS Integers, FiniteSets
LOCAL INSTANCE FiniteSetsExt

CONSTANTS Chunk,            \* names of chunks, binned or not
          NULL,
          Sizes,            \* sizes of freed chunks
          Requests,         \* sizes of requests
          MaxDv,            \* bound: size up to which freed neighbours grow the victim
          SIZE_T_BITSIZE,   \* bits of a size (29 units on the i386)
          TREEBIN_SHIFT,    \* 5: chunks of 2^5 units and more are large
          NTREEBINS         \* 32

ASSUME BinsAssumption ==
    /\ TREEBIN_SHIFT \in Nat \ {0} /\ NTREEBINS \in Nat \ {0} /\ NTREEBINS % 2 = 0
    /\ SIZE_T_BITSIZE >= TREEBIN_SHIFT + (NTREEBINS \div 2)
    /\ Sizes \cup Requests \subseteq 2 .. 2^SIZE_T_BITSIZE - 1
    /\ MaxDv \in 0 .. 2^SIZE_T_BITSIZE - 1
    /\ NULL \notin Chunk

VARIABLES bins,             \* link fields of the chunks, bin heads and maps
          dv, dvsize        \* designated victim and its cached size

vars == <<bins, dv, dvsize>>

MIN_CHUNK_SIZE == 2
NSMALLBINS     == 2^TREEBIN_SHIFT
SIZES          == 2^SIZE_T_BITSIZE
Wrap(n)        == n % SIZES                     \* size_t arithmetic

(***************************** indexing bins *****************************)
is_small(s)    == s < NSMALLBINS
small_index(s) == s
smallbin_at(i) == <<"smallbin", i>>
treebin_at(i)  == <<"treebin", i>>
SmallIndex     == 0 .. NSMALLBINS - 1
TreeIndex      == 0 .. NTREEBINS - 1

compute_tree_index(S) ==
    LET X == S \div 2^TREEBIN_SHIFT
        K == Max({0} \cup {k \in 0 .. SIZE_T_BITSIZE : 2^k <= X})
    IN  IF X = 0 THEN 0
        ELSE IF X >= 2^(NTREEBINS \div 2) THEN NTREEBINS - 1
        ELSE 2 * K + ((S \div 2^(K + TREEBIN_SHIFT - 1)) % 2)

bit_for_tree_index(i) ==
    IF i = NTREEBINS - 1 THEN SIZE_T_BITSIZE - 1 ELSE (i \div 2) + TREEBIN_SHIFT - 2

\* The sign bit of S << leftshift_for_tree_index(i) after k more shifts: the
\* side a search for size S takes at depth k of the trie of bin i.
sizebit(S, i, k) ==
    IF k > bit_for_tree_index(i) THEN 0
    ELSE (S \div 2^(bit_for_tree_index(i) - k)) % 2

minsize_for_tree_index(i) ==
    2^((i \div 2) + TREEBIN_SHIFT) + ((i % 2) * 2^((i \div 2) + TREEBIN_SHIFT - 1))

least(map)          == Min(map)                 \* least_bit, compute_bit2idx
left_of(map, i)     == {j \in map : j > i}      \* left_bits(idx2bit(i)) & map

(****************************** small bins *******************************)
Fail(b) == [b EXCEPT !.ok = FALSE]     \* an assertion or RTCHECK fails

\* Once a chunk leaves its bin its links are the user's bytes: the model
\* clears them, so that code reading them would be noticed.
Forget(b, X) == [b EXCEPT !.size[X] = 0, !.fd[X] = NULL, !.bk[X] = NULL, !.index[X] = 0,
                          !.parent[X] = NULL, !.child[X] = [d \in 0..1 |-> NULL]]

\* A slip the runs must notice: the chunk that was first keeps its link back to the header.
insert_small_chunk_one_way(b, P, S) ==
    LET I == small_index(S)
        B == smallbin_at(I)
        F == IF I \in b.smallmap THEN b.fd[B] ELSE B
    IN  [b EXCEPT !.smallmap = @ \cup {I}, !.size[P] = S, !.fd[B] = P, !.fd[P] = F, !.bk[P] = B]
insert_small_chunk(b, P, S) ==
    LET I == small_index(S)
        B == smallbin_at(I)
        F == IF I \in b.smallmap THEN b.fd[B] ELSE B
    IN  [b EXCEPT !.smallmap = @ \cup {I}, !.size[P] = S,
                  !.fd[B] = P, !.bk[F] = P, !.fd[P] = F, !.bk[P] = B]

\* The header keeps its links to the last chunk when the map bit is cleared.
unlink_small_chunk(b, P, S) ==
    LET I == small_index(S)
        F == b.fd[P]
        B == b.bk[P]
    IN  IF \/ P \in {F, B} \/ b.size[P] # I
           \/ F # smallbin_at(I) /\ b.bk[F] # P
           \/ B # F /\ B # smallbin_at(I) /\ b.fd[B] # P
        THEN Fail(b)
        ELSE Forget(IF B = F THEN [b EXCEPT !.smallmap = @ \ {I}]
                             ELSE [b EXCEPT !.bk[F] = B, !.fd[B] = F], P)

unlink_first_small_chunk(b, I) ==
    LET B == smallbin_at(I)
        P == b.fd[B]
        F == b.fd[P]
    IN  IF P \in {F, B} \/ b.size[P] # I \/ (F # B /\ b.bk[F] # P)
        THEN Fail(b)
        ELSE Forget(IF B = F THEN [b EXCEPT !.smallmap = @ \ {I}]
                             ELSE [b EXCEPT !.bk[F] = B, !.fd[B] = F], P)

(********************************* tries *********************************)
leftmost_child(b, t)  == IF b.child[t][0] # NULL THEN b.child[t][0] ELSE b.child[t][1]
rightmost_child(b, t) == IF b.child[t][1] # NULL THEN b.child[t][1] ELSE b.child[t][0]
side(b, q, t)         == IF b.child[q][0] = t THEN 0 ELSE 1

\* Node of bin i where the descent for size S ends, and the depth there: a
\* node of that size, or one with no child on the side S goes.
descend(b, S, i) ==
    LET from[t \in Chunk, k \in 0 .. SIZE_T_BITSIZE] ==
            LET c == b.child[t][sizebit(S, i, k)]
            IN  IF b.size[t] = S \/ c = NULL THEN <<t, k>> ELSE from[c, k + 1]
    IN  from[b.tree[i], 0]

insert_large_chunk(b, X, S) ==
    LET I  == compute_tree_index(S)
        at == descend(b, S, I)
        T  == at[1]
        b1 == [b EXCEPT !.size[X] = S, !.index[X] = I, !.child[X] = [d \in 0..1 |-> NULL]]
    IN  IF I \notin b.treemap
        THEN [b1 EXCEPT !.treemap = @ \cup {I}, !.tree[I] = X,
                        !.parent[X] = treebin_at(I), !.fd[X] = X, !.bk[X] = X]
        ELSE IF b.size[T] # S
        THEN [b1 EXCEPT !.child[T][sizebit(S, I, at[2])] = X,
                        !.parent[X] = T, !.fd[X] = X, !.bk[X] = X]
        ELSE [b1 EXCEPT !.fd[T] = X, !.bk[b.fd[T]] = X,
                        !.fd[X] = b.fd[T], !.bk[X] = T, !.parent[X] = NULL]

\* Parent of the leaf that the walk to the right from X ends at.
above_leaf(b, X) ==
    LET from[t \in Chunk] == LET c == rightmost_child(b, t)
                             IN  IF rightmost_child(b, c) = NULL THEN t ELSE from[c]
    IN  from[X]

\* A slip the runs must notice: the child itself, its own subtree lost, instead of a leaf.
replacement_by_child(b, X) ==
    IF b.bk[X] # X THEN b.bk[X] ELSE rightmost_child(b, X)
\* X's replacement, step 1 and 2 of the comment "Unlink steps": the next of
\* its size, else a leaf below it, else nothing.
replacement(b, X) ==
    IF b.bk[X] # X THEN b.bk[X]
    ELSE IF rightmost_child(b, X) = NULL THEN NULL
    ELSE rightmost_child(b, above_leaf(b, X))

cut_replacement(b, X, R) ==
    LET q == above_leaf(b, X)
    IN  IF b.bk[X] # X THEN [b EXCEPT !.bk[b.fd[X]] = R, !.fd[R] = b.fd[X]]
        ELSE IF R = NULL THEN b
        ELSE [b EXCEPT !.child[q][side(b, q, R)] = NULL]

\* Step 3: R takes X's place under X's parent and over X's children.
put_in_place(b, X, R) ==
    LET XP == b.parent[X]
        C  == {b.child[X][d] : d \in 0..1} \ {NULL}
        b1 == IF b.tree[b.index[X]] = X
              THEN [b EXCEPT !.tree[b.index[X]] = R,
                             !.treemap = IF R = NULL THEN @ \ {b.index[X]} ELSE @]
              ELSE [b EXCEPT !.child[XP][side(b, XP, X)] = R]
    IN  IF XP = NULL THEN b
        ELSE IF R = NULL THEN b1
        ELSE [b1 EXCEPT !.parent = [q \in Chunk |-> IF q = R THEN XP ELSE IF q \in C THEN R ELSE @[q]],
                        !.child[R] = [d \in 0..1 |-> IF b.child[X][d] # NULL THEN b.child[X][d] ELSE @[d]]]

unlink_large_chunk(b, X) ==
    LET R == replacement(b, X)
    IN  IF b.bk[X] # X /\ (b.bk[b.fd[X]] # X \/ b.fd[R] # X) THEN Fail(b)
        ELSE Forget(put_in_place(cut_replacement(b, X, R), X, R), X)

insert_chunk(b, P, S) ==
    IF is_small(S) THEN insert_small_chunk(b, P, S) ELSE insert_large_chunk(b, P, S)
unlink_chunk(b, P, S) ==
    IF is_small(S) THEN unlink_small_chunk(b, P, S) ELSE unlink_large_chunk(b, P)

(************************ searching the tries ****************************)
\* Nodes met going to the leftmost child from t on.
left_spine(b, t) ==
    LET from[u \in Chunk] == {u} \cup IF leftmost_child(b, u) = NULL THEN {}
                                     ELSE from[leftmost_child(b, u)]
    IN  IF t = NULL THEN {} ELSE from[t]

\* A slip the runs must notice: a right subtree passed by higher up is forgotten.
search_forgets(b, nb, i) ==
    LET from[t \in Chunk, k \in 0 .. SIZE_T_BITSIZE] ==
            LET c == b.child[t][sizebit(nb, i, k)]
            IN  IF b.size[t] = nb THEN [met |-> {t}, rst |-> NULL]
                ELSE IF c = NULL THEN [met |-> {t}, rst |-> b.child[t][1]]
                ELSE [met |-> {t} \cup from[c, k + 1].met, rst |-> from[c, k + 1].rst]
    IN  from[b.tree[i], 0]
\* Nodes met on the descent for nb from the root t of bin i, up to one of
\* that size, and the deepest right subtree not taken on the way.
search(b, nb, i) ==
    LET from[t \in Chunk, k \in 0 .. SIZE_T_BITSIZE] ==
            LET c  == b.child[t][sizebit(nb, i, k)]
                rt == b.child[t][1]
                on == from[c, k + 1]
            IN  IF b.size[t] = nb THEN [met |-> {t}, rst |-> NULL]
                ELSE IF c = NULL
                THEN [met |-> {t}, rst |-> rt]
                ELSE [met |-> {t} \cup on.met,
                      rst |-> IF on.rst = NULL /\ rt # c THEN rt ELSE on.rst]
    IN  from[b.tree[i], 0]

\* trem = chunksize(t) - nb wraps for chunks too small, and rsize starts at
\* -nb: a node of T is a candidate when its remainder is the least below.
least_rsize(b, T, nb) == Min({Wrap(b.size[t] - nb) : t \in T} \cup {Wrap(-nb)})
least_fit(b, T, nb)   ==
    {t \in T : /\ Wrap(b.size[t] - nb) < Wrap(-nb)
               /\ Wrap(b.size[t] - nb) = least_rsize(b, T, nb)}

\* A slip the runs must notice: the right subtree is remembered for nothing.
large_candidates_met(b, nb) ==
    LET i    == compute_tree_index(nb)
        left == left_of(b.treemap, i)
        met  == IF b.tree[i] = NULL THEN {} ELSE search(b, nb, i).met
    IN  IF left = {} \/ (met # {} /\ least_fit(b, met, nb) # {})
        THEN met
        ELSE left_spine(b, b.tree[least(left)])
\* Nodes tmalloc_large compares.  An exact fit ends the search at once.
large_candidates(b, nb) ==
    LET i    == compute_tree_index(nb)
        s    == search(b, nb, i)
        left == left_of(b.treemap, i)
        here == IF b.tree[i] = NULL THEN {}
                ELSE IF \E t \in s.met : b.size[t] = nb THEN s.met
                ELSE s.met \cup left_spine(b, s.rst)
    IN  IF left = {} \/ (here # {} /\ (s.rst # NULL \/ least_fit(b, here, nb) # {}))
        THEN here
        ELSE left_spine(b, b.tree[least(left)])

small_candidates(b) == left_spine(b, b.tree[least(b.treemap)])

(******************************** actions ********************************)
init_bins ==
    [size     |-> [c \in Chunk |-> 0],
     fd       |-> [x \in Chunk \cup {smallbin_at(i) : i \in SmallIndex} |-> IF x \in Chunk THEN NULL ELSE x],
     bk       |-> [x \in Chunk \cup {smallbin_at(i) : i \in SmallIndex} |-> IF x \in Chunk THEN NULL ELSE x],
     child    |-> [c \in Chunk |-> [d \in 0..1 |-> NULL]],
     parent   |-> [c \in Chunk |-> NULL],
     index    |-> [c \in Chunk |-> 0],
     tree     |-> [i \in TreeIndex |-> NULL],
     smallmap |-> {}, treemap |-> {}, ok |-> TRUE]

Init == bins = init_bins /\ dv = NULL /\ dvsize = 0

Binned     == {c \in Chunk : bins.size[c] # 0}
Spare      == Chunk \ (Binned \cup {dv})
smallbits(nb) == {i \in bins.smallmap : i >= nb}

Insert(p, s) == bins' = insert_chunk(bins, p, s) /\ UNCHANGED <<dv, dvsize>>
Remove(p)    == p \in Binned /\ bins' = unlink_chunk(bins, p, bins.size[p]) /\ UNCHANGED <<dv, dvsize>>
GrowDv(s)    == dv # NULL /\ dvsize + s <= MaxDv /\ dvsize' = dvsize + s /\ UNCHANGED <<bins, dv>>
DropDv       == dv # NULL /\ dv' = NULL /\ dvsize' = 0 /\ UNCHANGED bins

\* Old victim binned, r of size s in its place.
replace_dv(b, r, s) ==
    /\ bins' = IF ~is_small(dvsize) THEN Fail(b)
               ELSE IF dvsize # 0 THEN insert_small_chunk(b, dv, dvsize) ELSE b
    /\ dv' = r /\ dvsize' = s

\* Remainderless fit to a small bin.
UseSmallbin(nb) ==
    /\ is_small(nb)
    /\ {nb, nb + 1} \cap bins.smallmap # {}
    /\ bins' = unlink_first_small_chunk(bins, IF nb \in bins.smallmap THEN nb ELSE nb + 1)
    /\ UNCHANGED <<dv, dvsize>>

\* Chunk of the next nonempty small bin, split.
UseNextSmallbin(nb) ==
    /\ is_small(nb) /\ nb > dvsize
    /\ {nb, nb + 1} \cap bins.smallmap = {} /\ smallbits(nb) # {}
    /\ LET i == least(left_of(smallbits(nb), nb))
       IN  \E r \in Spare : replace_dv(unlink_first_small_chunk(bins, i), r, i - nb)

\* v is unlinked and split at nb, or used whole when too little is left.
tmalloc_small(nb) ==
    /\ is_small(nb) /\ nb > dvsize
    /\ smallbits(nb) = {} /\ bins.treemap # {}
    /\ LET T     == small_candidates(bins)
           rsize == least_rsize(bins, T, nb)
       IN  \E v \in least_fit(bins, T, nb) :
            IF rsize < MIN_CHUNK_SIZE
            THEN bins' = unlink_large_chunk(bins, v) /\ UNCHANGED <<dv, dvsize>>
            ELSE \E r \in Spare : replace_dv(unlink_large_chunk(bins, v), r, rsize)

fits_better(nb) ==
    LET T == large_candidates(bins, nb)
    IN  bins.treemap # {} /\ least_fit(bins, T, nb) # {} /\ least_rsize(bins, T, nb) < Wrap(dvsize - nb)

tmalloc_large(nb) ==
    /\ ~is_small(nb) /\ fits_better(nb)
    /\ LET T     == large_candidates(bins, nb)
           rsize == least_rsize(bins, T, nb)
       IN  \E v \in least_fit(bins, T, nb) :
            IF rsize < MIN_CHUNK_SIZE
            THEN bins' = unlink_large_chunk(bins, v)
            ELSE \E r \in Spare : bins' = insert_chunk(unlink_large_chunk(bins, v), r, rsize)
    /\ UNCHANGED <<dv, dvsize>>

\* The victim is split, or exhausted.
UseDv(nb) ==
    /\ nb <= dvsize
    /\ IF is_small(nb) THEN {nb, nb + 1} \cap bins.smallmap = {} ELSE ~fits_better(nb)
    /\ IF dvsize - nb >= MIN_CHUNK_SIZE
       THEN dv' \in Spare /\ dvsize' = dvsize - nb
       ELSE dv' = NULL /\ dvsize' = 0
    /\ UNCHANGED bins

Malloc(nb) == UseSmallbin(nb) \/ UseNextSmallbin(nb) \/ tmalloc_small(nb) \/ tmalloc_large(nb) \/ UseDv(nb)

Next == \/ \E p \in Spare, s \in Sizes : Insert(p, s)
        \/ \E p \in Chunk : Remove(p)
        \/ \E s \in Sizes : GrowDv(s)
        \/ \E nb \in Requests : Malloc(nb)
        \/ DropDv

Spec == Init /\ [][Next]_vars

(******************************* properties ******************************)
Store == INSTANCE BinStore WITH free <- [c \in Binned |-> bins.size[c]]

\* Nodes met from x on along bk.
ring(b, x) ==
    LET from[y \in DOMAIN b.bk, n \in 0 .. Cardinality(Chunk)] ==
            {y} \cup IF n = 0 \/ b.bk[y] = x THEN {} ELSE from[b.bk[y], n - 1]
    IN  from[x, Cardinality(Chunk)]

linked(b, x) == b.fd[b.bk[x]] = x /\ b.bk[b.fd[x]] = x

\* do_check_smallbin: the map bit says whether the bin is empty, and the
\* circular list of a nonempty bin holds the free chunks of its size, doubly
\* linked, and nothing else.
do_check_smallbins ==
    \A i \in SmallIndex :
        LET B  == smallbin_at(i)
            on == {c \in Binned : bins.size[c] = i}
        IN  /\ (i \in bins.smallmap) = (on # {})
            /\ on # {} => ring(bins, B) = on \cup {B} /\ \A x \in on \cup {B} : linked(bins, x)

\* do_check_treebin and do_check_tree: index and size agree, chunks of one
\* size form a ring of which one has a parent and children, parents and
\* children agree, and a left child is smaller than its right sibling.
do_check_treebins ==
    /\ \A i \in TreeIndex : (bins.tree[i] # NULL) = (i \in bins.treemap)
    /\ \A u \in {c \in Binned : ~is_small(bins.size[c])} :
        LET i  == compute_tree_index(bins.size[u])
            XP == bins.parent[u]
        IN  /\ bins.index[u] = i
            /\ bins.size[u] >= minsize_for_tree_index(i)
            /\ i # NTREEBINS - 1 => bins.size[u] < minsize_for_tree_index(i + 1)
            /\ linked(bins, u)
            /\ ring(bins, u) = {c \in Binned : bins.size[c] = bins.size[u]}
            /\ Cardinality({c \in ring(bins, u) : bins.parent[c] # NULL}) = 1
            /\ IF XP = NULL
               THEN bins.child[u] = [d \in 0..1 |-> NULL]
               ELSE IF bins.tree[i] = u THEN XP = treebin_at(i)
                    ELSE XP \in Binned /\ u \in {bins.child[XP][0], bins.child[XP][1]}
            /\ \A d \in 0..1 : bins.child[u][d] # NULL => bins.parent[bins.child[u][d]] = u
            /\ NULL \notin {bins.child[u][0], bins.child[u][1]} =>
                    bins.size[bins.child[u][0]] < bins.size[bins.child[u][1]]

bin_find(x, size) ==
    IF is_small(size)
    THEN size \in bins.smallmap /\ x \in ring(bins, smallbin_at(size))
    ELSE LET i == compute_tree_index(size)
         IN  /\ i \in bins.treemap
             /\ LET t == descend(bins, size, i)[1]
                IN  bins.size[t] = size /\ x \in ring(bins, t)

\* traverse_and_check: bin_find meets every free chunk that is not the
\* victim, by the bits of its size alone, and never the victim, which has a
\* legal size.
FreeChunksAreFound ==
    /\ \A c \in Binned : bin_find(c, bins.size[c])
    /\ dv # NULL => dvsize >= MIN_CHUNK_SIZE /\ ~bin_find(dv, dvsize)
    /\ dv = NULL => dvsize = 0

Candidates(nb) == IF is_small(nb) THEN small_candidates(bins) ELSE large_candidates(bins, nb)

\* "Allocate a large request from the best fitting chunk in a treebin": of all
\* the tree chunks that fit a request, of any size, the few that tmalloc_large
\* or tmalloc_small compares include one that fits best.  (A request whose
\* chunk is missed would go on to the system, a step the bins take no part in.)
BestFitIsFound ==
    \A nb \in MIN_CHUNK_SIZE .. SIZES - 1 :
        LET fits == {c \in Binned : ~is_small(bins.size[c]) /\ bins.size[c] >= nb}
        IN  fits # {} =>
                /\ least_fit(bins, Candidates(nb), nb) # {}
                /\ \A v \in least_fit(bins, Candidates(nb), nb), c \in fits :
                        v \in fits /\ bins.size[v] <= bins.size[c]

\* After any sequence of insertions, removals and searches the bins pass
\* do_check_malloc_state, and on the way no RTCHECK takes its corruption
\* branch and no assertion fails.
BinsAreChecked == bins.ok /\ do_check_smallbins /\ do_check_treebins

\* The bins do what the opening comment of dlmalloc() promises: exact and
\* best fit over all free chunks, and the victim used and replaced when the
\* comment says so.
ImplementsBinStore == Store!Spec
===========================================================================
