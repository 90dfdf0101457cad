----------------------------- MODULE DlChunks -----------------------------
(* Chunks of dlmalloc (malloc.c, 32-bit words, MALLOC_ALIGNMENT 8): the    *)
(* head and foot words in memory and the macros that write them.  Sizes    *)
(* and addresses count units of 8 bytes, requests count bytes.  The heap is*)
(* a record m, and an operation a function of it; bins are the bag of      *)
(* chunks that BinStore specifies and Bins implements.                     *)
EXTENDS Integers, FiniteSets, Sequences
LOCAL INSTANCE FiniteSetsExt
LOCAL INSTANCE Functions

CONSTANTS SIZES,            \* 2^29 units: sizes are taken modulo SIZES
          NSMALLBINS,       \* 32: chunks of 32 units and more are large
          PAGE              \* units in a page, also the granularity

ASSUME ChunksAssumption ==
    /\ NSMALLBINS \in Nat /\ PAGE \in Nat /\ PAGE > 8
    /\ SIZES \in Nat /\ SIZES > 2 * PAGE /\ SIZES % PAGE = 0

NULL           == 0
MIN_CHUNK_SIZE == 2
TOP_FOOT_SIZE  == 5         \* a segment record's chunk and fenceposts
SEGMENT_CHUNK  == 3         \* pad_request(sizeof(struct malloc_segment))
MMAP_FOOT_PAD  == 2
SYS_ALLOC_PADDING == TOP_FOOT_SIZE + 1
MAX_SIZE_T     == SIZES - 1
HALF_MAX_SIZE_T == MAX_SIZE_T \div 2
MAX_REQUEST    == 8 * (SIZES - 8)               \* bytes
Wrap(n)        == n % SIZES
is_small(s)    == s < NSMALLBINS
align(n, a)    == Wrap(n + a - 1) - (Wrap(n + a - 1) % a)
page_align(n)  == align(n, PAGE)
granularity_align(n) == align(n, PAGE)

\* A request of some bytes as a chunk: 4 bytes of overhead, rounded up.
request2size(bytes) == IF bytes < 11 THEN MIN_CHUNK_SIZE ELSE (bytes + 11) \div 8

(************************** head and foot words **************************)
\* foot is the prev_foot word in front of the head: meaningful while the
\* previous chunk is free or the chunk is mmapped, else the user's bytes.
Word(s, c, p) == [size |-> s, cinuse |-> c, pinuse |-> p, foot |-> 0]
FENCEPOST     == Word(0, TRUE, TRUE)
Unwritten     == Word(0, FALSE, FALSE)  \* the user's bytes, taken as clear bits

word(m, p)       == IF p \in DOMAIN m.head THEN m.head[p] ELSE Unwritten
chunksize(m, p)  == word(m, p).size
cinuse(m, p)     == word(m, p).cinuse
pinuse(m, p)     == word(m, p).pinuse
is_inuse(m, p)   == cinuse(m, p) \/ ~pinuse(m, p)
is_mmapped(m, p) == ~cinuse(m, p) /\ ~pinuse(m, p)
next_chunk(m, p) == p + chunksize(m, p)
prev_chunk(m, p) == p - word(m, p).foot
usable(m, p)     == 8 * chunksize(m, p) - (IF is_mmapped(m, p) THEN 8 ELSE 4)

\* The chunk at p gets head h; heads that lie inside it become its payload.
Write(m, p, h) ==
    [m EXCEPT !.head = [x \in {p} \cup {y \in DOMAIN @ : y < p \/ y >= p + h.size} |->
                            IF x = p THEN h ELSE @[x]]]
\* Memory from lo up to hi is given back.
Gone(m, lo, hi) == [m EXCEPT !.head = Restrict(@, {x \in DOMAIN @ : x < lo \/ x >= hi})]

set_pinuse(m, p)   == Write(m, p, [word(m, p) EXCEPT !.pinuse = TRUE, !.foot = 0])
clear_pinuse(m, p) == Write(m, p, [word(m, p) EXCEPT !.pinuse = FALSE])
set_foot(m, p, s)  == Write(m, p + s, [word(m, p + s) EXCEPT !.foot = s])

\* A slip the runs must notice: the next chunk is not told.
set_inuse_alone(m, p, s) == Write(m, p, [word(m, p) EXCEPT !.size = s, !.cinuse = TRUE])
set_inuse(m, p, s) ==
    set_pinuse(Write(m, p, [word(m, p) EXCEPT !.size = s, !.cinuse = TRUE]), p + s)
set_inuse_and_pinuse(m, p, s) == set_pinuse(Write(m, p, Word(s, TRUE, TRUE)), p + s)
set_size_and_pinuse_of_inuse_chunk(m, p, s) == Write(m, p, Word(s, TRUE, TRUE))
set_size_and_pinuse_of_free_chunk(m, p, s)  == set_foot(Write(m, p, Word(s, FALSE, TRUE)), p, s)
\* A slip the runs must notice: the next chunk still takes this one to be in use.
set_free_only(m, p, s, n) == set_size_and_pinuse_of_free_chunk(m, p, s)
set_free_with_pinuse(m, p, s, n) == set_size_and_pinuse_of_free_chunk(clear_pinuse(m, n), p, s)

(************************** bins, victim and top *************************)
Check(m, c)      == IF c THEN m ELSE [m EXCEPT !.ok = FALSE]    \* RTCHECK or assert
ok_address(m, p) == p >= m.least_addr

insert_chunk(m, p, s) ==
    [m EXCEPT !.binned = [x \in DOMAIN @ \cup {p} |-> IF x = p THEN s ELSE @[x]]]
unlink_chunk(m, p, s) ==
    Check([m EXCEPT !.binned = Restrict(@, DOMAIN @ \ {p})],
          p \in DOMAIN m.binned /\ m.binned[p] = s)
set_dv(m, p, s)       == [m EXCEPT !.dv = p, !.dvsize = s]
set_top(m, p, s)      == Write([m EXCEPT !.top = p, !.topsize = s], p, Word(s, FALSE, TRUE))

replace_dv(m, p, s) ==
    set_dv(IF m.dvsize = 0 THEN m ELSE Check(insert_chunk(m, m.dv, m.dvsize), is_small(m.dvsize)), p, s)

\* Consolidate the chunk p of psize with free neighbours and bin the result,
\* or let the victim or top take it.  The chunk need not be marked in use.
dispose_chunk(m, p0, psize0) ==
    LET next  == p0 + psize0
        back  == ~pinuse(m, p0)
        p     == IF back THEN prev_chunk(m, p0) ELSE p0
        psize == psize0 + (p0 - p)
        m1    == IF back /\ p # m.dv THEN unlink_chunk(m, p, p0 - p) ELSE m
        nsize == chunksize(m, next)
    IN  IF ~ok_address(m, p) \/ ~ok_address(m, next) THEN Check(m, FALSE)
        ELSE IF back /\ p = m.dv /\ cinuse(m, next) /\ pinuse(m, next)
        THEN set_dv(set_free_with_pinuse(m1, p, psize, next), p, psize)
        ELSE IF cinuse(m, next)
        THEN insert_chunk(set_free_with_pinuse(m1, p, psize, next), p, psize)
        ELSE IF next = m.top
        THEN set_top(IF p = m.dv THEN set_dv(m1, NULL, 0) ELSE m1, p, m.topsize + psize)
        ELSE IF next = m.dv
        THEN set_dv(set_size_and_pinuse_of_free_chunk(m1, p, m.dvsize + psize), p, m.dvsize + psize)
        ELSE LET m2 == set_size_and_pinuse_of_free_chunk(unlink_chunk(m1, next, nsize), p, psize + nsize)
             IN  IF p = m.dv THEN set_dv(m2, p, psize + nsize) ELSE insert_chunk(m2, p, psize + nsize)

\* p of size s, found free, serves a request of nb: the chunk that is left
\* over, if any, starts at p + nb.
split_off(m, p, s, nb) ==
    IF s - nb < MIN_CHUNK_SIZE THEN set_inuse_and_pinuse(m, p, s)
    ELSE set_size_and_pinuse_of_free_chunk(set_size_and_pinuse_of_inuse_chunk(m, p, nb), p + nb, s - nb)

\* The part of dlmalloc that needs no memory beyond bins and victim: the
\* result is {} or the one chunk used.  first is the chunk that comes first
\* in its bin among those of its size.
Best(m, S, first) ==
    LET least == {c \in S : \A d \in S : m.binned[c] <= m.binned[d]}
    IN  IF first \in least THEN first ELSE Min(least)

from_bins(m, nb, first) ==
    LET fits  == {c \in DOMAIN m.binned : m.binned[c] >= nb}
        exact == {c \in fits : is_small(m.binned[c]) /\ m.binned[c] <= nb + 1}
        v     == Best(m, fits, first)
        s     == m.binned[v]
        rest  == s - nb
        m1    == split_off(unlink_chunk(m, v, s), v, s, nb)
        dvrest == m.dvsize - nb
        m2    == split_off(m, m.dv, m.dvsize, nb)
    IN  IF fits # {} /\ is_small(nb) /\ (exact # {} \/ nb > m.dvsize)
        THEN [m |-> IF rest < MIN_CHUNK_SIZE THEN m1 ELSE replace_dv(m1, v + nb, rest), mem |-> {v}]
        ELSE IF fits # {} /\ ~is_small(nb) /\ rest < Wrap(dvrest)
        THEN [m |-> IF rest < MIN_CHUNK_SIZE THEN m1 ELSE insert_chunk(m1, v + nb, rest), mem |-> {v}]
        ELSE IF nb <= m.dvsize
        THEN [m |-> IF dvrest < MIN_CHUNK_SIZE THEN set_dv(m2, NULL, 0) ELSE set_dv(m2, m.dv + nb, dvrest),
              mem |-> {m.dv}]
        ELSE [m |-> m, mem |-> {}]

\* Split top.
from_top(m, nb) ==
    [m   |-> set_top(set_size_and_pinuse_of_inuse_chunk(m, m.top, nb), m.top + nb, m.topsize - nb),
     mem |-> {m.top}]
===========================================================================
