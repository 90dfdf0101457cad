----------------------------- MODULE DlSystem -----------------------------
(* dlmalloc and the system (malloc.c): segments, getting memory with       *)
(* MORECORE (sbrk) and MMAP, giving it back, directly mapped chunks.  What *)
(* the system answers to the calls of one operation is a record e:         *)
(*   breaks  which of its sbrk calls succeed: the one that extends top's   *)
(*           segment, the one for more, the one that releases, the other   *)
(*           one, for memory that need not be next to a segment            *)
(*   map     whether mmap and a moving mremap succeed: they take the       *)
(*           highest room, as Linux does                                   *)
(*   unmap   whether munmap and an mremap in place succeed                 *)
(*   first   the chunk that comes first in its bin                         *)
EXTENDS DlChunks
LOCAL INSTANCE FiniteSetsExt
LOCAL INSTANCE SequencesExt

CONSTANTS MmapPages,        \* pages mmap may use
          BRK_BASE, BRK_MAX, \* first break and the end of the room for it
          MAX_RELEASE_CHECK_RATE  \* 4095

ASSUME SystemAssumption ==
    /\ MmapPages \subseteq Nat \ {0}
    /\ \A n \in MmapPages : (n + 1) * PAGE <= BRK_BASE \/ n * PAGE >= BRK_MAX
    /\ BRK_BASE \in PAGE .. BRK_MAX /\ BRK_MAX < SIZES
    /\ MAX_RELEASE_CHECK_RATE \in Nat \ {0}

(****************************** the system *******************************)
PagesOf(a, n)    == {k \in MmapPages : (k + 1) * PAGE > a /\ k * PAGE < a + n}
Rooms(m, n)      == {k \in MmapPages : k .. k + ((n - 1) \div PAGE) \subseteq MmapPages \ m.pages}
can_mmap(m, e, n) == e.map /\ Rooms(m, n) # {}
place(m, n)      == PAGE * Max(Rooms(m, n))
mmap(m, a, n)    == [m EXCEPT !.pages = @ \cup PagesOf(a, n), !.held = @ + n]
munmap(m, a, n)  == Gone([m EXCEPT !.pages = {k \in @ : k * PAGE < a \/ k * PAGE >= a + n},
                                   !.held = @ - n], a, a + n)
can_sbrk(m, n)   == m.brk + n <= BRK_MAX
sbrk(m, n)       == [m EXCEPT !.brk = @ + n, !.held = @ + n]

(******************************* segments ********************************)
\* A segment's record lies at its field at, or in malloc_state (NULL) for
\* the most recent one, which comes first and holds top.
is_initialized(m)    == m.top # NULL
segment_end(s)       == s.base + s.size
segment_holds(s, a)  == a >= s.base /\ a < segment_end(s)
segment_holding(m, a) == CHOOSE i \in DOMAIN m.segs : segment_holds(m.segs[i], a)
has_segment_link(m, s) == \E i \in DOMAIN m.segs : segment_holds(s, m.segs[i].at)
should_trim(m, s)    == s > m.trim_check

\* A slip the runs must notice: what is about to be added does not count.
OverLimitBefore(m, n) == m.footprint_limit # 0 /\ m.footprint > m.footprint_limit
OverLimit(m, n) ==
    LET fp == Wrap(m.footprint + n)
    IN  m.footprint_limit # 0 /\ (fp <= m.footprint \/ fp > m.footprint_limit)

Grown(m, base, n) ==
    LET fp == m.footprint + n
    IN  [m EXCEPT !.footprint = fp, !.least_addr = IF @ = NULL \/ base < @ THEN base ELSE @]

init_top(m, p, psize) ==
    Write([set_top(m, p, psize) EXCEPT !.trim_check = m.trim_threshold],
          p + psize, Word(TOP_FOOT_SIZE, FALSE, FALSE))

\* The page just below a segment: its memory becomes the chunk asked for
\* and a free chunk merged with the first one of the segment.
prepend_alloc(m, newbase, oldfirst, nb) ==
    LET q     == newbase + nb
        qsize == oldfirst - q
        m1    == Check(set_size_and_pinuse_of_inuse_chunk(m, newbase, nb),
                       qsize >= MIN_CHUNK_SIZE /\ pinuse(m, oldfirst))
        nsize == chunksize(m, oldfirst)
    IN  IF oldfirst = m.top THEN set_top(m1, q, m.topsize + qsize)
        ELSE IF oldfirst = m.dv
        THEN set_dv(set_size_and_pinuse_of_free_chunk(m1, q, m.dvsize + qsize), q, m.dvsize + qsize)
        ELSE IF is_inuse(m, oldfirst)
        THEN insert_chunk(set_free_with_pinuse(m1, q, qsize, oldfirst), q, qsize)
        ELSE insert_chunk(set_free_with_pinuse(unlink_chunk(m1, oldfirst, nsize), q, qsize + nsize,
                                               oldfirst + nsize), q, qsize + nsize)

\* The old top is closed: a chunk holding the old segment's record, then
\* fenceposts, and what is left in front of them becomes a free chunk.
add_segment(m, tbase, tsize, mm) ==
    LET old_top == m.top
        i       == segment_holding(m, old_top)
        old_end == segment_end(m.segs[i])
        asp     == old_end - TOP_FOOT_SIZE
        csp     == IF asp < old_top + MIN_CHUNK_SIZE THEN old_top ELSE asp
        m1      == set_size_and_pinuse_of_inuse_chunk(init_top(m, tbase, tsize - TOP_FOOT_SIZE),
                                                      csp, SEGMENT_CHUNK)
        m2      == Write(Gone(m1, csp + SEGMENT_CHUNK, old_end), csp + SEGMENT_CHUNK, FENCEPOST)
        m3      == Check([m2 EXCEPT !.segs = <<[base |-> tbase, size |-> tsize, mm |-> mm, at |-> NULL],
                                               [@[1] EXCEPT !.at = csp + 1]>> \o Tail(@)],
                         csp + SEGMENT_CHUNK + 2 <= old_end)
        psize   == csp - old_top
    IN  IF csp = old_top THEN m3
        ELSE insert_chunk(set_free_with_pinuse(m3, old_top, psize, csp), old_top, psize)

(*************************** getting memory ******************************)
mmap_size(nb) == page_align(nb + 4)   \* six words and the alignment mask

\* A slip the runs must notice: no room is kept for the fencepost behind the chunk.
mmap_alloc_unpadded(m, e, nb) ==
    LET mmsize == mmap_size(nb)
        p      == place(m, mmsize)
    IN  IF OverLimit(m, mmsize) \/ ~can_mmap(m, e, mmsize) THEN [m |-> m, mem |-> {}]
        ELSE [m |-> Write(Grown(mmap(m, p, mmsize), p, mmsize), p, Word(mmsize, FALSE, FALSE)), mem |-> {p}]
mmap_alloc(m, e, nb) ==
    LET mmsize == mmap_size(nb)
        p      == place(m, mmsize)
        psize  == mmsize - MMAP_FOOT_PAD
    IN  IF OverLimit(m, mmsize) \/ mmsize <= nb \/ ~can_mmap(m, e, mmsize) THEN [m |-> m, mem |-> {}]
        ELSE [m   |-> Write(Write(Grown(mmap(m, p, mmsize), p, mmsize), p, Word(psize, FALSE, FALSE)),
                            p + psize, FENCEPOST),
              mem |-> {p}]

\* ensure_initialization(): init_mparams sets the flags once.
init_mparams(m) == IF m.inited THEN m ELSE [m EXCEPT !.inited = TRUE, !.use_mmap = TRUE]

\* 1. MORECORE as it normally extends the top segment.  The request is
\* reduced by what top has; asize keeps that value for what follows.  The
\* result has tsize 0 when the system refused, or gave too little and refused
\* more: what it gave is then released, and lost when the system refuses that.
contiguous_morecore(m, e, nb, asize0) ==
    LET first == ~is_initialized(m)
        base  == m.brk
        asize == IF first THEN Wrap(asize0 + page_align(base) - base)
                          ELSE granularity_align(nb - m.topsize + SYS_ALLOC_PADDING)
        got   == /\ asize < HALF_MAX_SIZE_T /\ "extend" \in e.breaks /\ can_sbrk(m, asize)
                 /\ first => asize > nb /\ ~OverLimit(m, asize)
        here  == first \/ base = segment_end(m.segs[segment_holding(m, m.top)])
        esize == granularity_align(nb + SYS_ALLOC_PADDING - asize)
        short == ~here /\ asize < nb + SYS_ALLOC_PADDING
        more  == short /\ "more" \in e.breaks /\ can_sbrk(sbrk(m, asize), esize)
        size  == IF more THEN asize + esize ELSE asize
        freed == IF ~got \/ "release" \in e.breaks THEN m ELSE [sbrk(m, asize) EXCEPT !.lost = @ + asize]
    IN  IF got /\ (short => more)
        THEN [m |-> sbrk(m, size), tbase |-> base, tsize |-> size, mm |-> FALSE, asize |-> size]
        ELSE [m |-> [freed EXCEPT !.contiguous = FALSE], tbase |-> NULL, tsize |-> 0, mm |-> FALSE, asize |-> asize]

\* 2. MMAP, 3. MORECORE that need not extend the segment: what it returns is
\* lost when it is too little.
other_memory(g, e, nb) ==
    LET n == g.asize
    IN  IF can_mmap(g.m, e, n)
        THEN [g EXCEPT !.m = mmap(@, place(@, n), n), !.tbase = place(g.m, n), !.tsize = n, !.mm = TRUE]
        ELSE IF n >= HALF_MAX_SIZE_T \/ "other" \notin e.breaks \/ ~can_sbrk(g.m, n) THEN g
        ELSE IF n > nb + TOP_FOOT_SIZE
        THEN [g EXCEPT !.m = sbrk(@, n), !.tbase = g.m.brk, !.tsize = n]
        ELSE [g EXCEPT !.m = [sbrk(@, n) EXCEPT !.lost = @ + n]]

\* The memory obtained becomes the first segment, extends the one that holds
\* top, is prepended to one, or makes a new one.
install(m, g, nb) ==
    LET below == {i \in DOMAIN m.segs : segment_end(m.segs[i]) = g.tbase}
        above == {i \in DOMAIN m.segs : m.segs[i].base = g.tbase + g.tsize}
        i     == Min(below)
        j     == Min(above)
        serve(n) == IF nb < n.topsize THEN from_top(n, nb) ELSE [m |-> n, mem |-> {}]
    IN  IF ~is_initialized(m)
        THEN serve(init_top([m EXCEPT !.segs = <<[base |-> g.tbase, size |-> g.tsize, mm |-> g.mm, at |-> NULL]>>,
                                      !.release_checks = MAX_RELEASE_CHECK_RATE],
                            g.tbase, g.tsize - TOP_FOOT_SIZE))
        ELSE IF below # {} /\ m.segs[i].mm = g.mm /\ segment_holds(m.segs[i], m.top)
        THEN serve(init_top([m EXCEPT !.segs[i].size = @ + g.tsize], m.top, m.topsize + g.tsize))
        ELSE IF above # {} /\ m.segs[j].mm = g.mm
        THEN [m   |-> prepend_alloc([m EXCEPT !.segs[j].base = g.tbase, !.segs[j].size = @ + g.tsize],
                                    g.tbase, m.segs[j].base, nb),
              mem |-> {g.tbase}]
        ELSE serve(add_segment(m, g.tbase, g.tsize, g.mm))

use_segments(m, e, nb) ==
    LET asize   == granularity_align(nb + SYS_ALLOC_PADDING)
        none    == [m |-> m, tbase |-> NULL, tsize |-> 0, mm |-> FALSE, asize |-> asize]
        or_other(g) == IF g.tsize = 0 THEN other_memory(g, e, nb) ELSE g
        use(g)  == IF g.tsize = 0 THEN [m |-> g.m, mem |-> {}]
                   ELSE install(Grown(g.m, g.tbase, g.tsize), g, nb)
    IN  IF asize <= nb \/ OverLimit(m, asize) THEN [m |-> m, mem |-> {}]
        ELSE use(or_other(IF m.contiguous THEN contiguous_morecore(m, e, nb, asize) ELSE none))

sys_alloc(m0, e, nb) ==
    LET m == init_mparams(m0)
        or_segments(direct) == IF direct.mem # {} THEN direct ELSE use_segments(m, e, nb)
    IN  or_segments(IF m.use_mmap /\ nb >= m.mmap_threshold /\ m.topsize # 0
                    THEN mmap_alloc(m, e, nb) ELSE [m |-> m, mem |-> {}])

(*************************** giving it back ******************************)
\* A mapped segment but the first is unmapped when one free chunk fills it.
Releasable(m, i) ==
    LET s == m.segs[i]
    IN  /\ i > 1 /\ s.mm /\ ~is_inuse(m, s.base)
        /\ next_chunk(m, s.base) >= segment_end(s) - TOP_FOOT_SIZE

release_segment(m, e, i) ==
    LET s  == m.segs[i]
        p  == s.base
        n  == chunksize(m, p)
        m1 == IF p = m.dv THEN set_dv(m, NULL, 0) ELSE unlink_chunk(m, p, n)
    IN  IF e.unmap
        THEN [munmap(m1, p, s.size) EXCEPT !.footprint = @ - s.size, !.segs = RemoveAt(@, i)]
        ELSE insert_chunk(m1, p, n)

release_unused_segments(m, e) ==
    LET pass[i \in 0 .. Len(m.segs)] ==      \* from the last to the first: none affects another
            IF i = 0 THEN m
            ELSE LET j == Len(m.segs) + 1 - i
                 IN  IF Releasable(m, j) THEN release_segment(pass[i - 1], e, j) ELSE pass[i - 1]
    IN  [pass[Len(m.segs)] EXCEPT !.release_checks = Max({Len(m.segs) - 1, MAX_RELEASE_CHECK_RATE})]

\* Give back whole pages of top but one, keeping pad units.
trim_top(m, e, pad) ==
    LET extra == (((m.topsize - pad + PAGE - 1) \div PAGE) - 1) * PAGE
        i     == segment_holding(m, m.top)
        s     == m.segs[i]
        end   == segment_end(s)
        fits  == IF s.mm THEN s.size >= extra /\ ~has_segment_link(m, s) /\ e.unmap
                         ELSE m.brk = end /\ "release" \in e.breaks
        m1    == IF s.mm THEN munmap(m, end - extra, extra)
                         ELSE Gone(sbrk(m, -extra), end - extra, end)
    IN  IF m.topsize <= pad \/ extra = 0 \/ ~fits THEN m
        ELSE init_top([m1 EXCEPT !.segs[i].size = @ - extra, !.footprint = @ - extra],
                      m.top, m.topsize - extra)

sys_trim(m0, e, pad) ==
    LET m  == init_mparams(m0)
        m1 == trim_top(m, e, pad + TOP_FOOT_SIZE)
        m2 == release_unused_segments(m1, e)
    IN  IF 8 * pad >= MAX_REQUEST \/ ~is_initialized(m) THEN m
        ELSE IF m2.footprint = m.footprint /\ m2.topsize > m2.trim_check
        THEN [m2 EXCEPT !.trim_check = MAX_SIZE_T]
        ELSE m2

\* A slip the runs must notice: the offset in front is not counted.
free_mmapped_from_chunk(m, e, p) ==
    LET n == chunksize(m, p) + MMAP_FOOT_PAD
    IN  IF e.unmap THEN [munmap(m, prev_chunk(m, p), n + (p - prev_chunk(m, p))) EXCEPT !.footprint = @ - n] ELSE m
\* A directly mapped chunk is unmapped with the offset in front of it.
free_mmapped(m, e, p) ==
    LET a == prev_chunk(m, p)
        n == next_chunk(m, p) + MMAP_FOOT_PAD - a
    IN  IF e.unmap THEN [munmap(m, a, n) EXCEPT !.footprint = @ - n] ELSE m

mmap_resize(m, e, p, nb, can_move) ==
    LET old    == chunksize(m, p)
        offset == word(m, p).foot
        a      == p - offset
        oldn   == old + offset + MMAP_FOOT_PAD
        newn   == mmap_size(nb)
        m0     == munmap(m, a, oldn)
        inplace == e.unmap /\ PagesOf(a, newn) \cap m0.pages = {}
                   /\ Cardinality(PagesOf(a, newn)) * PAGE = newn
        moved  == can_move /\ can_mmap(m, e, newn)
        b      == IF inplace THEN a ELSE place(m, newn)
        q      == b + offset
        psize  == newn - offset - MMAP_FOOT_PAD
        m1     == Write(Write(mmap(m0, b, newn), q, [Word(psize, FALSE, FALSE) EXCEPT !.foot = offset]),
                        q + psize, FENCEPOST)
    IN  IF is_small(nb) THEN [m |-> m, mem |-> {}]
        ELSE IF old >= nb + 1 /\ old - nb <= 2 * PAGE THEN [m |-> m, mem |-> {p}]
        ELSE IF inplace \/ moved
        THEN [m |-> Grown([m1 EXCEPT !.footprint = @ - oldn], b, newn), mem |-> {q}]
        ELSE [m |-> m, mem |-> {}]
===========================================================================
