----------------------------- MODULE Dlmalloc -----------------------------
(* The public functions of malloc.c as one heap used by one thread: every  *)
(* call is an action, and besides the calls the break is moved by code that*)
(* uses sbrk on its own.                                                   *)
EXTENDS DlSystem
LOCAL INSTANCE FiniteSetsExt
LOCAL INSTANCE SequencesExt
LOCAL INSTANCE Functions

CONSTANTS Requests,         \* bytes asked for
          FewRequests,      \* of them, for the calls less often used
          Alignments,       \* of memalign, in units
          Limits,           \* footprint limits the program sets, in units
          Thresholds,       \* of M_TRIM_THRESHOLD and M_MMAP_THRESHOLD, in units
          MaxLive           \* bound: blocks the program holds at a time

VARIABLES m,                \* malloc_state, mparams, the words in memory, the system
          live              \* block the program holds (its chunk) -> [bytes, align]

vars == <<m, live>>

Init ==
    /\ \E trim \in Thresholds, mmapped \in Thresholds :
        m = [head |-> [p \in {} |-> Unwritten], binned |-> [p \in {} |-> 0],
             dv |-> NULL, dvsize |-> 0, top |-> NULL, topsize |-> 0,
             segs |-> <<>>, footprint |-> 0, footprint_limit |-> 0,
             least_addr |-> NULL, trim_check |-> 0, release_checks |-> 0,
             inited |-> FALSE, use_mmap |-> FALSE, contiguous |-> TRUE,
             trim_threshold |-> trim, mmap_threshold |-> mmapped,
             brk |-> BRK_BASE, pages |-> {}, held |-> 0, lost |-> 0, ok |-> TRUE]
    /\ live = [p \in {} |-> [bytes |-> 0, align |-> 1]]

(******************************** malloc *********************************)
dlmalloc(h, e, bytes) ==
    LET nb == IF bytes >= MAX_REQUEST THEN MAX_SIZE_T ELSE request2size(bytes)
        or_more(b) == IF b.mem # {} THEN b
                      ELSE IF nb < h.topsize THEN from_top(h, nb)
                      ELSE sys_alloc(h, e, nb)
    IN  or_more(from_bins(h, nb, e.first))

\* The product is taken modulo the width of size_t: an overflow is noticed
\* and turned into a request that fails.
dlcalloc(h, e, n_elements, elem_size) ==
    LET req == n_elements * elem_size
    IN  dlmalloc(h, e, IF req >= 8 * SIZES THEN 8 * SIZES - 1 ELSE req)

(********************************* free **********************************)
dispose(h, e, p) ==
    IF is_mmapped(h, p) THEN free_mmapped(h, e, p) ELSE dispose_chunk(h, p, chunksize(h, p))
sound(h, p) == ok_address(h, p) /\ is_inuse(h, p)

\* dispose_chunk, then trimming when top has grown, or a scan for segments
\* to release when enough large chunks have been binned.
dlfree(h, e, p) ==
    LET next == next_chunk(h, p)
        h0   == Check(h, sound(h, p) /\ (is_mmapped(h, p) \/ (p < next /\ pinuse(h, next))))
        h1   == dispose(h0, e, p)
        q    == IF pinuse(h, p) THEN p ELSE prev_chunk(h, p)
        h2   == [h1 EXCEPT !.release_checks = @ - 1]
    IN  IF is_mmapped(h, p) THEN h1
        ELSE IF h1.top # h.top
        THEN IF should_trim(h1, h1.topsize) THEN sys_trim(h1, e, 0) ELSE h1
        ELSE IF q \in DOMAIN h1.binned /\ ~is_small(h1.binned[q])
        THEN IF h2.release_checks = 0 THEN release_unused_segments(h2, e) ELSE h2
        ELSE h1

(**************************** realloc, memalign **************************)
\* p is cut down to nb units and the rest of its size units given back.
cut(h, p, size, nb) ==
    dispose_chunk(set_inuse(set_inuse(h, p, nb), p + nb, size - nb), p + nb, size - nb)

try_realloc_chunk(h, e, p, nb, can_move) ==
    LET old     == chunksize(h, p)
        next    == p + old
        nsize   == chunksize(h, next)
        no      == [m |-> h, mem |-> {}]
        done(x) == [m |-> x, mem |-> {p}]
        legal   == sound(h, p) /\ p < next /\ pinuse(h, next)
        taken   == unlink_chunk(h, next, nsize)
        whole   == old + h.dvsize
    IN  IF ~legal THEN [no EXCEPT !.m = Check(@, FALSE)]
        ELSE IF is_mmapped(h, p) THEN mmap_resize(h, e, p, nb, can_move)
        ELSE IF old >= nb
        THEN done(IF old - nb >= MIN_CHUNK_SIZE THEN cut(h, p, old, nb) ELSE h)
        ELSE IF next = h.top
        THEN IF old + h.topsize > nb
             THEN done(set_top(set_inuse(h, p, nb), p + nb, old + h.topsize - nb)) ELSE no
        ELSE IF next = h.dv
        THEN IF whole < nb THEN no
             ELSE IF whole - nb >= MIN_CHUNK_SIZE
             THEN done(set_dv(clear_pinuse(set_size_and_pinuse_of_free_chunk(set_inuse(h, p, nb),
                                  p + nb, whole - nb), p + whole), p + nb, whole - nb))
             ELSE done(set_dv(set_inuse(h, p, whole), NULL, 0))
        ELSE IF cinuse(h, next) \/ old + nsize < nb THEN no
        ELSE IF old + nsize - nb < MIN_CHUNK_SIZE THEN done(set_inuse(taken, p, old + nsize))
        ELSE done(cut(taken, p, old + nsize, nb))

dlrealloc(h, e, p, bytes) ==
    LET moved(n) == IF n.mem = {} THEN n ELSE [n EXCEPT !.m = dlfree(@, e, p)]
        or_moved(r) == IF r.mem # {} \/ ~r.m.ok THEN r ELSE moved(dlmalloc(h, e, bytes))
    IN  IF bytes >= MAX_REQUEST THEN [m |-> h, mem |-> {}]
        ELSE or_moved(try_realloc_chunk(h, e, p, request2size(bytes), TRUE))

dlrealloc_in_place(h, e, p, bytes) ==
    IF bytes >= MAX_REQUEST THEN [m |-> h, mem |-> {}]
    ELSE try_realloc_chunk(h, e, p, request2size(bytes), FALSE)

\* A block too long by the alignment is allocated, the part in front of the
\* aligned address is given back (for a mapped chunk it becomes its offset),
\* and so is the spare room at the end.
power_of_2(a) == CHOOSE k \in {2^i : i \in 1 .. 29} : k >= a /\ k \div 2 < Max({a, 2})
The(mem)      == CHOOSE p \in mem : TRUE

aligned_chunk(p, a) ==
    LET br == align(p + 1, a) - 1
    IN  IF (p + 1) % a = 0 THEN p ELSE IF br - p >= MIN_CHUNK_SIZE THEN br ELSE br + a

free_leader(h, p, newp, size) ==
    IF p = newp THEN h
    ELSE IF is_mmapped(h, p)
    THEN Write(Gone(h, p, newp), newp, [Word(size, FALSE, FALSE) EXCEPT !.foot = word(h, p).foot + (newp - p)])
    ELSE dispose_chunk(set_inuse(set_inuse(h, newp, size), p, newp - p), p, newp - p)

free_remainder(h, p, nb) ==
    IF ~is_mmapped(h, p) /\ chunksize(h, p) > nb + MIN_CHUNK_SIZE THEN cut(h, p, chunksize(h, p), nb) ELSE h

aligned_in(h, p, newp, nb) ==
    [m   |-> free_remainder(free_leader(h, p, newp, next_chunk(h, p) - newp), newp, nb),
     mem |-> {newp}]

internal_memalign(h, e, alignment, bytes) ==
    LET a  == power_of_2(alignment)
        nb == request2size(bytes)
        use(r) == IF r.mem = {} THEN r
                  ELSE aligned_in(r.m, The(r.mem), aligned_chunk(The(r.mem), a), nb)
    IN  IF bytes >= MAX_REQUEST - 8 * a THEN [m |-> h, mem |-> {}]
        ELSE use(dlmalloc(h, e, 8 * (nb + a + MIN_CHUNK_SIZE) - 4))

dlmemalign(h, e, alignment, bytes) ==
    IF alignment <= 1 THEN dlmalloc(h, e, bytes) ELSE internal_memalign(h, e, alignment, bytes)

\* The code goes on only when bytes is too large for internal_memalign to
\* serve: unless the alignment is that of malloc, it never returns memory.
dlposix_memalign(h, e, alignment, bytes) ==
    IF alignment = 1 THEN dlmalloc(h, e, bytes)
    ELSE IF bytes >= MAX_REQUEST - 8 * alignment THEN internal_memalign(h, e, alignment, bytes)
    ELSE [m |-> h, mem |-> {}]

dlvalloc(h, e, bytes)  == dlmemalign(init_mparams(h), e, PAGE, bytes)
dlpvalloc(h, e, bytes) == dlvalloc(h, e, bytes + (8 * PAGE - 1) - ((bytes + 8 * PAGE - 1) % (8 * PAGE)))

(***************************** whole groups ******************************)
\* One chunk allocated with mmap disabled and cut into elements; unless the
\* caller has an array for the pointers, the last part holds them.
carve(h, p, lengths) ==
    LET n == Len(lengths)
        split[i \in 0 .. n] ==       \* what is left: from chunk split[i].p on
            IF i = 0 THEN [m |-> h, p |-> p, left |-> chunksize(h, p)]
            ELSE LET s    == split[i - 1]
                     size == IF i = n THEN s.left ELSE lengths[i]
                 IN  [m    |-> set_size_and_pinuse_of_inuse_chunk(s.m, s.p, size),
                      p    |-> s.p + size,
                      left |-> s.left - size]
    IN  [m |-> Check(split[n].m, ~is_mmapped(h, p)), mem |-> {split[i].p : i \in 0 .. n - 1}]

ialloc(h0, e, sizes, given) ==
    LET array   == IF given THEN <<>> ELSE <<request2size(4 * Len(sizes))>>
        lengths == [i \in DOMAIN sizes |-> request2size(sizes[i])] \o array
        h       == init_mparams(h0)
        reset(r) == [r EXCEPT !.m.use_mmap = h.use_mmap]
        use(r)   == IF r.mem = {} THEN r ELSE carve(r.m, The(r.mem), lengths)
    IN  IF sizes = <<>> THEN IF given THEN [m |-> h, mem |-> {}] ELSE dlmalloc(h, e, 0)
        ELSE use(reset(dlmalloc([h EXCEPT !.use_mmap = FALSE], e, 8 * FoldSeq(+, 0, lengths) - 4)))

\* Neighbours in the array that are neighbours in memory are freed as one.
internal_bulk_free(h, e, array) ==
    LET n == Len(array)
        step[i \in 0 .. n] ==
            IF i = 0 THEN [m |-> h, p |-> array[1]]
            ELSE LET s    == step[i - 1]
                     next == next_chunk(s.m, s.p)
                 IN  IF i < n /\ array[i + 1] = next
                     THEN [m |-> set_inuse(s.m, s.p, chunksize(s.m, next) + chunksize(s.m, s.p)), p |-> s.p]
                     ELSE [m |-> dispose(Check(s.m, sound(s.m, s.p)), e, s.p), p |-> IF i < n THEN array[i + 1] ELSE NULL]
        h1 == IF n = 0 THEN h ELSE step[n].m
    IN  IF should_trim(h1, h1.topsize) THEN sys_trim(h1, e, 0) ELSE h1

(****************************** parameters *******************************)
\* Before init_mparams the granularity is 0 and every limit rounds to 0,
\* which means none.
dlmalloc_set_footprint_limit(h, n) ==
    [h EXCEPT !.footprint_limit = IF n = MAX_SIZE_T \/ ~h.inited THEN 0 ELSE granularity_align(n)]

change_mparam(h, trim, mmapped) ==
    [init_mparams(h) EXCEPT !.trim_threshold = trim, !.mmap_threshold = mmapped]

(******************************** actions ********************************)
\* The answers of the system an operation can see: which of several chunks
\* of a size comes first, and, where the heap cannot serve nb by itself, how
\* sbrk, mmap and munmap end.
Env(F, A, U) == {[first |-> c, breaks |-> a.breaks, map |-> a.map, unmap |-> u] : c \in F, a \in A, u \in U}
NoAnswer   == [first |-> NULL, breaks |-> {}, map |-> FALSE, unmap |-> FALSE]
FreeEnv    == {NoAnswer, [NoAnswer EXCEPT !.breaks = {"release"}, !.unmap = TRUE]}
Firsts     == {NULL} \cup {c \in DOMAIN m.binned : \E d \in DOMAIN m.binned \ {c} : m.binned[c] = m.binned[d]}
Breaks     == {{}, {"other"}, {"extend", "more"}}
                  \cup {{"extend"} \cup S : S \in SUBSET {"release", "other"}}
Answers    == [breaks: Breaks, map: {FALSE}]
                  \cup [breaks: {{}, {"extend"}, {"extend", "release"}}, map: {TRUE}]
Served(nb) == nb < m.topsize \/ nb <= m.dvsize \/ \E c \in DOMAIN m.binned : m.binned[c] >= nb
AllocEnv(nb) == Env(Firsts, IF Served(nb) THEN [breaks: {{}}, map: {FALSE}] ELSE Answers, {FALSE})
ReallocEnv(p, nb) ==
    IF is_mmapped(m, p) THEN Env(Firsts, Answers, {FALSE}) \cup FreeEnv
    ELSE IF nb <= chunksize(m, p) THEN {NoAnswer} ELSE AllocEnv(nb)

Held(f, mem, bytes, align1) ==
    [p \in DOMAIN f \cup mem |-> IF p \in mem THEN [bytes |-> bytes, align |-> align1] ELSE f[p]]
Gives(r, bytes, align1) == m' = r.m /\ live' = Held(live, r.mem, bytes, align1)
Moves(r, p, bytes, align1) ==
    /\ m' = r.m
    /\ live' = IF r.mem = {} THEN live ELSE Held(Restrict(live, DOMAIN live \ {p}), r.mem, bytes, align1)
\* The last of the chunks holds n pointers.
GivesArrayToo(r, bytes, n) ==
    /\ m' = r.m
    /\ live' = Held(Held(live, r.mem, bytes, 1), {p \in r.mem : \A q \in r.mem : q <= p}, 4 * n, 1)
HasRoom(n) == Cardinality(DOMAIN live) + n <= MaxLive

Malloc == HasRoom(1) /\ \E b \in Requests : \E e \in AllocEnv(request2size(b)) : Gives(dlmalloc(m, e, b), b, 1)

\* Sizes whose product overflows are among the calls.
Calloc ==
    HasRoom(1) /\ \E n \in {1, SIZES}, s \in FewRequests : \E e \in AllocEnv(request2size(n * s)) :
        Gives(dlcalloc(m, e, n, s), IF n * s >= 8 * SIZES THEN 0 ELSE n * s, 1)

Free == \E p \in DOMAIN live, e \in FreeEnv :
    m' = dlfree(m, e, p) /\ live' = Restrict(live, DOMAIN live \ {p})

Realloc == \E p \in DOMAIN live, b \in Requests : \E e \in ReallocEnv(p, request2size(b)) :
    Moves(dlrealloc(m, e, p, b), p, b, 1)

ReallocInPlace == \E p \in DOMAIN live, b \in Requests : \E e \in IF is_mmapped(m, p) THEN FreeEnv ELSE {NoAnswer} :
    Moves(dlrealloc_in_place(m, e, p, b), p, b, live[p].align)

\* Aligned blocks are asked for while no other is held (a bound).
Memalign == HasRoom(MaxLive) /\ \E a \in Alignments, b \in FewRequests : \E e \in AllocEnv(request2size(b) + a + MIN_CHUNK_SIZE) :
    \/ Gives(dlmemalign(m, e, a, b), b, a)
    \/ Gives(dlposix_memalign(m, e, a, b), b, a)

Valloc == HasRoom(MaxLive) /\ \E b \in FewRequests : \E e \in AllocEnv(3 * PAGE) :
    Gives(dlvalloc(m, e, b), b, PAGE) \/ Gives(dlpvalloc(m, e, b), b, PAGE)

IndependentAlloc == \E n \in 0 .. MaxLive, b \in FewRequests, given \in BOOLEAN :
    /\ HasRoom(IF given THEN n ELSE n + 1)
    /\ \E e \in AllocEnv(3 * n) :
        IF given THEN Gives(ialloc(m, e, [i \in 1 .. n |-> b], TRUE), b, 1)
                 ELSE GivesArrayToo(ialloc(m, e, [i \in 1 .. n |-> b], FALSE), b, n)

BulkFree == \E array \in SetToSeqs(DOMAIN live), e \in FreeEnv :
    m' = internal_bulk_free(m, e, array) /\ live' = [p \in {} |-> live[p]]

Trim == \E pad \in {0, PAGE}, e \in FreeEnv : m' = sys_trim(m, e, pad) /\ UNCHANGED live

\* The limit is set before the heap has memory (a bound).
SetLimit == ~is_initialized(m) /\ \E n \in Limits : m' = dlmalloc_set_footprint_limit(m, n) /\ UNCHANGED live

Mallopt == \E t, u \in Thresholds : m' = change_mparam(m, t, u) /\ UNCHANGED live

\* Some other code moves the break off its page boundary: once before the
\* heap uses it again, and while no chunk is binned (bounds).
ForeignSbrk ==
    /\ m.binned = [p \in {} |-> 0]
    /\ m.brk = IF m.segs = <<>> THEN BRK_BASE ELSE segment_end(m.segs[1])
    /\ can_sbrk(m, 1) /\ m' = [m EXCEPT !.brk = @ + 1] /\ UNCHANGED live

Next == \/ Malloc \/ Calloc \/ Free \/ Realloc \/ ReallocInPlace \/ Memalign \/ Valloc
        \/ IndependentAlloc \/ BulkFree \/ Trim \/ SetLimit \/ Mallopt \/ ForeignSbrk

Spec == Init /\ [][Next]_vars

(******************************* properties ******************************)
\* Chunks met from the first of segment s to top, a fencepost or its end.
chunks(h, s) ==
    LET from[q \in s.base .. segment_end(s)] ==
            IF q = h.top \/ word(h, q).size = 0 \/ next_chunk(h, q) > segment_end(s) THEN {}
            ELSE {q} \cup from[next_chunk(h, q)]
    IN  from[s.base]
Walked  == UNION {chunks(m, m.segs[i]) : i \in DOMAIN m.segs}
Mapped  == {p \in DOMAIN live : is_mmapped(m, p)}
Total(S) == SumFunctionOnSet([p \in S |-> chunksize(m, p)], S)

do_check_inuse_chunk(p) ==
    is_inuse(m, p) /\ pinuse(m, next_chunk(m, p)) /\ (pinuse(m, p) \/ next_chunk(m, prev_chunk(m, p)) = p)

do_check_free_chunk(p) ==
    LET next == next_chunk(m, p)
    IN  /\ ~is_inuse(m, p) /\ pinuse(m, p) /\ ~pinuse(m, next)
        /\ chunksize(m, p) >= MIN_CHUNK_SIZE
        /\ word(m, next).foot = chunksize(m, p)
        /\ next = m.top \/ is_inuse(m, next)

do_check_mmapped_chunk(p) ==
    /\ ~is_small(chunksize(m, p))
    /\ (chunksize(m, p) + word(m, p).foot + MMAP_FOOT_PAD) % PAGE = 0
    /\ word(m, next_chunk(m, p)) = FENCEPOST

do_check_top_chunk ==
    LET s == m.segs[segment_holding(m, m.top)]
    IN  /\ chunksize(m, m.top) = m.topsize /\ m.topsize > 0
        /\ m.topsize = segment_end(s) - m.top - TOP_FOOT_SIZE
        /\ pinuse(m, m.top) /\ ~is_inuse(m, m.top) /\ ~pinuse(m, m.top + m.topsize)

\* do_check_malloc_state, with traverse_and_check: every chunk of every
\* segment has consistent head and foot words, no two free chunks touch,
\* and bins, victim and top hold exactly the free ones.  No RTCHECK has called
\* the corruption or usage error action, and no assertion would have failed.
MallocStateIsChecked ==
    LET walked == Walked
    IN  /\ m.ok
        /\ m.top # NULL => do_check_top_chunk
        /\ m.dvsize # 0 => m.dv \in walked /\ m.dvsize = chunksize(m, m.dv) /\ m.dv \notin DOMAIN m.binned
        /\ \A p \in walked : IF is_inuse(m, p) THEN do_check_inuse_chunk(p) ELSE do_check_free_chunk(p)
        /\ \A p \in Mapped : do_check_mmapped_chunk(p)
        /\ {p \in walked : ~is_inuse(m, p)} = DOMAIN m.binned \cup (IF m.dvsize = 0 THEN {} ELSE {m.dv})
        /\ \A p \in DOMAIN m.binned : m.binned[p] = chunksize(m, p)
        /\ is_initialized(m) => Total(walked) + m.topsize + TOP_FOOT_SIZE <= m.footprint

\* A block the program holds is big enough, aligned, and in memory the heap
\* still has; blocks do not overlap, and no chunk in use is anything but a
\* block or a segment's record: nothing is handed out twice or forgotten.
\* (A mapped block that memalign moved into its region may be too short by
\* as much after a resize: mmap_resize does not count the offset.)
BlocksAreApart ==
    /\ \A p \in DOMAIN live :
        /\ usable(m, p) + (IF p \in Mapped THEN 8 * word(m, p).foot ELSE 0) >= live[p].bytes
        /\ (p + 1) % live[p].align = 0
        /\ p \in Mapped => \A a \in p .. next_chunk(m, p) : a \div PAGE \in m.pages
        /\ \A q \in DOMAIN live : p < q => next_chunk(m, p) <= q
    /\ {p \in Walked : is_inuse(m, p)} =
           (DOMAIN live \ Mapped) \cup {m.segs[i].at - 1 : i \in DOMAIN m.segs \ {1}}
    /\ \A i, j \in DOMAIN m.segs : m.segs[i].base < m.segs[j].base =>
            segment_end(m.segs[i]) <= m.segs[j].base

\* footprint is what the system gave and has not been given back, but for
\* memory that sys_alloc can neither use nor give back: a break that it cannot
\* extend enough and not move back, or what its third way drops as too little.
\* Memory is lost only once it has stopped trusting the break.
FootprintIsMemoryHeld ==
    /\ m.footprint + m.lost = m.held
    /\ m.lost # 0 => ~m.contiguous

\* A call that takes memory from the system respects the limit set, but for
\* two calls that do not look: mmap_resize(), and the first call, when it has
\* to align the break and then gets its memory elsewhere.
LimitHolds ==
    [][(/\ m.footprint_limit # 0 /\ m'.footprint > m.footprint
        /\ \A p \in Mapped : p \in DOMAIN live' /\ chunksize(m', p) = chunksize(m, p))
       => m'.footprint <= m.footprint_limit + (IF is_initialized(m) THEN 0 ELSE PAGE - 1)]_vars
===========================================================================
