-------------------------------- MODULE Heap --------------------------------
(***************************************************************************)
(* The boundary-tag heap of core/heap.c, word by word, as core/kheap.c     *)
(* drives it: Kmalloc and KFree are called by the one kernel thread, so a  *)
(* call is one step.                                                       *)
(*                                                                         *)
(* The address space is scaled down from 2^32 bytes to 2 * TOP words; a    *)
(* word is a number below 2 * TOP, and addresses count words.  As on the   *)
(* machine, every word is an address and every address can be read: TOP    *)
(* is the scaled 2^31, the in_use bit of a header_t, and the heap lies     *)
(* above it, as 0xC0000000 does.  sizeof(header_t), sizeof(footer_t) and   *)
(* P_SIZE are one word.                                                    *)
(***************************************************************************)
EXTENDS Integers, FiniteSets, Sequences

CONSTANTS
    TOP,        \* the in_use bit of a header, and half of the address space
    Start,      \* FreePage when heap_init runs: the address of the first page
    PAGE,       \* PAGE_SIZE, in words
    Requests,   \* the sizes, in words, that the kernel asks Kmalloc for
    MaxPages,   \* bound: the pages GetFreePages hands to the heap
    Below, Above    \* what the words below and above the first page's blocks
                \* may contain, which nobody initialises; other fresh RAM
                \* reads as zero

Addr == 0 .. (2 * TOP - 1)
NULL == 0
WORD == 4       \* bytes of a word

ASSUME HeapAssumption ==
    /\ TOP \in Nat /\ PAGE \in Nat /\ Start \in Nat /\ MaxPages \in Nat \ {0}
    /\ PAGE >= 8
    /\ Start > TOP
    /\ Start + PAGE * MaxPages + 3 < 2 * TOP
    /\ Requests \subseteq 1 .. (TOP - 3)
    /\ Below \subseteq Addr /\ Above \subseteq Addr

VARIABLES
    mem,        \* the words of memory
    HeapInited, \* kheap.c: Kmalloc goes to the heap
    end,        \* heap.c: end of the last page
    FreePage,   \* paging.c: the first page never handed out
    live,       \* what the kernel holds: address of an allocation -> size asked for
    mishaps     \* history: the accidents that heap.c does not look for, so far

vars == <<mem, HeapInited, end, FreePage, live, mishaps>>

\* heap.c: start of the first page; heap_init puts the list's sentinel there.
free_list == Start

\* heap_init gives the first block PAGE_SIZE - 8 bytes behind three words, so
\* the blocks of the first page end two words past its end.
FirstHeader == Start + 2
ArenaEnd == Start + PAGE + 2

-----------------------------------------------------------------------------
(* Headers: 31 bits of size, one bit of in_use.                            *)

size(w) == w % TOP
in_use(w) == w >= TOP

SetSize(m, h, s) == [m EXCEPT ![h] = (s % TOP) + (IF in_use(@) THEN TOP ELSE 0)]
SetInUse(m, h) == [m EXCEPT ![h] = size(@) + TOP]
ClearInUse(m, h) == [m EXCEPT ![h] = size(@)]

\* Pointer arithmetic wraps at the end of the address space.
At(a) == a % (2 * TOP)

entry_of(h) == At(h + 1)
header_of_free_block(e) == At(e - 1)
footer_of(m, h) == At(h + 1 + size(m[h]))
next_block(m, h) == At(footer_of(m, h) + 1)

-----------------------------------------------------------------------------
(* The free list: an entry is the first payload word of a free block and   *)
(* holds the address of the next entry.                                    *)

\* free_list_find: the entry of h, or NULL.  The walk starts at the sentinel.
free_list_find(m, h) ==
    LET walk[e \in Addr] ==
            IF e = NULL \/ header_of_free_block(e) = h THEN e ELSE walk[m[e]]
    IN  walk[free_list]

\* A slip the runs must notice: the new entry goes to the front.
free_list_insert_Front(m, h) ==
    IF free_list_find(m, h) # NULL
      THEN m
      ELSE [m EXCEPT ![entry_of(h)] = m[free_list], ![free_list] = entry_of(h)]

\* free_list_insert: before the first entry whose block is at least as large.
free_list_insert(m, h) ==
    LET walk[e \in Addr] ==
            IF m[e] # NULL /\ size(m[header_of_free_block(m[e])]) < size(m[h])
              THEN walk[m[e]] ELSE e
        prev == walk[free_list]
    IN  IF free_list_find(m, h) # NULL
          THEN m
          ELSE [m EXCEPT ![entry_of(h)] = m[prev], ![prev] = entry_of(h)]

\* free_list_delete(free_list_find(h)): what every caller does.
free_list_delete(m, h) ==
    LET to_delete == free_list_find(m, h)
        walk[e \in Addr] ==
            IF m[e] # NULL /\ m[e] # to_delete THEN walk[m[e]] ELSE e
        prev == walk[free_list]
    IN  IF m[prev] # NULL THEN [m EXCEPT ![prev] = m[m[prev]]] ELSE m

\* free_list_find_can_fill: the first header on the list, the word below the
\* sentinel included, whose size field is large enough.
free_list_find_can_fill(m, s) ==
    LET walk[e \in Addr] ==
            CASE e = NULL -> NULL
              [] e # NULL /\ size(m[header_of_free_block(e)]) >= s -> header_of_free_block(e)
              [] OTHER -> walk[m[e]]
    IN  walk[free_list]

-----------------------------------------------------------------------------
(* Splitting and merging blocks.                                           *)

spilt_block(m, h, s) ==
    LET m1 == free_list_delete(m, h)
        first_footer == At(h + s + 1)
        second_header == At(first_footer + 1)
        second_footer == footer_of(m1, h)
        m2 == SetSize([m1 EXCEPT ![first_footer] = h], h, s)
        m3 == [m2 EXCEPT ![second_footer] = second_header,
                         ![second_header] = (second_footer - second_header - 1) % TOP]
    IN  free_list_insert(free_list_insert(m3, h), second_header)

\* A slip the runs must notice: the footer keeps pointing at the second block.
merge_block_OldFooter(m, first, second) ==
    LET m1 == free_list_delete(free_list_delete(m, first), second)
    IN  SetSize(m1, first, footer_of(m1, second) - first - 1)

merge_block(m, first, second) ==
    LET m1 == free_list_delete(free_list_delete(m, first), second)
        second_footer == footer_of(m1, second)
    IN  SetSize([m1 EXCEPT ![second_footer] = first], first, second_footer - first - 1)

-----------------------------------------------------------------------------
(* Growing the heap.                                                       *)

\* The number extend_heap passes to get_free_pages for a request of s words.
pages_to_extend(s) == IF s >= PAGE THEN ((s * WORD) \div (PAGE * WORD)) + 1 ELSE s * WORD

\* GetFreePages: the unused-page list is empty, so pages come off FreePage.
GetFreePages(n) == [pages |-> FreePage, next |-> FreePage + n * PAGE]

\* extend_heap.  new_header is a header_t *, so new_header + PAGE_SIZE - 4
\* and new_header += P_SIZE advance by words, not bytes.
extend_heap(m, s) ==
    LET n == pages_to_extend(s)
        got == GetFreePages(n)
        new_pages == got.pages
        new_footer == At(new_pages + PAGE * WORD - WORD)
        flat == end = new_pages
        orig_header == m[At(end - 2)]
        m1 == IF ~flat
                THEN [m EXCEPT ![new_pages] = NULL]
                ELSE IF orig_header # NULL /\ ~in_use(m[orig_header])
                       THEN merge_block(m, orig_header, new_pages)
                       ELSE m
        new_header == IF flat THEN new_pages ELSE At(new_pages + WORD)
        m2 == [m1 EXCEPT ![At(new_pages + n * PAGE - 1)] = NULL]
        m3 == [m2 EXCEPT ![new_header] = (new_footer - new_header - 1) % TOP]
    IN  [mem |-> free_list_insert(m3, new_header), header |-> new_header,
         end |-> new_pages + n * PAGE, FreePage |-> got.next]

-----------------------------------------------------------------------------
(* Allocating and freeing.                                                 *)

\* The block alloc_memory starts from, before it is split.
header_to_use(s) ==
    LET found == free_list_find_can_fill(mem, s + 2)
    IN  IF found # NULL
          THEN [mem |-> mem, header |-> found, end |-> end, FreePage |-> FreePage]
          ELSE extend_heap(mem, s)

\* A slip the runs must notice: the block is handed out and still marked free.
alloc_memory_Unmarked(s) ==
    LET use == header_to_use(s)
        h == use.header
        m1 == IF size(use.mem[h]) > s THEN spilt_block(use.mem, h, s) ELSE use.mem
    IN  [use EXCEPT !.mem = free_list_delete(m1, h)]

alloc_memory(s) ==
    LET use == header_to_use(s)
        h == use.header
        m1 == IF size(use.mem[h]) > s THEN spilt_block(use.mem, h, s) ELSE use.mem
    IN  [use EXCEPT !.mem = free_list_delete(SetInUse(m1, h), h)]

\* Slips the runs must notice: the next block is not merged; or it is merged
\* without a look at its in_use bit.
free_memory_PrevOnly(m, address_to_free) ==
    LET curr_header == At(address_to_free - 1)
        prev_header == m[At(curr_header - 1)]
        merge_prev == prev_header # NULL /\ ~in_use(m[prev_header])
        m1 == IF merge_prev THEN merge_block(m, prev_header, curr_header) ELSE m
        h == IF merge_prev THEN prev_header ELSE curr_header
    IN  free_list_insert(ClearInUse(m1, h), h)
free_memory_AnyNext(m, address_to_free) ==
    LET curr_header == At(address_to_free - 1)
        next_header == next_block(m, curr_header)
        m1 == IF m[next_header] # NULL THEN merge_block(m, curr_header, next_header) ELSE m
    IN  free_list_insert(ClearInUse(m1, curr_header), curr_header)

free_memory(m, address_to_free) ==
    LET curr_header == At(address_to_free - 1)
        next_header == next_block(m, curr_header)
        prev_header == m[At(curr_header - 1)]
        merge_prev == prev_header # NULL /\ ~in_use(m[prev_header])
        m1 == IF merge_prev THEN merge_block(m, prev_header, curr_header) ELSE m
        h == IF merge_prev THEN prev_header ELSE curr_header
        m2 == IF m1[next_header] # NULL /\ ~in_use(m1[next_header])
                THEN merge_block(m1, h, next_header) ELSE m1
    IN  free_list_insert(ClearInUse(m2, h), h)

-----------------------------------------------------------------------------
(* The accidents, by name.  After one of them the words of the heap may    *)
(* mean anything; up to it the properties below say what they mean.        *)

\* "grown": no block was large enough and extend_heap built one.  "below": the
\* word below the page was taken for a header.  "empty": the block is larger
\* than the request by just a header and a footer, so that the rest has no
\* payload and its entry of the free list lies on its footer.
alloc_mishaps(s) ==
    LET found == free_list_find_can_fill(mem, s + 2)
    IN  {x \in {"grown", "below", "empty"} :
            \/ x = "grown" /\ found = NULL
            \/ x = "below" /\ found = Start - 1
            \/ x = "empty" /\ found # NULL /\ size(mem[found]) = s + 2}

-----------------------------------------------------------------------------
(* The steps of the kernel.                                                *)

Init ==
    /\ \E below \in Below, above \in Above :
           mem = [a \in Addr |-> IF a = Start - 1 THEN below
                                   ELSE IF a = ArenaEnd THEN above ELSE 0]
    /\ HeapInited = FALSE
    /\ FreePage = Start
    /\ end = NULL
    /\ live = << >>
    /\ mishaps = {}

\* heap_init: one page, the two protect words, the first block, the sentinel.
HeapInit ==
    /\ ~HeapInited
    /\ HeapInited' = TRUE
    /\ LET page_end == GetFreePages(1).next
       IN  /\ mem' = [mem EXCEPT ![Start + 1] = NULL,
                                 ![page_end + 1] = NULL,
                                 ![page_end - 2] = FirstHeader,
                                 ![FirstHeader] = PAGE - 2,
                                 ![Start] = FirstHeader + 1,
                                 ![FirstHeader + 1] = NULL]
           /\ end' = page_end
           /\ FreePage' = page_end
    /\ UNCHANGED <<live, mishaps>>

\* Kmalloc once the heap is up.  MaxPages bounds how often it may grow.
Kmalloc(s) ==
    /\ HeapInited
    /\ LET done == alloc_memory(s)
           address == At(done.header + 1)
       IN  /\ done.FreePage <= Start + MaxPages * PAGE
           /\ mem' = done.mem
           /\ end' = done.end
           /\ FreePage' = done.FreePage
           /\ live' = [a \in DOMAIN live \cup {address} |-> IF a = address THEN s ELSE live[a]]
    /\ mishaps' = mishaps \cup alloc_mishaps(s)
    /\ UNCHANGED HeapInited

\* KFree of an address the kernel holds.
KFree(address) ==
    /\ address \in DOMAIN live
    /\ mem' = free_memory(mem, address)
    /\ live' = [a \in DOMAIN live \ {address} |-> live[a]]
    /\ UNCHANGED <<HeapInited, end, FreePage, mishaps>>

Next ==
    \/ HeapInit
    \/ \E s \in Requests : Kmalloc(s)
    \/ \E address \in DOMAIN live : KFree(address)

Spec == Init /\ [][Next]_vars

-----------------------------------------------------------------------------
(* What the words of the heap mean.                                        *)

\* The blocks of the first page, in the order of their addresses.
Blocks ==
    LET walk[h \in Addr] ==
            IF h >= ArenaEnd THEN {} ELSE {h} \cup walk[next_block(mem, h)]
    IN  IF HeapInited THEN walk[FirstHeader] ELSE {}
FreeBlocks == {h \in Blocks : ~in_use(mem[h])}

\* The headers on the free list, in its order: the page has room for fewer than
\* PAGE entries.
FreeList ==
    LET entry[n \in 0 .. PAGE] ==
            IF n = 0 THEN free_list
            ELSE IF entry[n - 1] = NULL THEN NULL ELSE mem[entry[n - 1]]
        on_list == {n \in 1 .. PAGE : entry[n] # NULL}
    IN  IF HeapInited THEN [n \in on_list |-> header_of_free_block(entry[n])] ELSE << >>

Payload(a) == a .. (a + live[a] - 1)

-----------------------------------------------------------------------------
(* Properties.  Each holds up to the first accident and not beyond it; for *)
(* kmain's own requests the first one is an "empty" block.                 *)

\* heap.h calls a footer "a pointer to a header": free_memory finds the block
\* below the one it frees through it.  So between two neighbouring blocks the
\* word below the upper one's header must be the lower one's address, after
\* any sequence of splits and merges that made no accident.
FooterIsPointerToHeader ==
    mishaps = {} =>
        \A h \in Blocks : next_block(mem, h) < ArenaEnd => mem[footer_of(mem, h)] = h

\* What the kernel holds and what the headers say agree, up to the first
\* accident: the blocks in use are exactly the allocations not yet freed, with
\* the size asked for; nothing is leaked, and nothing is in use twice.
InUseIsLive ==
    mishaps = {} =>
        /\ {h \in Blocks : in_use(mem[h])} = {a - 1 : a \in DOMAIN live}
        /\ \A a \in DOMAIN live : size(mem[a - 1]) = live[a]

\* The free list is the free blocks, up to the first accident: each is on it
\* once, smallest first, as free_list_find_can_fill needs to find the smallest
\* one that fits.
FreeListIsFreeBlocks ==
    mishaps = {} =>
        /\ {FreeList[i] : i \in DOMAIN FreeList} = FreeBlocks
        /\ \A i, j \in DOMAIN FreeList :
               i < j => /\ FreeList[i] # FreeList[j]
                        /\ size(mem[FreeList[i]]) <= size(mem[FreeList[j]])

\* A call writes headers, footers and list entries, and, unless it is an
\* accident or follows one, never a word of an allocation that the kernel holds
\* before and after it.
PayloadUntouched ==
    [][mishaps' = {} =>
          \A a \in DOMAIN live \cap DOMAIN live' : \A w \in Payload(a) : mem'[w] = mem[w]]_vars

\* heap.c:145 "Extend heap size, Return new block": the block is new, so an
\* allocation never takes words of one that the kernel still holds.  heap.c does
\* not keep to this once the heap has grown.
AllocationsApart ==
    \A a, b \in DOMAIN live : a # b => Payload(a) \cap Payload(b) = {}

=============================================================================
