# A verification project for Atomic Kernel

These are TLA+ models of Atomic Kernel, a small i386 kernel in C and assembly:
its heap, key buffer, paging, interrupts, keyboard and timer drivers, text
screen and library, and of the allocator it carries along in `core/malloc.c`.
TLC checks small instances of them; TLAPS proves, for every value of the
constants, the safety properties of the heap, in words as in blocks, the key
buffer, paging, interrupts, the keyboard and timer drivers and the text screen.
Line numbers refer to the files under `src/`.

## The system

The kernel is one thread, `kmain`, that sets everything up and then stops in a
loop, and the interrupts that arrive while it does: the timer (IRQ 0), the
keyboard (IRQ 1), exceptions, and devices nobody handles. There are no other
threads or processes and no locks. Everything that can go wrong "concurrently"
goes wrong between the thread and a handler that interrupts it; everything else
is sequential code over boundary tags, page tables, pointers and fixed-width
words, where long sequences of legal calls are what a test hardly reaches.

### Inventory

| Component | State | Operations | What makes it correct |
|---|---|---|---|
| Heap: `core/heap.c`, `core/kheap.c` | headers, footers, free list (in the heap's own memory); `end`, `HeapInited` | `heap_init`, `alloc_memory`, `free_memory`, `extend_heap`; `Kmalloc`, `KFree` | headers, footers and list agree; allocations are disjoint and keep their contents; free neighbours are merged |
| Placement allocator: `core/kheap.c` | `PlacementAddress` | `KmallocIntenal` and the functions around it | memory is handed out once, before the heap is up |
| Paging: `core/paging.c` | page directory and tables, `Frames` bitmap, `FreePage`, `UnusedPages` | `InitialisePaging`, `GetPage`, `AllocFrame`, `PageFault`, `MapPage`, `GetFreePages` | the kernel stays mapped to itself; frames and tables apart; a fault gets resolved |
| Key buffer: `core/kio.c` | `KeyBuff`, `BufferRead`, `BufferWrite`, `CouldRead` | `WriteToKeyBuff` (interrupt); `GetChar`, `GetStr`, `GetLine` (thread) | pointers in the buffer; what is typed is read; a complete line is returned |
| Interrupts: `core/descriptor_tables.c`, `interrupts.s`, `gdt_idt.s`, `isr.c`, `kernel.c`, `assembly.c` | IDT, the two controllers, `InterruptHandlers`, the flag IF, the stack | `InitDescriptorTables`, `RegisterInterruptHandler`, the stubs, `ISRHandler`, `IRQHandler` | handlers do not nest; each interrupt ends itself and only itself; keys and time go on |
| Keyboard driver: `core/keyboard.c` | `ShiftPressed`, `CtrlPressed`, `AltPressed`, `UpperCase`, `ScanCode` | `KeyboardCallback` and the ways of `KeyWay` | the bits follow the keys; a letter has the case it was typed in |
| Timer: `core/timer.c` | `Tick`, `TimerFrequency`, the chip's divisor | `InitTimer`, `TimerCallback`, `WaitS`, `Wait10M` | a wait is long enough and ends |
| Text screen: `core/videodriver.c`, `KPrintf` of `kio.c` | `PositionX`, `PositionY`, the video memory | `WriteChar`, `NewLine`, `ScrollScreen` | the position stays in reach; characters do not overwrite one another |
| Library: `core/string.c`, `core/algorithm.c` | none | `memcpy`, `memset`, `strcmp`, `strcpy`, `strcat`, `NumberToString` | what their comments say |
| Panic: `core/kcommon.c` | none | `KPanic`, `Wait` | stops the kernel |
| Loader and image: `core/loader.s`, `linker.ld`, `Makefile` | none | entry | sets the stack up, calls `kmain` |
| dlmalloc, bins: `core/malloc.c` | `smallmap`, `treemap`, list and trie links of free chunks, `dv`, `dvsize` | insert and unlink of small and large chunks, `tmalloc_small`, `tmalloc_large`, the searches of `dlmalloc` | maps, lists and tries agree; every free chunk is found; the best fit is served |
| dlmalloc, heap: `core/malloc.c` | head and foot words, `top`, segments, footprint and its limit, `mparams`; the break and the mapped pages | `dlmalloc`, `dlcalloc`, `dlfree`, `dlrealloc`, `dlmemalign` and its kin, `ialloc`, bulk free, trim, `mallopt` | chunks pass the code's own checks; blocks are apart and long enough; the footprint is true and within its limit |

`core/malloc.c` is dlmalloc 2.8.5, more than two thirds of the repository's code.
It is vendored: the Makefile's list of objects does not name it and nothing
calls it. It is modelled as it stands, in the configuration its own
preprocessor lines choose for a 32-bit machine: `MALLOC_ALIGNMENT` 8, a
contiguous `MORECORE` (`sbrk`), `HAVE_MMAP` and `HAVE_MREMAP`, no locks, no footers,
no mspaces, checks of pointers on (`INSECURE` 0), assertions off.

How they interact:

* calls: `kmain` calls every initialisation once, in the order that module
  `Interrupts` follows. `Kmalloc` goes to the placement allocator until
  `HeapInit`, afterwards to the heap, which gets pages from `GetFreePages`.
  Paging allocates its tables with the placement allocator, whose pointer is at
  the same time the bound of its own loop.
* callbacks: `RegisterInterruptHandler` is called for vectors 14, 32 and 33;
  `ISRHandler` and `IRQHandler` call what is registered at that moment.
* shared state: `KeyBuff` and its pointers between keyboard interrupt and
  reader; the screen's position and cells between the echo of the keyboard
  interrupt and `KPrintf` in the thread; `Tick` between timer interrupt and
  waits. `KeyboardCallback` -> `pln` -> `WriteToKeyBuff` -> `WriteChar` is the
  one chain of calls from an interrupt through three components.

Hard behaviours: interrupts between any two memory accesses of the thread;
interrupts enabled by `InitTimer` before the keyboard has a handler; faults
inside the fault handler; end-of-interrupt commands that name no line; memory
allocated behind the bound of the loop that maps it; buffers at their end;
toggled bits that must never miss a code; boundary tags after long sequences of
calls; words that overflow; a system that refuses memory half-way through an
allocation. `PROJECT.json` lists each hazard at its line, with
the properties that are aimed at it or the reason why there is none.

## The modules

```
Allocator  <--implements--  BlockHeap  <--implements--  Heap
           (BlockHeapRefinement)       (MCHeap)
BlockHeapProofs extends BlockHeapRefinement
HeapProofs      extends MCHeap, and has BlockHeapProofs as an instance
KeyBuffer  <- MCKeyBuffer (TLC),  KeyBufferProofs (TLAPS)
Paging     <- PagingProofs        Interrupts <- InterruptsProofs
Keyboard   <- KeyboardProofs      Timer      <- TimerProofs
Screen     <- ScreenProofs        Library

BinStore  <--implements--  Bins  <- MCBins (TLC)
DlChunks  <- DlSystem  <- Dlmalloc          (takes the bins as the bag BinStore is)
```

`map` in `PROJECT.json` names for every definition the lines it models.
Operators named `X_Something` beside an operator `X` (or, in the modules of dlmalloc,
under the comment "A slip the runs must notice") are plausible slips of that code; each property is known to fail when one of them takes the place of `X`.

**Heap** is `heap.c` word by word, as `kheap.c` drives it. `mem` is the memory,
`Kmalloc` and `KFree` are one step each, because only the thread calls them.
Every operator that changes memory (`spilt_block`, `merge_block`,
`free_list_insert`, ...) is a function from memory to memory with the writes in
the code's order; sizes keep their 31 bits, pointer arithmetic wraps, and
`header_t *` arithmetic counts words where the code counts words. Addresses count
words and the address space is scaled down; the heap lies in its upper half, so
that a footer, which is an address, looks like a header in use, as at
0xC0000000. `live` is what the kernel holds; `mishaps` (history) collects the accidents that
`heap.c` does not look for, by name.

**BlockHeap** forgets the words: an arena of units tiled by blocks, `len[a]` the
length of the block that starts at `a`, `used` the blocks in use; a block is handed out
only if the rest has room for a header and a footer too (`Overhead`). It is
what the words are to mean; **Allocator** is what the callers may rely on: a set
of extents that never overlap or move. `MCHeap` maps the words to blocks,
`BlockHeapRefinement` maps blocks to extents.

**KeyBuffer** has `WriteToKeyBuff` as one action per branch (`'\b'`, `BEL`, and
characters), because its gate clears IF and it runs to its end, and `GetChar` in
five steps, one per memory access that an interrupt can separate from the next.
`GetStr` and `GetLine` are the loops around it. The pointers are indexes, SIZE
being the byte behind the array. `typed`, `got` and `mishaps` are history.

**Paging** counts addresses in pages. `ram` holds the contents of physical pages
as page tables, so a table may be mapped elsewhere than it lies. `calls` is the
stack of activations of "get the table, clear it, fill the entry in", the common
work of both loops, `PageFault` and `MapPage`; each access of it goes through the
tables (`Maps`) and may fault, which pushes another activation.

**Interrupts** has `kmain` stage by stage, the two controllers with request,
service and mask registers as the command words of `InitIDT` program them, the
processor's IF flag and stack of stubs, and the handlers down to their accesses of
ports. `PageFault` may fault in turn at its accesses to the tables, which pushes another
stub and makes the access again when that one returns; what is mapped where is `Paging`'s
business, so here any such access may fault, or none. Hardware definitions are marked external.

**Keyboard** has the user and the keyboard (keys held, repetition, a queue of scan
codes) and the ways of `KeyWay` as actions on the driver's four bits. The
character is reduced to its case, asked for when the key went down and used when
the code is read.

**Timer** has the divisor, `Tick` in words of bounded width, and the two waits in
three steps: multiply, read `Tick`, compare. `u64i` is `unsigned long`, so it has 32
bits under `-m32` and is read at one go.

**Screen** has `WriteChar`, `NewLine` and `ScrollScreen` twice: as operators, which
an echo uses in one step, and access by access, with the loads and stores of
`PositionX++` apart, and of `PositionY` and `PositionX` for the index of a cell, for the
thread. `Critical` are the points of the thread between which every echo does harm, and
between the two loads of the index (`IndexX`) one does if it changes the line; leaving any of
them out makes `NothingOverwritten` fail, so the set is as small as it can be. The stores
of colours (`videodriver.c:144`, `videodriver.c:161`) are left out.

**Library** has each function as one call on any contents of a small memory.

**Bins** has dlmalloc's bins link by link: `fd`, `bk`, `child`, `parent`, `index`
and the heads and bit maps are the record `bins`, and every macro that changes
them (`insert_large_chunk`, `unlink_large_chunk`, ...) is a function from record to
record. The searches compare remainders modulo the width of a size, as the code
does: `-nb` as the start of a search, sizes that are too small wrapping around to
large remainders. The actions are what the rest of dlmalloc does to the bins: bin
a chunk, take one out, let the victim grow or go, serve a request. **BinStore**
is what dlmalloc's opening comments promise of it: a bag of sizes and a victim,
where a small request takes an exact fit, then the victim, then the smallest
chunk that fits, and a large one the smallest that fits, victim included.

**DlChunks**, **DlSystem** and **Dlmalloc** are the rest of dlmalloc. The heap is one
record `m`: head and foot words (`head`, partial: what is not a head is the user's),
the bins as a bag, victim, top, segments, parameters, and of the system the
break, the pages mapped and how much it has handed out (`held`). Each function of the
code is a function from `m` to `m`, for those that return a block together with
the set of blocks returned (`mem`, empty for 0). `DlChunks` is what needs no
system; `DlSystem` is segments, `sys_alloc`, `sys_trim`, `release_unused_segments` and the
directly mapped chunks; `Dlmalloc` is the public functions, one action each.
Addresses and sizes count units of 8 bytes and wrap, requests count bytes. What the
system answers during a call is a record `e`: which calls of `sbrk` succeed, the one that gives
memory back among them, whether `mmap` and `munmap` do. `ForeignSbrk` is other code that moves the break, which
dlmalloc allows for. `live` is what the program holds, with the size and
alignment it asked for. `m.ok` becomes false where an `RTCHECK` fails, that
would call the corruption or usage error action, or where an assertion would.

## The runs

| Run | Question | Bounds and why they are enough |
|---|---|---|
| `heap_words` | Do headers, footers and list tell the truth, is no payload written, and do the words implement `BlockHeap`, until the first named accident? `FooterIsPointerToHeader`, `InUseIsLive`, `FreeListIsFreeBlocks`, `PayloadUntouched`, `ImplementsBlockHeap` | one page of 20 words: room for four smallest blocks and a rest, so every pattern of used and free neighbours, of splits in the middle and of merges on one, both or no sides occurs, and free lists of several sizes; the sizes that `kmain` asks for (8 and 16 bytes are 2 and 4 words); below the page a word that looks too small to be a block's header or one that looks large enough, above it one that looks like a free block's |
| `heap_blocks` | Do blocks tile, stay, merge, and implement `Allocator`? | an arena of 20 units, as a page of `heap_words`, three request sizes, the overhead of two words; the theorems drop the bound |
| `key_buffer` | Does anything get lost between interrupt and reader? `PointersInBuffer`, `NothingLost`, `ReadsAheadAtMostOne`, `CompleteLineIsReturned` | three characters of buffer and up to four typed, so it fills and wraps; all special characters |
| `paging` | Do both loops leave the kernel mapped, and do faults get resolved? `KernelIntact`, `FramesAreApart`, `FaultIsResolved` | tables of 16 entries, of which the kernel's end meets one border; 28 frames, which run out when most pages of the heap are mapped, and as on the machine the frame that `FirstFrame` then leaves is none of the kernel's own; images of two and of three pages; five heap pages, which reach into a page without table; faults three deep |
| `interrupts` | Do interrupts nest, end each other, lose keys, stop time? `OneInterruptAtATime`, `InServiceIsUnderWay`, `WaitingKeyIsFetched`, `EndsOnlyItsOwn`, `KeysAreRead`, `TimeGoesOn` | one line per priority class (timer, keyboard, second controller); one code waiting behind the output buffer; the port values whose stray write matters and one that does not; page faults three deep |
| `keyboard` | Do bits and case follow the keys? `InStep`, `WrittenAsTyped` | two shift and two control keys, since they share a bit; three codes waiting, so a press, its release and a letter can all be unread |
| `timer` | Do waits last and end? `NeverEarly`, `WaitEnds` | words of three bits and a chip of four, so all overflows happen; frequencies above and below the chip's limit and with a broken hundredth |
| `screen` | Where do echo and thread overwrite one another? `PositionInReach`, `NothingOverwritten` | two lines of three columns, so lines break, tabs cross them and the screen scrolls all the time; `'\b'` to three columns left of the screen |
| `dl_bins` | Do lists, tries and maps stay as `do_check_malloc_state` wants them, is every free chunk found by its size, does a search that meets no exact fit still find the best one, and do the bins implement `BinStore`? `BinsAreChecked`, `FreeChunksAreFound`, `BestFitIsFound`, `ImplementsBinStore` | four chunks, sizes of five bits, eight small bins, four tree bins; freed chunks of 3, 16, 18, 19 and 20 units and what is left when they are split: tries of two bins with nodes three deep and right subtrees at two depths of one search (a request of 17 below 16, 19, 18 and 20), rings of equal sizes at root and leaf, replacement by the ring, by a leaf and by nothing, searches that go on to a higher bin; `BestFitIsFound` asks for every size. Not met: a small request that uses up a large chunk whole |
| `dl_heap` | Do chunks pass dlmalloc's own checks, are blocks apart, long enough and in memory, and is the footprint true and within its limit, with a system that may refuse at every point, also to take memory back? `MallocStateIsChecked`, `BlocksAreApart`, `FootprintIsMemoryHeld`, `LimitHolds` | pages of 16 units, two pages of break and four mapped ones (so that after a release that failed only `mmap` has room); requests of 60 and 300 bytes (inside a page, and one of several pages, which is mapped directly above the threshold), small and aligned ones of 4; two blocks at a time; a limit of two pages. See below |
| `library` | Do copies copy, comparisons compare and digits add up? `CopiesExactly`, `ResultIsRight` | four bytes of three values: every overlap, every pair of strings up to three characters |

That free blocks are merged, and that an allocation is carved out of the smallest block
that can be split, are not checked of the words but of `BlockHeap`, which they implement, as
`HeapProofs` shows.

The bounds (`MaxPages`, `MaxKeys`, `MaxHeap`, `MaxNest`, `MaxQueue`, `MaxCodes`,
`MaxBurst`, `MaxBack`) are constants of the modules and stand in the guards of what
they bound. `MaxDv` bounds the victim of `dl_bins`, `MaxLive` the blocks of
`dl_heap`. That run also asks for aligned blocks only while none is held, sets the
limit only before the heap has memory, sets both thresholds to one value, and lets
other code move the break by one unit, at the end of the heap's segment and while
no chunk is binned. Within these bounds the following have been seen to
occur: two segments of break and two of mapped pages, three segments at a time, a
new segment below an old one (`prepend_alloc`), memory dropped by the third way of
`sys_alloc` or lost with a break that could not be moved back, resizes of mapped chunks in place, moved and refused, trims that succeed
and that fail, and the release of a segment by `dlfree`. `keyboard` and `heap_words` have the state constraint `NoMishap`: no property says
anything of a state after a mishap, and mishaps are never undone; in the heap the free
list may be a circle after one, and then the searches of `heap.c` do not return. Only the
library's runs, whose behaviours are one call long, may stop.

Some accidents are part of what the code does; the properties say exactly
which: a history variable `mishaps` collects them, and a property holds *until* one
of the accidents that it names. A mutant or a change of the code that loses
data in any other way is noticed. The accidents are:

* heap: the block to be cut is larger than the request by just a header and a footer, so
  that the rest has no payload and its list entry lies on its footer ("empty"); the word
  below the page, which nobody initialised, is taken for a header ("below"); no block is
  large enough and `extend_heap` builds one ("grown");
* key buffer: the writer starts over at the bottom without a look at the
  reader (`kio.c:57`), `'\b'` takes the character `GetChar` is in the middle of
  taking, `'\b'` takes the end of a line that is being read;
* interrupts: a key before the controllers are set up, or between the `sti` in
  `InitTimer` and `InitKeyboard`, is never read, and shuts the keyboard up; a function key
  hangs the machine, and so may a page fault inside `PageFault` (`keyboard.c:93`, `paging.c:173`);
* keyboard: a modifier held while the kernel starts, one held long enough to
  repeat, a code dropped by a full keyboard; and, no accident but a state the properties name
  (`Together`), two keys held that share a bit: with both shift keys down the driver writes
  lower case (`keyboard.c:79`);
* screen: the character behind the last column (`videodriver.c:146`), `'\b'` at the
  first column, an echo at a critical point of the thread, or one that changes the line
  between the two loads of an index (`videodriver.c:143`).

### Where code and comments disagree

One run ends in a violation on purpose; two more violations are found with other
constants than those of the passing runs:

* run `heap_extend` (`AllocationsApart`): "Return new block" (`heap.c:146`) - the block
  overlaps the last one of the page before it.
* `heap_words` without `NoMishap`, with `Below = {3}` and `FooterIsPointerToHeader` without its
  condition on `mishaps`: after `Kmalloc(16)`, `Kmalloc(8)`, `KFree` of the first and
  `Kmalloc(8)`, the rest of the cut block is empty, and its footer, "a pointer to a header"
  (`heap.h:33`), is at the same time its list entry; a later free follows it. With
  `Below = {63}` the first `Kmalloc(8)` hands out the list's own sentinel.
* `Paging.cfg` with `NONE` alone `spared` in `FramesAreUnique`: `KPanic("No free frames")`
  (`paging.c:94`) cannot be reached. `FirstFrame` falls off its end, and all further pages get one
  frame, number 2048 on the machine, which a page of the second loop has already.

Other sentences that the code does not keep, which the models translate as the code
has them: "Protect area in start and end of pages" (`heap.c:126`: the first block
reaches over the one at the end, see `ArenaEnd`); "Round up and change to page numbers"
(`heap.c:150`: below a page, bytes are taken for pages, see `pages_to_extend`); `strcmp`
returns 1 for a smaller string, not -1 (`string.c:17`); `strcpy` and `strcat` leave out
the byte that ends the string, `strcpy` has no return statement, and `strcat` returns
the end of the string, not `dest` (`string.c:39`, `string.c:50`).

In `malloc.c`, where the properties name the exceptions or the model has the
behaviour that nobody is told of:

* `mmap_resize` (`malloc.c:3847`) computes the new length without the offset in front of the
  chunk, so a mapped block that `dlmemalign` has moved into its region becomes too
  short by as much when resized (named in `BlocksAreApart`). Nor does it look at the
  footprint limit, which is to cause "failure returns from malloc and related functions
  upon attempts to exceed" it (`malloc.c:1000`; named in `LimitHolds`).
* `sys_alloc` (`malloc.c:4084`) reduces the size it asks for by what top has, and uses it
  reduced for `mmap` and for the second `sbrk` too. Memory is then obtained and 0
  returned, or the memory of the third way is dropped (`malloc.c:4139`; `m.lost`), where
  the comment at `malloc.c:4054` promises room for a whole segment.
* when the second `sbrk` fails, the memory of the first is given back by one whose result is
  ignored ("Can't use; try to release", `malloc.c:4102`). If that fails too the break stays
  moved: the memory is in no segment and not in the footprint. `m.lost` counts it, so that
  `FootprintIsMemoryHeld` is about every other unit.
* the limit is compared before the first break is aligned (`malloc.c:4071`); when the memory
  then comes from elsewhere, it is more than was compared (named in `LimitHolds`).
* `dlmalloc_set_footprint_limit` (`malloc.c:5332`) rounds with a granularity that is 0 before the first
  allocation: every limit set then becomes 0, which means none.
* `dlposix_memalign` (`malloc.c:5252`): the test for a request that is too large is the wrong way
  round. Unless the alignment is 8, it returns `ENOMEM` without trying.

## Fairness

* `KeyBuffer`: weak fairness of `GetChar`: interrupts return to the thread, which is
  never suspended otherwise. None for keys: the user need not type.
* `Paging`: weak fairness of the running code.
* `Interrupts`: weak fairness of the handler under way, of the timer chip, which
  ticks for ever in the mode `InitTimer` chooses, and of the keyboard, which sends
  what it keeps; strong fairness of taking each requested line and of `kmain`,
  which are disabled again and again while others run: justified because a
  handler takes microseconds and a tick is 10 ms, so the lower priorities and the
  thread get their turn in between. No fairness for keys and other devices, nor for
  `HeapInit`: a table that is not mapped to itself makes the heap fault for ever, which
  `KeysAreRead` and `TimeGoesOn` name.
* `Timer`: weak fairness of the chip and of the thread; `MaxBurst` says how many ticks
  may come between two of its steps.

Under weaker assumptions (a timer always pending) `KeysAreRead` is false, as
it should be.

## The theorems

**BlockHeapProofs**, for every arena, and every set of request sizes
(`BlockHeapAssumption`: a positive number of units, positive sizes and overhead).
`UsedDisjoint`, that no two allocations share a unit, is not inductive: that the
remainder of a split touches nobody follows only from the blocks tiling the arena.
`IInv` is `TypeOK /\ Tiled /\ Merged`; `Tiled` says that each block ends where one
starts, or at the arena's end, and that none starts inside another. `AllocIInv` and
`ReleaseIInv` show that splitting, and releasing with each of the four patterns of
free neighbours, preserves it; `Merged` is needed in the latter, because a block
that ends where the released one begins must be the only one that does, and the
merged block must not touch another free one. From it follow

* `BlocksTypeOK`, `BlocksTiled`, `BlocksMerged`, `AllocationsDisjoint`;
* `AllocationsStable`: an action property, no call moves or resizes what stays in use;
* `BlocksImplementAllocator`: `BlockHeap` implements `Allocator`, by showing that a
  split is a `heap_malloc` of an extent that overlaps none, and a release is the
  `heap_free` of just the extent that was handed out.

**HeapProofs**, for the words of `heap.c`: every address width, page and place of it, every
set of requests in whole words, and every content of the words around the page
(`HeapAssumption`: the heap lies in the upper half of the address space, the page is of eight words
or more). The theorems speak of every behaviour up to its first accident (`mishaps`), and an
accident is just what the code does not look for: nothing else is assumed of the requests or of their
order. None of the properties of the run is inductive
alone: that a footer is right depends on which block was cut or merged, this on the list,
the list on the headers, and the headers on nobody having written elsewhere. `IInv` says
that, once the heap is up and while no accident has happened, there are sets of headers `B` and `F`
with `Sound(mem, B, F, live)`:

* `Shape`: the blocks of `B` tile the page, each as long as its header
  says, with room for a payload and a footer that points back;
* `Listed`: some sequence of words, from the sentinel on by the words themselves, is the
  entries of the blocks in `F`, each once, smaller ones first, NULL behind the last;
* `Marked`: the headers in use are those not in `F`;
* `LastFree`: the last block of the page is free. Every split leaves a rest behind what it hands
  out, so `free_memory` never looks at the uninitialised word behind the page
  (`heap.c:255`), although nothing in it forbids that;
* `Handed`: the blocks not in `F` are what the kernel holds, as long as it asked for.

`FindIs`, `DeleteIs` and `InsertIs` say what the functions on the list do to such a list,
`CutGood`, `JoinGood` and `MarkGood` what writing headers and footers does to the tiling, and `SplitGood`,
`AllocGood`, `MergePrev`, `MergeNext` and `FreeGood` put them together in the order of the code. The code's
loops are recursive functions over addresses, about which there is no induction theorem
to cite. Where a walk through memory ends is found without: the words it meets are the
least set closed under its step (`Reach`), that set is finite, and the first place in the
list with what is looked for is the least of a set of numbers (`FirstPlace`).

* `HeapSound`, the invariant; `FooterIsRight`, `InUseIsRight`, `FreeListIsRight`;
* `PayloadIsKept`: an action property, no call writes into an allocation that stays;
* `AllocationsStayApart`: the very property that `heap_extend` violates, up to the first accident;
* `WordsImplementBlocks`: `Heap` implements `BlockHeap`; `WordsImplementAllocator`, with
  `BlocksImplementAllocator`: a behaviour without accident implements `Allocator`. So what the
  callers may rely on is proved down to the words, and so is when.

**KeyBufferProofs**, for every buffer size, every set of characters and every bound
of typed characters (`KeyBufferAssumption`: a positive size, distinct special
characters). Neither `PointersInBuffer` nor `NothingLost` is inductive: after
`IsEmpty` has been passed, `GetChar` goes on in the belief that there is something to
take, and `'\b'` may have taken it. `InHand` says what the thread knows at each
step: that it is still there, unless the accident "rubbed" is recorded. `IInv` is
`TypeOK /\ PointersInBuffer /\ NothingLost /\ InHand`; one lemma for each branch of the
interrupt that changes the buffer, one with a case for each of the five steps.

* `PointersStayInBuffer`: no access falls outside `KeyBuff`, accidents or not;
* `TypedIsRead`: until a named accident, what is read is what was typed, in order;
* `ReaderWaitsForLines` (`ReadsAheadAtMostOne`): of a line the user may still change, at
  most one character has been taken. The invariant `BehindALineEnd` relates the stale
  `CouldRead` to the line end that once set it: whoever has passed the test has a line
  end in front of him or has taken it, and `'\b'` over a line end is an accident.

**InterruptsProofs**, for every set of values that port 0x61 may read and every
queue and every depth of faults. None of the properties is inductive. `IInv` is `Nested /\ Handlers /\ Served /\
WaitingKeyIsFetched`: `Nested` says which stubs the stack may hold (none; one; that of
exception 13 on top of one at its `int $0x80`; page faults, each on top of one that is
at an access of `PageFault`), `Handlers` which callback stands at
which vector, `Served` that every line in service belongs to the outermost stub,
which has not yet told the controllers.

* `StackIsBounded`, `NothingLeftInService`, `KeyHasItsInterrupt`: the three invariants of
  the run; no IRQ is ever taken on top of a stub, but faults may nest as deep as they like;
* `EndsItsOwnOnly`: an action property; the end-of-interrupt commands name no line, and
  end the right one because of `Served`.

**KeyboardProofs**, for every finite keyboard whose keys have one way of `KeyWay` each
(`KeyboardAssumption`), every typist and every length of the queue. `InStep` speaks of
the moment when every waiting code will have been read; what is inductive is the
same at each place in the queue (`AllInStep`), and for the case of a letter that
waits, what was asked for when it was typed (`WaitingAsTyped`). The lemmas are about
the parity of the codes up to a place: a code that comes in adds one at the end, a
code that is read takes one away at the front and moves the others. The driver's bits are
the parity of the keys held (`ParityCase`); that this is what the user asks for,
whether one is held (`AskedCase`), needs that no two of a kind are (`OddIsHeld`), the
exception that both properties name.

* `LettersAreAsTyped` (`WrittenAsTyped`), `DriverInStep` (`InStep`).

**TimerProofs**, for every chip, width of words, frequency and argument. The
invariant is that `Tick - StartTick` as a word (`DifferenceCounts`) is the number of
ticks gone by, also across zero, as long as there are fewer than a word can count;
that `wanted` is the product, as a word; and that what the chip was given belongs to
the frequency.

* `NoWaitIsTooShort` (`NeverEarly`), with the arithmetic of the two divisions.

**ScreenProofs**, for every screen of two lines or more, width, tab and buffer. The
echo runs as one step between any two accesses of the thread; `LinesKept`,
`ColumnsKept` and `InkKept` say for each of these points what is known of line, column
and written cells, the ones half-way through `NewLine` and `ScrollScreen` included.
On a screen of one line the proof does not go through, and should not: an echo
between the copying of `ScrollScreen` and its `PositionY--` scrolls again, and the
position ends above the screen. `ScreenAssumption` excludes that; the screen has 25
lines (`videodriver.c`).

* `PositionStaysInReach` (`PositionInReach`), `EachCharacterHasItsCell`
  (`NothingOverwritten`). `WriteChar` on a tab is a recursive function over the spaces;
  `SetInduction`, an induction over a set instead of a predicate, gets around the
  provers' limit.

**PagingProofs**, for every size of tables, directory and memory and every kernel
image that fits (`PagingAssumption`: the kernel and two pages for each table lie
within memory and below 0xBF000000, and there are as many pages between that and
the heap as tables can take: on the machine 65536 frames, at most 1024 tables, a kernel
below 4 MB, 4096 pages). `IInv` describes memory entry by entry: `PlacementKept` is where
the placement pointer stands after so many tables, `TablesKept` and `PhysicalKept` that
`Tables` and `TablesPhysical` agree but for the table that is being made and those made
after the first loop, `FramesKept` that the loops take frame after frame,
`EntriesKept` that a frame is in one entry only and a frame of the loops' in the entry
of its page, `KernelMapped` that the pages below the pointer are mapped to themselves,
`CallsKept` what each activation on the stack of nested faults may rely on. Why
`FramesAreApart` holds is seen in the proof: the second loop hands out the frames in
which tables made after the first one lie, all of them, to pages between 0xBF000000
and the heap, so that no page of the heap gets one.

* `KernelStaysIntact`, `FramesStayApart`: invariants as long as `FirstFrame` has a frame to
  give (`FramesLeft`). What holds behind that point, where `KPanic("No free frames")` is
  promised and cannot be reached (`paging.c:94`), is for TLC: run `paging` goes there, and
  finds the kernel still intact and one frame shared.

TLC finds no violation of the inductive invariants of these proofs on the instances
of the runs either. All proofs are by the step: one lemma for each action, or
for each function that several actions use.

## What is only model-checked

* Liveness (`CompleteLineIsReturned`, `FaultIsResolved`, `KeysAreRead`, `TimeGoesOn`,
  `WaitEnds`), which needs fairness and ENABLED.
* The library, whose functions loop over strings, and dlmalloc, whose functions follow
  lists, tries and chains of chunks. What a recursive function computes for every input
  needs induction over data; the library's theorems of induction take an operator, which
  the provers cannot instantiate. `HeapProofs` and `ScreenProofs` show a way around it with sets,
  which has not been carried over to these modules.
* That `Bins` implements `BinStore`, and that its searches meet the best fit.
* The heap after it has grown, of which run `heap_extend` shows that it is not what it should be.

Type invariants are kept only where a proof rests on them: `TypeOK` of `BlockHeap` (checked
by `heap_blocks`), and in the `IInv` of the other modules of proofs.

## Assumptions about the world

* The image is built without optimisation, as the Makefile does. What the C standard
  leaves open is a choice (`strcat`'s `*dest = *dest++`), or what that build leaves
  in the register of a result (`strcpy`, `FirstFrame`).
* The Makefile's list of objects lacks `heap.o`, `kio.o` and `kcommon.o`, which others call:
  the models are of the kernel linked with them.
* Fresh memory reads as zero, but for the two words around the heap's first page, which may
  hold anything (`Below`, `Above`).
* The kernel asks for whole words of memory (`kmain` does); requests that are no multiple of
  4 bytes would lie across the words of the model.
* The word at address 0, the first BIOS interrupt vector, is larger than any number
  of pages asked for: `FindFreePages` reads it through a NULL list and finds nothing.
* The kernel's image ends below 4 MB. The memory that the frames stand for exists.
* Port 0x61 may read any of a few values, of which 0x20 and 0x21 are the harmful ones.
* dlmalloc is called by one thread, with blocks it has handed out and that have not
  been freed. `mmap` takes the highest room that is free, `sbrk` never goes below what
  dlmalloc asked for, `mremap` in place succeeds only where room follows. The
  words of the user's data that dlmalloc reads as a chunk's head have clear bits.
* Spurious interrupts, the NMI and a second controller with more than one device are
  left out.

## What is not modelled

* `FreeFrame`, `ReturnPages`, `FindFirstCleanLine`, `SetPosition`, `MoveCursor`: no caller.
* `KFree` of a pointer from before `HeapInit`, `GetLine` into a buffer of bounded size: no caller.
* The words of the bitmap behind those that `InitialisePaging` clears: they begin to
  matter above 64 MB of mapped frames.
* Descriptor bits and the GDT, colours and the cursor, the wording and number formats
  of `KPrintf`: no state that a property could be about.
* `KPanic`, reached by no modelled path; the loader.
* Of dlmalloc: locks (`USE_LOCKS`), mspaces, Win32, `FOOTERS` and the assertions of `DEBUG`,
  none of which the default configuration compiles; `dlmallinfo`, `dlmalloc_stats`,
  `internal_inspect_all`, `dlmalloc_max_footprint` and `dlmalloc_usable_size`, which only read;
  `M_GRANULARITY`; the contents of blocks, so the `memcpy` of `dlrealloc` and the `memset` of
  `dlcalloc`; the order of chunks in a bin, except which comes first.
* Timing, caches, and anything of the processor beyond IF, the stack and faults.

## The plan

Done: the heap first, as the largest and the most fragile component, with
its two abstract specifications and their proofs; then the key buffer, the one data
structure that two sides share, with its proof; then paging, interrupts, keyboard,
timer, screen and library, model-checked; then dlmalloc, its bins with the bag they
implement, and the heap on top of that bag; then the proofs about paging,
interrupts, keyboard, timer and screen; last, the proofs about the words of the
heap, which close the chain from `heap.c` to the abstract allocator.

Next, extending the model:

1. an abstract queue of lines, and `KeyBuffer` shown to implement it up to its first
   accident;
2. a composition of `Keyboard`, `KeyBuffer` and the echo: a scan code through to the
   returned line;
3. the heap on pages: `Kmalloc` growing through `GetFreePages` into pages that fault,
   with the allocations that stay apart named;
4. placement allocation across `HeapInit`, and `KPrintf`'s directives.

Next, proving (done: the heap, the key buffer, interrupts, keyboard, timer, screen and
paging):

5. `KeyBuffer`: the refinement of 1;
6. dlmalloc: `FootprintIsMemoryHeld`, an invariant of arithmetic alone; that `BinStore` serves
   the best fit and never loses a chunk;
7. the library: that `memcpy` copies down onto itself, for every length;
8. the heap on pages: which allocations stay apart once it has grown.
