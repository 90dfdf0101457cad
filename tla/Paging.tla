------------------------------- MODULE Paging -------------------------------
(***************************************************************************)
(* core/paging.c: how InitialisePaging builds the kernel's page directory  *)
(* while memory is still physical, and what PageFault and MapPage do with  *)
(* it once every access, theirs included, goes through the page tables.    *)
(*                                                                         *)
(* Addresses count pages of 4096 bytes; a page table has N entries (1024   *)
(* on the machine).  Page tables live in physical pages: ram holds their   *)
(* entries, and the same page may at the same time be mapped as data.      *)
(* Interrupts other than page faults touch none of this state.             *)
(***************************************************************************)
EXTENDS Integers, Sequences, FiniteSets

CONSTANTS
    N,              \* entries of a page table
    NTables,        \* entries of the page directory
    NFrames,        \* physical pages the bitmap accounts for
    WordBits,       \* bits of a word of the bitmap
    KernelPages,    \* how many pages the kernel image may end at
    RegionStart,    \* first page of the second loop, 0xBF000000
    RegionEnd,      \* first page behind it, 0xC0100000
    HeapStart,      \* 0xC0000000
    Low,            \* unmapped pages below the region that may be touched
    MaxHeap,        \* bound: the pages GetFreePages hands out
    MaxNest         \* bound: page faults inside page faults

ASSUME PagingAssumption ==
    /\ N \in Nat \ {0} /\ NTables \in Nat /\ NFrames \in Nat \ {0}
    /\ WordBits \in Nat \ {0}
    /\ MaxHeap \in Nat /\ MaxNest \in Nat
    /\ KernelPages \subseteq Nat \ {0}
    /\ RegionStart \in Nat /\ RegionEnd \in Nat /\ HeapStart \in Nat
    /\ RegionStart <= HeapStart /\ HeapStart <= RegionEnd /\ RegionEnd <= N * NTables
    /\ HeapStart + MaxHeap <= N * NTables
    /\ Low \subseteq 1 .. (RegionStart - 1)
    \* The kernel and its tables, of which each takes two pages, fit in memory and
    \* below the region; they are fewer than the pages between it and the heap.
    /\ \A k \in KernelPages : k + 2 * NTables + 3 <= IF NFrames < RegionStart THEN NFrames ELSE RegionStart
    /\ 2 * NTables <= HeapStart - RegionStart

Pages == 0 .. (N * NTables - 1)
NONE == -1          \* an entry never filled in: Present = 0, Frame = 0

VARIABLES
    phase,              \* how far InitialisePaging has got
    i,                  \* its loop variable
    PlacementAddress,   \* kheap.c, in half pages
    Tables,             \* KernelDirectory->Tables: page of each table, 0 if none
    TablesPhysical,     \* KernelDirectory->TablesPhysical, which the CPU walks
    ram,                \* physical page -> the N entries it holds as a table
    Frames,             \* the bitmap: frames that are taken
    FreePage,           \* the first page GetFreePages has not handed out
    calls,              \* the activations of PageFault or MapPage, innermost last
    access,             \* the page the interrupted kernel code wants, or NONE
    kernelEnd           \* history: PlacementAddress when the first loop stopped

vars == <<phase, i, PlacementAddress, Tables, TablesPhysical, ram, Frames,
          FreePage, calls, access, kernelEnd>>
directory == <<Tables, TablesPhysical, ram, Frames, PlacementAddress>>
boot == <<phase, i, FreePage, kernelEnd>>

Init ==
    /\ phase = "start"
    /\ i = 0
    /\ \E k \in KernelPages : PlacementAddress = 2 * k
    /\ Tables = [t \in 0 .. (NTables - 1) |-> 0]
    /\ TablesPhysical = [t \in 0 .. (NTables - 1) |-> 0]
    /\ ram = [f \in 0 .. (NFrames - 1) |-> [e \in 0 .. (N - 1) |-> NONE]]
    /\ Frames = {}
    /\ FreePage = 0
    /\ calls = << >>
    /\ access = NONE
    /\ kernelEnd = 0

-----------------------------------------------------------------------------
(* Memory.                                                                 *)

TableOf(v) == v \div N

\* Where an access to page v goes: before paging is on, to v itself.
Maps(v) ==
    IF phase # "on" THEN v
    ELSE IF TablesPhysical[TableOf(v)] = 0 THEN NONE
    ELSE ram[TablesPhysical[TableOf(v)]][v % N]

\* KmallocIntenal with Align: the address always moves up to the next page,
\* also when it is the start of one, except on page 0.
AlignedUp(p) == IF p >= 2 THEN (p \div 2 + 1) * 2 ELSE p

\* FirstFrame.  When every frame is taken it falls off its end, and the caller
\* finds the loop's bound, INDEX_FROM_BIT(NFrames), where the result should be.
FirstFrame ==
    LET free == {f \in 0 .. ((NFrames \div WordBits) * WordBits - 1) : f \notin Frames}
    IN  IF free = {} THEN NFrames \div WordBits
        ELSE CHOOSE f \in free : \A g \in free : f <= g

-----------------------------------------------------------------------------
(* AllocFrame(GetPage(v, 1, KernelDirectory)), the work of the boot loops, *)
(* of PageFault and of MapPage: one activation, one memory access a step.  *)

Depth == Len(calls)
top == calls[Depth]
Activation(v) == [page |-> v, pc |-> "GetPage"]

Goto(pc) == calls' = [calls EXCEPT ![Depth].pc = pc]
Return == calls' = SubSeq(calls, 1, Depth - 1)

\* The page that the running code accesses next.
wanted ==
    IF calls = << >> THEN access
    ELSE IF top.pc = "GetPage" THEN NONE ELSE Tables[TableOf(top.page)]

\* GetPage: the table is there, or KmallocAlignedPhysical makes room for it.
\* Its address becomes visible before it is cleared.
GetPage ==
    /\ calls # << >> /\ top.pc = "GetPage"
    /\ IF Tables[TableOf(top.page)] # 0
         THEN /\ Goto("AllocFrame")
              /\ UNCHANGED <<Tables, PlacementAddress>>
         ELSE /\ Tables' = [Tables EXCEPT ![TableOf(top.page)] = AlignedUp(PlacementAddress) \div 2]
              /\ PlacementAddress' = AlignedUp(PlacementAddress) + 2
              /\ Goto("memset")
    /\ UNCHANGED <<TablesPhysical, ram, Frames, boot, access>>

\* GetPage: memset clears the table at its virtual address; the directory gets
\* that address as the physical one, whatever page the memset went to.
ClearTable ==
    /\ calls # << >> /\ top.pc = "memset"
    /\ Maps(wanted) # NONE
    /\ ram' = [ram EXCEPT ![Maps(wanted)] = [e \in 0 .. (N - 1) |-> NONE]]
    /\ TablesPhysical' = [TablesPhysical EXCEPT ![TableOf(top.page)] = wanted]
    /\ Goto("AllocFrame")
    /\ UNCHANGED <<Tables, Frames, PlacementAddress, boot, access>>

\* A slip the runs must notice: the entry is not marked present once paging is on.
AllocFrame_NotPresent ==
    /\ calls # << >> /\ top.pc = "AllocFrame"
    /\ Maps(wanted) # NONE
    /\ Frames' = Frames \cup {FirstFrame}
    /\ ram' = IF phase = "on" THEN ram
              ELSE [ram EXCEPT ![Maps(wanted)][top.page % N] = FirstFrame]
    /\ Return
    /\ UNCHANGED <<Tables, TablesPhysical, PlacementAddress, boot, access>>

\* AllocFrame: an entry whose Frame is 0 gets the first free frame.
AllocFrame ==
    /\ calls # << >> /\ top.pc = "AllocFrame"
    /\ Maps(wanted) # NONE
    /\ IF ram[Maps(wanted)][top.page % N] \in {NONE, 0}
         THEN /\ Frames' = Frames \cup {FirstFrame}
              /\ ram' = [ram EXCEPT ![Maps(wanted)][top.page % N] = FirstFrame]
         ELSE UNCHANGED <<Frames, ram>>
    /\ Return
    /\ UNCHANGED <<Tables, TablesPhysical, PlacementAddress, boot, access>>

\* The access faults: PageFault runs on top of whatever was running.
PageFault ==
    /\ wanted # NONE /\ Maps(wanted) = NONE
    /\ Depth < MaxNest
    /\ calls' = Append(calls, Activation(wanted))
    /\ UNCHANGED <<directory, boot, access>>

\* The access goes through, and the kernel code goes on.
Accessed ==
    /\ calls = << >> /\ access # NONE /\ Maps(access) # NONE
    /\ access' = NONE
    /\ UNCHANGED <<directory, boot, calls>>

-----------------------------------------------------------------------------
(* InitialisePaging.  The bitmap takes half a page, the directory two pages *)
(* and a word: rounded up to a half.                                        *)

StartPaging ==
    /\ phase = "start"
    /\ PlacementAddress' = AlignedUp(PlacementAddress + 1) + 5
    /\ phase' = "identity"
    /\ UNCHANGED <<i, Tables, TablesPhysical, ram, Frames, FreePage, calls, access, kernelEnd>>

\* Slips the runs must notice: the bound does not count the table just made; or
\* the second loop maps the heap only.
IdentityLoop_OldBound ==
    /\ phase = "identity" /\ calls = << >>
    /\ IF 2 * i < PlacementAddress - 2
         THEN /\ calls' = <<Activation(i)>>
              /\ i' = i + 1
              /\ UNCHANGED <<phase, kernelEnd>>
         ELSE /\ phase' = "region"
              /\ i' = RegionStart
              /\ kernelEnd' = PlacementAddress
              /\ UNCHANGED calls
    /\ UNCHANGED <<directory, FreePage, access>>
IdentityLoop_HeapOnly ==
    /\ phase = "identity" /\ calls = << >>
    /\ IF 2 * i < PlacementAddress
         THEN /\ calls' = <<Activation(i)>>
              /\ i' = i + 1
              /\ UNCHANGED <<phase, kernelEnd>>
         ELSE /\ phase' = "region"
              /\ i' = HeapStart
              /\ kernelEnd' = PlacementAddress
              /\ UNCHANGED calls
    /\ UNCHANGED <<directory, FreePage, access>>

\* for (i = 0; i < PlacementAddress; i += 0x1000): the bound moves when GetPage
\* makes a table.
IdentityLoop ==
    /\ phase = "identity" /\ calls = << >>
    /\ IF 2 * i < PlacementAddress
         THEN /\ calls' = <<Activation(i)>>
              /\ i' = i + 1
              /\ UNCHANGED <<phase, kernelEnd>>
         ELSE /\ phase' = "region"
              /\ i' = RegionStart
              /\ kernelEnd' = PlacementAddress
              /\ UNCHANGED calls
    /\ UNCHANGED <<directory, FreePage, access>>

\* for (i = 0xBF000000; i < 0xC0100000; i += 0x1000), then the directory is
\* loaded and paging switched on.
RegionLoop ==
    /\ phase = "region" /\ calls = << >>
    /\ IF i < RegionEnd
         THEN /\ calls' = <<Activation(i)>>
              /\ i' = i + 1
              /\ UNCHANGED <<phase, FreePage>>
         ELSE /\ phase' = "on"
              /\ FreePage' = HeapStart
              /\ UNCHANGED <<i, calls>>
    /\ UNCHANGED <<directory, access, kernelEnd>>

-----------------------------------------------------------------------------
(* The kernel once paging is on.                                           *)

Idle == phase = "on" /\ calls = << >> /\ access = NONE

\* GetFreePages: the list of unused pages is empty, so the next pages.
GetFreePages(n) ==
    /\ Idle
    /\ FreePage + n <= HeapStart + MaxHeap
    /\ FreePage' = FreePage + n
    /\ UNCHANGED <<directory, phase, i, kernelEnd, calls, access>>

\* Kernel code accesses a page: one it got from GetFreePages, or a low one.
Touch(v) ==
    /\ Idle
    /\ access' = v
    /\ UNCHANGED <<directory, boot, calls>>

MapPage(v) ==
    /\ Idle
    /\ calls' = <<Activation(v)>>
    /\ UNCHANGED <<directory, boot, access>>

InUse == Low \cup HeapStart .. (FreePage - 1)

Step == GetPage \/ ClearTable \/ AllocFrame \/ PageFault \/ Accessed
Boot == StartPaging \/ IdentityLoop \/ RegionLoop

Next ==
    \/ Step
    \/ Boot
    \/ \E n \in 1 .. MaxHeap : GetFreePages(n)
    \/ \E v \in InUse : Touch(v) \/ MapPage(v)

\* The processor goes on with what it is doing.
Spec == Init /\ [][Next]_vars /\ WF_vars(Step) /\ WF_vars(Boot)

-----------------------------------------------------------------------------
(* Properties.                                                             *)

\* Switching paging on, and every fault after it, leaves the kernel where it
\* is: image, stack, bitmap, page directory and the tables made so far stay
\* mapped to themselves, although the loop that maps them allocates memory
\* behind its own bound.
KernelStaysMapped ==
    phase = "on" => \A v \in Pages : 2 * v < kernelEnd => Maps(v) = v

\* The processor and GetPage agree on every table that was made while the
\* first loop ran: what AllocFrame writes is what the processor walks.
KernelTablesAgree ==
    phase = "on" =>
        \A t \in 0 .. (NTables - 1) :
            Tables[t] # 0 /\ 2 * Tables[t] < kernelEnd =>
                TablesPhysical[t] = Tables[t] /\ Maps(Tables[t]) = Tables[t]

\* What the first loop set up survives all that comes after it.
KernelIntact == KernelStaysMapped /\ KernelTablesAgree

\* A frame of the bitmap is not taken.
FramesLeft == \E f \in 0 .. ((NFrames \div WordBits) * WordBits - 1) : f \notin Frames

\* No two pages are mapped to the same frame, until there are more pages than
\* frames, where KPanic("No free frames") is promised (paging.c:94): then only the one
\* frame that FirstFrame leaves behind by falling off its end has several.
FramesAreUnique ==
    phase = "on" =>
        LET spared == IF FramesLeft THEN {NONE} ELSE {NONE, NFrames \div WordBits}
            mapped == {v \in Pages : Maps(v) \notin spared}
        IN  Cardinality({Maps(v) : v \in mapped}) = Cardinality(mapped)

\* The loops hand out frames in which page tables lie that they do not know of;
\* no page that the heap gets is mapped to one of those.
HeapAvoidsTables ==
    phase = "on" =>
        \A v \in HeapStart .. (FreePage - 1), t \in DOMAIN Tables :
            Tables[t] # 0 => Maps(v) \notin ({TablesPhysical[t], Maps(Tables[t])} \ {NONE})

\* Each mapped frame has one use, as long as there is one for each page.
FramesAreApart == FramesAreUnique /\ HeapAvoidsTables

\* A page fault is resolved: the faulting access goes through in the end, if the
\* page's table is one on which the processor and GetPage agree.
Agreed(v) ==
    /\ Tables[TableOf(v)] # 0
    /\ TablesPhysical[TableOf(v)] = Maps(Tables[TableOf(v)])
FaultIsResolved ==
    (access # NONE /\ Agreed(access)) ~> access = NONE

=============================================================================
