---------------------------- MODULE PagingProofs ----------------------------
(* What the page tables say, for every size of memory, tables and kernel,  *)
(* and every sequence of faults, until the frames run out.                 *)
EXTENDS Paging, FiniteSetTheorems, TLAPS

-----------------------------------------------------------------------------
(* The invariant.                                                          *)

Indexes == 0 .. (NTables - 1)
Places == 0 .. (N - 1)
PhysicalPages == 0 .. (NFrames - 1)
Entries == {NONE} \cup PhysicalPages
Rams == [PhysicalPages -> [Places -> Entries]]
Activations == [page : Pages, pc : {"GetPage", "memset", "AllocFrame"}]

TypeOK ==
    /\ phase \in {"start", "identity", "region", "on"}
    /\ i \in Nat /\ PlacementAddress \in Nat /\ kernelEnd \in Nat
    /\ Tables \in [Indexes -> PhysicalPages]
    /\ TablesPhysical \in [Indexes -> PhysicalPages]
    /\ ram \in Rams
    /\ Frames \in SUBSET PhysicalPages
    /\ FreePage \in Nat /\ FreePage <= HeapStart + MaxHeap
    /\ calls \in Seq(Activations)
    /\ access \in {NONE} \cup (Pages \ {0})

\* The pages the first loop maps to themselves: so far, and once it is over.
First == IF phase \in {"start", "identity"} THEN i ELSE (kernelEnd + 1) \div 2

\* The frames that both loops hand out, and the page each of them is for.
Bound == First + (RegionEnd - RegionStart)
PageOf(f) == IF f < First THEN f ELSE RegionStart + (f - First)

\* Each table takes the page behind the next one.
Made == {t \in Indexes : Tables[t] # 0}
Placed(k) ==
    /\ phase = "start" => Made = {} /\ PlacementAddress = 2 * k
    /\ phase # "start" =>
           PlacementAddress = IF Made = {} THEN 2 * k + 7 ELSE 2 * (k + 3 + 2 * Cardinality(Made))
    /\ phase \in {"region", "on"} => kernelEnd \in 2 * (k + 5) .. PlacementAddress
PlacementKept == \E k \in KernelPages : Placed(k)

\* The running loop is ahead of its activation, and before paging is on there is
\* no other: nothing faults.
Booting ==
    /\ phase = "start" => i = 0 /\ calls = << >>
    /\ phase = "identity" /\ i > 0 => 2 * (i - 1) < PlacementAddress
    /\ phase = "region" => i \in RegionStart .. RegionEnd
    /\ phase # "on" /\ calls # << >> => Depth = 1 /\ top.page = i - 1
    /\ phase = "region" /\ calls # << >> => i > RegionStart
    /\ phase # "on" => access = NONE

\* The table of an activation is there, and one it has yet to clear is not in use.
CallsKept ==
    \A j \in 1 .. Depth :
        LET t == TableOf(calls[j].page)
        IN  /\ calls[j].pc # "GetPage" => Tables[t] # 0
            /\ calls[j].pc = "memset" => IF phase = "identity" THEN TablesPhysical[t] = 0
                                          ELSE 2 * Tables[t] >= kernelEnd
            /\ phase = "on" => calls[j].page # 0

\* No page holds two tables; the processor and GetPage agree on each table but
\* the one that is being made, and those made after the first loop.
TablesKept ==
    \A t \in Made :
        /\ 2 * Tables[t] + 2 <= PlacementAddress
        /\ \A u \in Indexes : Tables[u] = Tables[t] => u = t
        /\ TablesPhysical[t] # Tables[t] =>
              IF phase = "identity"
                THEN calls # << >> /\ top.pc = "memset" /\ TableOf(top.page) = t
                ELSE 2 * Tables[t] >= kernelEnd
PhysicalKept == \A t \in Indexes : TablesPhysical[t] \in {0, Tables[t]}

\* The loops take frame after frame.
FramesKept ==
    /\ phase \in {"start", "identity"} => Frames = 0 .. (i - Depth - 1)
    /\ phase = "region" => Frames = 0 .. (First + (i - RegionStart) - Depth - 1)
    /\ phase = "on" => \E k \in 0 .. NFrames : k >= Bound /\ Frames = 0 .. (k - 1)

\* A frame is in one entry only; one of the loops', in the entry of its page.
EntriesKept ==
    \A p \in PhysicalPages, e \in Places :
        LET f == ram[p][e]
        IN  f # NONE =>
              /\ f \in Frames
              /\ \A q \in PhysicalPages, g \in Places : ram[q][g] = f => q = p /\ g = e
              /\ f < Bound => /\ p # 0 /\ p = Tables[TableOf(PageOf(f))]
                              /\ e = PageOf(f) % N

\* Kernel pages are in the tables the processor walks.
KernelMapped ==
    \A v \in 0 .. (First - 1) :
        \/ phase = "identity" /\ calls # << >> /\ v = i - 1
        \/ LET p == Tables[TableOf(v)]
           IN  /\ p # 0 /\ TablesPhysical[TableOf(v)] = p /\ ram[p][v % N] = v
               /\ phase \in {"region", "on"} => 2 * p < kernelEnd

IInv ==
    /\ TypeOK /\ PlacementKept /\ Booting /\ CallsKept /\ TablesKept /\ PhysicalKept
    /\ FramesKept /\ EntriesKept /\ KernelMapped

-----------------------------------------------------------------------------
(* Numbers.                                                                *)

LEMMA ConstantFacts ==
    /\ N \in Nat \ {0} /\ NTables \in Nat /\ NFrames \in Nat \ {0} /\ WordBits \in Nat \ {0}
    /\ MaxHeap \in Nat /\ RegionStart \in Nat /\ RegionEnd \in Nat /\ HeapStart \in Nat
    /\ RegionStart <= HeapStart /\ HeapStart <= RegionEnd /\ RegionEnd <= N * NTables
    /\ N * NTables \in Nat /\ HeapStart + MaxHeap <= N * NTables
    /\ Low \subseteq 1 .. (RegionStart - 1)
    /\ 2 * NTables <= HeapStart - RegionStart
    /\ NTables # 0 \/ KernelPages = {}
    /\ \A k \in KernelPages : /\ k \in Nat \ {0}
                              /\ k + 2 * NTables + 3 <= NFrames /\ k + 2 * NTables + 3 <= RegionStart
<1>1. \A k \in KernelPages : /\ k \in Nat \ {0}
                            /\ k + 2 * NTables + 3 <= NFrames /\ k + 2 * NTables + 3 <= RegionStart
  BY PagingAssumption
<1>2. NTables # 0 \/ KernelPages = {}
  <2> SUFFICES ASSUME NTables = 0, NEW k \in KernelPages PROVE FALSE
    OBVIOUS
  <2>1. RegionStart <= N * 0 /\ N * 0 = 0
    BY PagingAssumption
  <2> QED
    BY <1>1, <2>1, PagingAssumption
<1> QED
  BY <1>1, <1>2, PagingAssumption

LEMMA PlaceFacts ==
    \A v \in Pages : v \in Nat /\ TableOf(v) \in Indexes /\ v % N \in Places
<1> SUFFICES ASSUME NEW v \in Pages
             PROVE  v \in Nat /\ TableOf(v) \in Indexes /\ v % N \in Places
  OBVIOUS
<1>1. v \in Nat /\ v < N * NTables /\ N \in Nat \ {0} /\ NTables \in Nat
  BY ConstantFacts DEF Pages
<1>2. v % N \in 0 .. N - 1
  BY <1>1
<1>3. v \div N \in Nat /\ v \div N < NTables
  BY <1>1
<1> QED
  BY <1>1, <1>2, <1>3 DEF TableOf, Indexes, Places

\* An entry is for one page.
LEMMA SamePlace ==
    ASSUME NEW v \in Pages, NEW w \in Pages, TableOf(v) = TableOf(w), v % N = w % N
    PROVE  v = w
<1>1. v \in Nat /\ w \in Nat /\ N \in Nat \ {0}
  BY ConstantFacts DEF Pages
<1> QED
  BY <1>1 DEF TableOf

\* How far the placement pointer gets.
LEMMA PlacementBounds ==
    ASSUME TypeOK, PlacementKept
    PROVE  \E k \in KernelPages : \E m \in 0 .. NTables :
              /\ k \in Nat \ {0} /\ Placed(k) /\ IsFiniteSet(Made) /\ m = Cardinality(Made)
              /\ (m = 0 <=> Made = {}) /\ (Made # Indexes => m < NTables)
<1>1. PICK k \in KernelPages : Placed(k)
  BY DEF PlacementKept
<1>2. IsFiniteSet(Indexes) /\ Cardinality(Indexes) = NTables
  <2>1. 0 \in Int /\ NTables - 1 \in Int /\ NTables \in Nat
    BY ConstantFacts
  <2>2. /\ IsFiniteSet(0 .. (NTables - 1))
        /\ Cardinality(0 .. (NTables - 1)) = IF 0 > NTables - 1 THEN 0 ELSE (NTables - 1) - 0 + 1
    BY <2>1, FS_Interval
  <2> QED
    BY <2>1, <2>2 DEF Indexes
<1>3. Made \in SUBSET Indexes
  BY DEF Made
<1>4. /\ IsFiniteSet(Made) /\ Cardinality(Made) <= Cardinality(Indexes)
      /\ Cardinality(Indexes) = Cardinality(Made) => Indexes = Made
  BY <1>2, <1>3, FS_Subset
<1>5. Cardinality(Made) \in Nat /\ (Cardinality(Made) = 0 <=> Made = {})
  <2>1. Cardinality(Made) \in Nat
    BY <1>4, FS_CardinalityType
  <2>2. Cardinality(Made) = 0 <=> Made = {}
    BY <1>4, FS_EmptySet
  <2> QED
    BY <2>1, <2>2
<1>6. Cardinality(Made) \in 0 .. NTables
  BY <1>2, <1>4, <1>5, ConstantFacts
<1>7. Made # Indexes => Cardinality(Made) < NTables
  BY <1>2, <1>4, <1>6, ConstantFacts
<1> QED
  BY <1>1, <1>4, <1>5, <1>6, <1>7, ConstantFacts

\* The kernel's pages, tables included, lie below the region.
LEMMA FirstFacts ==
    ASSUME TypeOK, PlacementKept, Booting
    PROVE  /\ First \in Nat /\ First <= RegionStart /\ PlacementAddress <= 2 * RegionStart
           /\ phase # "start" => PlacementAddress > 0
           /\ phase \in {"region", "on"} => 2 * First - 1 <= kernelEnd /\ kernelEnd <= 2 * First
<1>1. PICK k \in KernelPages, m \in 0 .. NTables :
         k \in Nat \ {0} /\ Placed(k) /\ m = Cardinality(Made) /\ (m = 0 <=> Made = {})
  BY PlacementBounds
<1>2. k + 2 * NTables + 3 <= RegionStart /\ m \in Nat /\ m <= NTables /\ NTables \in Nat
  BY <1>1, ConstantFacts
<1>3. CASE phase = "start"
  BY <1>1, <1>2, <1>3, ConstantFacts DEF Placed, First, Booting
<1>4. CASE phase # "start"
  <2>1. PlacementAddress = (IF m = 0 THEN 2 * k + 7 ELSE 2 * (k + 3 + 2 * m))
    BY <1>1, <1>4 DEF Placed
  <2>2. PlacementAddress \in Nat \ {0} /\ PlacementAddress <= 2 * RegionStart
    <3>1. CASE m = 0
      <4>1. CASE NTables = 0
        BY <4>1, <1>1, <1>2, <1>4, <2>1, ConstantFacts
      <4>2. CASE NTables > 0
        BY <4>2, <1>1, <1>2, <1>4, <2>1, <3>1, ConstantFacts
      <4> QED
        BY <1>2, <4>1, <4>2
    <3>2. CASE m # 0
      BY <1>1, <1>2, <2>1, <3>2, ConstantFacts
    <3> QED
      BY <3>1, <3>2
  <2>3. CASE phase = "identity"
    BY <2>2, <2>3, ConstantFacts DEF First, Booting, TypeOK
  <2>4. CASE phase \in {"region", "on"}
    BY <1>1, <2>2, <2>4, ConstantFacts DEF First, TypeOK, Placed
  <2> QED
    BY <1>4, <2>3, <2>4 DEF TypeOK
<1> QED
  BY <1>3, <1>4

-----------------------------------------------------------------------------
(* The activations.                                                        *)

LEMMA TopFacts ==
    ASSUME TypeOK, calls # << >>
    PROVE  /\ Depth \in Nat \ {0} /\ Depth \in 1 .. Depth /\ top \in Activations
           /\ top.page \in Pages /\ TableOf(top.page) \in Indexes /\ top.page % N \in Places
<1>1. calls \in Seq(Activations)
  BY DEF TypeOK
<1>2. Len(calls) \in Nat \ {0}
  BY <1>1
<1>3. calls[Len(calls)] \in Activations
  BY <1>1, <1>2
<1>4. top.page \in Pages
  BY <1>3 DEF top, Depth, Activations
<1> QED
  BY <1>2, <1>3, <1>4, PlaceFacts DEF Depth, top

LEMMA GotoStep ==
    ASSUME TypeOK, calls # << >>, NEW pc \in {"GetPage", "memset", "AllocFrame"}, Goto(pc)
    PROVE  /\ calls' \in Seq(Activations) /\ Len(calls') = Depth
           /\ \A j \in 1 .. Depth : /\ calls'[j].page = calls[j].page
                                    /\ calls'[j].pc = IF j = Depth THEN pc ELSE calls[j].pc
<1>1. calls \in Seq(Activations) /\ Depth \in 1 .. Len(calls) /\ Depth = Len(calls)
  BY TopFacts DEF TypeOK, Depth
<1> DEFINE a == [calls[Depth] EXCEPT !.pc = pc]
<1>2. a \in Activations /\ a.page = calls[Depth].page /\ a.pc = pc
  <2>1. calls[Depth] \in Activations
    BY TopFacts DEF top
  <2> QED
    BY <2>1 DEF Activations
<1>3. calls' = [calls EXCEPT ![Depth] = a]
  BY DEF Goto
<1> HIDE DEF a
<1>4. calls' \in Seq(Activations) /\ Len(calls') = Len(calls)
  BY <1>1, <1>2, <1>3
<1>5. \A j \in 1 .. Depth : calls'[j] = IF j = Depth THEN a ELSE calls[j]
  BY <1>1, <1>3
<1>6. \A j \in 1 .. Depth : /\ calls'[j].page = calls[j].page
                           /\ calls'[j].pc = IF j = Depth THEN pc ELSE calls[j].pc
  BY <1>2, <1>5
<1> QED
  BY <1>1, <1>4, <1>6

LEMMA ReturnStep ==
    ASSUME TypeOK, calls # << >>, Return
    PROVE  /\ calls' \in Seq(Activations) /\ Len(calls') = Depth - 1
           /\ \A j \in 1 .. Depth - 1 : calls'[j] = calls[j]
<1>1. calls \in Seq(Activations) /\ Depth \in Nat \ {0} /\ Depth = Len(calls)
  BY TopFacts DEF TypeOK, Depth
<1>2. calls' = SubSeq(calls, 1, Depth - 1)
  BY DEF Return
<1> QED
  BY <1>1, <1>2

LEMMA CallStep ==
    ASSUME TypeOK, NEW v \in Pages, calls' = Append(calls, Activation(v))
    PROVE  /\ calls' \in Seq(Activations) /\ Len(calls') = Depth + 1 /\ Depth \in Nat
           /\ \A j \in 1 .. Depth : calls'[j] = calls[j]
           /\ calls'[Depth + 1].page = v /\ calls'[Depth + 1].pc = "GetPage"
<1>1. Activation(v) \in Activations /\ Activation(v).page = v /\ Activation(v).pc = "GetPage"
  BY DEF Activation, Activations
<1>2. calls \in Seq(Activations) /\ Len(calls) \in Nat
  BY DEF TypeOK
<1> QED
  BY <1>1, <1>2 DEF Depth

LEMMA FirstCall ==
    ASSUME TypeOK, calls = << >>, NEW v \in Pages, calls' = <<Activation(v)>>
    PROVE  /\ calls' \in Seq(Activations) /\ Len(calls') = 1
           /\ calls'[1].page = v /\ calls'[1].pc = "GetPage"
  BY DEF Activation, Activations

\* Tables are on pages of their own, below the region.
LEMMA TablesBelow ==
    ASSUME IInv, NEW t \in Made
    PROVE  Tables[t] \in PhysicalPages \ {0} /\ Tables[t] \in Pages \ {0} /\ Tables[t] < RegionStart
<1>1. Tables[t] \in PhysicalPages \ {0} /\ 2 * Tables[t] + 2 <= PlacementAddress
  BY DEF IInv, TypeOK, TablesKept, Made
<1>2. PlacementAddress <= 2 * RegionStart
  BY FirstFacts DEF IInv
<1>3. PlacementAddress \in Nat
  BY DEF IInv, TypeOK
<1> QED
  BY <1>1, <1>2, <1>3, ConstantFacts DEF PhysicalPages, Pages

\* What the running code accesses is an access of the kernel or a table.
LEMMA WantedFacts ==
    ASSUME IInv, wanted # NONE
    PROVE  /\ wanted \in Pages \ {0}
           /\ calls # << >> => /\ TableOf(top.page) \in Made
                               /\ wanted = Tables[TableOf(top.page)]
<1>1. CASE calls = << >>
  BY <1>1 DEF wanted, IInv, TypeOK
<1>2. CASE calls # << >>
  <2>1. top.pc # "GetPage" /\ wanted = Tables[TableOf(top.page)]
    BY <1>2 DEF wanted
  <2>2. TableOf(top.page) \in Made
    BY <1>2, <2>1, TopFacts DEF IInv, CallsKept, Made, top
  <2> QED
    BY <1>2, <2>1, <2>2, TablesBelow
<1> QED
  BY <1>1, <1>2

LEMMA FirstStays ==
    ASSUME UNCHANGED <<phase, i, kernelEnd>>
    PROVE  First' = First /\ Bound' = Bound /\ \A f : PageOf(f)' = PageOf(f)
  BY DEF First, Bound, PageOf

-----------------------------------------------------------------------------
(* Initially, and where the kernel runs.                                   *)

LEMMA InitIInv == Init => IInv
<1> SUFFICES ASSUME Init PROVE IInv
  OBVIOUS
<1>1. TypeOK
  BY ConstantFacts DEF Init, TypeOK, Indexes, PhysicalPages, Rams, Entries, Places, Activations
<1>2. Made = {}
  BY DEF Init, Made, Indexes
<1>3. PlacementKept
  BY <1>2 DEF Init, PlacementKept, Placed
<1>4. Booting /\ CallsKept
  BY DEF Init, Booting, CallsKept, Depth
<1>5. TablesKept /\ PhysicalKept
  BY <1>2 DEF Init, TablesKept, PhysicalKept, Indexes
<1>6. FramesKept
  BY DEF Init, FramesKept, Depth
<1>7. EntriesKept
  BY DEF Init, EntriesKept, PhysicalPages, Places
<1>8. KernelMapped
  BY DEF Init, KernelMapped, First
<1> QED
  BY <1>1, <1>3, <1>4, <1>5, <1>6, <1>7, <1>8 DEF IInv

LEMMA SameDirectory ==
    ASSUME IInv, phase = "on", UNCHANGED <<directory, phase, i, kernelEnd>>
    PROVE  /\ PlacementKept' /\ Booting' /\ TablesKept' /\ PhysicalKept'
           /\ FramesKept' /\ EntriesKept' /\ KernelMapped'
<1>1. /\ phase' = "on" /\ i' = i /\ kernelEnd' = kernelEnd /\ Tables' = Tables
      /\ TablesPhysical' = TablesPhysical /\ ram' = ram /\ Frames' = Frames
      /\ PlacementAddress' = PlacementAddress
  BY DEF directory
<1>2. Made' = Made
  BY <1>1 DEF Made
<1>3. First' = First /\ Bound' = Bound /\ \A f : PageOf(f)' = PageOf(f)
  BY <1>1, FirstStays
<1>4. PlacementKept'
  BY <1>1, <1>2 DEF IInv, PlacementKept, Placed
<1>5. Booting'
  BY <1>1 DEF Booting
<1>6. TablesKept' /\ PhysicalKept'
  BY <1>1, <1>2 DEF IInv, TablesKept, PhysicalKept
<1>7. FramesKept'
  BY <1>1, <1>3 DEF IInv, FramesKept
<1>8. EntriesKept'
  BY <1>1, <1>3 DEF IInv, EntriesKept
<1>9. KernelMapped'
  BY <1>1, <1>3 DEF IInv, KernelMapped
<1> QED
  BY <1>4, <1>5, <1>6, <1>7, <1>8, <1>9

\* An access that faults: PageFault's page is not the first one.
LEMMA PageFaultIInv ==
    ASSUME IInv, PageFault
    PROVE  IInv'
<1>1. wanted \in Pages \ {0} /\ phase = "on"
  BY WantedFacts DEF PageFault, Maps
<1>2. /\ calls' = Append(calls, Activation(wanted))
      /\ UNCHANGED <<directory, phase, i, FreePage, kernelEnd, access>>
  BY DEF PageFault, boot
<1>3. /\ calls' \in Seq(Activations) /\ Len(calls') = Depth + 1 /\ Depth \in Nat
      /\ \A j \in 1 .. Depth : calls'[j] = calls[j]
      /\ calls'[Depth + 1].page = wanted /\ calls'[Depth + 1].pc = "GetPage"
  BY <1>1, <1>2, CallStep DEF IInv
<1>4. TypeOK'
  BY <1>2, <1>3 DEF IInv, TypeOK, directory
<1>5. CallsKept'
  <2> SUFFICES ASSUME NEW j \in 1 .. Depth + 1
               PROVE  LET t == TableOf(calls'[j].page)
                      IN  /\ calls'[j].pc # "GetPage" => Tables'[t] # 0
                          /\ calls'[j].pc = "memset" => 2 * Tables'[t] >= kernelEnd'
                          /\ calls'[j].page # 0
    BY <1>1, <1>2, <1>3 DEF CallsKept, Depth, TableOf
  <2>1. CASE j \in 1 .. Depth
    BY <1>1, <1>2, <1>3, <2>1 DEF IInv, CallsKept, directory
  <2>2. CASE j = Depth + 1
    BY <1>1, <1>3, <2>2
  <2> QED
    BY <1>3, <2>1, <2>2
<1> QED
  BY <1>1, <1>2, <1>4, <1>5, SameDirectory DEF IInv

\* The kernel's own steps.
LEMMA KernelIInv ==
    ASSUME IInv,
           \/ Accessed
           \/ \E n \in 1 .. MaxHeap : GetFreePages(n)
           \/ \E v \in InUse : Touch(v) \/ MapPage(v)
    PROVE  IInv'
<1>1. phase = "on"
  BY DEF Accessed, GetFreePages, Touch, MapPage, Idle, Maps, IInv, TypeOK, Booting
<1>2. UNCHANGED <<directory, phase, i, kernelEnd>>
  BY DEF Accessed, GetFreePages, Touch, MapPage, boot
<1>3. ASSUME NEW v \in InUse PROVE v \in Pages \ {0}
  BY ConstantFacts DEF InUse, Pages, IInv, TypeOK
<1>4. CASE \E v \in InUse : MapPage(v)
  <2>1. PICK v \in InUse : MapPage(v)
    BY <1>4
  <2>2. calls = << >> /\ calls' = <<Activation(v)>> /\ UNCHANGED <<FreePage, access>>
    BY <2>1 DEF MapPage, Idle, boot
  <2>3. calls' \in Seq(Activations) /\ Len(calls') = 1 /\ calls'[1].page = v /\ calls'[1].pc = "GetPage"
    BY <1>3, <2>2, FirstCall DEF IInv
  <2>4. TypeOK'
    BY <1>2, <2>2, <2>3 DEF IInv, TypeOK, directory
  <2>5. CallsKept'
    BY <1>3, <2>3 DEF CallsKept, Depth
  <2> QED
    BY <1>1, <1>2, <2>4, <2>5, SameDirectory DEF IInv
<1>5. CASE Accessed \/ (\E n \in 1 .. MaxHeap : GetFreePages(n)) \/ \E v \in InUse : Touch(v)
  <2>1. calls' = calls
    BY <1>5 DEF Accessed, GetFreePages, Touch, boot
  <2>2. FreePage' \in Nat /\ FreePage' <= HeapStart + MaxHeap
    BY <1>5, ConstantFacts DEF Accessed, GetFreePages, Touch, boot, IInv, TypeOK
  <2>3. access' \in {NONE} \cup (Pages \ {0})
    BY <1>3, <1>5 DEF Accessed, GetFreePages, Touch, boot, IInv, TypeOK
  <2>4. TypeOK'
    BY <1>2, <2>1, <2>2, <2>3 DEF IInv, TypeOK, directory
  <2>5. CallsKept'
    BY <1>2, <2>1 DEF IInv, CallsKept, Depth, directory
  <2> QED
    BY <1>1, <1>2, <2>4, <2>5, SameDirectory DEF IInv
<1> QED
  BY <1>4, <1>5

-----------------------------------------------------------------------------
(* The loops of InitialisePaging.                                          *)

LEMMA StartPagingIInv ==
    ASSUME IInv, StartPaging
    PROVE  IInv'
<1>1. /\ phase = "start" /\ phase' = "identity" /\ i = 0 /\ calls = << >>
      /\ PlacementAddress' = AlignedUp(PlacementAddress + 1) + 5
      /\ UNCHANGED <<i, Tables, TablesPhysical, ram, Frames, FreePage, calls, access, kernelEnd>>
  BY DEF StartPaging, IInv, Booting
<1>2. PICK k \in KernelPages, m \in 0 .. NTables : k \in Nat \ {0} /\ Placed(k)
  BY PlacementBounds DEF IInv
<1>3. Made = {} /\ PlacementAddress = 2 * k
  BY <1>1, <1>2 DEF Placed
<1>4. PlacementAddress' = 2 * k + 7
  BY <1>1, <1>2, <1>3 DEF AlignedUp
<1>5. Made' = {}
  BY <1>1, <1>3 DEF Made
<1>6. TypeOK'
  BY <1>1, <1>2, <1>4 DEF IInv, TypeOK
<1>7. PlacementKept'
  BY <1>1, <1>2, <1>4, <1>5 DEF PlacementKept, Placed
<1>8. Booting' /\ CallsKept' /\ FramesKept'
  BY <1>1 DEF IInv, Booting, CallsKept, FramesKept, Depth
<1>9. TablesKept' /\ PhysicalKept'
  BY <1>1, <1>5 DEF IInv, TablesKept, PhysicalKept
<1>10. First' = First /\ Bound' = Bound /\ \A f : PageOf(f)' = PageOf(f)
  BY <1>1 DEF First, Bound, PageOf
<1>11. EntriesKept'
  BY <1>1, <1>10 DEF IInv, EntriesKept
<1>12. KernelMapped'
  BY <1>1 DEF KernelMapped, First
<1> QED
  BY <1>6, <1>7, <1>8, <1>9, <1>11, <1>12 DEF IInv

\* The first loop goes on, or has caught up with the placement pointer.
LEMMA IdentityLoopIInv ==
    ASSUME IInv, IdentityLoop
    PROVE  IInv'
<1>1. /\ phase = "identity" /\ calls = << >> /\ Depth = 0 /\ i \in Nat /\ PlacementAddress \in Nat
      /\ UNCHANGED <<directory, FreePage, access>>
  BY DEF IdentityLoop, IInv, TypeOK, Depth
<1>2. /\ Tables' = Tables /\ TablesPhysical' = TablesPhysical /\ ram' = ram /\ Frames' = Frames
      /\ PlacementAddress' = PlacementAddress /\ Made' = Made
  BY <1>1 DEF directory, Made
<1>3. First = i /\ i <= RegionStart /\ PlacementAddress <= 2 * RegionStart /\ PlacementAddress > 0
  BY <1>1, FirstFacts DEF IInv, First
<1>4. /\ Frames = 0 .. i - 1
      /\ \A p \in PhysicalPages, e \in Places : ram[p][e] # NONE => ram[p][e] \in Nat /\ ram[p][e] < i
  BY <1>1, <1>3 DEF IInv, FramesKept, EntriesKept
<1>5. \A t \in Made : TablesPhysical[t] = Tables[t] /\ 2 * Tables[t] + 2 <= PlacementAddress
  BY <1>1 DEF IInv, TablesKept
<1>6. \A v \in 0 .. i - 1 :
         LET p == Tables[TableOf(v)]
         IN  p # 0 /\ TablesPhysical[TableOf(v)] = p /\ ram[p][v % N] = v
  BY <1>1, <1>3 DEF IInv, KernelMapped
<1>7. PhysicalKept'
  BY <1>2 DEF IInv, PhysicalKept
<1>8. ASSUME First' \in Nat, i <= First' PROVE EntriesKept'
  <2>1. \A f \in Nat : f < i => f < Bound /\ f < Bound' /\ PageOf(f) = f /\ PageOf(f)' = f
    <3> SUFFICES ASSUME NEW f \in Nat, f < i
                 PROVE  f < Bound /\ f < Bound' /\ PageOf(f) = f /\ PageOf(f)' = f
      OBVIOUS
    <3>1. f < First /\ f < First'
      BY <1>1, <1>3, <1>8
    <3>2. f < Bound
      BY <1>1, <1>3, ConstantFacts DEF Bound
    <3>3. f < Bound'
      <4>1. Bound' = First' + (RegionEnd - RegionStart)
        BY DEF Bound
      <4>2. RegionEnd - RegionStart \in Nat
        BY ConstantFacts
      <4>3. First' \in Nat /\ f < First'
        BY <1>8, <3>1
      <4> QED
        BY <4>1, <4>2, <4>3
    <3> QED
      BY <3>1, <3>2, <3>3 DEF PageOf
  <2> QED
    BY <1>2, <1>4, <2>1 DEF IInv, EntriesKept
<1>9. PICK k \in KernelPages, m \in 0 .. NTables :
         k \in Nat \ {0} /\ Placed(k) /\ m = Cardinality(Made) /\ (m = 0 <=> Made = {})
  BY PlacementBounds DEF IInv
<1>10. CASE 2 * i < PlacementAddress
  <2>1. calls' = <<Activation(i)>> /\ i' = i + 1 /\ phase' = "identity" /\ kernelEnd' = kernelEnd
    BY <1>1, <1>10 DEF IdentityLoop
  <2>2. i \in Pages
    BY <1>1, <1>3, <1>10, ConstantFacts DEF Pages
  <2>3. calls' \in Seq(Activations) /\ Len(calls') = 1 /\ calls'[1].page = i /\ calls'[1].pc = "GetPage"
    BY <1>1, <2>1, <2>2, FirstCall DEF IInv
  <2>4. TypeOK'
    BY <1>1, <1>2, <2>1, <2>3 DEF IInv, TypeOK
  <2>5. PlacementKept'
    BY <1>1, <1>2, <1>9, <2>1 DEF PlacementKept, Placed
  <2>6. Booting'
    BY <1>1, <1>2, <1>10, <2>1, <2>3 DEF IInv, Booting, Depth, top
  <2>7. CallsKept'
    BY <2>1, <2>3 DEF CallsKept, Depth
  <2>8. TablesKept'
    BY <1>2, <1>5 DEF IInv, TablesKept
  <2>9. FramesKept'
    BY <1>1, <1>2, <1>4, <2>1, <2>3 DEF FramesKept, Depth
  <2>10. First' = i + 1
    BY <2>1 DEF First
  <2>11. KernelMapped'
    BY <1>1, <1>2, <1>6, <2>1, <2>10 DEF KernelMapped
  <2> QED
    BY <1>1, <1>7, <1>8, <2>4, <2>5, <2>6, <2>7, <2>8, <2>9, <2>10, <2>11 DEF IInv
<1>11. CASE ~(2 * i < PlacementAddress)
  <2>1. /\ calls' = << >> /\ i' = RegionStart /\ phase' = "region" /\ kernelEnd' = PlacementAddress
    BY <1>1, <1>11 DEF IdentityLoop
  <2>2. i > 0 /\ 2 * (i - 1) < PlacementAddress /\ PlacementAddress <= 2 * i
    BY <1>1, <1>3, <1>11 DEF IInv, Booting
  <2>3. First' = i
    BY <1>1, <2>1, <2>2 DEF First
  <2>4. TypeOK'
    BY <1>1, <1>2, <2>1, ConstantFacts DEF IInv, TypeOK
  <2>5. PlacementKept'
    <3>1. Made # {}
      <4>1. 0 \in Pages /\ 0 \in 0 .. i - 1
        BY <1>1, <1>3, <2>2, ConstantFacts DEF Pages
      <4> QED
        BY <1>6, <4>1, PlaceFacts DEF Made
    <3>2. m >= 1 /\ PlacementAddress = 2 * (k + 3 + 2 * m)
      BY <1>1, <1>9, <3>1 DEF Placed
    <3>3. PlacementAddress \in 2 * (k + 5) .. PlacementAddress
      BY <1>1, <1>9, <3>2
    <3>4. Placed(k)'
      BY <1>1, <1>2, <1>9, <2>1, <3>1, <3>2, <3>3 DEF Placed
    <3> QED
      BY <3>4 DEF PlacementKept
  <2>6. Booting'
    BY <1>1, <2>1, ConstantFacts DEF IInv, Booting
  <2>7. CallsKept'
    BY <2>1 DEF CallsKept, Depth
  <2>8. TablesKept'
    BY <1>2, <1>5 DEF IInv, TablesKept
  <2>9. FramesKept'
    BY <1>1, <1>2, <1>4, <2>1, <2>3, ConstantFacts DEF FramesKept, Depth
  <2>10. KernelMapped'
    <3> SUFFICES ASSUME NEW v \in 0 .. i - 1
                 PROVE  LET p == Tables[TableOf(v)]
                        IN  /\ p # 0 /\ TablesPhysical[TableOf(v)] = p /\ ram[p][v % N] = v
                            /\ 2 * p < PlacementAddress
      BY <1>2, <2>1, <2>3 DEF KernelMapped
    <3>1. v \in Pages
      BY <1>1, <1>3, ConstantFacts DEF Pages
    <3>2. TableOf(v) \in Made
      BY <1>6, <3>1, PlaceFacts DEF Made
    <3>3. Tables[TableOf(v)] \in Nat
      BY <3>1, PlaceFacts DEF IInv, TypeOK, PhysicalPages
    <3> QED
      BY <1>1, <1>5, <1>6, <3>2, <3>3
  <2> QED
    BY <1>1, <1>7, <1>8, <2>3, <2>4, <2>5, <2>6, <2>7, <2>8, <2>9, <2>10 DEF IInv
<1> QED
  BY <1>10, <1>11

LEMMA RegionLoopIInv ==
    ASSUME IInv, RegionLoop
    PROVE  IInv'
<1>1. /\ phase = "region" /\ calls = << >> /\ Depth = 0 /\ i \in RegionStart .. RegionEnd
      /\ UNCHANGED <<directory, access, kernelEnd>>
  BY DEF RegionLoop, IInv, Booting, Depth
<1>2. /\ Tables' = Tables /\ TablesPhysical' = TablesPhysical /\ ram' = ram /\ Frames' = Frames
      /\ PlacementAddress' = PlacementAddress /\ Made' = Made /\ kernelEnd' = kernelEnd
      /\ access' = access
  BY <1>1 DEF directory, Made
<1>3. /\ First \in Nat /\ Frames = 0 .. (First + (i - RegionStart) - 1)
      /\ Bound = First + (RegionEnd - RegionStart)
  BY <1>1, FirstFacts, ConstantFacts DEF IInv, FramesKept, Bound
<1>4. ASSUME phase' \in {"region", "on"}
      PROVE  /\ First' = First /\ Bound' = Bound /\ PlacementKept' /\ TablesKept' /\ PhysicalKept'
             /\ EntriesKept' /\ KernelMapped'
  <2>1. First' = First
    BY <1>1, <1>2, <1>4 DEF First
  <2>2. Bound' = Bound /\ \A f : PageOf(f)' = PageOf(f)
    BY <2>1 DEF Bound, PageOf
  <2>3. PlacementKept'
    BY <1>1, <1>2, <1>4 DEF IInv, PlacementKept, Placed
  <2>4. TablesKept' /\ PhysicalKept'
    BY <1>1, <1>2, <1>4 DEF IInv, TablesKept, PhysicalKept
  <2>5. EntriesKept'
    BY <1>2, <2>2 DEF IInv, EntriesKept
  <2>6. KernelMapped'
    BY <1>1, <1>2, <1>4, <2>1 DEF IInv, KernelMapped
  <2> QED
    BY <2>1, <2>2, <2>3, <2>4, <2>5, <2>6
<1>5. CASE i < RegionEnd
  <2>1. calls' = <<Activation(i)>> /\ i' = i + 1 /\ phase' = "region" /\ FreePage' = FreePage
    BY <1>1, <1>5 DEF RegionLoop
  <2>2. i \in Pages /\ i + 1 \in Nat
    BY <1>1, <1>5, ConstantFacts DEF Pages
  <2>3. calls' \in Seq(Activations) /\ Len(calls') = 1 /\ calls'[1].page = i /\ calls'[1].pc = "GetPage"
    BY <1>1, <2>1, <2>2, FirstCall DEF IInv
  <2>4. TypeOK'
    BY <1>2, <2>1, <2>2, <2>3 DEF IInv, TypeOK
  <2>5. Booting'
    BY <1>1, <1>2, <1>5, <2>1, <2>3, ConstantFacts DEF IInv, Booting, Depth, top
  <2>6. CallsKept'
    BY <2>1, <2>3 DEF CallsKept, Depth
  <2>7. FramesKept'
    BY <1>1, <1>2, <1>3, <1>4, <2>1, <2>3, ConstantFacts DEF FramesKept, Depth
  <2> QED
    BY <1>4, <2>1, <2>4, <2>5, <2>6, <2>7 DEF IInv
<1>6. CASE ~(i < RegionEnd)
  <2>1. calls' = << >> /\ i' = i /\ phase' = "on" /\ FreePage' = HeapStart
    BY <1>1, <1>6 DEF RegionLoop
  <2>2. TypeOK'
    BY <1>2, <2>1, ConstantFacts DEF IInv, TypeOK
  <2>3. Booting' /\ CallsKept'
    BY <2>1 DEF Booting, CallsKept, Depth
  <2>4. FramesKept'
    <3>1. i = RegionEnd /\ Frames = 0 .. (Bound - 1) /\ Bound \in Nat
      BY <1>1, <1>3, <1>6, ConstantFacts
    <3>2. Bound <= NFrames
      <4> SUFFICES ASSUME Bound > NFrames PROVE FALSE
        BY <3>1, ConstantFacts
      <4>1. NFrames \in 0 .. Bound - 1 /\ NFrames \notin PhysicalPages
        BY <3>1, ConstantFacts DEF PhysicalPages
      <4> QED
        BY <3>1, <4>1 DEF IInv, TypeOK
    <3>3. Bound \in 0 .. NFrames
      BY <3>1, <3>2, ConstantFacts
    <3> QED
      BY <1>2, <1>4, <2>1, <3>1, <3>3 DEF FramesKept
  <2> QED
    BY <1>4, <2>1, <2>2, <2>3, <2>4 DEF IInv
<1> QED
  BY <1>1, <1>5, <1>6, ConstantFacts

-----------------------------------------------------------------------------
(* What the tables say.                                                    *)

LEMMA PageOfFacts ==
    ASSUME IInv, NEW f \in Nat, f < Bound
    PROVE  PageOf(f) \in Pages
<1>1. First \in Nat /\ First <= RegionStart
  BY FirstFacts DEF IInv
<1>2. CASE f < First
  BY <1>1, <1>2, ConstantFacts DEF PageOf, Pages
<1>3. CASE ~(f < First)
  <2>1. PageOf(f) = RegionStart + (f - First)
    BY <1>3 DEF PageOf
  <2>2. RegionStart + (f - First) \in Nat /\ RegionStart + (f - First) < RegionEnd
    BY <1>1, <1>3, ConstantFacts DEF Bound
  <2> QED
    BY <2>1, <2>2, ConstantFacts DEF Pages
<1> QED
  BY <1>2, <1>3

\* A frame of the loops is where its page's entry is.
LEMMA EntryIsPageOf ==
    ASSUME IInv, NEW v \in Pages, NEW f \in Nat, f < Bound,
           TableOf(v) \in Made, ram[Tables[TableOf(v)]][v % N] = f
    PROVE  v = PageOf(f)
<1> DEFINE p == Tables[TableOf(v)]
           w == PageOf(f)
<1>1. p \in PhysicalPages /\ v % N \in Places /\ f # NONE /\ w \in Pages
  BY TablesBelow, PlaceFacts, PageOfFacts DEF NONE
<1>2. p = Tables[TableOf(w)] /\ v % N = w % N
  <2> HIDE DEF p, w
  <2>1. ram[p][v % N] = f
    BY DEF p
  <2> QED
    BY <1>1, <2>1 DEF IInv, EntriesKept, w
<1>3. TableOf(w) = TableOf(v)
  BY <1>1, <1>2, PlaceFacts DEF IInv, TablesKept
<1> HIDE DEF w
<1> QED
  BY <1>1, <1>2, <1>3, SamePlace DEF w

\* Where an access goes once paging is on.
LEMMA MapsFacts ==
    ASSUME IInv, phase = "on", NEW v \in Pages, Maps(v) # NONE
    PROVE  /\ TableOf(v) \in Made /\ TablesPhysical[TableOf(v)] = Tables[TableOf(v)]
           /\ Maps(v) = ram[Tables[TableOf(v)]][v % N] /\ Maps(v) \in PhysicalPages
           /\ Maps(v) < Bound => v = PageOf(Maps(v))
<1>1. TableOf(v) \in Indexes /\ v % N \in Places
  BY PlaceFacts
<1>2. /\ TablesPhysical[TableOf(v)] # 0 /\ Maps(v) = ram[TablesPhysical[TableOf(v)]][v % N]
  BY DEF Maps
<1>3. TablesPhysical[TableOf(v)] = Tables[TableOf(v)] /\ TableOf(v) \in Made
  BY <1>1, <1>2 DEF IInv, PhysicalKept, Made
<1>4. Maps(v) = ram[Tables[TableOf(v)]][v % N]
  BY <1>2, <1>3
<1>5. Maps(v) \in PhysicalPages
  BY <1>1, <1>3, <1>4, TablesBelow DEF IInv, TypeOK, Rams, Entries
<1>6. Maps(v) < Bound => v = PageOf(Maps(v))
  BY <1>3, <1>4, <1>5, EntryIsPageOf DEF PhysicalPages
<1> QED
  BY <1>3, <1>4, <1>5, <1>6

\* Where an activation's access to its table goes.
LEMMA AccessFacts ==
    ASSUME IInv, calls # << >>, top.pc # "GetPage", Maps(wanted) # NONE
    PROVE  /\ phase # "start" /\ TableOf(top.page) \in Made /\ wanted = Tables[TableOf(top.page)]
           /\ wanted \in Pages \ {0} /\ Maps(wanted) \in PhysicalPages
           /\ phase # "on" => Maps(wanted) = wanted
           /\ phase = "on" /\ Maps(wanted) < First => Maps(wanted) = wanted
<1>1. phase # "start"
  BY DEF IInv, Booting
<1>2. wanted = Tables[TableOf(top.page)] /\ TableOf(top.page) \in Made
  BY TopFacts DEF wanted, IInv, CallsKept, Made, top
<1>3. wanted \in Pages \ {0} /\ wanted \in PhysicalPages
  BY <1>2, TablesBelow
<1>4. phase # "on" => Maps(wanted) = wanted
  BY DEF Maps
<1>5. phase = "on" => Maps(wanted) \in PhysicalPages
  BY <1>3, MapsFacts
<1>6. phase = "on" /\ Maps(wanted) < First => Maps(wanted) = wanted
  <2> SUFFICES ASSUME phase = "on", Maps(wanted) < First PROVE Maps(wanted) = wanted
    OBVIOUS
  <2>1. Maps(wanted) \in Nat /\ First \in Nat
    BY <1>5, FirstFacts DEF PhysicalPages, IInv
  <2>2. Maps(wanted) < Bound
    BY <2>1, ConstantFacts DEF Bound
  <2>3. wanted = PageOf(Maps(wanted))
    BY <1>3, <2>2, MapsFacts
  <2> QED
    BY <2>3 DEF PageOf
<1> QED
  BY <1>1, <1>2, <1>3, <1>4, <1>5, <1>6

-----------------------------------------------------------------------------
(* GetPage.                                                                *)

\* A new table is behind all there are, and in memory.
LEMMA NewTable ==
    ASSUME IInv, phase # "start", NEW t \in Indexes, Tables[t] = 0
    PROVE  LET p == AlignedUp(PlacementAddress) \div 2
           IN  /\ p \in PhysicalPages \ {0} /\ 2 * p >= PlacementAddress
               /\ AlignedUp(PlacementAddress) = 2 * p
               /\ /\ Tables' = [Tables EXCEPT ![t] = p] /\ PlacementAddress' = 2 * p + 2
                  /\ UNCHANGED <<phase, kernelEnd>>
                  => PlacementKept' /\ Made' = Made \cup {t}
<1> DEFINE p == AlignedUp(PlacementAddress) \div 2
<1>1. PICK k \in KernelPages, m \in 0 .. NTables :
         /\ k \in Nat \ {0} /\ Placed(k) /\ IsFiniteSet(Made) /\ m = Cardinality(Made)
         /\ (m = 0 <=> Made = {}) /\ (Made # Indexes => m < NTables)
  BY PlacementBounds DEF IInv
<1>2. t \notin Made /\ m < NTables /\ m \in Nat
  BY <1>1, ConstantFacts DEF Made
<1>3. PlacementAddress = IF m = 0 THEN 2 * k + 7 ELSE 2 * (k + 3 + 2 * m)
  BY <1>1 DEF Placed
<1>4. p = k + 4 + 2 * m /\ AlignedUp(PlacementAddress) = 2 * p /\ 2 * p >= PlacementAddress
  <2>1. CASE m = 0
    <3>1. PlacementAddress = 2 * k + 7 /\ (2 * k + 7) \div 2 = k + 3
      BY <1>1, <1>3, <2>1
    <3>2. AlignedUp(PlacementAddress) = 2 * (k + 4)
      BY <1>1, <3>1 DEF AlignedUp
    <3> QED
      BY <1>1, <2>1, <3>1, <3>2
  <2>2. CASE m # 0
    <3>1. PlacementAddress = 2 * (k + 3 + 2 * m) /\ PlacementAddress \div 2 = k + 3 + 2 * m
      BY <1>1, <1>2, <1>3, <2>2
    <3>2. AlignedUp(PlacementAddress) = 2 * (k + 4 + 2 * m)
      <4>1. PlacementAddress >= 2
        BY <1>1, <1>2, <3>1
      <4>2. AlignedUp(PlacementAddress) = (k + 3 + 2 * m + 1) * 2
        BY <3>1, <4>1 DEF AlignedUp
      <4> QED
        BY <1>1, <1>2, <4>2
    <3>3. (2 * (k + 4 + 2 * m)) \div 2 = k + 4 + 2 * m
      BY <1>1, <1>2
    <3>4. p = k + 4 + 2 * m
      BY <3>2, <3>3
    <3>5. 2 * (k + 4 + 2 * m) >= 2 * (k + 3 + 2 * m)
      BY <1>1, <1>2
    <3> HIDE DEF p
    <3> QED
      BY <3>1, <3>2, <3>4, <3>5
  <2> QED
    BY <2>1, <2>2
<1> HIDE DEF p
<1>5. p \in PhysicalPages \ {0}
  BY <1>1, <1>2, <1>4, ConstantFacts DEF PhysicalPages
<1>6. ASSUME Tables' = [Tables EXCEPT ![t] = p], PlacementAddress' = 2 * p + 2,
             UNCHANGED <<phase, kernelEnd>>
      PROVE  PlacementKept' /\ Made' = Made \cup {t}
  <2>1. Made' = Made \cup {t}
    BY <1>5, <1>6 DEF Made, IInv, TypeOK
  <2>2. Cardinality(Made') = m + 1
    BY <1>1, <1>2, <2>1, FS_AddElement
  <2>3. PlacementAddress' = 2 * (k + 3 + 2 * Cardinality(Made'))
    BY <1>1, <1>2, <1>4, <1>6, <2>2
  <2>4. PlacementAddress' \in Nat /\ PlacementAddress' >= PlacementAddress /\ PlacementAddress \in Nat
    <3>1. PlacementAddress \in Nat
      BY DEF IInv, TypeOK
    <3>2. p \in Nat
      BY <1>1, <1>2, <1>4
    <3> QED
      BY <1>4, <1>6, <3>1, <3>2
  <2>5. phase \in {"region", "on"} => kernelEnd \in 2 * (k + 5) .. PlacementAddress'
    BY <1>1, <2>4 DEF Placed
  <2>6. Made' # {}
    BY <2>1
  <2>7. Placed(k)'
    BY <1>6, <2>3, <2>5, <2>6 DEF Placed
  <2> QED
    BY <2>1, <2>7 DEF PlacementKept
<1> QED
  BY <1>4, <1>5, <1>6 DEF p

LEMMA GetPageIInv ==
    ASSUME IInv, GetPage
    PROVE  IInv'
<1> DEFINE t == TableOf(top.page)
<1>1. /\ calls # << >> /\ top.pc = "GetPage" /\ phase # "start" /\ Depth \in Nat \ {0}
      /\ t \in Indexes
      /\ phase # "on" => Depth = 1
      /\ UNCHANGED <<TablesPhysical, ram, Frames, phase, i, FreePage, kernelEnd, access>>
  BY TopFacts DEF GetPage, IInv, Booting, boot
<1>2. First' = First /\ Bound' = Bound /\ \A f : PageOf(f)' = PageOf(f)
  BY <1>1, FirstStays
<1> HIDE DEF t
<1>3. phase = "identity" => \A u \in Made : TablesPhysical[u] = Tables[u]
  BY <1>1 DEF IInv, TablesKept
<1>4. CASE Tables[t] # 0
  <2>1. Goto("AllocFrame") /\ UNCHANGED <<Tables, PlacementAddress>>
    BY <1>4 DEF GetPage, t
  <2>2. /\ calls' \in Seq(Activations) /\ Len(calls') = Depth
        /\ \A j \in 1 .. Depth : /\ calls'[j].page = calls[j].page
                                 /\ calls'[j].pc = IF j = Depth THEN "AllocFrame" ELSE calls[j].pc
    BY <1>1, <2>1, GotoStep DEF IInv
  <2>3. calls' # << >> /\ Depth' = Depth /\ Depth \in 1 .. Depth /\ top.page = calls[Depth].page
    BY <1>1, <2>2 DEF Depth, top
  <2>4. Made' = Made
    BY <2>1 DEF Made
  <2>5. TypeOK' /\ PlacementKept' /\ PhysicalKept'
    BY <1>1, <2>1, <2>2, <2>4 DEF IInv, TypeOK, PlacementKept, Placed, PhysicalKept
  <2>6. Booting'
    BY <1>1, <2>1, <2>2, <2>3 DEF IInv, Booting, top
  <2>7. CallsKept'
    BY <1>1, <1>4, <2>1, <2>2, <2>3 DEF IInv, CallsKept, TableOf, t
  <2>8. TablesKept'
    BY <1>1, <1>3, <2>1, <2>4 DEF IInv, TablesKept
  <2>9. FramesKept'
    BY <1>1, <1>2, <2>3 DEF IInv, FramesKept
  <2>10. EntriesKept'
    BY <1>1, <1>2, <2>1 DEF IInv, EntriesKept
  <2>11. KernelMapped'
    BY <1>1, <1>2, <2>1, <2>3 DEF IInv, KernelMapped
  <2> QED
    BY <2>5, <2>6, <2>7, <2>8, <2>9, <2>10, <2>11 DEF IInv
<1>5. CASE Tables[t] = 0
  <2> DEFINE p == AlignedUp(PlacementAddress) \div 2
  <2>1. /\ Goto("memset") /\ Tables' = [Tables EXCEPT ![t] = p]
        /\ PlacementAddress' = AlignedUp(PlacementAddress) + 2
    BY <1>5 DEF GetPage, t
  <2>2. /\ p \in PhysicalPages \ {0} /\ 2 * p >= PlacementAddress
        /\ AlignedUp(PlacementAddress) = 2 * p
    BY <1>1, <1>5, NewTable
  <2>3. PlacementKept' /\ Made' = Made \cup {t}
    BY <1>1, <1>5, <2>1, <2>2, NewTable
  <2> HIDE DEF p
  <2>4. /\ calls' \in Seq(Activations) /\ Len(calls') = Depth
        /\ \A j \in 1 .. Depth : /\ calls'[j].page = calls[j].page
                                 /\ calls'[j].pc = IF j = Depth THEN "memset" ELSE calls[j].pc
    BY <1>1, <2>1, GotoStep DEF IInv
  <2>5. /\ calls' # << >> /\ Depth' = Depth /\ Depth \in 1 .. Depth /\ top.page = calls[Depth].page
        /\ top'.page = top.page /\ top'.pc = "memset" /\ Len(calls) = Depth
    BY <1>1, <2>4 DEF Depth, top
  <2>6. /\ p \in Nat \ {0} /\ PlacementAddress \in Nat /\ PlacementAddress' = 2 * p + 2
        /\ 2 * p >= PlacementAddress
    BY <2>1, <2>2 DEF PhysicalPages, IInv, TypeOK
  <2>7. \A u \in Indexes : Tables'[u] = IF u = t THEN p ELSE Tables[u]
    BY <1>1, <2>1 DEF IInv, TypeOK
  <2>8. TypeOK'
    BY <1>1, <2>1, <2>2, <2>4, <2>6 DEF IInv, TypeOK
  <2>9. Booting'
    BY <1>1, <2>5, <2>6 DEF IInv, Booting, TypeOK
  <2>10. phase \in {"region", "on"} => 2 * p >= kernelEnd
    <3>1. phase \in {"region", "on"} => kernelEnd <= PlacementAddress /\ kernelEnd \in Nat
      BY DEF IInv, PlacementKept, Placed, TypeOK
    <3> QED
      BY <2>6, <3>1
  <2>11. phase # "identity" => phase \in {"region", "on"}
    BY <1>1 DEF IInv, TypeOK
  <2>12. CallsKept'
    <3> SUFFICES ASSUME NEW j \in 1 .. Depth
                 PROVE  LET u == TableOf(calls'[j].page)
                        IN  /\ calls'[j].pc # "GetPage" => Tables'[u] # 0
                            /\ calls'[j].pc = "memset" => IF phase = "identity" THEN TablesPhysical[u] = 0
                                                          ELSE 2 * Tables'[u] >= kernelEnd
                            /\ phase = "on" => calls'[j].page # 0
      BY <1>1, <2>5 DEF CallsKept, TableOf
    <3>1. calls'[j].page = calls[j].page /\ (phase = "on" => calls[j].page # 0)
      BY <2>4 DEF IInv, CallsKept
    <3>2. CASE j = Depth
      <4>1. TableOf(calls'[j].page) = t /\ Tables'[t] = p
        BY <1>1, <2>5, <2>7, <3>1, <3>2 DEF t
      <4>2. TablesPhysical[t] = 0
        BY <1>1, <1>5 DEF IInv, PhysicalKept
      <4> QED
        BY <2>6, <2>10, <2>11, <3>1, <4>1, <4>2
    <3>3. CASE j # Depth
      <4> DEFINE u == TableOf(calls[j].page)
      <4>1. calls'[j].pc = calls[j].pc /\ u \in Indexes
        <5>1. calls[j] \in Activations
          BY <2>5 DEF IInv, TypeOK
        <5> QED
          BY <2>4, <3>3, <5>1, PlaceFacts DEF Activations
      <4>2. calls[j].pc # "GetPage" => Tables[u] # 0 /\ u # t /\ Tables'[u] = Tables[u]
        BY <1>5, <2>7, <4>1 DEF IInv, CallsKept
      <4> QED
        BY <3>1, <4>1, <4>2 DEF IInv, CallsKept
    <3> QED
      BY <3>2, <3>3
  <2>13. TablesKept'
    <3>1. \A u \in Made : u # t /\ u \in Indexes /\ 2 * Tables[u] + 2 <= PlacementAddress /\ Tables[u] \in Nat
      BY <1>5 DEF Made, IInv, TablesKept, TypeOK, PhysicalPages
    <3>2. \A u \in Indexes : u # t => Tables[u] # p
      BY <2>6, <3>1 DEF Made
    <3> SUFFICES ASSUME NEW u \in Made'
                 PROVE  /\ 2 * Tables'[u] + 2 <= PlacementAddress'
                        /\ \A w \in Indexes : Tables'[w] = Tables'[u] => w = u
                        /\ TablesPhysical[u] # Tables'[u] =>
                              IF phase = "identity" THEN u = t ELSE 2 * Tables'[u] >= kernelEnd
      BY <1>1, <2>5 DEF TablesKept, TableOf, t
    <3>3. CASE u = t
      BY <1>1, <2>6, <2>7, <2>10, <2>11, <3>2, <3>3
    <3>4. CASE u # t
      <4>1. u \in Made /\ Tables'[u] = Tables[u]
        BY <2>3, <2>7, <3>4 DEF Made
      <4>2. \A w \in Indexes : Tables'[w] = Tables'[u] => w = u
        BY <2>7, <3>2, <3>1, <4>1 DEF IInv, TablesKept
      <4>3. 2 * Tables'[u] + 2 <= PlacementAddress'
        BY <2>6, <3>1, <4>1
      <4> QED
        BY <1>3, <4>1, <4>2, <4>3 DEF IInv, TablesKept
    <3> QED
      BY <3>3, <3>4
  <2>14. PhysicalKept'
    BY <1>1, <1>5, <2>7 DEF IInv, PhysicalKept
  <2>15. FramesKept'
    BY <1>1, <1>2, <2>5 DEF IInv, FramesKept
  <2>16. EntriesKept'
    <3>1. ASSUME NEW q \in PhysicalPages, q # 0, NEW f \in Nat, f < Bound, q = Tables[TableOf(PageOf(f))]
          PROVE  q = Tables'[TableOf(PageOf(f))]
      <4>1. TableOf(PageOf(f)) \in Indexes
        BY <3>1, PageOfFacts, PlaceFacts
      <4> QED
        BY <1>5, <2>7, <3>1, <4>1
    <3>2. \A q \in PhysicalPages, e \in Places : ram[q][e] # NONE => ram[q][e] \in Nat
      BY DEF IInv, TypeOK, Rams, Entries, PhysicalPages
    <3> SUFFICES ASSUME NEW q \in PhysicalPages, NEW e \in Places, ram[q][e] # NONE
                 PROVE  LET f == ram[q][e]
                        IN  /\ f \in Frames
                            /\ \A r \in PhysicalPages, g \in Places : ram[r][g] = f => r = q /\ g = e
                            /\ f < Bound => /\ q # 0 /\ q = Tables'[TableOf(PageOf(f))]
                                            /\ e = PageOf(f) % N
      BY <1>1, <1>2 DEF EntriesKept, TableOf
    <3>3. LET f == ram[q][e]
          IN  /\ f \in Frames
              /\ \A r \in PhysicalPages, g \in Places : ram[r][g] = f => r = q /\ g = e
              /\ f < Bound => /\ q # 0 /\ q = Tables[TableOf(PageOf(f))]
                              /\ e = PageOf(f) % N
      BY DEF IInv, EntriesKept
    <3> QED
      BY <3>1, <3>2, <3>3
  <2>17. KernelMapped'
    <3>1. First \in Nat /\ First <= RegionStart
      BY FirstFacts DEF IInv
    <3> SUFFICES ASSUME NEW v \in 0 .. First - 1, ~(phase = "identity" /\ v = i - 1)
                 PROVE  LET q == Tables'[TableOf(v)]
                        IN  /\ q # 0 /\ TablesPhysical[TableOf(v)] = q /\ ram[q][v % N] = v
                            /\ phase \in {"region", "on"} => 2 * q < kernelEnd
      BY <1>1, <1>2, <2>5 DEF KernelMapped, TableOf
    <3>2. TableOf(v) \in Indexes
      BY <3>1, PlaceFacts, ConstantFacts DEF Pages
    <3>3. Tables[TableOf(v)] # 0
      BY DEF IInv, KernelMapped
    <3>4. Tables'[TableOf(v)] = Tables[TableOf(v)]
      BY <1>5, <2>7, <3>2, <3>3
    <3> QED
      BY <3>4 DEF IInv, KernelMapped
  <2> QED
    BY <2>3, <2>8, <2>9, <2>12, <2>13, <2>14, <2>15, <2>16, <2>17 DEF IInv
<1> QED
  BY <1>4, <1>5

LEMMA ClearTableIInv ==
    ASSUME IInv, ClearTable
    PROVE  IInv'
<1> DEFINE t == TableOf(top.page)
           q == Maps(wanted)
           blank == [e \in Places |-> NONE]
<1>1. /\ calls # << >> /\ top.pc = "memset" /\ q # NONE /\ Goto("AllocFrame")
      /\ Depth \in Nat \ {0} /\ Depth \in 1 .. Depth
      /\ ram' = [ram EXCEPT ![q] = blank] /\ TablesPhysical' = [TablesPhysical EXCEPT ![t] = wanted]
      /\ UNCHANGED <<Tables, Frames, PlacementAddress, phase, i, FreePage, kernelEnd, access>>
  BY TopFacts DEF ClearTable, boot, Places, IInv
<1>2. /\ phase # "start" /\ t \in Made /\ t \in Indexes /\ wanted = Tables[t] /\ q \in PhysicalPages
      /\ wanted \in PhysicalPages \ {0}
      /\ (phase # "on" => q = wanted /\ Depth = 1)
      /\ (phase = "on" /\ q < First => q = wanted)
  <2>1. top.pc # "GetPage"
    BY <1>1
  <2>2. /\ phase # "start" /\ t \in Made /\ wanted = Tables[t] /\ q \in PhysicalPages
        /\ (phase # "on" => q = wanted) /\ (phase = "on" /\ q < First => q = wanted)
    BY <1>1, <2>1, AccessFacts
  <2>3. Tables[t] \in PhysicalPages \ {0} /\ t \in Indexes
    BY <2>2, TablesBelow DEF Made
  <2>4. phase # "on" => Depth = 1
    BY <1>1 DEF IInv, Booting
  <2> QED
    BY <2>2, <2>3, <2>4
<1>3. IF phase = "identity" THEN TablesPhysical[t] = 0 ELSE 2 * Tables[t] >= kernelEnd
  BY <1>1 DEF IInv, CallsKept, top
<1>4. /\ calls' \in Seq(Activations) /\ Len(calls') = Depth
      /\ \A j \in 1 .. Depth : /\ calls'[j].page = calls[j].page
                               /\ calls'[j].pc = IF j = Depth THEN "AllocFrame" ELSE calls[j].pc
  BY <1>1, GotoStep DEF IInv
<1>5. /\ calls' # << >> /\ Depth' = Depth /\ top'.page = top.page /\ Len(calls) = Depth
  BY <1>1, <1>4 DEF Depth, top
<1>6. First' = First /\ Bound' = Bound /\ (\A f : PageOf(f)' = PageOf(f)) /\ Made' = Made
  BY <1>1, FirstStays DEF Made
<1>7. blank \in [Places -> Entries] /\ \A e \in Places : blank[e] = NONE
  BY DEF Entries
<1>8. phase = "identity" => \A u \in Made : u # t => TablesPhysical[u] = Tables[u]
  BY <1>1 DEF IInv, TablesKept
<1> HIDE DEF t, q, blank
<1>9. /\ ram' \in Rams
      /\ \A r \in PhysicalPages, e \in Places : ram'[r][e] = IF r = q THEN NONE ELSE ram[r][e]
  BY <1>1, <1>2, <1>7 DEF IInv, TypeOK, Rams
<1>10. /\ TablesPhysical' \in [Indexes -> PhysicalPages]
       /\ \A u \in Indexes : TablesPhysical'[u] = IF u = t THEN Tables[t] ELSE TablesPhysical[u]
  BY <1>1, <1>2 DEF IInv, TypeOK
<1>11. TypeOK'
  BY <1>1, <1>4, <1>9, <1>10 DEF IInv, TypeOK
<1>12. PlacementKept'
  BY <1>1, <1>6 DEF IInv, PlacementKept, Placed
<1>13. Booting'
  BY <1>1, <1>2, <1>5 DEF IInv, Booting
<1>14. CallsKept'
  <2> SUFFICES ASSUME NEW j \in 1 .. Depth
               PROVE  LET u == TableOf(calls'[j].page)
                      IN  /\ calls'[j].pc # "GetPage" => Tables[u] # 0
                          /\ calls'[j].pc = "memset" => IF phase = "identity" THEN TablesPhysical'[u] = 0
                                                        ELSE 2 * Tables[u] >= kernelEnd
                          /\ phase = "on" => calls'[j].page # 0
    BY <1>1, <1>5 DEF CallsKept, TableOf
  <2>1. CASE j = Depth
    <3>1. calls[j].pc = "memset" /\ calls'[j].pc = "AllocFrame" /\ calls'[j].page = calls[j].page
      BY <1>1, <1>4, <2>1 DEF top
    <3> QED
      BY <3>1 DEF IInv, CallsKept
  <2>2. CASE j # Depth
    <3>1. phase = "on" /\ calls'[j].page = calls[j].page /\ calls'[j].pc = calls[j].pc
      BY <1>2, <1>4, <2>2
    <3> QED
      BY <3>1 DEF IInv, CallsKept
  <2> QED
    BY <2>1, <2>2
<1>15. TablesKept'
  <2> SUFFICES ASSUME NEW u \in Made
               PROVE  /\ 2 * Tables[u] + 2 <= PlacementAddress
                      /\ \A w \in Indexes : Tables[w] = Tables[u] => w = u
                      /\ TablesPhysical'[u] # Tables[u] => phase # "identity" /\ 2 * Tables[u] >= kernelEnd
    BY <1>1, <1>6 DEF TablesKept
  <2>1. TablesPhysical'[u] = IF u = t THEN Tables[t] ELSE TablesPhysical[u]
    BY <1>10 DEF Made
  <2> QED
    BY <1>8, <2>1 DEF IInv, TablesKept
<1>16. PhysicalKept'
  BY <1>1, <1>10 DEF IInv, PhysicalKept
<1>17. FramesKept'
  BY <1>1, <1>5, <1>6 DEF IInv, FramesKept
<1>18. EntriesKept'
  BY <1>1, <1>6, <1>9 DEF IInv, EntriesKept
<1>19. KernelMapped'
  <2>1. First \in Nat /\ First <= RegionStart /\ (phase \in {"region", "on"} => kernelEnd <= 2 * First)
    BY FirstFacts DEF IInv
  <2> SUFFICES ASSUME NEW v \in 0 .. First - 1, ~(phase = "identity" /\ v = i - 1)
               PROVE  LET r == Tables[TableOf(v)]
                      IN  /\ r # 0 /\ TablesPhysical'[TableOf(v)] = r /\ ram'[r][v % N] = v
                          /\ phase \in {"region", "on"} => 2 * r < kernelEnd
    BY <1>1, <1>5, <1>6 DEF KernelMapped
  <2> DEFINE u == TableOf(v)
             r == Tables[u]
  <2>2. v \in Pages /\ u \in Indexes /\ v % N \in Places
    BY <2>1, PlaceFacts, ConstantFacts DEF Pages
  <2>3. /\ r # 0 /\ TablesPhysical[u] = r /\ ram[r][v % N] = v
        /\ phase \in {"region", "on"} => 2 * r < kernelEnd
    BY DEF IInv, KernelMapped
  <2>4. u \in Made /\ r \in PhysicalPages \ {0}
    BY <2>2, <2>3, TablesBelow DEF Made
  <2>5. Tables[t] = r => u = t
    BY <1>2, <2>4 DEF IInv, TablesKept
  <2> HIDE DEF u
  <2>6. TablesPhysical'[u] = r
    BY <1>10, <2>2, <2>3
  <2>7. q # r
    <3> SUFFICES ASSUME q = r PROVE FALSE
      OBVIOUS
    <3>1. q = wanted
      <4>1. CASE phase # "on"
        BY <1>2, <4>1
      <4>2. CASE phase = "on"
        <5>1. r < First
          BY <2>1, <2>3, <2>4, <4>2 DEF IInv, TypeOK, PhysicalPages
        <5> QED
          BY <1>2, <4>2, <5>1
      <4> QED
        BY <4>1, <4>2
    <3>2. u = t /\ Tables[t] = r
      BY <1>2, <2>5, <3>1
    <3>3. CASE phase = "identity"
      BY <1>3, <2>3, <3>2, <3>3
    <3>4. CASE phase \in {"region", "on"}
      BY <1>3, <2>3, <2>4, <3>2, <3>4 DEF IInv, TypeOK, PhysicalPages
    <3> QED
      BY <1>2, <3>3, <3>4 DEF IInv, TypeOK
  <2>8. ram'[r][v % N] = v
    BY <1>9, <2>2, <2>3, <2>4, <2>7
  <2> QED
    BY <2>3, <2>6, <2>8 DEF u
<1> QED
  BY <1>11, <1>12, <1>13, <1>14, <1>15, <1>16, <1>17, <1>18, <1>19 DEF IInv

-----------------------------------------------------------------------------
(* AllocFrame.                                                             *)

\* While one is left, FirstFrame finds the frame behind those taken.
LEMMA FirstFrameIs ==
    ASSUME FramesLeft, NEW k \in Nat, Frames = 0 .. (k - 1)
    PROVE  FirstFrame = k /\ k \in PhysicalPages
<1> DEFINE M == (NFrames \div WordBits) * WordBits
           free == {f \in 0 .. (M - 1) : f \notin Frames}
<1>1. M \in Nat /\ M <= NFrames
  BY ConstantFacts
<1>2. FirstFrame = IF free = {} THEN NFrames \div WordBits
                   ELSE CHOOSE f \in free : \A g \in free : f <= g
  BY DEF FirstFrame
<1>3. PICK f \in 0 .. (M - 1) : f \notin Frames
  BY DEF FramesLeft
<1> HIDE DEF M
<1>4. k \in free /\ k \in PhysicalPages
  BY <1>1, <1>3, ConstantFacts DEF PhysicalPages
<1>5. \A g \in free : g \in Nat /\ k <= g
  BY <1>1
<1> HIDE DEF free
<1>6. \A g \in free : (\A h \in free : g <= h) => g = k
  BY <1>4, <1>5
<1> QED
  BY <1>2, <1>4, <1>5, <1>6

LEMMA AllocFrameIInv ==
    ASSUME IInv, AllocFrame, FramesLeft
    PROVE  IInv'
<1> DEFINE t == TableOf(top.page)
           q == Maps(wanted)
           e == top.page % N
<1>1. /\ calls # << >> /\ top.pc = "AllocFrame" /\ q # NONE /\ Return
      /\ Depth \in Nat \ {0} /\ Depth \in 1 .. Depth /\ top.page \in Pages /\ e \in Places
      /\ UNCHANGED <<Tables, TablesPhysical, PlacementAddress, phase, i, FreePage, kernelEnd, access>>
  BY TopFacts DEF AllocFrame, boot, IInv
<1>2. /\ phase # "start" /\ t \in Made /\ t \in Indexes /\ wanted = Tables[t] /\ q \in PhysicalPages
      /\ wanted \in Pages \ {0}
      /\ (phase # "on" => q = wanted /\ Depth = 1 /\ top.page = i - 1 /\ i > 0)
      /\ (phase = "on" /\ q < First => q = wanted)
      /\ (phase = "region" => i > RegionStart)
  <2>1. top.pc # "GetPage"
    BY <1>1
  <2>2. /\ phase # "start" /\ t \in Made /\ wanted = Tables[t] /\ q \in PhysicalPages
        /\ wanted \in Pages \ {0}
        /\ (phase # "on" => q = wanted) /\ (phase = "on" /\ q < First => q = wanted)
    BY <1>1, <2>1, AccessFacts
  <2>3. /\ phase # "on" => Depth = 1 /\ top.page = i - 1
        /\ phase = "region" => i > RegionStart
    BY <1>1 DEF IInv, Booting
  <2>4. top.page = i - 1 => i > 0
    BY <1>1, ConstantFacts DEF IInv, TypeOK, Pages
  <2> QED
    BY <2>2, <2>3, <2>4 DEF Made
<1>3. /\ calls' \in Seq(Activations) /\ Len(calls') = Depth - 1
      /\ \A j \in 1 .. Depth - 1 : calls'[j] = calls[j]
  BY <1>1, ReturnStep DEF IInv
<1>4. Depth' = Depth - 1 /\ Len(calls) = Depth /\ (phase # "on" => calls' = << >>)
  BY <1>2, <1>3 DEF Depth
<1>5. First' = First /\ Bound' = Bound /\ (\A f : PageOf(f)' = PageOf(f)) /\ Made' = Made
  BY <1>1, FirstStays DEF Made
<1>6. First \in Nat /\ First <= RegionStart /\ Bound \in Nat /\ First <= Bound
  BY FirstFacts, ConstantFacts DEF IInv, Bound
<1>7. phase = "identity" => \A u \in Made : TablesPhysical[u] = Tables[u]
  BY <1>1 DEF IInv, TablesKept
\* The first frame that is not taken; of the loops, the one of the running page.
<1>8. \E k \in PhysicalPages :
         /\ k \in Nat /\ Frames = 0 .. (k - 1) /\ FirstFrame = k
         /\ IF phase = "on" THEN k >= Bound ELSE k < Bound /\ PageOf(k) = top.page
         /\ phase = "identity" => k = i - 1
         /\ phase = "region" => k = First + (i - RegionStart) - 1
  <2>1. CASE phase = "identity"
    <3>1. Frames = 0 .. ((i - 1) - 1) /\ i - 1 \in Nat /\ First = i
      BY <1>2, <2>1 DEF IInv, TypeOK, FramesKept, First
    <3>2. FirstFrame = i - 1 /\ i - 1 \in PhysicalPages
      BY <3>1, FirstFrameIs
    <3>3. i - 1 < First /\ i - 1 < Bound
      BY <1>6, <3>1
    <3> QED
      BY <1>2, <2>1, <3>1, <3>2, <3>3 DEF PageOf
  <2>2. CASE phase = "region"
    <3> DEFINE k == First + ((i - 1) - RegionStart)
    <3>1. i \in RegionStart + 1 .. RegionEnd
      BY <1>2, <2>2, ConstantFacts DEF IInv, Booting
    <3>2. k \in Nat /\ k >= First /\ k < Bound /\ RegionStart + (k - First) = i - 1
      BY <1>6, <3>1, ConstantFacts DEF Bound
    <3>3. Frames = 0 .. (k - 1)
      <4>1. Frames = 0 .. (First + (i - RegionStart) - Depth - 1) /\ Depth = 1
        BY <1>2, <2>2 DEF IInv, FramesKept
      <4>2. First + (i - RegionStart) - 1 - 1 = k - 1
        BY <1>6, <3>1, ConstantFacts
      <4> QED
        BY <4>1, <4>2
    <3> HIDE DEF k
    <3>4. FirstFrame = k /\ k \in PhysicalPages
      BY <3>2, <3>3, FirstFrameIs
    <3>5. PageOf(k) = i - 1
      BY <1>6, <3>2 DEF PageOf
    <3>6. k = First + (i - RegionStart) - 1
      BY <1>6, <3>1, ConstantFacts DEF k
    <3> QED
      BY <1>2, <2>2, <3>2, <3>3, <3>4, <3>5, <3>6
  <2>3. CASE phase = "on"
    <3>1. PICK k \in 0 .. NFrames : k >= Bound /\ Frames = 0 .. (k - 1)
      BY <2>3 DEF IInv, FramesKept
    <3>2. FirstFrame = k /\ k \in PhysicalPages /\ k \in Nat
      BY <3>1, FirstFrameIs, ConstantFacts
    <3> QED
      BY <2>3, <3>1, <3>2
  <2> QED
    BY <1>2, <2>1, <2>2, <2>3 DEF IInv, TypeOK
<1>9. PICK k \in PhysicalPages :
         /\ k \in Nat /\ Frames = 0 .. (k - 1) /\ FirstFrame = k
         /\ IF phase = "on" THEN k >= Bound ELSE k < Bound /\ PageOf(k) = top.page
         /\ phase = "identity" => k = i - 1
         /\ phase = "region" => k = First + (i - RegionStart) - 1
  BY <1>8
\* Before paging is on, the entry is empty.
<1>10. phase # "on" => ram[q][e] = NONE
  <2> SUFFICES ASSUME phase # "on", ram[q][e] # NONE PROVE FALSE
    OBVIOUS
  <2> DEFINE f == ram[q][e]
  <2>1. f \in Nat /\ f \in Frames /\ q = Tables[t]
    BY <1>1, <1>2, <1>9 DEF IInv, EntriesKept
  <2>2. f < k /\ f < Bound
    BY <1>6, <1>9, <2>1
  <2>3. top.page = PageOf(f)
    BY <1>1, <1>2, <2>1, <2>2, EntryIsPageOf
  <2>4. PageOf(k) = PageOf(f)
    BY <1>9, <2>3
  <2> HIDE DEF f
  <2> QED
    BY <1>6, <1>9, <2>1, <2>2, <2>4, ConstantFacts DEF PageOf
<1>11. phase = "on" => top.page # 0
  BY <1>1 DEF IInv, CallsKept, top
<1>12. /\ \/ /\ Frames' = Frames \cup {k} /\ ram[q][e] \in {NONE, 0}
             /\ ram' = [ram EXCEPT ![q][e] = k]
          \/ /\ Frames' = Frames /\ ram' = ram /\ ram[q][e] \notin {NONE, 0}
  BY <1>9 DEF AllocFrame
<1> HIDE DEF q, e
<1>13. PlacementKept' /\ PhysicalKept'
  BY <1>1, <1>5 DEF IInv, PlacementKept, Placed, PhysicalKept
<1>14. Booting'
  BY <1>1, <1>2, <1>4 DEF IInv, Booting
<1>15. CallsKept'
  <2>1. \A j \in 1 .. Depth' : j \in 1 .. Depth /\ calls'[j] = calls[j]
    BY <1>1, <1>3, <1>4
  <2> QED
    BY <1>1, <2>1 DEF IInv, CallsKept
<1>16. TablesKept'
  BY <1>1, <1>5, <1>7 DEF IInv, TablesKept
<1>17. CASE /\ Frames' = Frames \cup {k} /\ ram[q][e] \in {NONE, 0}
            /\ ram' = [ram EXCEPT ![q][e] = k]
  <2>1. Frames' = 0 .. k
    BY <1>9, <1>17
  <2>2. /\ ram' \in Rams
        /\ \A r \in PhysicalPages, g \in Places :
              ram'[r][g] = IF r = q /\ g = e THEN k ELSE ram[r][g]
    <3>1. ram \in Rams /\ k \in Entries
      BY DEF IInv, TypeOK, Entries
    <3>2. [ram[q] EXCEPT ![e] = k] \in [Places -> Entries]
      BY <1>2, <3>1 DEF Rams
    <3>3. ram' = [ram EXCEPT ![q] = [ram[q] EXCEPT ![e] = k]]
      BY <1>17
    <3> QED
      BY <1>1, <1>2, <3>1, <3>2, <3>3 DEF Rams
  <2>3. TypeOK'
    <3>1. Frames' \in SUBSET PhysicalPages
      BY <1>17 DEF IInv, TypeOK
    <3> QED
      BY <1>1, <1>3, <2>2, <3>1 DEF IInv, TypeOK
  <2>4. FramesKept'
    <3>1. CASE phase = "identity"
      <4>1. k = i - 1 /\ Depth' = 0
        BY <1>2, <1>4, <1>9, <3>1
      <4> QED
        BY <1>1, <2>1, <3>1, <4>1 DEF FramesKept, IInv, TypeOK
    <3>2. CASE phase = "region"
      <4>1. k = First + (i - RegionStart) - 1 /\ Depth' = 0
        BY <1>2, <1>4, <1>9, <3>2
      <4>2. First + (i - RegionStart) - 0 - 1 = First + (i - RegionStart) - 1
        BY <1>6, ConstantFacts DEF IInv, TypeOK
      <4> QED
        BY <1>1, <1>5, <2>1, <3>2, <4>1, <4>2 DEF FramesKept
    <3>3. CASE phase = "on"
      <4>1. k + 1 \in 0 .. NFrames /\ k + 1 >= Bound /\ (k + 1) - 1 = k
        BY <1>6, <1>9, <3>3, ConstantFacts DEF PhysicalPages
      <4> QED
        BY <1>1, <1>5, <2>1, <3>3, <4>1 DEF FramesKept
    <3> QED
      BY <1>2, <3>1, <3>2, <3>3 DEF IInv, TypeOK
  <2>5. EntriesKept'
    <3>1. k \notin Frames
      BY <1>9
    <3>2. k < Bound => q # 0 /\ q = Tables[TableOf(PageOf(k))] /\ e = PageOf(k) % N
      <4>1. CASE phase = "on"
        BY <1>6, <1>9, <4>1
      <4>2. CASE phase # "on"
        BY <1>2, <1>9, <4>2 DEF e
      <4> QED
        BY <4>1, <4>2
    <3>3. \A r \in PhysicalPages, g \in Places : ram[r][g] # NONE => ram[r][g] # k
      BY <3>1 DEF IInv, EntriesKept
    <3>4. k # NONE
      BY <1>9 DEF NONE
    <3> SUFFICES ASSUME NEW r \in PhysicalPages, NEW g \in Places, ram'[r][g] # NONE
                 PROVE  LET f == ram'[r][g]
                        IN  /\ f \in Frames'
                            /\ \A s \in PhysicalPages, h \in Places : ram'[s][h] = f => s = r /\ h = g
                            /\ f < Bound => /\ r # 0 /\ r = Tables[TableOf(PageOf(f))]
                                            /\ g = PageOf(f) % N
      BY <1>1, <1>5 DEF EntriesKept
    <3>5. CASE r = q /\ g = e
      <4>1. ram'[r][g] = k
        BY <2>2, <3>5
      <4> QED
        BY <1>17, <2>2, <3>2, <3>3, <3>4, <3>5, <4>1
    <3>6. CASE ~(r = q /\ g = e)
      <4>1. ram'[r][g] = ram[r][g] /\ ram[r][g] # NONE
        BY <2>2, <3>6
      <4> QED
        BY <1>17, <2>2, <3>3, <3>6, <4>1 DEF IInv, EntriesKept
    <3> QED
      BY <3>5, <3>6
  <2>6. KernelMapped'
    <3> SUFFICES ASSUME NEW v \in 0 .. First - 1
                 PROVE  LET r == Tables[TableOf(v)]
                        IN  /\ r # 0 /\ TablesPhysical[TableOf(v)] = r /\ ram'[r][v % N] = v
                            /\ phase \in {"region", "on"} => 2 * r < kernelEnd
      BY <1>1, <1>5 DEF KernelMapped
    <3>1. v \in Pages /\ v \in Nat /\ TableOf(v) \in Indexes /\ v % N \in Places
      BY <1>6, PlaceFacts, ConstantFacts DEF Pages
    <3>2. CASE phase = "identity" /\ v = i - 1
      <4>1. v = top.page /\ TableOf(v) = t /\ v % N = e
        BY <1>2, <3>2 DEF e
      <4>2. Tables[t] # 0 /\ TablesPhysical[t] = Tables[t] /\ q = Tables[t]
        BY <1>2, <1>7, <3>2 DEF Made
      <4>3. k = v
        BY <1>9, <3>2
      <4>4. ram'[q][e] = k
        BY <1>1, <1>2, <2>2
      <4> QED
        BY <3>2, <4>1, <4>2, <4>3, <4>4
    <3>3. CASE ~(phase = "identity" /\ v = i - 1)
      <4> DEFINE u == TableOf(v)
                 r == Tables[u]
      <4>1. /\ r # 0 /\ TablesPhysical[u] = r /\ ram[r][v % N] = v
            /\ phase \in {"region", "on"} => 2 * r < kernelEnd
        BY <3>3 DEF IInv, KernelMapped
      <4>2. u \in Made /\ r \in PhysicalPages
        BY <3>1, <4>1, TablesBelow DEF Made
      <4>3. ~(r = q /\ v % N = e)
        <5> SUFFICES ASSUME r = q, v % N = e PROVE FALSE
          OBVIOUS
        <5>1. v = ram[q][e] /\ v # NONE
          BY <3>1, <4>1 DEF NONE
        <5>2. v = 0 /\ phase = "on"
          BY <1>10, <1>17, <5>1
        <5>3. r < First
          BY <1>6, <4>1, <4>2, <5>2, FirstFacts DEF IInv, TypeOK, PhysicalPages
        <5>4. q = wanted /\ Tables[t] = r
          BY <1>2, <5>2, <5>3
        <5>5. u = t
          BY <1>2, <4>2, <5>4 DEF IInv, TablesKept
        <5>6. v = top.page
          BY <1>1, <3>1, <5>5, SamePlace DEF e
        <5> QED
          BY <1>11, <5>2, <5>6
      <4>4. ram'[r][v % N] = v
        BY <2>2, <3>1, <4>1, <4>2, <4>3
      <4> QED
        BY <4>1, <4>4
    <3> QED
      BY <3>2, <3>3
  <2> QED
    BY <1>13, <1>14, <1>15, <1>16, <2>3, <2>4, <2>5, <2>6 DEF IInv
<1>18. CASE Frames' = Frames /\ ram' = ram /\ ram[q][e] \notin {NONE, 0}
  <2>1. phase = "on"
    BY <1>10, <1>18
  <2>2. TypeOK' /\ FramesKept' /\ EntriesKept' /\ KernelMapped'
    BY <1>1, <1>3, <1>5, <1>18, <2>1 DEF IInv, TypeOK, FramesKept, EntriesKept, KernelMapped
  <2> QED
    BY <1>13, <1>14, <1>15, <1>16, <2>2 DEF IInv
<1> QED
  BY <1>12, <1>17, <1>18

-----------------------------------------------------------------------------
(* The theorems.                                                           *)

LEMMA FramesGrow ==
    ASSUME [Next]_vars
    PROVE  Frames \subseteq Frames'
<1>1. CASE Step
  BY <1>1 DEF Step, GetPage, ClearTable, AllocFrame, PageFault, Accessed, directory
<1>2. CASE Boot
  BY <1>2 DEF Boot, StartPaging, IdentityLoop, RegionLoop, directory
<1>3. CASE (\E n \in 1 .. MaxHeap : GetFreePages(n)) \/ \E v \in InUse : Touch(v) \/ MapPage(v)
  BY <1>3 DEF GetFreePages, Touch, MapPage, directory
<1>4. CASE UNCHANGED vars
  BY <1>4 DEF vars
<1> QED
  BY <1>1, <1>2, <1>3, <1>4 DEF Next

LEMMA StepIInv ==
    ASSUME IInv, [Next]_vars, FramesLeft
    PROVE  IInv'
<1>1. CASE Step
  <2>1. CASE GetPage
    BY <2>1, GetPageIInv
  <2>2. CASE ClearTable
    BY <2>2, ClearTableIInv
  <2>3. CASE AllocFrame
    BY <2>3, AllocFrameIInv
  <2>4. CASE PageFault
    BY <2>4, PageFaultIInv
  <2>5. CASE Accessed
    BY <2>5, KernelIInv
  <2> QED
    BY <1>1, <2>1, <2>2, <2>3, <2>4, <2>5 DEF Step
<1>2. CASE Boot
  BY <1>2, StartPagingIInv, IdentityLoopIInv, RegionLoopIInv DEF Boot
<1>3. CASE (\E n \in 1 .. MaxHeap : GetFreePages(n)) \/ \E v \in InUse : Touch(v) \/ MapPage(v)
  BY <1>3, KernelIInv
<1>4. CASE UNCHANGED vars
  <2>1. /\ phase' = phase /\ i' = i /\ PlacementAddress' = PlacementAddress /\ kernelEnd' = kernelEnd
        /\ Tables' = Tables /\ TablesPhysical' = TablesPhysical /\ ram' = ram /\ Frames' = Frames
        /\ FreePage' = FreePage /\ calls' = calls /\ access' = access
    BY <1>4 DEF vars
  <2>2. First' = First /\ Made' = Made /\ Depth' = Depth /\ top' = top
    BY <2>1 DEF First, Made, Depth, top
  <2>3. Bound' = Bound /\ \A f : PageOf(f)' = PageOf(f)
    BY <2>2 DEF Bound, PageOf
  <2>4. TypeOK' /\ PlacementKept'
    BY <2>1, <2>2 DEF IInv, TypeOK, PlacementKept, Placed
  <2>5. Booting' /\ CallsKept' /\ PhysicalKept'
    BY <2>1, <2>2 DEF IInv, Booting, CallsKept, PhysicalKept
  <2>6. TablesKept'
    BY <2>1, <2>2 DEF IInv, TablesKept
  <2>7. FramesKept' /\ KernelMapped'
    BY <2>1, <2>2, <2>3 DEF IInv, FramesKept, KernelMapped
  <2>8. EntriesKept'
    BY <2>1, <2>2, <2>3 DEF IInv, EntriesKept, PageOf
  <2> QED
    BY <2>4, <2>5, <2>6, <2>7, <2>8 DEF IInv
<1> QED
  BY <1>1, <1>2, <1>3, <1>4 DEF Next

\* What the two loops of InitialisePaging lay out, entry by entry, is kept by all
\* that comes after them: GetPage, AllocFrame, and page faults in the middle of
\* either, as long as FirstFrame has a frame to give.
THEOREM Inductive == Spec => [](FramesLeft => IInv)
<1> DEFINE Kept == FramesLeft => IInv
<1>1. Init => Kept
  BY InitIInv
<1>2. Kept /\ [Next]_vars => Kept'
  <2> SUFFICES ASSUME Kept, [Next]_vars, FramesLeft' PROVE IInv'
    OBVIOUS
  <2>1. FramesLeft
    BY FramesGrow DEF FramesLeft
  <2> QED
    BY <2>1, StepIInv
<1> HIDE DEF Kept
<1>3. Init /\ [][Next]_vars => []Kept
  BY <1>1, <1>2, PTL
<1> QED
  BY <1>3, PTL DEF Spec, Kept

LEMMA KernelStays ==
    ASSUME IInv
    PROVE  KernelIntact
<1>1. ASSUME phase = "on", NEW v \in Pages, 2 * v < kernelEnd
      PROVE  Maps(v) = v
  <2>1. v \in 0 .. First - 1
    <3>1. kernelEnd <= 2 * First /\ First \in Nat /\ kernelEnd \in Nat /\ v \in Nat
      BY <1>1, FirstFacts, PlaceFacts DEF IInv, TypeOK
    <3> QED
      BY <1>1, <3>1
  <2>2. LET p == Tables[TableOf(v)]
        IN  p # 0 /\ TablesPhysical[TableOf(v)] = p /\ ram[p][v % N] = v
    BY <1>1, <2>1 DEF IInv, KernelMapped
  <2> QED
    BY <1>1, <2>2 DEF Maps
<1>2. ASSUME phase = "on", NEW t \in 0 .. (NTables - 1), Tables[t] # 0, 2 * Tables[t] < kernelEnd
      PROVE  TablesPhysical[t] = Tables[t] /\ Maps(Tables[t]) = Tables[t]
  <2>1. t \in Made
    BY <1>2 DEF Made, Indexes
  <2>2. Tables[t] \in Pages \ {0} /\ Tables[t] \in Nat /\ kernelEnd \in Nat
    BY <2>1, TablesBelow, PlaceFacts DEF IInv, TypeOK
  <2>3. TablesPhysical[t] = Tables[t]
    BY <1>2, <2>1, <2>2 DEF IInv, TablesKept
  <2> QED
    BY <1>1, <1>2, <2>2, <2>3
<1> QED
  BY <1>1, <1>2 DEF KernelIntact, KernelStaysMapped, KernelTablesAgree

LEMMA MapsIsInjective ==
    ASSUME IInv, phase = "on", NEW v \in Pages, NEW w \in Pages, Maps(v) # NONE, Maps(v) = Maps(w)
    PROVE  v = w
<1>1. /\ TableOf(v) \in Made /\ Maps(v) = ram[Tables[TableOf(v)]][v % N]
      /\ TableOf(w) \in Made /\ Maps(w) = ram[Tables[TableOf(w)]][w % N]
  BY MapsFacts
<1>2. /\ Tables[TableOf(v)] \in PhysicalPages /\ Tables[TableOf(w)] \in PhysicalPages
      /\ v % N \in Places /\ w % N \in Places /\ TableOf(w) \in Indexes
  BY <1>1, TablesBelow, PlaceFacts
<1>3. Tables[TableOf(v)] = Tables[TableOf(w)] /\ v % N = w % N
  <2> DEFINE p == Tables[TableOf(v)]
             q == Tables[TableOf(w)]
             e == v % N
             g == w % N
  <2>1. p \in PhysicalPages /\ q \in PhysicalPages /\ e \in Places /\ g \in Places
    BY <1>2
  <2>2. ram[p][e] # NONE /\ ram[q][g] = ram[p][e]
    BY <1>1
  <2> HIDE DEF p, q, e, g
  <2>3. q = p /\ g = e
    BY <2>1, <2>2 DEF IInv, EntriesKept
  <2> QED
    BY <2>3 DEF p, q, e, g
<1>4. TableOf(v) = TableOf(w)
  BY <1>1, <1>2, <1>3 DEF IInv, TablesKept
<1> QED
  BY <1>3, <1>4, SamePlace

LEMMA FramesAreKeptApart ==
    ASSUME IInv, FramesLeft
    PROVE  FramesAreApart
<1>1. ASSUME phase = "on" PROVE FramesAreUnique
  <2> DEFINE mapped == {v \in Pages : Maps(v) # NONE}
             image == {Maps(v) : v \in mapped}
             f == [v \in mapped |-> Maps(v)]
  <2>1. IsFiniteSet(mapped)
    <3>1. IsFiniteSet(Pages)
      BY FS_Interval, ConstantFacts DEF Pages
    <3>2. mapped \in SUBSET Pages
      OBVIOUS
    <3> HIDE DEF mapped
    <3> QED
      BY <3>1, <3>2, FS_Subset
  <2>2. \A v, w \in mapped : Maps(v) = Maps(w) => v = w
    BY <1>1, MapsIsInjective
  <2> HIDE DEF mapped
  <2>3. f \in Bijection(mapped, image)
    <3>1. f \in [mapped -> image]
      OBVIOUS
    <3>2. \A v, w \in mapped : f[v] = f[w] => v = w
      BY <2>2
    <3>3. \A g \in image : \E v \in mapped : f[v] = g
      OBVIOUS
    <3> HIDE DEF f, image
    <3> QED
      BY <3>1, <3>2, <3>3 DEF Bijection, Injection, Surjection, IsInjective
  <2>4. Cardinality(image) = Cardinality(mapped)
    <3> HIDE DEF f, image
    <3>1. ExistsBijection(mapped, image)
      BY <2>3 DEF ExistsBijection
    <3> QED
      BY <2>1, <3>1, FS_Bijection
  <2> QED
    BY <2>4 DEF FramesAreUnique, mapped, NONE
<1>2. ASSUME phase = "on", NEW v \in HeapStart .. (FreePage - 1), NEW t \in Made, Maps(v) # NONE
      PROVE  Maps(v) # TablesPhysical[t] /\ Maps(v) # Maps(Tables[t])
  <2>1. v \in Pages /\ v \in Nat /\ v >= HeapStart
    BY ConstantFacts DEF Pages, IInv, TypeOK
  <2>2. /\ Tables[t] \in Pages \ {0} /\ Tables[t] \in Nat /\ Tables[t] < RegionStart
        /\ t \in Indexes
    BY TablesBelow, PlaceFacts DEF Made
  <2>3. First \in Nat /\ First <= RegionStart /\ kernelEnd <= 2 * First
    BY <1>2, FirstFacts DEF IInv
  <2>4. Tables[t] < First + (HeapStart - RegionStart)
    <3>1. PICK k \in KernelPages, m \in 0 .. NTables :
             /\ k \in Nat \ {0} /\ Placed(k) /\ m = Cardinality(Made) /\ (m = 0 <=> Made = {})
      BY PlacementBounds DEF IInv
    <3>2. PlacementAddress = 2 * (k + 3 + 2 * m) /\ kernelEnd \in 2 * (k + 5) .. PlacementAddress
      BY <1>2, <3>1 DEF Placed
    <3>3. 2 * Tables[t] + 2 <= PlacementAddress
      BY DEF IInv, TablesKept
    <3>4. m <= NTables /\ m \in Nat /\ NTables \in Nat /\ 2 * NTables <= HeapStart - RegionStart
      BY <3>1, ConstantFacts
    <3>5. First >= k + 5
      BY <2>3, <3>1, <3>2, <3>4
    <3>6. Tables[t] <= k + 2 + 2 * NTables
      BY <2>2, <3>1, <3>2, <3>3, <3>4
    <3> QED
      BY <2>2, <2>3, <3>1, <3>4, <3>5, <3>6, ConstantFacts
  <2>5. ASSUME NEW f \in Nat, f < First + (HeapStart - RegionStart)
        PROVE  Maps(v) # f
    <3> SUFFICES ASSUME Maps(v) = f PROVE FALSE
      OBVIOUS
    <3>1. f < Bound
      BY <2>3, <2>5, ConstantFacts DEF Bound
    <3>2. v = PageOf(f)
      BY <1>2, <2>1, <3>1, MapsFacts
    <3>3. PageOf(f) < HeapStart
      BY <2>3, <2>5, ConstantFacts DEF PageOf
    <3> QED
      BY <2>1, <3>2, <3>3, ConstantFacts
  <2>6. Maps(v) # TablesPhysical[t]
    <3>1. TablesPhysical[t] = 0 \/ TablesPhysical[t] = Tables[t]
      BY <2>2 DEF IInv, PhysicalKept
    <3>2. 0 < First + (HeapStart - RegionStart)
      BY <2>2, <2>3, <2>4, ConstantFacts
    <3> QED
      BY <2>2, <2>4, <2>5, <3>1, <3>2
  <2>7. Maps(v) # Maps(Tables[t])
    <3> SUFFICES ASSUME Maps(v) = Maps(Tables[t]) PROVE FALSE
      OBVIOUS
    <3>1. v = Tables[t]
      BY <1>2, <2>1, <2>2, MapsIsInjective
    <3> QED
      BY <2>1, <2>2, <3>1, ConstantFacts
  <2> QED
    BY <2>6, <2>7
<1>3. DOMAIN Tables = Indexes
  BY DEF IInv, TypeOK
<1> QED
  BY <1>1, <1>2, <1>3 DEF FramesAreApart, FramesAreUnique, HeapAvoidsTables, Made

\* InitialisePaging maps the kernel to itself, page directory and tables
\* included, although its first loop makes tables behind its own bound; and no
\* page fault, wherever it comes, takes this away, until the frames run out.
THEOREM KernelStaysIntact == Spec => [](FramesLeft => KernelIntact)
<1>1. (FramesLeft => IInv) => (FramesLeft => KernelIntact)
  BY KernelStays
<1> QED
  BY <1>1, Inductive, PTL

\* AllocFrame gives each page a frame of its own, and no page of the heap one in
\* which a page table lies, although FirstFrame does not know of those tables:
\* the frames they lie in are spent on the pages between 0xBF000000 and the heap.
THEOREM FramesStayApart == Spec => [](FramesLeft => FramesAreApart)
<1>1. (FramesLeft => IInv) => (FramesLeft => FramesAreApart)
  BY FramesAreKeptApart
<1> QED
  BY <1>1, Inductive, PTL

=============================================================================
