--------------------------- MODULE BlockHeapProofs ---------------------------
(***************************************************************************)
(* For every arena and every set of requests, the blocks of BlockHeap tile *)
(* the arena, free neighbours are always merged, allocations never share a *)
(* grain and never move, and the whole implements Allocator.               *)
(***************************************************************************)
EXTENDS BlockHeapRefinement, TLAPS

\* The inductive invariant.  Tiled needs nothing else; Merged is what makes
\* a release that merges with the block above stop at a block in use.
IInv == TypeOK /\ Tiled /\ Merged

\* The heap starts as one free block, which tiles it and has no neighbour.
LEMMA InitIInv == Init => IInv
<1> SUFFICES ASSUME Init PROVE IInv
  OBVIOUS
<1>1. Units \in Nat \ {0}
  BY BlockHeapAssumption
<1>2. \A a \in Grains : len[a] = IF a = 0 THEN Units ELSE 0
  BY DEF Init
<1>3. TypeOK
  BY <1>1 DEF Init, TypeOK, Grains, heads
<1>4. 0 \in Grains
  BY <1>1 DEF Grains
<1>5. \A a : a \in heads <=> a = 0
  BY <1>1, <1>2, <1>4 DEF heads, Grains
<1>6. Tiled
  BY <1>1, <1>2, <1>4, <1>5 DEF Tiled, Grains
<1>7. Units \notin heads
  BY <1>1, <1>5
<1>8. Merged
  BY <1>2, <1>4, <1>5, <1>7, <1>1 DEF Merged, Free
<1> QED
  BY <1>3, <1>6, <1>8 DEF IInv

\* Splitting a free block into the allocation and the rest keeps the tiling.
LEMMA AllocIInv ==
    ASSUME IInv, NEW r \in Requests, Alloc(r)
    PROVE  IInv'
<1>0. Units \in Nat \ {0} /\ r \in Nat \ {0} /\ Overhead \in Nat \ {0}
  BY BlockHeapAssumption
<1>1. PICK b \in Free :
         /\ len[b] >= r + Overhead
         /\ len' = [len EXCEPT ![b] = r, ![b + r] = len[b] - r]
         /\ used' = used \cup {b}
  BY DEF Alloc
<1>2. \A a : a \in heads <=> a \in Grains /\ len[a] > 0
  BY DEF heads
<1>3. \A a \in Grains : /\ a \in Int /\ 0 <= a /\ a < Units
                        /\ len[a] \in Int /\ 0 <= len[a] /\ len[a] <= Units
  BY <1>0 DEF IInv, TypeOK, Grains
<1>4. b \in heads /\ b \notin used /\ b \in Grains /\ b + len[b] <= Units
  BY <1>0, <1>1, <1>2, <1>3 DEF IInv, Tiled, Free
<1>5. b + r \in Grains /\ b + r # b /\ b + r < b + len[b]
  BY <1>0, <1>1, <1>3, <1>4 DEF Grains
<1>6. len[b + r] = 0
  BY <1>0, <1>3, <1>4, <1>5 DEF IInv, Tiled
<1>7. /\ len'[b] = r
      /\ len'[b + r] = len[b] - r
      /\ \A a \in Grains : a # b /\ a # b + r => len'[a] = len[a]
  BY <1>1, <1>4, <1>5 DEF IInv, TypeOK
<1>8. \A a : a \in heads' <=> a \in heads \/ a = b + r
  <2> SUFFICES ASSUME NEW a PROVE a \in heads' <=> a \in heads \/ a = b + r
    OBVIOUS
  <2>1. a \in heads' <=> a \in Grains /\ len'[a] > 0
    BY DEF heads, Grains
  <2>2. CASE a = b \/ a = b + r
    BY <2>1, <2>2, <1>0, <1>1, <1>2, <1>3, <1>4, <1>5, <1>7
  <2>3. CASE a # b /\ a # b + r
    BY <2>1, <2>3, <1>2, <1>7
  <2> QED
    BY <2>2, <2>3
<1>9. \A a : a \in used' <=> a \in used \/ a = b
  BY <1>1
<1>10. TypeOK'
  <2>1. len' \in [Grains -> 0 .. Units]
    BY <1>0, <1>1, <1>3, <1>4, <1>5 DEF IInv, TypeOK
  <2>2. used' \subseteq heads'
    BY <1>4, <1>8, <1>9 DEF IInv, TypeOK
  <2> QED
    BY <2>1, <2>2 DEF TypeOK, Grains
<1>11. Tiled'
  <2>1. 0 \in heads'
    BY <1>8 DEF IInv, Tiled
  <2>2. ASSUME NEW a \in heads' PROVE a + len'[a] = Units \/ a + len'[a] \in heads'
    <3>1. CASE a = b
      BY <3>1, <1>7, <1>8
    <3>2. CASE a = b + r
      <4>1. a + len'[a] = b + len[b]
        BY <3>2, <1>0, <1>3, <1>4, <1>5, <1>7
      <4> QED
        BY <4>1, <1>4, <1>8 DEF IInv, Tiled
    <3>3. CASE a # b /\ a # b + r
      <4>1. a \in heads /\ len'[a] = len[a]
        BY <3>3, <1>2, <1>7, <1>8
      <4> QED
        BY <4>1, <1>8 DEF IInv, Tiled
    <3> QED
      BY <3>1, <3>2, <3>3
  <2>3. ASSUME NEW a \in heads', NEW c \in Grains, a < c, c < a + len'[a]
        PROVE  len'[c] = 0
    <3>1. CASE a = b
      <4>1. c < b + r /\ c # b /\ c # b + r
        BY <3>1, <2>3, <1>0, <1>3, <1>5, <1>7
      <4>2. c < b + len[b]
        BY <4>1, <1>3, <1>5, <1>4
      <4> QED
        BY <3>1, <2>3, <4>1, <4>2, <1>4, <1>7 DEF IInv, Tiled
    <3>2. CASE a = b + r
      <4>1. b < c /\ c < b + len[b] /\ c # b /\ c # b + r
        BY <3>2, <2>3, <1>0, <1>3, <1>4, <1>5, <1>7
      <4> QED
        BY <4>1, <2>3, <1>4, <1>7 DEF IInv, Tiled
    <3>3. CASE a # b /\ a # b + r
      <4>1. a \in heads /\ len'[a] = len[a] /\ len[c] = 0
        BY <3>3, <2>3, <1>2, <1>7, <1>8 DEF IInv, Tiled
      <4>2. c # b
        BY <4>1, <1>2, <1>4
      <4>3. c # b + r
        BY <4>1, <3>3, <2>3, <1>0, <1>1, <1>2, <1>3, <1>4, <1>5 DEF IInv, Tiled
      <4> QED
        BY <4>1, <4>2, <4>3, <1>7
    <3> QED
      BY <3>1, <3>2, <3>3
  <2> QED
    BY <2>1, <2>2, <2>3 DEF Tiled, Grains
<1>12. Merged'
  <2>1. \A a : a \in Free' <=> (a \in Free /\ a # b) \/ a = b + r
    BY <1>2, <1>4, <1>5, <1>6, <1>8, <1>9 DEF Free, IInv, TypeOK
  <2> SUFFICES ASSUME NEW a \in Free' PROVE a + len'[a] \notin Free'
    BY DEF Merged
  <2>2. CASE a = b + r
    <3>1. a + len'[a] = b + len[b]
      BY <2>2, <1>0, <1>3, <1>4, <1>5, <1>7
    <3>2. b + len[b] # b + r
      BY <1>0, <1>3, <1>4, <1>5
    <3> QED
      BY <3>1, <3>2, <2>1, <1>1 DEF IInv, Merged
  <2>3. CASE a # b /\ a # b + r
    <3>1. a \in Free /\ a \in heads /\ len'[a] = len[a]
      BY <2>1, <2>3, <1>2, <1>7 DEF Free
    <3>2. a + len[a] # b + r
      BY <3>1, <1>2, <1>3, <1>5, <1>6, <1>0 DEF IInv, Tiled, Grains
    <3> QED
      BY <3>1, <3>2, <2>1 DEF IInv, Merged
  <2>4. a # b
    BY <2>1, <1>5
  <2> QED
    BY <2>2, <2>3, <2>4
<1> QED
  BY <1>10, <1>11, <1>12 DEF IInv

\* Releasing a block and merging it with its free neighbours keeps the tiling.
LEMMA ReleaseIInv ==
    ASSUME IInv, NEW b \in used, Release(b)
    PROVE  IInv'
<1>0. Units \in Nat \ {0}
  BY BlockHeapAssumption
<1>1. PICK first \in Grains, stop \in 1 .. Units :
         /\ FirstAfterMerge(b, first)
         /\ StopAfterMerge(b, stop)
         /\ len' = [a \in Grains |->
                      IF a = first THEN stop - first
                        ELSE IF a > first /\ a < stop THEN 0 ELSE len[a]]
         /\ used' = used \ {b}
  BY DEF Release, heads
<1> DEFINE next == b + len[b]
<1>2. \A a : a \in heads <=> a \in Grains /\ len[a] > 0
  BY DEF heads
<1>3. \A a \in Grains : /\ a \in Int /\ 0 <= a /\ a < Units
                        /\ len[a] \in Int /\ 0 <= len[a] /\ len[a] <= Units
  BY <1>0 DEF IInv, TypeOK, Grains
<1>4. \A a \in heads : /\ a + len[a] = Units \/ a + len[a] \in heads
                       /\ a < a + len[a] /\ a + len[a] <= Units
                       /\ \A c \in heads : c <= a \/ a + len[a] <= c
  BY <1>0, <1>2, <1>3 DEF IInv, Tiled
<1>5. b \in heads /\ b \notin Free
  BY DEF IInv, TypeOK, Free
<1>6. first \in heads /\ first <= b
  BY <1>1, <1>2, <1>3, <1>4, <1>5 DEF FirstAfterMerge, Free
<1>7. \A c \in heads : c <= first \/ b <= c
  BY <1>1, <1>2, <1>3, <1>4, <1>5, <1>6 DEF FirstAfterMerge, Free
<1>8. next <= stop /\ b < next /\ stop <= Units /\ stop \in Int
  BY <1>0, <1>1, <1>2, <1>3, <1>4, <1>5 DEF StopAfterMerge, Free
<1>9. stop = Units \/ stop \in heads
  BY <1>1, <1>4, <1>5 DEF StopAfterMerge, Free
<1>10. \A c \in heads : c > first /\ c < stop => c = b \/ (c = next /\ c \in Free)
  <2> SUFFICES ASSUME NEW c \in heads, c > first, c < stop, c # b
               PROVE  c = next /\ c \in Free
    OBVIOUS
  <2>1. next <= c
    BY <1>2, <1>3, <1>4, <1>5, <1>6, <1>7
  <2>2. next \in Free /\ stop = next + len[next]
    BY <2>1, <1>1, <1>2, <1>3, <1>4, <1>5, <1>8 DEF StopAfterMerge
  <2>3. c <= next
    BY <2>2, <1>2, <1>3, <1>4 DEF Free
  <2> QED
    BY <2>1, <2>2, <2>3, <1>2, <1>3, <1>4, <1>5
<1>11. /\ len'[first] = stop - first
       /\ \A a \in Grains : a > first /\ a < stop => len'[a] = 0
       /\ \A a \in Grains : a < first \/ a >= stop => len'[a] = len[a]
  BY <1>1, <1>2, <1>3, <1>5, <1>6, <1>8
<1>12. stop - first > 0 /\ stop - first <= Units /\ stop - first \in Int
  BY <1>0, <1>2, <1>3, <1>4, <1>5, <1>6, <1>8
<1>13. \A a : a \in heads' <=> a \in heads /\ (a <= first \/ a >= stop)
  <2> SUFFICES ASSUME NEW a PROVE a \in heads' <=> a \in heads /\ (a <= first \/ a >= stop)
    OBVIOUS
  <2>1. a \in heads' <=> a \in Grains /\ len'[a] > 0
    BY DEF heads, Grains
  <2>2. CASE a = first
    BY <2>1, <2>2, <1>2, <1>3, <1>6, <1>11, <1>12
  <2>3. CASE a \in Grains /\ a # first /\ (a < first \/ a >= stop)
    BY <2>1, <2>3, <1>2, <1>3, <1>11
  <2>4. CASE a \in Grains /\ a > first /\ a < stop
    BY <2>1, <2>4, <1>2, <1>3, <1>6, <1>8, <1>11
  <2>5. CASE a \notin Grains
    BY <2>1, <2>5, <1>2
  <2> QED
    BY <2>2, <2>3, <2>4, <2>5, <1>2, <1>3, <1>6, <1>8
<1>14. TypeOK'
  <2>2. len' \in [Grains -> 0 .. Units]
    BY <1>0, <1>1, <1>3, <1>8, <1>12
  <2>3. used' \subseteq heads'
    <3> SUFFICES ASSUME NEW a \in used, a # b PROVE a \in heads'
      BY <1>1
    <3>1. a \in heads /\ a \notin Free
      BY DEF IInv, TypeOK, Free
    <3> QED
      BY <3>1, <1>2, <1>3, <1>6, <1>8, <1>10, <1>13
  <2> QED
    BY <2>2, <2>3 DEF TypeOK, Grains
<1>15. Tiled'
  <2>1. 0 \in heads'
    BY <1>2, <1>3, <1>6, <1>13 DEF IInv, Tiled
  <2>2. ASSUME NEW a \in heads' PROVE a + len'[a] = Units \/ a + len'[a] \in heads'
    <3>1. CASE a = first
      BY <3>1, <1>2, <1>3, <1>6, <1>8, <1>9, <1>11, <1>13
    <3>2. CASE a < first
      <4>1. a \in heads /\ len'[a] = len[a] /\ a + len[a] <= first
        BY <3>2, <1>2, <1>3, <1>4, <1>6, <1>11, <1>13
      <4> QED
        BY <4>1, <1>4, <1>13
    <3>3. CASE a >= stop
      <4>1. a \in heads /\ len'[a] = len[a] /\ a + len[a] >= stop
        BY <3>3, <1>2, <1>3, <1>4, <1>8, <1>11, <1>13
      <4> QED
        BY <4>1, <1>4, <1>13
    <3> QED
      BY <3>1, <3>2, <3>3, <1>2, <1>3, <1>6, <1>13
  <2>3. ASSUME NEW a \in heads', NEW c \in Grains, a < c, c < a + len'[a]
        PROVE  len'[c] = 0
    <3>1. CASE a = first
      BY <3>1, <2>3, <1>3, <1>6, <1>8, <1>11
    <3>2. CASE a # first
      <4>1. a \in heads /\ len'[a] = len[a] /\ len[c] = 0
        BY <3>2, <2>3, <1>2, <1>3, <1>6, <1>11, <1>13 DEF IInv, Tiled
      <4>2. c # first
        BY <4>1, <1>2, <1>6
      <4> QED
        BY <4>1, <4>2, <1>2, <1>3, <1>6, <1>8, <1>11
    <3> QED
      BY <3>1, <3>2
  <2> QED
    BY <2>1, <2>2, <2>3 DEF Tiled, Grains
<1>16. Merged'
  <2>1. \A a : a \in Free' => (a \in Free /\ a # first) \/ a = first
    BY <1>1, <1>6, <1>10, <1>13, <1>2, <1>3, <1>8 DEF Free
  <2> SUFFICES ASSUME NEW a \in Free' PROVE a + len'[a] \notin Free'
    BY DEF Merged
  <2>2. stop \notin Free
    BY <1>1 DEF StopAfterMerge, IInv, Merged
  <2>3. CASE a = first
    BY <2>1, <2>2, <2>3, <1>2, <1>3, <1>6, <1>8, <1>11, <1>12
  <2>4. CASE a \in Free /\ a # first
    <3>1. a \in heads /\ a \in heads' /\ len'[a] = len[a]
      BY <2>4, <1>2, <1>3, <1>6, <1>11, <1>13 DEF Free
    <3>2. a + len[a] \notin Free
      BY <2>4 DEF IInv, Merged
    <3>3. a + len[a] # first
      BY <2>4, <3>2, <1>1 DEF FirstAfterMerge
    <3> QED
      BY <3>1, <3>2, <3>3, <2>1
  <2> QED
    BY <2>1, <2>3, <2>4
<1> QED
  BY <1>14, <1>15, <1>16 DEF IInv

\* The tiling and the merging of blocks are preserved by every call.
THEOREM BlocksInvariant == Spec => []IInv
<1>1. IInv /\ UNCHANGED vars => IInv'
  BY DEF IInv, TypeOK, Tiled, Merged, Free, heads, vars, Grains
<1>2. IInv /\ [Next]_vars => IInv'
  BY <1>1, AllocIInv, ReleaseIInv DEF Next
<1> QED
  BY InitIInv, <1>2, PTL DEF Spec

\* len and used always describe blocks of the arena, each allocation being one.
THEOREM BlocksTypeOK == Spec => []TypeOK
<1>1. IInv => TypeOK
  BY DEF IInv
<1> QED
  BY <1>1, BlocksInvariant, PTL

\* The blocks tile the arena in every reachable state.
THEOREM BlocksTiled == Spec => []Tiled
<1>1. IInv => Tiled
  BY DEF IInv
<1> QED
  BY <1>1, BlocksInvariant, PTL

\* Free neighbours are always merged.
THEOREM BlocksMerged == Spec => []Merged
<1>1. IInv => Merged
  BY DEF IInv
<1> QED
  BY <1>1, BlocksInvariant, PTL

\* Two live allocations never share a grain.
THEOREM AllocationsDisjoint == Spec => []UsedDisjoint
<1>1. IInv => UsedDisjoint
  <2> SUFFICES ASSUME IInv, NEW a \in used, NEW b \in used, a < b
               PROVE  a + len[a] <= b
    BY DEF UsedDisjoint
  <2>1. Units \in Nat \ {0} /\ Grains = 0 .. (Units - 1)
    BY BlockHeapAssumption DEF Grains
  <2>2. a \in heads /\ b \in Grains /\ len[b] > 0
    BY DEF IInv, TypeOK, heads
  <2>3. a \in Int /\ b \in Int /\ len[a] \in Int
    BY <2>1, <2>2 DEF IInv, TypeOK, heads
  <2>4. ~(b < a + len[a])
    BY <2>2 DEF IInv, Tiled
  <2> QED
    BY <2>3, <2>4
<1> QED
  BY <1>1, BlocksInvariant, PTL

-----------------------------------------------------------------------------
(* Allocations do not move, and the blocks implement the allocator.        *)

\* A split leaves every allocation as it was.
LEMMA AllocStable ==
    ASSUME IInv, NEW r \in Requests, Alloc(r)
    PROVE  \A a \in used : len'[a] = len[a]
<1>0. Units \in Nat \ {0} /\ r \in Nat \ {0} /\ Overhead \in Nat \ {0}
  BY BlockHeapAssumption
<1>1. PICK b \in Free :
         /\ len[b] >= r + Overhead
         /\ len' = [len EXCEPT ![b] = r, ![b + r] = len[b] - r]
  BY DEF Alloc
<1> SUFFICES ASSUME NEW a \in used PROVE len'[a] = len[a]
  OBVIOUS
<1>2. a \in heads /\ b \in heads /\ a # b
  BY DEF IInv, TypeOK, Free
<1>3. a \in Int /\ b \in Int /\ len[a] > 0 /\ len[b] \in Int /\ a \in Grains
  BY <1>0, <1>2 DEF IInv, TypeOK, heads, Grains
<1>4. a # b + r
  BY <1>0, <1>1, <1>2, <1>3 DEF IInv, Tiled
<1> QED
  BY <1>1, <1>2, <1>3, <1>4 DEF IInv, TypeOK

\* A release, whatever it merges, leaves every other allocation as it was.
LEMMA ReleaseStable ==
    ASSUME IInv, NEW b \in used, Release(b)
    PROVE  /\ used' = used \ {b}
           /\ \A a \in used' : len'[a] = len[a]
<1>0. Units \in Nat \ {0}
  BY BlockHeapAssumption
<1>1. PICK first \in Grains, stop \in 1 .. Units :
         /\ FirstAfterMerge(b, first)
         /\ StopAfterMerge(b, stop)
         /\ len' = [a \in Grains |->
                      IF a = first THEN stop - first
                        ELSE IF a > first /\ a < stop THEN 0 ELSE len[a]]
         /\ used' = used \ {b}
  BY DEF Release, heads
<1> SUFFICES ASSUME NEW a \in used, a # b PROVE len'[a] = len[a]
  BY <1>1
<1>2. \A c \in heads : /\ c \in Grains /\ c \in Int /\ len[c] \in Int /\ len[c] > 0
                       /\ \A d \in heads : c < d => c + len[c] <= d
  <2>1. \A c : c \in heads <=> c \in Grains /\ len[c] > 0
    BY DEF heads
  <2>2. \A c \in Grains : c \in Int /\ len[c] \in Int
    BY <1>0 DEF IInv, TypeOK, Grains
  <2> QED
    BY <2>1, <2>2 DEF IInv, Tiled
<1>3. a \in heads /\ b \in heads /\ a \notin Free
  BY DEF IInv, TypeOK, Free
<1>4. a # first /\ (first = b \/ (first \in heads /\ first + len[first] = b))
  BY <1>1, <1>3 DEF FirstAfterMerge, Free
<1>5. stop = b + len[b] \/ (b + len[b] \in Free /\ stop = b + len[b] + len[b + len[b]])
  BY <1>1 DEF StopAfterMerge
<1>6. ~(a > first /\ a < stop)
  <2> SUFFICES ASSUME a > first, a < stop PROVE FALSE
    OBVIOUS
  <2>1. b < a
    BY <1>2, <1>3, <1>4
  <2>2. b + len[b] <= a /\ b + len[b] # a
    BY <2>1, <1>2, <1>3, <1>5
  <2>3. b + len[b] \in heads /\ b + len[b] < a
    BY <2>2, <1>2, <1>3, <1>5 DEF Free
  <2> QED
    BY <2>3, <1>2, <1>3, <1>5
<1> QED
  BY <1>1, <1>2, <1>3, <1>4, <1>6

\* No call moves, shortens or lengthens an allocation that stays in use.
THEOREM AllocationsStable == Spec => UsedStable
<1>1. IInv /\ [Next]_vars => [\A a \in used \cap used' : len'[a] = len[a]]_vars
  BY AllocStable, ReleaseStable DEF Next
<1> QED
  BY <1>1, BlocksInvariant, PTL DEF Spec, UsedStable

\* An allocation is new memory to the abstract allocator.
LEMMA AllocImplements ==
    ASSUME IInv, IInv', NEW r \in Requests, Alloc(r)
    PROVE  Promise!heap_malloc(r)
<1>0. Units \in Nat \ {0} /\ r \in Nat \ {0} /\ Overhead \in Nat \ {0}
  BY BlockHeapAssumption
<1>1. PICK b \in Free :
         /\ len[b] >= r + Overhead
         /\ len' = [len EXCEPT ![b] = r, ![b + r] = len[b] - r]
         /\ used' = used \cup {b}
  BY DEF Alloc
<1> DEFINE x == [at |-> b, length |-> r]
<1>2. b \in Grains /\ b \in Int /\ b + len[b] <= Units /\ len[b] \in Int /\ b + r # b
  <2>1. b \in heads /\ (\A c : c \in heads <=> c \in Grains /\ len[c] > 0)
    BY DEF Free, heads
  <2>2. \A c \in Grains : c \in Int /\ c < Units /\ len[c] \in Int
    BY <1>0 DEF IInv, TypeOK, Grains
  <2>3. b + len[b] = Units \/ b + len[b] \in heads
    BY <2>1 DEF IInv, Tiled
  <2> QED
    BY <1>0, <2>1, <2>2, <2>3
<1>3. len'[b] = r
  BY <1>1, <1>2 DEF IInv, TypeOK
<1>4. x \in Promise!Extents
  BY <1>2 DEF Promise!Extents, Grains
<1>5. \A a \in used : len'[a] = len[a]
  BY AllocStable
<1>6. liveExtents' = liveExtents \cup {x}
  BY <1>1, <1>3, <1>5 DEF liveExtents
<1>7. \A y \in liveExtents : ~Promise!Overlap(x, y)
  <2> SUFFICES ASSUME NEW a \in used
               PROVE  ~Promise!Overlap(x, [at |-> a, length |-> len[a]])
    BY DEF liveExtents
  <2>1. a \in heads /\ b \in heads /\ a # b
    BY DEF IInv, TypeOK, Free
  <2>2. a \in Int /\ len[a] \in Int /\ len[a] > 0 /\ a \in Grains
    BY <1>0, <2>1 DEF heads, Grains, IInv, TypeOK
  <2>3. a < b => a + len[a] <= b
    BY <2>1, <2>2, <1>2 DEF IInv, Tiled, heads
  <2>4. b < a => b + len[b] <= a
    BY <2>1, <2>2, <1>2 DEF IInv, Tiled, heads
  <2> QED
    BY <2>1, <2>2, <2>3, <2>4, <1>0, <1>1, <1>2 DEF Promise!Overlap
<1>8. x.length = r /\ x.at + r <= Units
  BY <1>0, <1>1, <1>2
<1> QED
  BY <1>4, <1>6, <1>7, <1>8 DEF Promise!heap_malloc

\* A release takes back exactly the extent that was handed out.
LEMMA ReleaseImplements ==
    ASSUME IInv, NEW b \in used, Release(b)
    PROVE  \E x \in liveExtents : Promise!heap_free(x)
<1> DEFINE x == [at |-> b, length |-> len[b]]
<1>1. x \in liveExtents
  BY DEF liveExtents
<1>2. used' = used \ {b} /\ \A a \in used' : len'[a] = len[a]
  BY ReleaseStable
<1>3. liveExtents' = {[at |-> a, length |-> len[a]] : a \in used \ {b}}
  BY <1>2 DEF liveExtents
<1>4. \A a \in used \ {b} : [at |-> a, length |-> len[a]] # x
  OBVIOUS
<1>5. liveExtents' = liveExtents \ {x}
  BY <1>3, <1>4 DEF liveExtents
<1> QED
  BY <1>1, <1>5 DEF Promise!heap_free

\* The blocks keep the promise of heap_malloc and heap_free, for every arena
\* and every set of request sizes.
THEOREM BlocksImplementAllocator == Spec => ImplementsAllocator
<1>1. Init => Promise!Init
  BY DEF Init, Promise!Init, liveExtents
<1>2. IInv /\ IInv' /\ [Next]_vars => [Promise!Next]_(Promise!vars)
  <2> SUFFICES ASSUME IInv, IInv', [Next]_vars PROVE [Promise!Next]_(Promise!vars)
    OBVIOUS
  <2>1. CASE UNCHANGED vars
    BY <2>1 DEF vars, Promise!vars, liveExtents
  <2>2. ASSUME NEW r \in Requests, Alloc(r) PROVE Promise!Next
    BY <2>2, AllocImplements DEF Promise!Next
  <2>3. ASSUME NEW b \in used, Release(b) PROVE Promise!Next
    BY <2>3, ReleaseImplements DEF Promise!Next
  <2> QED
    BY <2>1, <2>2, <2>3 DEF Next
<1> QED
  BY <1>1, <1>2, BlocksInvariant, PTL DEF Spec, Promise!Spec, ImplementsAllocator

=============================================================================
